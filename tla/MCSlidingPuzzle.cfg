\* The app stops for good when a listener throws.
CHECK_DEADLOCK FALSE
CONSTANTS
    Sizes <- MCSizes
    MinMoves = 50
SPECIFICATION Spec
INVARIANTS
    TypeOK
    Solvable
    ShuffleExact
    WinExact
PROPERTIES
    ShuffleEnds
