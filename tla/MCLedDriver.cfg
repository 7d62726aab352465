\* A fault halts the system.
CHECK_DEADLOCK FALSE
CONSTANTS
    a1 = a1
    a2 = a2
    Apps <- MCApps
    Options <- MCOptions
    Times <- MCTimes
    Patterns = 2
    Positions = 4
    NumGap = 2
    NameGap = 1
SPECIFICATION Spec
INVARIANTS
    TypeOK
    FrameIsPlanned
    FrameHasTimer
    OnlyKnownFaults
PROPERTIES
    AnimationEnds
