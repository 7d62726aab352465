\* A fault in an interrupt halts the system.
CHECK_DEADLOCK FALSE
CONSTANTS
    MaxGames = 2
    MaxCount = 2
    MaxSeconds = 2
    Below = 2
SPECIFICATION Spec
INVARIANTS
    TypeOK
    CountdownHolds
    CountIsTheGames
    LostIsKnown
    OverIsOver
    Exclusive
PROPERTIES
    SolvedEnds
    CountdownRunsOut
