\* A fault in an interrupt halts the system.
CHECK_DEADLOCK FALSE
CONSTANTS
    a1 = a1
    a2 = a2
    Apps <- MCApps
    Period = 3
SPECIFICATION Spec
INVARIANTS
    TypeOK
    TimersStop
    CountsUp
    QuitCountsThisPress
    LetGoCancels
    SessionsHold
PROPERTIES
    QuitCloses
