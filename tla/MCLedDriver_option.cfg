\* A fault halts the system.
CHECK_DEADLOCK FALSE
CONSTANTS
    a1 = a1
    a2 = a2
    Apps <- MCApps
    Options <- MCOptions
    Times <- MCTimes
    Patterns = 8
    Positions = 4
    NumGap = 8
    NameGap = 4
SPECIFICATION Spec
INVARIANTS
    OptionInRange
