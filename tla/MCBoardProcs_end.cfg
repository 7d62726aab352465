\* The three processes end.
CHECK_DEADLOCK FALSE
CONSTANTS
    MaxSends = 1
    ModNum = 2
    TickLen = 2
SPECIFICATION Spec
PROPERTIES
    EndReachesOutput
