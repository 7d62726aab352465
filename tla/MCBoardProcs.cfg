\* The three processes end.
CHECK_DEADLOCK FALSE
CONSTANTS
    MaxSends = 4
    ModNum = 2
    TickLen = 2
SPECIFICATION Spec
INVARIANTS
    TypeOK
    InputNotMissed
    ReadsBounded
    EndsInOrder
    OutputNotMissed
PROPERTIES
    EndTravels
