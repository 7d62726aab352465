CONSTANTS
    MaxText = 3
    MaxCnt = 2
    Buttons <- MCButtons
    OtherKeys <- MCOtherKeys
SPECIFICATION Spec
INVARIANTS
    TypeOK
PROPERTIES
    TypesText
