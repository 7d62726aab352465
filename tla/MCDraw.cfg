CONSTANTS
    Rows = 3
    Cols = 3
    MaxCnt = 2
SPECIFICATION Spec
INVARIANTS
    TypeOK
PROPERTIES
    DrawsPicture
