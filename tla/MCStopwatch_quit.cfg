CHECK_DEADLOCK FALSE
CONSTANTS
    a1 = a1
    a2 = a2
    Apps <- MCApps
    Period = 3
SPECIFICATION Spec
INVARIANTS
    QuitAfterThreeSeconds
