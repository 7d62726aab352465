\* A fault in an interrupt halts the system.
CHECK_DEADLOCK FALSE
CONSTANTS
    MaxGames = 2
    MaxCount = 1
    MaxSeconds = 2
    Below = 1
SPECIFICATION Spec
INVARIANTS
    EndedByThisGame
