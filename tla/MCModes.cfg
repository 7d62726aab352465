CONSTANTS
    Day = 3
    Hour = 2
    Minute = 2
    Bases <- MCBases
    Limit = 18
    Answers = 2
    TimeLimit = 2
    HalfRange = 4
    MaxScore = 2
    Singles <- MCSingles
    Chords <- MCChords
SPECIFICATION Spec
INVARIANTS
    TypeOK
    DisplayFollowsMode
PROPERTIES
    ClockKeepsTime
    CounterAdds
    GameIsFair
