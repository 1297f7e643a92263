SPECIFICATION Spec
CONSTANTS
    Files <- Sheets
    Values <- Words
    Num <- Number
    Levels <- LevelWords
    Garbage <- Shorts
    Crowd = 1
    MaxCpus = 2
INVARIANTS
    TypeOK
    RunsAsConfigured
    BoundEvenly
CHECK_DEADLOCK FALSE
