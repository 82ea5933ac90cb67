SPECIFICATION FairOrderedSpec
CONSTANTS
    MaxId = 7
    Sems = {s}
    Queues = {q}
    Data = {d}
    Durations = {1}
    MaxTime = 1
    MaxCoins = 1
    MaxMessages = 2
    NULL = NULL
INVARIANTS
    TypeOK
    OnePlace
    OwnStack
    NoLostWakeUp
PROPERTIES
    ReadyRuns
    SleepersWake
    ExitedAreFreed
