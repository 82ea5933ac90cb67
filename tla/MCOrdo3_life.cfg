SPECIFICATION FairOrderedSpec
CONSTANTS
    Ctx = {main, idle, a, b}
    Main = main
    Idle = idle
    Sems = {}
    Queues = {}
    WaitMq = wait_mq
    Data = {}
    Killable = {a}
    Waiters = {main, a, b}
    Durations = {1, 2}
    MaxTime = 2
    MaxCoins = 1
    MaxLevel = 2
    NULL = NULL
INVARIANTS
    TypeOK
    ListsOK
    DeadOnce
PROPERTIES
    KilledDies
    SleepersWake
