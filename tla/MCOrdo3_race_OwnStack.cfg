SPECIFICATION Spec
CONSTANTS
    Ctx = {main, idle, a, b}
    Main = main
    Idle = idle
    Sems = {s}
    Queues = {}
    WaitMq = wait_mq
    Data = {}
    Killable = {}
    Waiters = {}
    Durations = {}
    MaxTime = 0
    MaxCoins = 2
    MaxLevel = 3
    NULL = NULL
INVARIANTS
    OwnStack
