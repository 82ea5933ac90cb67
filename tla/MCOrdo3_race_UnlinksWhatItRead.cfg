SPECIFICATION Spec
CONSTANTS
    Ctx = {main, idle, a, b}
    Main = main
    Idle = idle
    Sems = {}
    Queues = {q}
    WaitMq = wait_mq
    Data = {d1, d2}
    Killable = {}
    Waiters = {}
    Durations = {}
    MaxTime = 0
    MaxCoins = 2
    MaxLevel = 3
    NULL = NULL
INVARIANTS
    UnlinksWhatItRead
