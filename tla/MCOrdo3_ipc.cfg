SPECIFICATION OrderedSpec
CONSTANTS
    Ctx = {main, idle, a, b, c}
    Main = main
    Idle = idle
    Sems = {s}
    Queues = {q}
    WaitMq = wait_mq
    Data = {d1}
    Killable = {a, b, c}
    Waiters = {main}
    Durations = {}
    MaxTime = 0
    MaxCoins = 1
    MaxLevel = 2
    NULL = NULL
SYMMETRY MCSymmetry
INVARIANTS
    ListsOK
    OwnStack
    CoinsExact
