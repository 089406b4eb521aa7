CONSTANTS
    u1 = u1  u2 = u2
    N = 2
    Users = {u1, u2}
    UserOf <- MCUserOf
    Wallet = {1, 2}
    Legacy = {1}
    BatchLimit = 1
    DueAge = 1
    KeepAge = 1
    MaxClock = 2
    MaxErrors = 1
    DeleteRaces = FALSE
    Jobs = {s1, s2, e1, t1}
    Sweeps = {s1, s2}
    TryJobs = {t1}
    QueueOf <- MCQueueOf
    Queues = {"order_handle", "send_email"}
    Workers = {w1, w2}
    BufferSize = 1
    Subscribers = {u1}
    Sweepers = {p1, p2}
    MonthDays <- MCMonthDays
    FirstDay = 124
    LastDay = 126
    Targets = {1, 30}
    Methods = {0, 1}
    MaxOrders = 1
SPECIFICATION MCSpec
INVARIANTS OneSweep NothingDropped CycleClosed
PROPERTIES DeletesClosed QueueMoves ShutdownReturns CycleCleared
CHECK_DEADLOCK FALSE
