\* shutdown(wait=True) with CancelledError not exempt. A waiter of a run whose worker
\* went away waits for ever.
SPECIFICATION FairSpec
CONSTANTS
    r1 = r1
    r2 = r2
    r3 = r3
    r4 = r4
    w1 = w1
    w2 = w2
    w3 = w3
    w4 = w4
    k1 = k1
    c1 = c1
    c2 = c2
    noKey = noKey
    Runs = {r1, r2}
    Tasks = {w1, w2, w3, w4}
    WorkerCount = 2
    Keys = {k1}
    NoKey = noKey
    lock_key <- OneKey
    TimedRuns = {}
    PoolRuns = {r2}
    PoolSize = 1
    ThreadRuns = {}
    EarlyIds = {}
    LoopCancels = {}
    ThreadCancels = {}
    Waiters = {c1}
    waits_on <- OwnRun
    TimedWaiters = {c1}
    RetainLast <- NegativeOne
    HasTTL = FALSE
    PopOnWait = FALSE
    EmitRunEvents = TRUE
    CancelExempt = FALSE
    MayShutdown = TRUE
    WaitOnShutdown = TRUE
    NoRun = NoRun
    NoTask = NoTask
INVARIANTS
    DownIsQuiet
PROPERTIES
    ShutdownEnds
CHECK_DEADLOCK FALSE
