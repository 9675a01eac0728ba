\* cancel() called by another thread.
SPECIFICATION Spec
CONSTANTS
    r1 = r1
    r2 = r2
    r3 = r3
    r4 = r4
    w1 = w1
    w2 = w2
    w3 = w3
    w4 = w4
    k1 = k1
    c1 = c1
    c2 = c2
    noKey = noKey
    Runs = {r1, r2}
    Tasks = {w1, w2}
    WorkerCount = 2
    Keys = {k1}
    NoKey = noKey
    lock_key <- OneKey
    TimedRuns = {}
    PoolRuns = {}
    PoolSize = 1
    ThreadRuns = {}
    EarlyIds = {}
    LoopCancels = {}
    ThreadCancels = {r1}
    Waiters = {}
    waits_on <- OwnRun
    TimedWaiters = {}
    RetainLast <- NegativeOne
    HasTTL = FALSE
    PopOnWait = FALSE
    EmitRunEvents = TRUE
    CancelExempt = TRUE
    MayShutdown = FALSE
    WaitOnShutdown = TRUE
    NoRun = NoRun
    NoTask = NoTask
SYMMETRY TaskSymmetry
INVARIANTS
    CancelledNeverRuns
