\* Cancelling threads and cleanup: retain_last_n = 1, with ttl_seconds.
SPECIFICATION Spec
CONSTANTS
    r1 = r1
    r2 = r2
    r3 = r3
    r4 = r4
    w1 = w1
    w2 = w2
    w3 = w3
    w4 = w4
    k1 = k1
    c1 = c1
    c2 = c2
    noKey = noKey
    Runs = {r1, r2, r3}
    Tasks = {w1, w2, w3, w4}
    WorkerCount = 2
    Keys = {k1}
    NoKey = noKey
    lock_key <- PairKeys
    TimedRuns = {r2}
    PoolRuns = {r3}
    PoolSize = 1
    ThreadRuns = {r3}
    EarlyIds = {}
    LoopCancels = {}
    ThreadCancels = {r1}
    Waiters = {}
    waits_on <- OwnRun
    TimedWaiters = {}
    RetainLast = 1
    HasTTL = TRUE
    PopOnWait = FALSE
    EmitRunEvents = TRUE
    CancelExempt = TRUE
    MayShutdown = TRUE
    WaitOnShutdown = FALSE
    NoRun = NoRun
    NoTask = NoTask
SYMMETRY TaskSymmetry
INVARIANTS
    TaskExclusion
    FuturesStored

    
