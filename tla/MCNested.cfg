\* Five runs that may submit and await each other, on three workers.
SPECIFICATION FairSpec
CONSTANTS
    r1 = r1
    r2 = r2
    r3 = r3
    r4 = r4
    r5 = r5
    k1 = k1
    Runs = {r1, r2, r3, r4, r5}
    Keys = {k1}
    NoKey = NoKey
    Unset = Unset
    lock_arg <- LockArg
    Awaited = {r2, r3}
    TimedRuns = {r4}
    RpcRuns = {r5}
    SessionKey = k1
    Workers = 3
    NoRun = NoRun
INVARIANTS
    TypeOK
    DerivedKeysSafe
PROPERTIES
    NestedWaitsEnd
CHECK_DEADLOCK FALSE
