\* Two outer runs of one session, one of which awaits a nested run; two workers.
SPECIFICATION FairSpec
CONSTANTS
    r1 = r1
    r2 = r2
    r3 = r3
    r4 = r4
    r5 = r5
    k1 = k1
    Runs = {r1, r2, r3}
    Keys = {k1}
    NoKey = NoKey
    Unset = Unset
    lock_arg <- AllUnset
    Awaited = {r1, r2, r3}
    TimedRuns = {}
    RpcRuns = {}
    SessionKey = k1
    Workers = 2
    NoRun = NoRun
PROPERTIES
    AdmittedWaitsEnd
CHECK_DEADLOCK FALSE
