\* r1 has a handler in a thread, a stream and a watcher; r2 a coroutine, a
\* cancellation, a stream through a bounded queue, and is popped early.
SPECIFICATION FairSpec
CONSTANTS
    r1 = r1
    r2 = r2
    t1 = t1
    s1 = s1
    s2 = s2
    w1 = w1
    Runs = {r1, r2}
    Threads = {t1}
    writes_to <- WritesTo
    HandlerThreads = {t1}
    TimedRuns = {r2}
    CancelRuns = {r2}
    ImpatientRuns = {r2}
    Streams = {s1, s2}
    Watchers = {w1}
    follows <- Follows
    since_seq <- Since
    maxsize <- Sizes
    MaxEvents = 2
    HasTTL = FALSE
    MaxNotes = 1
INVARIANTS
    TypeOK
    StreamComplete
    
    HistoryIsTail
    NothingLeft

    
