\* The loop and two threads that close does not wait for record twice each.
SPECIFICATION FairSpec
CONSTANTS
    t1 = t1
    t2 = t2
    t3 = t3
    Threads = {t1, t2, t3}
    Quiet = {t1}
    BadRecords <- OneBad
    MaxRecords = 2
INVARIANTS
    TypeOK
PROPERTIES
    
    CloseReturns
