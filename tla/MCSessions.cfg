\* Two threads submit through a session that is closed and collected.
SPECIFICATION Spec
CONSTANTS
    r1 = r1
    r2 = r2
    r3 = r3
    r4 = r4
    s1 = s1
    c1 = c1
    c2 = c2
    SessionIds = {s1}
    Runs = {r1, r2, r3, r4}
    Clients = {c1, c2}
    session_of <- SessionOf
    MaxConcurrent = 1
    RetainLast = 1
    NoRun = NoRun
    TTL = 1
INVARIANTS
    TypeOK
    
    
    
    LateOnce
SYMMETRY Symmetry
CHECK_DEADLOCK FALSE
