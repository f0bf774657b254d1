SPECIFICATION Spec
CONSTANTS
    t1 = t1
    t2 = t2
    r1 = r1
    r2 = r2
    None = None
    Tokens = {t1, t2}
    Requests = {r1, r2}
    Lifetimes = {1, 4}
    TTL = 2
    MaxEntries = 1
    LastTick = 3
SYMMETRY TokenSymmetry
INVARIANTS TypeOK RevocationLatency NeverOutlivesToken FreshTokenWorks
CHECK_DEADLOCK FALSE
