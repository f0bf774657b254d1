SPECIFICATION Spec
CONSTANTS
    w1 = w1
    w2 = w2
    u1 = u1
    u2 = u2
    Workers = {w1}
    Users = {u1}
    FlushEvery = 1
    RetentionDays = 0
    LastTick = 1
    LastDay = 1
    MaxCount = 2
SYMMETRY Symmetric
INVARIANT ShutdownLosesNothing
