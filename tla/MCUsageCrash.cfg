SPECIFICATION Spec
CONSTANTS
    w1 = w1
    w2 = w2
    u1 = u1
    u2 = u2
    Workers = {w1}
    Users = {u1}
    FlushEvery = 1
    RetentionDays = 0
    LastTick = 4
    LastDay = 0
    MaxCount = 1
SYMMETRY Symmetric
INVARIANT CrashLosesOneInterval
