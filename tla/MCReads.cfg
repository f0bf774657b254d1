SPECIFICATION MCSpec
CONSTANTS
    w1 = w1
    w2 = w2
    p1 = p1
    p2 = p2
    u1 = u1
    u2 = u2
    b1 = b1
    b2 = b2
    f1 = f1
    f2 = f2
    f3 = f3
    g1 = g1
    g2 = g2
    g3 = g3
    h1 = h1
    h2 = h2
    None = None
    Workers = {p1, p2}
    Calls = {b1, b2, f1, f2, f3, g1, g2, g3, h1, h2}
    WorkerOf <- Places
    OpOf <- Work
    DayLength = 3
    OpenTime = 1
    CloseTime = 2
    Holidays <- NoHolidays
    Horizon = 3
    MemoSize = 1
    MaxFetches = 4
    Recorders = {w1, w2}
    Users = {u1, u2}
    FlushEvery = 1
    RetentionDays = 0
    EndTick = 1
    EndDay = 1
    MaxCount = 2
INVARIANTS ReadTypeOK AnswerIsOfItsPage FetchedIsArchived EveryCountIsSomewhere
CHECK_DEADLOCK FALSE
SYMMETRY Symmetry
