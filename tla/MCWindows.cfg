SPECIFICATION MCSpec
CONSTANTS
    u1 = u1
    u2 = u2
    u3 = u3
    x1 = x1
    h1 = h1
    h2 = h2
    None = None
    Users = {u1, u2, u3}
    Minute = 2
    Day = 4
    PerMinute <- PerMinuteLimits
    PerDay <- PerDayLimits
    MaxUsers = 2
    LastTick = 7
    MaxEvictions = 2
    Clients = {x1, h2}
    Hosts = {h1, h2}
    HomeOf <- Homes
    Limit = 1
    Window = 1
    MaxKeys = 2
    LimiterTicks = 1
    MaxAttempts = 4
    Calls = {u1, u2, u3}
    Period = 2
    Burst = 1
    RetryAttempts = 2
    MaxBackoff = 1
    ClientTicks = 3
    Others <- Families
    MaxChanges = 2
INVARIANTS WindowsTypeOK QuotaIsExact RefusedExactlyOverLimit AdmissionsArePaced DriftIsNoticed
PROPERTIES RetryHintIsHonest WindowEndsAtItsClose
CHECK_DEADLOCK FALSE
