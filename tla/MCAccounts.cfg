SPECIFICATION MCSpec
CONSTANTS
    m1 = m1
    e1 = e1
    e2 = e2
    l1 = l1
    l2 = l2
    s1 = s1
    c1 = c1
    c2 = c2
    c3 = c3
    c4 = c4
    c5 = c5
    None = None
    Machines = {m1}
    Tasks = {c1, c2, c3, c4, c5}
    Emails = {e1, e2}
    Links = {l1, l2}
    Logins = {s1}
    Calls = {c1, c2, c3, c4, c5}
    MaxCeremonies = 2
SYMMETRY Symmetry
INVARIANTS AccountsTypeOK RevokedClientIsPowerless ClearedChallengeIsSpent PasskeysAndSessionsAreOwned LastPasskeyFallsToARace
CHECK_DEADLOCK FALSE
