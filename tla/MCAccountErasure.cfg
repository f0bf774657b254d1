SPECIFICATION Spec
CONSTANTS
    e1 = e1
    l1 = l1
    s1 = s1
    c1 = c1
    c2 = c2
    c3 = c3
    c4 = c4
    None = None
    Emails = {e1}
    Links = {l1}
    Logins = {s1}
    Calls = {c1, c2, c3, c4}
    MaxCeremonies = 2
SYMMETRY CallSymmetry
INVARIANT ErasureForgetsTheAddress
CHECK_DEADLOCK FALSE
