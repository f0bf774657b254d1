SPECIFICATION MCSpec
CONSTANTS
    u1 = u1
    client1 = client1
    client2 = client2
    f1 = f1
    c1 = c1
    c2 = c2
    c3 = c3
    c4 = c4
    e1 = e1
    e2 = e2
    l1 = l1
    s1 = s1
    s2 = s2
    t1 = t1
    t2 = t2
    None = None
    Emails = {e1, e2}
    Members = {e1, e2}
    Operators = {e1}
    Links = {l1}
    MailOf <- Mail
    Logins = {s1, s2}
    Tabs = {t1, t2}
    MaxBirths = 2
    Users = {u1}
    Clients = {client1, client2}
    Flows = {f1}
    ClientOf <- AllOfTheFirst
    Calls = {c1, c2, c3, c4}
    FlowTTL = 1
    CodeTTL = 1
    AccessTTL = 1
    RefreshTTL = 3
    UnusedTTL = 2
    LastTick = 3
INVARIANTS SignInTypeOK CodeMintsOnce RotationRetiresWhatItSaw TokenRowsAreTheUsers
PROPERTIES DeadFamilyStaysDead FormsActForTheirPage
CHECK_DEADLOCK FALSE
