SPECIFICATION Spec
CONSTANTS
    u1 = u1
    client1 = client1
    client2 = client2
    f1 = f1
    c1 = c1
    c2 = c2
    c3 = c3
    c4 = c4
    None = None
    Users = {u1}
    Clients = {client1, client2}
    Flows = {f1}
    ClientOf <- AllOfTheFirst
    Calls = {c1, c2, c3, c4}
    FlowTTL = 1
    CodeTTL = 1
    AccessTTL = 1
    RefreshTTL = 3
    UnusedTTL = 2
    LastTick = 3
SYMMETRY CallSymmetry
INVARIANT SignedOutStaysOut
CHECK_DEADLOCK FALSE
