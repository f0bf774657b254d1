SPECIFICATION Spec
CONSTANTS
    c1 = c1
    c2 = c2
    c3 = c3
    c4 = c4
    w1 = w1
    w2 = w2
    price = price
    page = page
    filing = filing
    None = None
    DayLength <- MCDayLength
    OpenTime <- MCOpenTime
    CloseTime <- MCCloseTime
    Holidays <- MCHolidays
    Horizon = 4
    Workers = {w1}
    Keys = {price}
    Calls <- ThreeCalls
    WorkerOf <- AllOnOne
    KeyOf <- AllOnPrice
    PolicyOf <- Policies1
    Cancellable <- NoCalls
    StorageMayFail = FALSE
INVARIANTS
    SnapshotNeverSettled
