SPECIFICATION MCFairSpec
CONSTANTS
    c1 = c1
    c2 = c2
    c3 = c3
    c4 = c4
    d1 = d1
    d2 = d2
    w1 = w1
    w2 = w2
    price = price
    page = page
    filing = filing
    None = None
    DayLength <- MCDayLength
    OpenTime <- MCOpenTime
    CloseTime <- MCCloseTime
    Holidays <- MCHolidays
    Horizon = 1
    Workers = {w1}
    Keys = {page}
    Calls <- ThreeCalls
    WorkerOf <- AllOnOne
    KeyOf <- AllOnPage
    PolicyOf <- Policies1
    Cancellable <- ThreeCalls
    StorageMayFail = TRUE
PROPERTIES
    EveryCallIsAnswered
    KeepsBudget
