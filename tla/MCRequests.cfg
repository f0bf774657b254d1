SPECIFICATION MCSpec
CONSTANTS
    t1 = t1
    t2 = t2
    t3 = t3
    r1 = r1
    r2 = r2
    r3 = r3
    u1 = u1
    u2 = u2
    Bad = Bad
    None = None
    Requests = {r1, r2, r3}
    Users = {u1, u2}
    Tokens = {t1, t2, t3}
    OwnerOf <- Owners
    Minute = 1
    Day = 2
    PerMinute <- MinuteQuota
    PerDay <- DayQuota
    MailLimit = 1
    LastTick = 2
    MaxDeaths = 1
    Calls = {r1, r2}
    Inputs <- SampleInputs
    Listing <- SampleListing
    Upper <- SampleUpper
    Today = 4
    HistoryDays = 2
    DisclosureDays = 1
    HighLimit = 2
    MostFiles = 2
    Pages <- SamplePages
SYMMETRY Symmetry
INVARIANTS AllowanceIsTheUsers MailBudget MalformedCostsOneLookup AnswersWhatWasAsked ContentKeepsItsLabel RecognisedIsKept
CHECK_DEADLOCK FALSE
