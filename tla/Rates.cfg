SPECIFICATION Spec
CONSTANTS
    Null = Null
    cust = cust  proj = proj  side = side  dev = dev  ops = ops  job = job  ann = ann  bob = bob
    Works <- MCWorks
    Scopes <- MCScopes
    Windows <- MCWindows
    Open = 2
    Starts = {0, 1}
    ProjectCustomer <- MCProjectCustomer
    ActivityProject <- MCActivityProject
    TaskProject <- MCTaskProject
    MaxRates = 2
    MaxCosts = 1
    MaxEntries = 2
    MaxRows = 3
CHECK_DEADLOCK FALSE
INVARIANTS TypeOK NarrowestRateWins
PROPERTIES HistoryStable RecalculationIsWhole
