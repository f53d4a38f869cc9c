SPECIFICATION Spec
CONSTANTS
    good = good  bad = bad  e1 = e1  e2 = e2
    Endpoints <- MCEndpoints
    Unusable <- MCUnusable
    Events <- MCEvents
    Subscribed <- MCSubscribed
    PoolSizes = {1, 2}
    MaxRetries = 2
    BatchLimit = 2
    MaxFaults = 1
CHECK_DEADLOCK FALSE
INVARIANTS TypeOK PendingBelowLimit DuplicatesExplained OneRowPerEndpoint
PROPERTIES KeepsContract SettlesWithSpareConnection AnswersWithSpareConnection
