SPECIFICATION PSpec
CONSTANTS
    n1 = n1
    n2 = n2
    u1 = u1
    u2 = u2
    d1 = d1
    d2 = d2
    api = api
    cron = cron
    NoNote = NoNote
    Notes = {n1, n2}
    Users = {u1, u2}
    Owner <- TwoOwners
    Devices = {d1, d2}
    Senders = {api, cron}
    RetryFailed <- BothRetry
    MaxAttempts <- SmallBudgets
    Limit <- BatchSizes
    Backoff <- Backoffs
    Poison = {}
    CreateStatuses = {"failed", "other"}
    MaxRows = 2
    MaxFaults = 1
    Horizon = 2
    RoundCap = 5
SYMMETRY Interchangeable
INVARIANTS
    TypeOK
    ExclusiveProcessing
    AttemptsWithinBudget
    BatchMatchesRows
    RoundsAccounted
    SentWasReached
PROPERTIES
    BackoffBetweenRecords
    ImplementsDelivery
