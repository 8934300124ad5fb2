SPECIFICATION FairSpec
CONSTANTS
    n1 = n1
    n2 = n2
    u1 = u1
    u2 = u2
    api = api
    NoNote = NoNote
    Notes = {n1, n2}
    Users = {u1}
    Owner <- OneOwner
    Devices = {d1, d2}
    Senders = {api}
    RetryFailed <- Retrying
    MaxAttempts <- TwoAttempts
    Limit <- OneByOne
    Backoff <- BackoffTwo
    Poison = {}
    CreateStatuses = {"failed"}
    MaxRows = 2
    MaxFaults = 1
    Horizon = 2
PROPERTIES
    DrainsQueued
    RetriesConclude
