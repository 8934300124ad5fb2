SPECIFICATION FairSpec
CONSTANTS
    n1 = n1
    n2 = n2
    u1 = u1
    u2 = u2
    api = api
    NoNote = NoNote
    Notes = {n1, n2}
    Users = {u1, u2}
    Owner <- TwoOwners
    Devices = {d1, d2}
    Senders = {api}
    RetryFailed <- Retrying
    MaxAttempts <- TwoAttempts
    Limit <- Pairs
    Backoff <- BackoffOne
    Poison = {n2}
    CreateStatuses = {"failed"}
    MaxRows = 2
    MaxFaults = 0
    Horizon = 1
PROPERTY
    DrainsQueued
