SPECIFICATION FairSpec
CONSTANTS
    Requests = {r1, r2}
    LoginClients = {l1}
    Sender = Sender
    Cleanup = Cleanup
    Free = Free
    Slots = 1
    Connections = 1
INVARIANTS
    ProcessTypeOK
    NothingLeaks
PROPERTIES
    RequestsConclude
    ShutdownCompletes
