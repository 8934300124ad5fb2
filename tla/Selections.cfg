SPECIFICATION Spec
CONSTANTS
    u1 = u1
    u2 = u2
    g1 = g1
    g2 = g2
    NoRow = NoRow
    Users = {u1, u2}
    Groups = {g1, g2}
    Initial <- OneSelected
    Txns = {t1, t2, t3}
INVARIANTS
    TypeOK
    OneSelectionUnlessRaced
    AuditReplays
PROPERTIES
    UndisturbedRequestsHold
CHECK_DEADLOCK FALSE
