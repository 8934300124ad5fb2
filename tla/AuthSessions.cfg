SPECIFICATION Spec
CONSTANTS
    Users = {u1}
    Txns = {t1, t2, t3}
    NoSession = NoSession
    Lifetime = 2
    Grace = 1
    MaxSessions = 3
    MaxTime = 4
INVARIANTS
    TypeOK
    OneLivePerLogin
    GoodTokensKnown
SYMMETRY AnyTxn
CHECK_DEADLOCK FALSE
