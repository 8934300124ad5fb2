SPECIFICATION TokensSpec
CONSTANTS
    u1 = u1
    u2 = u2
    d1 = d1
    d2 = d2
    NoRow = NoRow
    Users = {u1, u2}
    Tokens = {d1, d2}
    Initial <- FirstHolds
    Txns = {t1, t2, t3, t4}
SYMMETRY Alike
INVARIANTS
    TokensTypeOK
    OneHolderUnlessRaced
PROPERTY
    LoneRegistrationHolds
CHECK_DEADLOCK FALSE
