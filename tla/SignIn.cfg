SPECIFICATION Spec
CONSTANTS
    Logins = {c1, c2}
    Ttl = 2
    NoKeys = NoKeys
    MaxTime = 4
    LoginNames = {n1}
    AdminName = n2
    Default = "student"
    Txns = {t1, t2}
    Seeds = {s1, s2}
    Nobody = Nobody
    Absent = Absent
INVARIANTS
    SignInTypeOK
    CachedKeysAreRecent
    AdminUnlessRaced
PROPERTY
    RoleSurvivesLogin
SYMMETRY Alike
CHECK_DEADLOCK FALSE
