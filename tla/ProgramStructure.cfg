SPECIFICATION Spec
CONSTANTS
    p1 = p1
    p2 = p2
    y1 = y1
    y2 = y2
    s1 = s1
    s2 = s2
    g1 = g1
    Absent = Absent
    Keep = Keep
    Programs = {p1, p2}
    Years = {y1, y2}
    Specs = {s1, s2}
    Groups = {g1}
    Txns = {t1, t2, t3}
    InitialParent <- OneProgram
    InitialGroup <- NoGroup
INVARIANTS
    TypeOK
    ReferencesExist
    ConsistentUnlessRaced
SYMMETRY AnyTxn
CHECK_DEADLOCK FALSE
