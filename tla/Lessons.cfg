SPECIFICATION Spec
CONSTANTS
    Students = {u1}
    Groups = {g1, g2}
    Lecturers = {v1}
    NoGroup = NoGroup
    Absent = Absent
    Txns = {t1, t2, t3}
    Times = {0, 1, 2}
    Interval = 1
    MaxLessons = 2
    MaxSwitches = 1
INVARIANTS
    TypeOK
    WindowUnlessRaced
    CanceledOnceUnlessRaced
PROPERTY
    GroupNotifiedUnlessMoved
SYMMETRY AnyTxn
CHECK_DEADLOCK FALSE
