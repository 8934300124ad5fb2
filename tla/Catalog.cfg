SPECIFICATION Spec
CONSTANTS
    x1 = x1
    x2 = x2
    Absent = Absent
    Keep = Keep
    Items = {x1, x2}
    Columns <- SubjectColumns
    UniqueColumns = {"code"}
    Values <- SubjectValues
    Txns = {t1, t2, t3}
    Initial <- OneSubject
INVARIANTS
    TypeOK
PROPERTY
    ImplementsAuditedTable
SYMMETRY AnyTxn
CHECK_DEADLOCK FALSE
