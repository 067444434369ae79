SPECIFICATION Spec
CONSTANTS
    Conns = {c1}
    RecordIds = {r1, r2}
    Tags = {t1, t2, t3, t4}
    Unsynced = Unsynced
    Missing = Missing
    Operations = {"create", "save", "update", "mark_unsynced"}
    MaxRev = 2
INVARIANTS
    AckedWereApplied
PROPERTIES
    MonotonicRevisions
SYMMETRY Symmetry
CHECK_DEADLOCK FALSE
