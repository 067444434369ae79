SPECIFICATION Spec
CONSTANTS
    Conns = {c1, c2}
    RecordIds = {r1}
    Tags = {t1, t2, t3}
    Unsynced = Unsynced
    Missing = Missing
    Operations = {"create", "update", "mark_unsynced"}
    MaxRev = 2
INVARIANTS
    MergeBaseIsCurrent
PROPERTIES
    ImplementsVersionedRecords
SYMMETRY Symmetry
CHECK_DEADLOCK FALSE
