SPECIFICATION Spec
CONSTANTS
    Conns = {c1, c2}
    RecordIds = {r1}
    Tags = {t1, t2, t3}
    Unsynced = Unsynced
    Missing = Missing
    Operations = {"create", "update"}
    MaxRev = 2
INVARIANTS
    AckedWereApplied
SYMMETRY Symmetry
CHECK_DEADLOCK FALSE
