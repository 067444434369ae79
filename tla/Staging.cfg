SPECIFICATION Spec
CONSTANTS
    Natives = {"n1", "n2"}
    Exports = {"c1", "c2"}
    Stages = {1, 2}
    TTL = 0
    MaxFiles = 4
    Kinds = {"psa", "kinexus", "psa_v2"}
    Keys = {"a", "b"}
    Raws = {"raw", "raw2"}
    SeriesTTL = 0
    MaxWrites = 3
    Devices = {"zwick", "dsv", "zwick_v2"}
INVARIANTS
    SentinelExclusive
    TrackedOnce
    BatchIsWhole
PROPERTIES
    NativesLeave
    FiledTogether
    PairLeaves
CHECK_DEADLOCK FALSE
