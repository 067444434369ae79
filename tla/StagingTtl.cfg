SPECIFICATION Spec
CONSTANTS
    Natives = {"n1"}
    Exports = {"c1"}
    Stages = {1}
    TTL = 0
    MaxFiles = 1
    Kinds = {}
    Keys = {"a"}
    Raws = {"raw"}
    SeriesTTL = 2
    MaxWrites = 1
    Devices = {"zwick"}
PROPERTY FallbackComes
CHECK_DEADLOCK FALSE
