SPECIFICATION Spec
CONSTANTS
    Paths <- MCPaths
    MaxVersion <- MCMaxVersion
    Candidates <- MCCandidates
    Directories = {"d", "s"}
    Deferred = {"s"}
    Stages = {"s"}
    Collectors = {"d2"}
    Lenient = {"d2"}
    Reappears = {"d1"}
    Rewatched = {"f"}
    Sentinel <- MCSentinel
    StableCycles = 2
    MaxWait = 2
    Window = 1
    None = None
INVARIANTS
    NothingDropped
PROPERTIES
    QuietBeforeUse
    NoFalseRejection
    ItemEnds
CHECK_DEADLOCK FALSE
