SPECIFICATION Spec
CONSTANTS
    StartStage = "resolve"
    NextStages <- DefaultNextStages
    TerminalOutcomes <- DefaultTerminalOutcomes
    Handlers = {"resolve", "stabilize", "transform", "route", "persist", "post_persist"}
    MaxSteps = 50
    Cancellable = FALSE
    ErrorPolicyBound = FALSE
    OutcomePolicyBound = FALSE
    EmitterBound = FALSE
    Names = {n1, n2}
    Extras = {n2}
    Root = root
    OverrideFolders = {sub}
    Missing = Missing
    MaxTime = 2
    MaxDrops = 2
    MaxRestarts = 1
    SettleDelay = 1
    Faults = {"resolve", "transform", "move", "save", "bookkeeping",
              "sync", "mark", "refresh", "emit"}
    MoveErrors = {"move_failed", "collision"}
    PlannerAnswers = {"stop", "retry", "invalid"}
    OverrideRejected = TRUE
INVARIANTS
    RecordImpliesFile
    CacheNeverAhead
    SuccessIsDurable
PROPERTIES
    ReplayKeepsRecords
CHECK_DEADLOCK FALSE
