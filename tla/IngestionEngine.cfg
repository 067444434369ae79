SPECIFICATION EngineSpec
CONSTANTS
    StartStage = "resolve"
    NextStages <- LooseNextStages
    TerminalOutcomes <- LooseTerminalOutcomes
    Handlers = {"resolve", "stabilize", "transform", "route", "persist", "post_persist",
                "audit"}
    MaxSteps = 12
    Cancellable = TRUE
    ErrorPolicyBound = TRUE
    OutcomePolicyBound = TRUE
    EmitterBound = TRUE
INVARIANTS
    SuccessMeansAllStages
PROPERTIES
    EveryRunEnds
