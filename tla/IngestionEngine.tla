--------------------------- MODULE IngestionEngine ---------------------------
(* IngestionEngine.process and the PipelineRunner.run it calls: stage handlers
   are invoked one after another, each directive is validated against the
   transition table, and whatever happens (a terminal directive, a
   cancellation, an exception in a stage or in a policy) is normalized into one
   IngestionOutcomeKind. Handlers are free here: they may return any directive
   or raise. *)
EXTENDS Naturals, Sequences, Functions

CONSTANTS
    StartStage,        \* PipelineRunner.start_stage
    NextStages,        \* transition table: stage -> allowed_next_stages
    TerminalOutcomes,  \* transition table: stage -> allowed_terminal_outcomes
    Handlers,          \* stage ids bound in stage_handlers
    MaxSteps,          \* PipelineRunner.max_steps
    Cancellable,       \* a cancellation_signal is bound
    ErrorPolicyBound,    \* an error_handling_policy is bound
    OutcomePolicyBound,  \* a failure_outcome_policy is bound
    EmitterBound       \* a failure_emitter is bound

REQUIRED_STAGE_ORDER ==
    <<"resolve", "stabilize", "transform", "route", "persist", "post_persist">>

RequiredStages == Range(REQUIRED_STAGE_ORDER)

StageIds == RequiredStages \cup UNION Range(NextStages)

Terminals == {"completed", "deferred_stage", "retry", "rejected", "failed"}

OutcomeKinds == {"succeeded", "deferred_stage", "deferred_retry", "rejected",
                 "failed_terminal"}

\* __post_init__ refuses an engine without a handler for a required stage;
\* run() refuses max_steps <= 0.
ASSUME EngineAssumption ==
    /\ RequiredStages \subseteq Handlers
    /\ MaxSteps \in Nat \ {0}
    /\ DOMAIN NextStages = DOMAIN TerminalOutcomes
    /\ \A s \in DOMAIN NextStages : TerminalOutcomes[s] \subseteq Terminals
    /\ {Cancellable, ErrorPolicyBound, OutcomePolicyBound, EmitterBound} \subseteq BOOLEAN

\* What makes success mean something, in the ingestion table and in any other:
\* the run starts at the first required stage, a required stage is entered only
\* from the one in front of it or from a later one, and no handled stage but the
\* last may complete the run.
ASSUME TableAssumption ==
    /\ StartStage = REQUIRED_STAGE_ORDER[1]
    /\ \A s \in DOMAIN NextStages : \A i \in 2..6 :
          REQUIRED_STAGE_ORDER[i] \in NextStages[s] =>
             \E j \in i - 1..6 : s = REQUIRED_STAGE_ORDER[j]
    /\ \A s \in DOMAIN TerminalOutcomes \cap Handlers :
          "completed" \in TerminalOutcomes[s] => s = REQUIRED_STAGE_ORDER[6]

VARIABLES
    status,    \* "idle", "running", "raised" (an exception is on its way),
               \* "retryable" or "not_retryable" (classified), "done"
    stage,     \* current_stage
    log,       \* transition_log: the stages whose directives were accepted
    kind,      \* IngestionOutcome.kind of the last finished run, or "none"
    emission   \* IngestionOutcome.emission_status

engineVars == <<status, stage, log, kind, emission>>

EngineInit == /\ status = "idle"
              /\ stage = StartStage
              /\ log = <<>>
              /\ kind = "none"
              /\ emission = "skipped"

\* DEFAULT_INGESTION_TRANSITION_TABLE
DefaultNextStages ==
    [resolve |-> {"stabilize"}, stabilize |-> {"transform"},
     transform |-> {"route"}, route |-> {"persist"},
     persist |-> {"post_persist"}, post_persist |-> {}]

DefaultTerminalOutcomes ==
    [resolve      |-> {"rejected", "failed"},
     stabilize    |-> {"retry", "rejected", "failed"},
     transform    |-> {"deferred_stage", "retry", "rejected", "failed"},
     route        |-> {"rejected", "failed"},
     persist      |-> {"retry", "rejected", "failed"},
     post_persist |-> {"completed", "failed"}]

-----------------------------------------------------------------------------
\* _map_pipeline_terminal
MapPipelineTerminal(outcome) ==
    CASE outcome = "completed"      -> "succeeded"
      [] outcome = "deferred_stage" -> "deferred_stage"
      [] outcome = "retry"          -> "deferred_retry"
      [] outcome = "rejected"       -> "rejected"
      [] outcome = "failed"         -> "failed_terminal"

\* _safe_classification: the default policy never calls an exception
\* retryable, a bound one may; one that raises itself means not retryable.
Classifications ==
    {"not_retryable"} \cup (IF ErrorPolicyBound THEN {"retryable"} ELSE {})

\* _safe_failure_outcome and _map_failure_terminal: the default outcome follows
\* the classification; a bound policy chooses freely, or raises, which means
\* failed.
FailureKinds(class) ==
    IF OutcomePolicyBound THEN {"deferred_retry", "rejected", "failed_terminal"}
    ELSE IF class = "retryable" THEN {"deferred_retry"}
    ELSE {"failed_terminal"}

\* _emit_failure_if_needed: a bound outcome policy may clear should_emit, a
\* bound emitter may raise.
EmissionStatuses ==
    IF EmitterBound
    THEN {"emitted", "failed"} \cup (IF OutcomePolicyBound THEN {"skipped"} ELSE {})
    ELSE {"skipped"}

\* process(): a new pipeline run for the next event.
Begin == /\ status \in {"idle", "done"}
         /\ status' = "running"
         /\ stage' = StartStage
         /\ log' = <<>>
         /\ kind' = "none"
         /\ emission' = "skipped"

Finish(k) == /\ status' = "done"
             /\ kind' = k
             /\ UNCHANGED <<stage, emission>>

\* Any exception inside the try block of process().
RaiseInRun == /\ status = "running"
              /\ status' = "raised"
              /\ UNCHANGED <<stage, log, kind, emission>>

\* The checks in front of a handler: cycle guard, policy, handler.
HandlerRuns == /\ status = "running"
               /\ Len(log) < MaxSteps
               /\ stage \in DOMAIN NextStages
               /\ stage \in Handlers

GuardRaises == /\ status = "running"
               /\ \/ Len(log) >= MaxSteps
                  \/ stage \notin DOMAIN NextStages
                  \/ stage \notin Handlers
               /\ RaiseInRun

Cancel == /\ Cancellable
          /\ status = "running"
          /\ Finish(MapPipelineTerminal("failed"))
          /\ UNCHANGED log

\* The handler returned continue_to(next).
ContinueTo(next) ==
    /\ HandlerRuns
    /\ \/ /\ next \in NextStages[stage]
          /\ stage' = next
          /\ log' = Append(log, stage)
          /\ UNCHANGED <<status, kind, emission>>
       \/ /\ next \notin NextStages[stage]
          /\ RaiseInRun

\* Mutant: the outcome is not looked up in the table.
TerminalAnywhere(outcome) ==
    /\ HandlerRuns
    /\ log' = Append(log, stage)
    /\ Finish(MapPipelineTerminal(outcome))

\* The handler returned terminal(outcome).
Terminal(outcome) ==
    /\ HandlerRuns
    /\ \/ /\ outcome \in TerminalOutcomes[stage]
          /\ log' = Append(log, stage)
          /\ Finish(MapPipelineTerminal(outcome))
       \/ /\ outcome \notin TerminalOutcomes[stage]
          /\ RaiseInRun

HandlerRaises == HandlerRuns /\ RaiseInRun

\* _normalize_exception, the exception handler of process(): the exception is
\* classified, then turned into an outcome and emitted. Trace and state of the
\* run are lost.
Classify == /\ status = "raised"
            /\ status' \in Classifications
            /\ log' = <<>>
            /\ UNCHANGED <<stage, kind, emission>>

\* Mutant: the engine repeats a retryable run itself, at once.
BuildFailureRepeats ==
    /\ status \in {"retryable", "not_retryable"}
    /\ IF status = "retryable"
       THEN status' = "running" /\ stage' = StartStage /\ UNCHANGED <<kind, emission>>
       ELSE /\ status' = "done" /\ kind' \in FailureKinds(status)
            /\ emission' \in EmissionStatuses /\ UNCHANGED stage
    /\ UNCHANGED log

BuildFailure == /\ status \in {"retryable", "not_retryable"}
                /\ status' = "done"
                /\ kind' \in FailureKinds(status)
                /\ emission' \in EmissionStatuses
                /\ UNCHANGED <<stage, log>>

RunStep == \/ GuardRaises
           \/ Cancel
           \/ \E next \in StageIds : ContinueTo(next)
           \/ \E outcome \in Terminals : Terminal(outcome)
           \/ HandlerRaises
           \/ Classify
           \/ BuildFailure

EngineNext == Begin \/ RunStep

\* process() runs to its end on the caller's thread: every handler returns or
\* raises, so a step of a started run is always taken. Nothing obliges the
\* caller to start another run.
EngineSpec == EngineInit /\ [][EngineNext]_engineVars /\ WF_engineVars(RunStep)

-----------------------------------------------------------------------------
\* Type invariant.
EngineTypeOK == /\ status \in {"idle", "running", "raised", "retryable",
                              "not_retryable", "done"}
                /\ stage \in {StartStage} \cup UNION Range(NextStages)
                /\ log \in Seq(DOMAIN NextStages)
                /\ kind \in OutcomeKinds \cup {"none"}
                /\ emission \in {"skipped", "emitted", "failed"}

\* A run reports success only after every required stage has run, none before
\* the one in front of it; no exception, cancellation, policy or misbehaving
\* handler produces a success. (The ingestion table has no way back: there the
\* log is then exactly the six stages.)
SuccessMeansAllStages ==
    kind = "succeeded" =>
        /\ RequiredStages \subseteq Range(log)
        /\ \A i \in 2..Len(REQUIRED_STAGE_ORDER) : \A k \in DOMAIN log :
              log[k] = REQUIRED_STAGE_ORDER[i] =>
                 \E j \in 1..k - 1 : log[j] = REQUIRED_STAGE_ORDER[i - 1]

\* Every event gets its one outcome: a started run ends, by the cycle guard at
\* the latest, even if the transition table has a cycle.
EveryRunEnds == status = "running" ~> status = "done"
=============================================================================
