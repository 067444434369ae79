---------------------------- MODULE IngestionProofs ----------------------------
(* Proofs about IngestionEngine, for every transition table, handler, policy and
   step bound, and about Ingestion, for every set of names, any times and any
   number of files, faults and restarts. *)
EXTENDS Ingestion, TLAPS

(***************************************************************************)
(* The engine.                                                             *)
(***************************************************************************)

\* Stage s has been accepted in the log before position k.
Before(s, l, k) == \E j \in 1..k - 1 : l[j] = s

\* No required stage is in the log before the one in front of it.
InOrder(l) ==
    \A i \in 2..6 : \A k \in DOMAIN l :
        l[k] = REQUIRED_STAGE_ORDER[i] => Before(REQUIRED_STAGE_ORDER[i - 1], l, k)

\* The stage that runs has its predecessor behind it, and success has been
\* reported at the last stage only.
EngineInv ==
    /\ log \in Seq(DOMAIN NextStages)
    /\ status # "done" => kind = "none"
    /\ status = "running" =>
         /\ InOrder(log)
         /\ \A i \in 2..6 : stage = REQUIRED_STAGE_ORDER[i] =>
              Before(REQUIRED_STAGE_ORDER[i - 1], log, Len(log) + 1)
    /\ kind = "succeeded" =>
         InOrder(log) /\ \E k \in DOMAIN log : log[k] = REQUIRED_STAGE_ORDER[6]

\* In a log in order, the stages in front of one that is in it are in it too.
LEMMA Chain ==
    ASSUME NEW l, Len(l) \in Nat, DOMAIN l = 1..Len(l), InOrder(l),
           NEW j \in 1..6, Before(REQUIRED_STAGE_ORDER[j], l, Len(l) + 1),
           NEW i \in 1..j
    PROVE  Before(REQUIRED_STAGE_ORDER[i], l, Len(l) + 1)
<1> DEFINE S == {k \in 1..6 : Before(REQUIRED_STAGE_ORDER[k], l, Len(l) + 1)}
<1>1. ASSUME NEW k \in 2..6, k \in S PROVE k - 1 \in S
  <2>1. PICK p \in 1..(Len(l) + 1) - 1 : l[p] = REQUIRED_STAGE_ORDER[k]
    BY <1>1 DEF Before
  <2>2. Before(REQUIRED_STAGE_ORDER[k - 1], l, p)
    BY <2>1 DEF InOrder
  <2>3. Before(REQUIRED_STAGE_ORDER[k - 1], l, Len(l) + 1)
    BY <2>1, <2>2 DEF Before
  <2> QED BY <2>3
<1> HIDE DEF S
<1>2. /\ 6 \in S => 5 \in S
      /\ 5 \in S => 4 \in S
      /\ 4 \in S => 3 \in S
      /\ 3 \in S => 2 \in S
      /\ 2 \in S => 1 \in S
  <2>1. 6 - 1 = 5 /\ 5 - 1 = 4 /\ 4 - 1 = 3 /\ 3 - 1 = 2 /\ 2 - 1 = 1
    OBVIOUS
  <2> QED BY <1>1, <2>1
<1>3. j \in S
  BY DEF S
<1>4. i \in S
  BY <1>2, <1>3
<1> QED BY <1>4 DEF S

\* A log stays in order when a stage is appended that has its predecessor in it.
LEMMA AppendInOrder ==
    ASSUME NEW l \in Seq(DOMAIN NextStages), NEW s \in DOMAIN NextStages, InOrder(l),
           \A i \in 2..6 : s = REQUIRED_STAGE_ORDER[i] =>
              Before(REQUIRED_STAGE_ORDER[i - 1], l, Len(l) + 1)
    PROVE  /\ Append(l, s) \in Seq(DOMAIN NextStages) /\ InOrder(Append(l, s))
           /\ Len(Append(l, s)) = Len(l) + 1 /\ Append(l, s)[Len(l) + 1] = s
           /\ DOMAIN Append(l, s) = 1..Len(l) + 1
<1> DEFINE m == Append(l, s)
<1>1. /\ m \in Seq(DOMAIN NextStages) /\ Len(m) = Len(l) + 1 /\ m[Len(l) + 1] = s
      /\ \A k \in 1..Len(l) : m[k] = l[k]
      /\ DOMAIN m = 1..Len(l) + 1 /\ DOMAIN l = 1..Len(l) /\ Len(l) \in Nat
  OBVIOUS
<1> HIDE DEF m
<1>2. ASSUME NEW i \in 2..6, NEW k \in DOMAIN m, m[k] = REQUIRED_STAGE_ORDER[i]
      PROVE  Before(REQUIRED_STAGE_ORDER[i - 1], m, k)
  <2>1. Before(REQUIRED_STAGE_ORDER[i - 1], l, k)
    BY <1>1, <1>2 DEF InOrder
  <2> QED BY <1>1, <1>2, <2>1 DEF Before
<1>3. InOrder(m)
  BY <1>2 DEF InOrder
<1> QED BY <1>1, <1>3 DEF m

\* Every step of process() and of the runner keeps the engine's invariant.
LEMMA EngineStep == EngineInv /\ [EngineNext]_engineVars => EngineInv'
<1> SUFFICES ASSUME EngineInv, [EngineNext]_engineVars PROVE EngineInv'
  OBVIOUS
<1>1. CASE Begin
  <2>1. /\ status' = "running" /\ log' = <<>> /\ kind' = "none"
        /\ stage' = REQUIRED_STAGE_ORDER[1]
    BY <1>1, TableAssumption DEF Begin
  <2>2. \A i \in 2..6 : REQUIRED_STAGE_ORDER[1] # REQUIRED_STAGE_ORDER[i]
    BY DEF REQUIRED_STAGE_ORDER
  <2> QED BY <2>1, <2>2 DEF EngineInv, InOrder
<1>2. ASSUME RaiseInRun PROVE EngineInv'
  BY <1>2 DEF RaiseInRun, EngineInv
<1>3. CASE Cancel
  BY <1>3 DEF Cancel, Finish, MapPipelineTerminal, EngineInv
<1>4. ASSUME HandlerRuns
      PROVE  /\ status = "running" /\ stage \in DOMAIN NextStages /\ stage \in Handlers
             /\ Append(log, stage) \in Seq(DOMAIN NextStages) /\ InOrder(Append(log, stage))
             /\ Len(Append(log, stage)) = Len(log) + 1 /\ Append(log, stage)[Len(log) + 1] = stage
             /\ DOMAIN Append(log, stage) = 1..Len(log) + 1 /\ Len(log) \in Nat
  <2>1. /\ log \in Seq(DOMAIN NextStages) /\ stage \in DOMAIN NextStages
        /\ stage \in Handlers /\ InOrder(log) /\ status = "running"
        /\ \A i \in 2..6 : stage = REQUIRED_STAGE_ORDER[i] =>
              Before(REQUIRED_STAGE_ORDER[i - 1], log, Len(log) + 1)
    BY <1>4 DEF HandlerRuns, EngineInv
  <2> QED BY <2>1, AppendInOrder
<1>5. ASSUME NEW next, ContinueTo(next) PROVE EngineInv'
  <2>1. CASE next \notin NextStages[stage]
    BY <1>2, <1>5, <2>1 DEF ContinueTo
  <2>2. CASE next \in NextStages[stage]
    <3>1. /\ stage' = next /\ log' = Append(log, stage)
          /\ UNCHANGED <<status, kind, emission>> /\ HandlerRuns
      BY <1>5, <2>2 DEF ContinueTo
    <3>2. ASSUME NEW i \in 2..6, next = REQUIRED_STAGE_ORDER[i]
          PROVE  Before(REQUIRED_STAGE_ORDER[i - 1], log', Len(log') + 1)
      <4>1. PICK j \in i - 1..6 : stage = REQUIRED_STAGE_ORDER[j]
        BY <1>4, <2>2, <3>1, <3>2, TableAssumption
      <4>2. Before(REQUIRED_STAGE_ORDER[j], log', Len(log') + 1)
        BY <1>4, <3>1, <4>1 DEF Before
      <4>3. j \in 1..6 /\ i - 1 \in 1..j
        BY <4>1
      <4>4. Len(log') \in Nat /\ DOMAIN log' = 1..Len(log') /\ InOrder(log')
        BY <1>4, <3>1
      <4> QED BY <4>2, <4>3, <4>4, Chain
    <3>3. status' = "running" /\ kind' = "none"
      BY <1>4, <3>1 DEF EngineInv
    <3> QED BY <1>4, <3>1, <3>2, <3>3 DEF EngineInv
  <2> QED BY <2>1, <2>2
<1>6. ASSUME NEW outcome \in Terminals, Terminal(outcome) PROVE EngineInv'
  <2>1. CASE outcome \notin TerminalOutcomes[stage]
    BY <1>2, <1>6, <2>1 DEF Terminal
  <2>2. CASE outcome \in TerminalOutcomes[stage]
    <3>1. /\ log' = Append(log, stage) /\ status' = "done" /\ HandlerRuns
          /\ kind' = MapPipelineTerminal(outcome)
      BY <1>6, <2>2 DEF Terminal, Finish
    <3>2. kind' = "succeeded" => outcome = "completed"
      BY <3>1 DEF MapPipelineTerminal, Terminals
    <3>3. outcome = "completed" => stage = REQUIRED_STAGE_ORDER[6]
      BY <1>4, <2>2, <3>1, TableAssumption, EngineAssumption
    <3>4. Len(log) + 1 \in DOMAIN log' /\ log'[Len(log) + 1] = stage
      BY <1>4, <3>1
    <3> QED BY <1>4, <3>1, <3>2, <3>3, <3>4 DEF EngineInv
  <2> QED BY <2>1, <2>2
<1>7. CASE Classify
  BY <1>7 DEF Classify, Classifications, EngineInv
<1>8. CASE BuildFailure
  BY <1>8 DEF BuildFailure, FailureKinds, EngineInv
<1>9. CASE UNCHANGED engineVars
  BY <1>9 DEF engineVars, EngineInv
<1> QED BY <1>1, <1>2, <1>3, <1>5, <1>6, <1>7, <1>8, <1>9
           DEF EngineNext, RunStep, GuardRaises, HandlerRaises

\* No handler, policy, cancellation or exception makes the engine report success
\* unless every required stage has run, each behind its predecessor.
THEOREM EngineSuccess == EngineSpec => []SuccessMeansAllStages
<1>1. EngineInit => EngineInv
  BY DEF EngineInit, EngineInv
<1>2. EngineInv => SuccessMeansAllStages
  <2> SUFFICES ASSUME EngineInv, kind = "succeeded"
               PROVE  /\ RequiredStages \subseteq Range(log)
                      /\ InOrder(log)
    BY DEF SuccessMeansAllStages, InOrder, Before, REQUIRED_STAGE_ORDER
  <2>1. InOrder(log) /\ Len(log) \in Nat /\ DOMAIN log = 1..Len(log)
    BY DEF EngineInv
  <2>2. Before(REQUIRED_STAGE_ORDER[6], log, Len(log) + 1)
    BY <2>1 DEF EngineInv, Before
  <2>3. ASSUME NEW i \in 1..6 PROVE REQUIRED_STAGE_ORDER[i] \in Range(log)
    <3>1. Before(REQUIRED_STAGE_ORDER[i], log, Len(log) + 1)
      BY <2>1, <2>2, Chain
    <3> QED BY <2>1, <3>1 DEF Before, Range
  <2>4. DOMAIN REQUIRED_STAGE_ORDER = 1..6
    BY DEF REQUIRED_STAGE_ORDER
  <2> QED BY <2>1, <2>3, <2>4 DEF RequiredStages, Range
<1> QED BY <1>1, <1>2, EngineStep, PTL DEF EngineSpec

(***************************************************************************)
(* The stages.                                                             *)
(***************************************************************************)

\* The types the argument needs.
BaseType ==
    /\ status \in {"idle", "running", "raised", "retryable", "not_retryable", "done"}
    /\ now \in Times
    /\ src \in [Files -> Times \cup {Missing}] /\ dest \in [Targets -> Times \cup {Missing}]
    /\ records \in [RecordIds -> Row \cup {Missing}]
    /\ revisions \in [RecordIds -> Nat \cup {-1}]
    /\ batch \subseteq RecordIds

\* Steps of the handlers between the resolution of the file and its processor.
Ahead == {"stabilize", "transform"}

\* Steps behind the save of its record.
Behind == {"bookkeeping", "sync", "mark", "emit"}

\* The event in flight or just done.
CandInv ==
    /\ status = "running" \/ kind = "succeeded" => cand \in Candidate
    /\ status = "running" =>
         step \in {"resolve", "route", "move"} \cup Ahead \cup Behind

\* The final file waits in the watch directory as the processor left it.
Waiting == /\ src[cand.final] = cand.content
           /\ cand.final = cand.name => cand.content \in {cand.stamp, Missing}

\* The final file is at the target path, as the processor left it unless it was
\* disturbed, and so are the forced files that are not in the plan any more.
Delivered == /\ dest[cand.target] # Missing
             /\ ~disturbed => /\ dest[cand.target] = cand.content
                              /\ cand.final = cand.name => cand.content = cand.stamp
             /\ \A f \in cand.forced : f \notin cand.plan => dest[Target(f)] # Missing

\* The plan covers the result: a forced file is in it or has the target of the
\* final file, never both.
PlanCovers == /\ \A f \in cand.plan : f # cand.final => Target(f) # cand.target
              /\ cand.final \in cand.plan =>
                   \A f \in cand.forced : f \notin cand.plan => Target(f) = cand.target

\* Everything is moved and the record is stored under the target path.
Recorded == /\ Delivered /\ cand.plan = {}
            /\ records[RecordId] # Missing /\ records[RecordId].target = cand.target

\* How far the event in flight has come: its file is where it was resolved or
\* has been delivered, and its record is stored, cached and booked.
ProgressInv ==
    /\ status = "running" /\ ~disturbed =>
         /\ step \in Ahead => src[cand.name] \in {cand.stamp, Missing}
         /\ step = "route" \/ (step = "move" /\ cand.final \in cand.plan) => Waiting
    /\ status = "running" /\ step = "move" =>
         /\ PlanCovers
         /\ cand.final \notin cand.plan => Delivered
    /\ status = "running" /\ step \in Behind => Recorded /\ revisions[RecordId] # -1
    /\ status = "running" /\ step \in Behind \ {"bookkeeping"} => records[RecordId].booked
    /\ status = "running" => kind = "none"
    /\ kind = "succeeded" =>
         Recorded /\ records[RecordId].booked /\ RecordId \in remote \cup warned

\* The inductive invariant.
IngestInv ==
    BaseType /\ CandInv /\ ProgressInv /\ RecordImpliesFile /\ CacheNeverAhead

\* The start satisfies the invariant.
LEMMA IngestInit == Init => IngestInv
<1> SUFFICES ASSUME Init PROVE IngestInv
  OBVIOUS
<1>1. BaseType
  BY IngestionAssumption DEF Init, EngineInit, BaseType, Times
<1>2. CandInv /\ ProgressInv
  BY DEF Init, EngineInit, CandInv, ProgressInv
<1>3. RecordImpliesFile /\ CacheNeverAhead
  BY DEF Init, RecordImpliesFile, CacheNeverAhead
<1> QED BY <1>1, <1>2, <1>3 DEF IngestInv

\* What a directive does to a run: it goes on or an exception is on its way ...
LEMMA Continues ==
    ASSUME NEW s, NEW next, At(s), ContinueTo(next)
    PROVE  status' \in {"running", "raised"} /\ kind' = kind
BY DEF At, ContinueTo, RaiseInRun

\* ... or it ends, successfully only with the outcome completed.
LEMMA Ends ==
    ASSUME NEW s, NEW outcome \in Terminals, At(s), Terminal(outcome), kind = "none"
    PROVE  status' \in {"done", "raised"}
           /\ (kind' = "succeeded" => outcome = "completed" /\ status' = "done")
BY DEF At, Terminal, RaiseInRun, Finish, MapPipelineTerminal, Terminals

\* A failed move or save never ends a run with success.
LEMMA PersistFailureEnds ==
    ASSUME NEW reason, At("move"), PersistFailure(reason), kind = "none"
    PROVE  status' \in {"done", "raised"} /\ kind' # "succeeded"
<1>1. PICK outcome \in {"retry", "failed", "rejected"} : Terminal(outcome)
  BY DEF PersistFailure
<1> QED BY <1>1, Ends DEF Terminals

\* What a run leaves behind that is not a success has to be sound in the store
\* and in the cache only.
LEMMA Quiet ==
    ASSUME BaseType', RecordImpliesFile', CacheNeverAhead',
           status' # "running", kind' # "succeeded"
    PROVE  IngestInv'
BY DEF IngestInv, CandInv, ProgressInv

\* The candidate of a running event has the id of a record, and its files have
\* targets under the route root.
LEMMA IdOfCandidate ==
    ASSUME cand \in Candidate
    PROVE  /\ RecordId \in RecordIds /\ cand.name \in Files /\ cand.final \in Files
           /\ cand.target \in Targets /\ \A f \in Files : Target(f) \in Targets
<1>1. /\ cand.name \in Files /\ cand.final \in Files /\ cand.target \in Targets
      /\ cand.stamp \in Times
  BY DEF Candidate
<1>2. \A f \in Files : <<cand.target[1], f>> \in Targets
  BY <1>1 DEF Targets
<1> QED BY <1>1, <1>2 DEF RecordId, RecordIds, Target

\* The handlers in front of the move touch neither store nor route root.
LEMMA EarlyStages ==
    ASSUME IngestInv, Resolve \/ Stabilize \/ Transform \/ Route
    PROVE  IngestInv'
<1>0. /\ status = "running" /\ kind = "none" /\ cand \in Candidate /\ BaseType
      /\ RecordImpliesFile /\ CacheNeverAhead
  BY DEF IngestInv, CandInv, ProgressInv, Resolve, Stabilize, Transform, Route, At
<1>1. cand.name \in Files /\ cand.final \in Files
  BY <1>0, IdOfCandidate
<1>2. UNCHANGED <<now, dest, records, remote, warned, revisions, batch, disturbed>>
  BY DEF Resolve, Stabilize, Transform, Route
<1>3. RecordImpliesFile' /\ CacheNeverAhead'
  BY <1>0, <1>2 DEF RecordImpliesFile, CacheNeverAhead
<1>4. ASSUME NEW s, NEW outcome \in Terminals, At(s), Terminal(outcome),
             outcome # "completed", src' = src
      PROVE  IngestInv'
  <2>1. status' \in {"done", "raised"} /\ kind' # "succeeded"
    BY <1>0, <1>4, Ends
  <2>2. BaseType'
    BY <1>0, <1>2, <1>4, <2>1 DEF BaseType
  <2> QED BY <1>3, <2>1, <2>2, Quiet
<1>5. CASE Resolve
  <2>1. CASE Terminal("rejected") \/ Terminal("failed")
    BY <1>4, <1>5, <2>1 DEF Resolve, Terminals
  <2>2. CASE ~(Terminal("rejected") \/ Terminal("failed"))
    <3>1. /\ At("resolve") /\ ContinueTo("stabilize") /\ step' = "stabilize" /\ src' = src
          /\ cand' = [cand EXCEPT !.stamp =
                        IF src[cand.name] = Missing THEN now ELSE src[cand.name]]
      BY <1>5, <2>2 DEF Resolve
    <3>2. status' \in {"running", "raised"} /\ kind' = "none"
      BY <1>0, <3>1, Continues
    <3>3. (IF src[cand.name] = Missing THEN now ELSE src[cand.name]) \in Times
      BY <1>0, <1>1 DEF BaseType
    <3>4. /\ cand' \in Candidate /\ cand'.name = cand.name
          /\ src[cand.name] \in {cand'.stamp, Missing}
      BY <1>0, <3>1, <3>3 DEF Candidate
    <3>5. BaseType'
      BY <1>0, <1>2, <3>1, <3>2 DEF BaseType
    <3>6. CandInv' /\ ProgressInv'
      BY <3>1, <3>2, <3>4 DEF CandInv, ProgressInv, Ahead, Behind
    <3> QED BY <1>3, <3>5, <3>6 DEF IngestInv
  <2> QED BY <2>1, <2>2
<1>6. CASE Stabilize
  <2>1. CASE Terminal("retry") \/ Terminal("failed")
    BY <1>4, <1>6, <2>1 DEF Stabilize, Terminals
  <2>2. CASE ~(Terminal("retry") \/ Terminal("failed"))
    <3>1. /\ At("stabilize") /\ ContinueTo("transform") /\ step' = "transform"
          /\ UNCHANGED <<src, cand>>
      BY <1>6, <2>2 DEF Stabilize
    <3>2. status' \in {"running", "raised"} /\ kind' = "none"
      BY <1>0, <3>1, Continues
    <3>3. BaseType'
      BY <1>0, <1>2, <3>1, <3>2 DEF BaseType
    <3>4. ~disturbed => src[cand.name] \in {cand.stamp, Missing}
      BY <3>1 DEF IngestInv, ProgressInv, Ahead, At
    <3>5. CandInv' /\ ProgressInv'
      BY <1>0, <1>2, <3>1, <3>2, <3>4 DEF CandInv, ProgressInv, Ahead, Behind
    <3> QED BY <1>3, <3>3, <3>5 DEF IngestInv
  <2> QED BY <2>1, <2>2
<1>7. CASE Transform
  <2>1. /\ src' \in [Files -> Times \cup {Missing}]
        /\ src'[cand.name] \in {src[cand.name], Missing}
    <3>1. PICK used \in SUBSET Files, made \in SUBSET (Extras \ {cand.name}), t \in Times :
            src' = [f \in Files |-> IF f \in made THEN t
                                   ELSE IF f \in used THEN Missing ELSE src[f]]
      BY <1>7 DEF Transform, ProcessorWrites
    <3> QED BY <1>0, <1>1, <3>1 DEF BaseType
  <2>2. CASE Terminal("deferred_stage") \/ Terminal("failed")
    <3>1. At("transform")
      BY <1>7 DEF Transform
    <3>2. status' \in {"done", "raised"} /\ kind' # "succeeded"
      BY <1>0, <2>2, <3>1, Ends DEF Terminals
    <3>3. BaseType'
      BY <1>0, <1>2, <2>1, <3>2 DEF BaseType
    <3> QED BY <1>3, <3>2, <3>3, Quiet
  <2>3. CASE ~(Terminal("deferred_stage") \/ Terminal("failed"))
    <3>1. At("transform") /\ ContinueTo("route") /\ step' = "route"
      BY <1>7, <2>3 DEF Transform
    <3>2. status' \in {"running", "raised"} /\ kind' = "none"
      BY <1>0, <3>1, Continues
    <3>3. PICK final \in Files, forced \in SUBSET Files :
            cand' = [cand EXCEPT !.final = final, !.forced = forced,
                                 !.content = src'[final]]
      BY <1>7, <2>3 DEF Transform
    <3>4. /\ cand' \in Candidate /\ cand'.final = final /\ cand'.content = src'[final]
          /\ cand'.name = cand.name /\ cand'.stamp = cand.stamp
      BY <1>0, <2>1, <3>3 DEF Candidate
    <3>5. BaseType'
      BY <1>0, <1>2, <2>1, <3>2 DEF BaseType
    <3>6. ~disturbed => src[cand.name] \in {cand.stamp, Missing}
      BY <3>1 DEF IngestInv, ProgressInv, Ahead, At
    <3>7. ~disturbed => Waiting'
      BY <2>1, <3>4, <3>6 DEF Waiting
    <3>8. CandInv' /\ ProgressInv'
      BY <1>2, <3>1, <3>2, <3>4, <3>7 DEF CandInv, ProgressInv, Ahead, Behind
    <3> QED BY <1>3, <3>5, <3>8 DEF IngestInv
  <2> QED BY <2>2, <2>3
<1>8. CASE Route
  <2>1. CASE Terminal("rejected")
    BY <1>4, <1>8, <2>1 DEF Route, Terminals
  <2>2. CASE ~Terminal("rejected")
    <3>1. At("route") /\ ContinueTo("persist") /\ step' = "move" /\ UNCHANGED src
      BY <1>8, <2>2 DEF Route
    <3>2. status' \in {"running", "raised"} /\ kind' = "none"
      BY <1>0, <3>1, Continues
    <3>3. BaseType'
      BY <1>0, <1>2, <3>1, <3>2 DEF BaseType
    <3>4. PICK target \in {DefaultTarget} \cup Overrides :
            cand' = [cand EXCEPT !.target = target,
                                 !.plan = MovePlan(cand.final, cand.forced, target)]
      BY <1>8, <2>2 DEF Route
    <3>5. target \in Targets
      BY <1>1, <3>4 DEF Targets, DefaultTarget, Overrides
    <3>6. MovePlan(cand.final, cand.forced, target) \in SUBSET Files
      BY <1>0, <1>1 DEF MovePlan, Candidate
    <3>7. /\ cand' \in Candidate /\ cand'.name = cand.name /\ cand'.stamp = cand.stamp
          /\ cand'.final = cand.final /\ cand'.content = cand.content
          /\ cand'.forced = cand.forced /\ cand'.target = target
          /\ cand'.plan = MovePlan(cand.final, cand.forced, target)
      BY <1>0, <3>4, <3>5, <3>6 DEF Candidate
    <3>8. PlanCovers' /\ cand'.final \in cand'.plan
      BY <3>7 DEF PlanCovers, MovePlan, Target
    <3>9. ~disturbed => Waiting'
      BY <3>1, <3>7 DEF IngestInv, ProgressInv, At, Waiting
    <3>10. CandInv' /\ ProgressInv'
      BY <1>2, <3>1, <3>2, <3>7, <3>8, <3>9 DEF CandInv, ProgressInv, Ahead, Behind
    <3> QED BY <1>3, <3>3, <3>10 DEF IngestInv
  <2> QED BY <2>1, <2>2
<1> QED BY <1>5, <1>6, <1>7, <1>8

\* The final file is put at the target path before anything else of the plan is
\* moved; what lies under the root is replaced, never removed.
LEMMA MoveStep ==
    ASSUME IngestInv, NEW f \in Files, MoveFile(f) \/ MoveFails(f)
    PROVE  IngestInv'
<1>0. /\ status = "running" /\ step = "move" /\ kind = "none" /\ cand \in Candidate
      /\ BaseType /\ RecordImpliesFile /\ CacheNeverAhead /\ PlanCovers
      /\ f \in cand.plan /\ (cand.final \in cand.plan => f = cand.final)
      /\ cand.final \notin cand.plan => Delivered
  BY DEF IngestInv, CandInv, ProgressInv, MoveFile, MoveFails, Due, At
<1>1. cand.target \in Targets /\ \A g \in Files : Target(g) \in Targets
  BY <1>0, IdOfCandidate
<1>2. CASE MoveFails(f)
  <2>1. status' \in {"done", "raised"} /\ kind' # "succeeded"
    BY <1>0, <1>2, PersistFailureEnds DEF MoveFails, Due
  <2>2. UNCHANGED <<now, src, dest, records, revisions, batch>>
    BY <1>2 DEF MoveFails, worldVars
  <2>3. BaseType' /\ RecordImpliesFile' /\ CacheNeverAhead'
    BY <1>0, <2>1, <2>2 DEF BaseType, RecordImpliesFile, CacheNeverAhead
  <2> QED BY <2>1, <2>3, Quiet
<1>3. CASE MoveFile(f)
  <2>1. /\ src[f] # Missing /\ dest' = [dest EXCEPT ![Target(f)] = src[f]]
        /\ src' = [src EXCEPT ![f] = Missing]
        /\ cand' = [cand EXCEPT !.plan = @ \ {f}]
        /\ UNCHANGED <<status, kind, now, records, revisions, batch, step, disturbed>>
    BY <1>3 DEF MoveFile, engineVars
  <2>2. /\ cand' \in Candidate /\ cand'.name = cand.name /\ cand'.stamp = cand.stamp
        /\ cand'.final = cand.final /\ cand'.content = cand.content
        /\ cand'.forced = cand.forced /\ cand'.target = cand.target
        /\ cand'.plan = cand.plan \ {f} /\ cand.forced \subseteq Files
    BY <1>0, <2>1 DEF Candidate
  <2>3. \A g : Target(g)' = Target(g)
    BY <2>2 DEF Target
  <2>4. /\ src' \in [Files -> Times \cup {Missing}]
        /\ dest' \in [Targets -> Times \cup {Missing}] /\ dest'[Target(f)] = src[f]
        /\ \A t \in Targets : t # Target(f) => dest'[t] = dest[t]
    BY <1>0, <1>1, <2>1 DEF BaseType
  <2>5. BaseType'
    BY <1>0, <2>1, <2>4 DEF BaseType
  <2>6. \A t \in Targets : dest[t] # Missing => dest'[t] # Missing
    BY <2>1, <2>4
  <2>7. RecordImpliesFile' /\ CacheNeverAhead'
    <3>1. ASSUME NEW id \in RecordIds, records[id] # Missing PROVE records[id].target \in Targets
      BY <1>0, <3>1 DEF BaseType, Row
    <3> QED BY <1>0, <2>1, <2>6, <3>1 DEF RecordImpliesFile, CacheNeverAhead
  <2>8. Delivered'
    <3>1. CASE f = cand.final
      <4>1. Target(f) = cand.target
        BY <3>1 DEF Target
      <4>2. ~disturbed => /\ src[f] = cand.content
                          /\ cand.final = cand.name => cand.content = cand.stamp
        BY <1>0, <2>1, <3>1 DEF IngestInv, ProgressInv, Waiting
      <4>3. \A g \in cand.forced : g \notin cand.plan => Target(g) = cand.target
        BY <1>0, <3>1 DEF PlanCovers
      <4>4. \A g \in cand.forced : g \notin cand'.plan => dest'[Target(g)] # Missing
        BY <2>1, <2>2, <2>4, <4>1, <4>3
      <4> QED BY <2>1, <2>2, <2>3, <2>4, <4>1, <4>2, <4>4 DEF Delivered
    <3>2. CASE f # cand.final
      <4>1. Delivered /\ Target(f) # cand.target
        BY <1>0, <3>2 DEF PlanCovers
      <4>2. dest'[cand.target] = dest[cand.target]
        BY <1>1, <2>4, <4>1
      <4>3. \A g \in cand.forced : g \notin cand'.plan => dest'[Target(g)] # Missing
        BY <1>1, <2>1, <2>2, <2>4, <2>6, <4>1 DEF Delivered
      <4> QED BY <2>1, <2>2, <2>3, <4>1, <4>2, <4>3 DEF Delivered
    <3> QED BY <3>1, <3>2
  <2>9. CandInv'
    BY <1>0, <2>1, <2>2 DEF CandInv
  <2>10. PlanCovers' /\ cand'.final \notin cand'.plan
    BY <1>0, <2>2, <2>3 DEF PlanCovers
  <2>11. ProgressInv'
    BY <1>0, <2>1, <2>8, <2>10 DEF ProgressInv, Ahead, Behind
  <2> QED BY <2>5, <2>7, <2>9, <2>11 DEF IngestInv
<1> QED BY <1>2, <1>3

\* The record is saved with the next cached revision, or the save fails before or
\* after its commit.
LEMMA SaveStep == ASSUME IngestInv, SaveRecord \/ SaveFails PROVE IngestInv'
<1>0. /\ status = "running" /\ step = "move" /\ kind = "none" /\ cand \in Candidate
      /\ BaseType /\ RecordImpliesFile /\ CacheNeverAhead /\ cand.plan = {}
  BY DEF IngestInv, CandInv, ProgressInv, SaveRecord, SaveFails, At
<1>1. RecordId \in RecordIds /\ cand.target \in Targets
  BY <1>0, IdOfCandidate
<1>2. Delivered
  BY <1>0 DEF IngestInv, ProgressInv
<1>3. NextRevision \in Nat /\ revisions[RecordId] \in Nat \cup {-1}
  BY <1>0, <1>1 DEF BaseType, NextRevision
<1> DEFINE row == [rev |-> NextRevision, booked |-> FALSE, sync |-> "pending",
                   target |-> cand.target]
<1>4. row \in Row /\ row # Missing /\ row.rev = NextRevision /\ row.target = cand.target
  <2>1. row \in Row /\ row.rev = NextRevision /\ row.target = cand.target
    BY <1>1, <1>3 DEF Row
  <2> QED BY <2>1, IngestionAssumption
<1>5. Saved = [records EXCEPT ![RecordId] = row]
  BY DEF Saved
<1> HIDE DEF row
<1>6. /\ Saved \in [RecordIds -> Row \cup {Missing}] /\ Saved[RecordId] = row
      /\ \A id \in RecordIds : id # RecordId => Saved[id] = records[id]
  BY <1>0, <1>1, <1>4, <1>5 DEF BaseType
<1>7. /\ records' \in {records, Saved} /\ UNCHANGED <<now, src, dest, batch, cand, disturbed>>
  BY DEF SaveRecord, SaveFails
<1>8. records' \in [RecordIds -> Row \cup {Missing}] /\ RecordImpliesFile'
  <2>1. CASE records' = records
    BY <1>0, <1>7, <2>1 DEF BaseType, RecordImpliesFile
  <2>2. CASE records' = Saved
    BY <1>0, <1>1, <1>2, <1>4, <1>6, <1>7, <2>2 DEF RecordImpliesFile, Delivered
  <2> QED BY <1>7, <2>1, <2>2
<1>9. CASE SaveFails
  <2>1. status' \in {"done", "raised"} /\ kind' # "succeeded" /\ revisions' = revisions
    BY <1>0, <1>9, PersistFailureEnds DEF SaveFails
  <2>2. BaseType'
    BY <1>0, <1>7, <1>8, <2>1 DEF BaseType
  <2>3. CacheNeverAhead'
    <3>1. CASE records' = records
      BY <1>0, <2>1, <3>1 DEF CacheNeverAhead
    <3>2. CASE records' = Saved
      BY <1>0, <1>3, <1>4, <1>6, <2>1, <3>2 DEF CacheNeverAhead, NextRevision
    <3> QED BY <1>7, <3>1, <3>2
  <2> QED BY <1>8, <2>1, <2>2, <2>3, Quiet
<1>10. CASE SaveRecord
  <2>1. /\ records' = Saved /\ revisions' = [revisions EXCEPT ![RecordId] = NextRevision]
        /\ step' = "bookkeeping" /\ status' \in {"running", "raised"} /\ kind' = "none"
    BY <1>0, <1>10, Continues DEF SaveRecord
  <2>2. /\ revisions' \in [RecordIds -> Nat \cup {-1}] /\ revisions'[RecordId] = NextRevision
        /\ \A id \in RecordIds : id # RecordId => revisions'[id] = revisions[id]
    BY <1>0, <1>1, <1>3, <2>1 DEF BaseType
  <2>3. BaseType'
    BY <1>0, <1>7, <1>8, <2>1, <2>2 DEF BaseType
  <2>4. CacheNeverAhead'
    BY <1>0, <1>3, <1>4, <1>6, <2>1, <2>2 DEF CacheNeverAhead
  <2>5. CandInv'
    BY <1>0, <1>7, <2>1 DEF CandInv, Behind
  <2>6. Delivered' /\ RecordId' = RecordId /\ cand'.plan = {} /\ cand'.target = cand.target
    BY <1>0, <1>2, <1>7 DEF Delivered, RecordId, Target
  <2>7. /\ records'[RecordId] # Missing /\ records'[RecordId].target = cand.target
        /\ revisions'[RecordId] # -1
    BY <1>3, <1>4, <1>6, <2>1, <2>2
  <2>8. ProgressInv'
    BY <2>1, <2>6, <2>7 DEF ProgressInv, Recorded, Ahead, Behind
  <2> QED BY <1>8, <2>3, <2>4, <2>5, <2>8 DEF IngestInv
<1> QED BY <1>9, <1>10

\* What an update of a row of the store yields.
LEMMA RowUpdates ==
    ASSUME NEW r \in Row
    PROVE  /\ r.rev \in Nat
           /\ [r EXCEPT !.rev = @ + 1, !.booked = TRUE] \in Row
           /\ [r EXCEPT !.rev = @ + 1, !.booked = TRUE].rev = r.rev + 1
           /\ [r EXCEPT !.rev = @ + 1, !.booked = TRUE].booked
           /\ [r EXCEPT !.rev = @ + 1, !.sync = "unsynced"] \in Row
           /\ [r EXCEPT !.rev = @ + 1, !.sync = "unsynced"].rev = r.rev + 1
           /\ [r EXCEPT !.rev = @ + 1, !.sync = "unsynced"].booked = r.booked
           /\ [r EXCEPT !.rev = @ + 1, !.booked = TRUE].target = r.target
           /\ [r EXCEPT !.rev = @ + 1, !.sync = "unsynced"].target = r.target
<1>1. r.rev \in Nat
  BY DEF Row
<1>2. ASSUME NEW n \in Nat
      PROVE  /\ [r EXCEPT !.rev = n, !.booked = TRUE] \in Row
             /\ [r EXCEPT !.rev = n, !.booked = TRUE].rev = n
             /\ [r EXCEPT !.rev = n, !.sync = "unsynced"] \in Row
             /\ [r EXCEPT !.rev = n, !.sync = "unsynced"].rev = n
  <2>1. [r EXCEPT !.rev = n, !.booked = TRUE] \in Row
    BY Zenon DEF Row
  <2>2. [r EXCEPT !.rev = n, !.booked = TRUE].rev = n
    BY DEF Row
  <2>3. [r EXCEPT !.rev = n, !.sync = "unsynced"] \in Row
    BY DEF Row
  <2>4. [r EXCEPT !.rev = n, !.sync = "unsynced"].rev = n
    BY DEF Row
  <2> QED BY <2>1, <2>2, <2>3, <2>4
<1>3. [r EXCEPT !.rev = @ + 1, !.booked = TRUE].booked
  BY DEF Row
<1>4. [r EXCEPT !.rev = @ + 1, !.sync = "unsynced"].booked = r.booked
  BY DEF Row
<1>5. r.rev + 1 \in Nat
  BY <1>1
<1>6. /\ [r EXCEPT !.rev = @ + 1, !.booked = TRUE].target = r.target
      /\ [r EXCEPT !.rev = @ + 1, !.sync = "unsynced"].target = r.target
  BY DEF Row
<1> QED BY <1>1, <1>2, <1>3, <1>4, <1>5, <1>6

\* The stages behind the save: the record gets newer revisions, and a success is
\* reported only behind them.
LEMMA PostPersistStep ==
    ASSUME IngestInv,
           \/ Bookkeeping \/ BookkeepingFails \/ SyncAccepted \/ SyncFails
           \/ MarkUnsynced \/ EmitSyncError
    PROVE  IngestInv'
<1>0. /\ status = "running" /\ step \in Behind /\ kind = "none" /\ cand \in Candidate
      /\ BaseType /\ RecordImpliesFile /\ CacheNeverAhead
      /\ Recorded /\ records[RecordId] # Missing /\ revisions[RecordId] # -1
      /\ step # "bookkeeping" => records[RecordId].booked
  BY DEF IngestInv, CandInv, ProgressInv, Recorded, Behind, Bookkeeping, BookkeepingFails,
         SyncAccepted, SyncFails, MarkUnsynced, EmitSyncError, At
<1>1. RecordId \in RecordIds /\ cand.target \in Targets
  BY <1>0, IdOfCandidate
<1>2. UNCHANGED <<now, src, dest, batch, cand, disturbed>>
  BY DEF Bookkeeping, BookkeepingFails, SyncAccepted, SyncFails, MarkUnsynced, EmitSyncError
<1>3. /\ RecordId' = RecordId /\ cand' \in Candidate
      /\ records'[RecordId] # Missing /\ records'[RecordId].target = records[RecordId].target
           => Recorded'
  BY <1>0, <1>2 DEF Recorded, Delivered, RecordId, Target
<1>4. records[RecordId] \in Row /\ revisions[RecordId] \in Nat
  BY <1>0, <1>1 DEF BaseType
<1>5. ASSUME NEW row \in Row, row.rev = records[RecordId].rev + 1,
             row.target = records[RecordId].target,
             records' = [records EXCEPT ![RecordId] = row],
             \/ revisions' = revisions
             \/ revisions' = [revisions EXCEPT ![RecordId] = records[RecordId].rev + 1]
      PROVE  /\ records' \in [RecordIds -> Row \cup {Missing}] /\ records'[RecordId] = row
             /\ revisions' \in [RecordIds -> Nat \cup {-1}] /\ revisions'[RecordId] # -1
             /\ RecordImpliesFile' /\ CacheNeverAhead' /\ row # Missing /\ Recorded'
  <2>1. /\ records' \in [RecordIds -> Row \cup {Missing}] /\ records'[RecordId] = row
        /\ row # Missing /\ \A id \in RecordIds : id # RecordId => records'[id] = records[id]
    BY <1>0, <1>1, <1>5, IngestionAssumption DEF BaseType
  <2>2. records[RecordId].rev \in Nat
    BY <1>4 DEF Row
  <2>3. /\ revisions' \in [RecordIds -> Nat \cup {-1}] /\ revisions'[RecordId] \in Nat
        /\ revisions'[RecordId] <= records[RecordId].rev + 1
        /\ \A id \in RecordIds : id # RecordId => revisions'[id] = revisions[id]
    <3>1. revisions[RecordId] <= records[RecordId].rev
      BY <1>0, <1>1, <1>4 DEF CacheNeverAhead
    <3> QED BY <1>0, <1>1, <1>4, <1>5, <2>2, <3>1 DEF BaseType
  <2>4. RecordImpliesFile'
    BY <1>0, <1>1, <1>2, <1>5, <2>1 DEF RecordImpliesFile
  <2>5. CacheNeverAhead'
    BY <1>0, <1>5, <2>1, <2>2, <2>3 DEF CacheNeverAhead
  <2> QED BY <1>3, <1>5, <2>1, <2>3, <2>4, <2>5
<1>6. ASSUME UNCHANGED <<records, revisions>>
      PROVE  /\ records' \in [RecordIds -> Row \cup {Missing}] /\ records'[RecordId] # Missing
             /\ revisions' \in [RecordIds -> Nat \cup {-1}] /\ revisions'[RecordId] # -1
             /\ RecordImpliesFile' /\ CacheNeverAhead' /\ Recorded'
  BY <1>0, <1>2, <1>3, <1>6 DEF BaseType, RecordImpliesFile, CacheNeverAhead
<1>7. ASSUME CacheIsCurrent
      PROVE  /\ Booked[RecordId] \in Row /\ Booked[RecordId].rev = records[RecordId].rev + 1
             /\ Booked[RecordId].booked /\ Booked[RecordId].target = records[RecordId].target
             /\ Booked = [records EXCEPT ![RecordId] = Booked[RecordId]]
             /\ revisions[RecordId] + 1 = records[RecordId].rev + 1
  <2> DEFINE row == [records[RecordId] EXCEPT !.rev = @ + 1, !.booked = TRUE]
  <2>1. /\ row \in Row /\ row.rev = records[RecordId].rev + 1 /\ row.booked
        /\ row.target = records[RecordId].target
    BY <1>4, RowUpdates
  <2>2. Booked = [records EXCEPT ![RecordId] = row]
    BY <1>0, <1>1 DEF Booked, BaseType
  <2> HIDE DEF row
  <2>3. Booked[RecordId] = row
    BY <1>0, <1>1, <2>2 DEF BaseType
  <2> QED BY <1>7, <2>1, <2>2, <2>3 DEF CacheIsCurrent
<1>8. CASE BookkeepingFails
  <2>1. status' \in {"done", "raised"} /\ kind' # "succeeded"
    BY <1>0, <1>8, Ends DEF BookkeepingFails, Terminals
  <2>2. /\ records' \in [RecordIds -> Row \cup {Missing}]
        /\ revisions' \in [RecordIds -> Nat \cup {-1}] /\ RecordImpliesFile' /\ CacheNeverAhead'
    <3>1. CASE records' = records
      BY <1>6, <1>8, <3>1 DEF BookkeepingFails
    <3>2. CASE records' # records
      BY <1>5, <1>7, <1>8, <3>2 DEF BookkeepingFails
    <3> QED BY <3>1, <3>2
  <2>3. BaseType'
    BY <1>0, <1>2, <2>1, <2>2 DEF BaseType
  <2> QED BY <2>1, <2>2, <2>3, Quiet
<1>9. CASE Bookkeeping
  <2>1. /\ records' = Booked /\ revisions' = [revisions EXCEPT ![RecordId] = @ + 1]
        /\ step' = "sync" /\ CacheIsCurrent /\ UNCHANGED <<status, kind>>
    BY <1>9 DEF Bookkeeping, engineVars
  <2>2. /\ records' \in [RecordIds -> Row \cup {Missing}] /\ records'[RecordId].booked
        /\ records'[RecordId] # Missing
        /\ revisions' \in [RecordIds -> Nat \cup {-1}] /\ revisions'[RecordId] # -1
        /\ RecordImpliesFile' /\ CacheNeverAhead' /\ Recorded'
    BY <1>5, <1>7, <2>1
  <2>3. BaseType'
    BY <1>0, <1>2, <2>1, <2>2 DEF BaseType
  <2>4. CandInv' /\ ProgressInv'
    BY <1>0, <1>3, <2>1, <2>2 DEF CandInv, ProgressInv, Ahead, Behind
  <2> QED BY <2>2, <2>3, <2>4 DEF IngestInv
<1>10. CASE SyncAccepted
  <2>1. /\ status' \in {"done", "raised"} /\ UNCHANGED <<records, revisions>>
        /\ RecordId \in remote' /\ records[RecordId].booked
    BY <1>0, <1>10, Ends DEF SyncAccepted, Terminals, At
  <2>2. BaseType'
    BY <1>0, <1>2, <1>6, <2>1 DEF BaseType
  <2>3. CandInv' /\ ProgressInv'
    BY <1>0, <1>3, <1>6, <2>1 DEF CandInv, ProgressInv
  <2> QED BY <1>6, <2>1, <2>2, <2>3 DEF IngestInv
<1>11. CASE SyncFails
  <2>1. /\ step' = "mark" /\ UNCHANGED <<records, revisions, status, kind>>
        /\ records[RecordId].booked
    BY <1>0, <1>11 DEF SyncFails, At, engineVars
  <2>2. BaseType'
    BY <1>0, <1>2, <1>6, <2>1 DEF BaseType
  <2>3. CandInv' /\ ProgressInv'
    BY <1>0, <1>3, <1>6, <2>1 DEF CandInv, ProgressInv, Ahead, Behind
  <2> QED BY <1>6, <2>1, <2>2, <2>3 DEF IngestInv
<1>12. CASE MarkUnsynced
  <2>1. step' = "emit" /\ UNCHANGED <<status, kind>> /\ records[RecordId].booked
    BY <1>0, <1>12 DEF MarkUnsynced, At, engineVars
  <2>2. /\ records' \in [RecordIds -> Row \cup {Missing}] /\ records'[RecordId].booked
        /\ records'[RecordId] # Missing
        /\ revisions' \in [RecordIds -> Nat \cup {-1}] /\ revisions'[RecordId] # -1
        /\ RecordImpliesFile' /\ CacheNeverAhead' /\ Recorded'
    <3>1. CASE UNCHANGED <<records, revisions>>
      BY <1>6, <2>1, <3>1
    <3>2. CASE ~UNCHANGED <<records, revisions>>
      <4> DEFINE row == [records[RecordId] EXCEPT !.rev = @ + 1, !.sync = "unsynced"]
      <4>1. /\ row \in Row /\ row.rev = records[RecordId].rev + 1 /\ row.booked
            /\ row.target = records[RecordId].target
        BY <1>4, <2>1, RowUpdates
      <4>2. /\ records' = [records EXCEPT ![RecordId].rev = @ + 1,
                                          ![RecordId].sync = "unsynced"]
            /\ \/ revisions' = [revisions EXCEPT ![RecordId] = records[RecordId].rev + 1]
               \/ revisions' = revisions
        BY <1>12, <3>2 DEF MarkUnsynced
      <4>3. records' = [records EXCEPT ![RecordId] = row]
        BY <1>0, <1>1, <4>2 DEF BaseType
      <4> HIDE DEF row
      <4> QED BY <1>5, <4>1, <4>2, <4>3
    <3> QED BY <3>1, <3>2
  <2>3. BaseType'
    BY <1>0, <1>2, <2>1, <2>2 DEF BaseType
  <2>4. CandInv' /\ ProgressInv'
    BY <1>0, <1>3, <2>1, <2>2 DEF CandInv, ProgressInv, Ahead, Behind
  <2> QED BY <2>2, <2>3, <2>4 DEF IngestInv
<1>13. CASE EmitSyncError
  <2>0. records[RecordId].booked /\ At("emit")
    BY <1>0, <1>13 DEF EmitSyncError, At
  <2>1. /\ status' \in {"done", "raised"} /\ UNCHANGED <<records, revisions>>
        /\ (kind' = "succeeded" => RecordId \in warned')
    <3>1. CASE Terminal("completed") /\ warned' = warned \cup {RecordId}
      BY <1>0, <1>13, <2>0, <3>1, Ends DEF EmitSyncError, Terminals
    <3>2. CASE HandlerRaises
      BY <1>0, <1>13, <3>2 DEF EmitSyncError, HandlerRaises, RaiseInRun
    <3> QED BY <1>13, <3>1, <3>2 DEF EmitSyncError
  <2>2. BaseType'
    BY <1>0, <1>2, <1>6, <2>1 DEF BaseType
  <2>3. CandInv' /\ ProgressInv'
    BY <1>3, <1>6, <2>0, <2>1 DEF CandInv, ProgressInv
  <2> QED BY <1>6, <2>1, <2>2, <2>3 DEF IngestInv
<1> QED BY <1>8, <1>9, <1>10, <1>11, <1>12, <1>13

\* The engine's exception handler touches nothing but the engine's own state.
LEMMA NormalizeStep == ASSUME IngestInv, NormalizeException PROVE IngestInv'
<1>0. /\ BaseType /\ CandInv /\ ProgressInv /\ RecordImpliesFile /\ CacheNeverAhead
      /\ UNCHANGED worldVars
  BY DEF IngestInv, NormalizeException
<1>1. UNCHANGED <<now, src, dest, records, revisions, batch, remote, warned, cand,
                  step, disturbed, RecordId>>
  BY <1>0 DEF worldVars, RecordId
<1>2. /\ status' \in {"raised", "retryable", "not_retryable", "done"}
      /\ kind' = kind \/ kind' # "succeeded"
  BY DEF NormalizeException, Classify, BuildFailure, Classifications, FailureKinds
<1>3. BaseType' /\ RecordImpliesFile' /\ CacheNeverAhead'
  BY <1>0, <1>1, <1>2 DEF BaseType, RecordImpliesFile, CacheNeverAhead
<1>4. CandInv' /\ ProgressInv'
  BY <1>0, <1>1, <1>2 DEF CandInv, ProgressInv, Recorded, Delivered, Target
<1> QED BY <1>3, <1>4 DEF IngestInv

\* Discovery and the next event of the batch.
LEMMA LoopStep ==
    ASSUME IngestInv, Discover \/ \E event \in batch : Take(event)
    PROVE  IngestInv'
<1>0. BaseType /\ CandInv /\ ProgressInv /\ RecordImpliesFile /\ CacheNeverAhead
  BY DEF IngestInv
<1>1. UNCHANGED <<now, src, dest, records, revisions, remote, warned>>
  BY DEF Discover, Take
<1>2. RecordImpliesFile' /\ CacheNeverAhead'
  BY <1>0, <1>1 DEF RecordImpliesFile, CacheNeverAhead
<1>3. CASE Discover
  <2>1. UNCHANGED <<status, kind, cand, step, disturbed, RecordId>>
    BY <1>3 DEF Discover, engineVars, RecordId
  <2>2. batch' \subseteq RecordIds
    <3>1. ASSUME NEW f \in Files, src[f] # Missing PROVE <<f, src[f]>> \in RecordIds
      BY <1>0, <3>1 DEF BaseType, RecordIds
    <3> QED BY <1>3, <3>1 DEF Discover
  <2>3. BaseType'
    BY <1>0, <1>1, <2>1, <2>2 DEF BaseType
  <2>4. CandInv' /\ ProgressInv'
    BY <1>0, <1>1, <2>1
       DEF CandInv, ProgressInv, Waiting, PlanCovers, Recorded, Delivered, Target
  <2> QED BY <1>2, <2>3, <2>4 DEF IngestInv
<1>4. ASSUME NEW event \in batch, Take(event) PROVE IngestInv'
  <2>1. /\ status' = "running" /\ kind' = "none" /\ step' = "resolve"
        /\ batch' = batch \ {event}
        /\ cand' = [name |-> event[1], stamp |-> 0, final |-> event[1],
                    content |-> Missing, forced |-> {}, target |-> <<Root, event[1]>>,
                    plan |-> {}]
    BY <1>4 DEF Take, Begin
  <2>2. BaseType'
    BY <1>0, <1>1, <2>1 DEF BaseType
  <2>3. event[1] \in Files /\ 0 \in Times
    BY <1>0, <1>4, IngestionAssumption DEF BaseType, RecordIds, Times
  <2>4. <<Root, event[1]>> \in Targets
    BY <2>3 DEF Targets
  <2>5. cand' \in Candidate
    BY <2>1, <2>3, <2>4 DEF Candidate
  <2>6. CandInv' /\ ProgressInv'
    BY <2>1, <2>5 DEF CandInv, ProgressInv, Ahead, Behind
  <2> QED BY <1>2, <2>2, <2>6 DEF IngestInv
<1> QED BY <1>3, <1>4

\* The instrument, the clock and a restart of the process. A file that is written
\* or withdrawn while its event is in flight marks the event as disturbed.
LEMMA EnvironmentStep == ASSUME IngestInv, Environment PROVE IngestInv'
<1>0. BaseType /\ CandInv /\ ProgressInv /\ RecordImpliesFile /\ CacheNeverAhead
  BY DEF IngestInv
<1>1. UNCHANGED <<dest, records, remote, warned>>
  BY DEF Environment, Withdraw, Drop, Tick, Restart
<1>2. RecordImpliesFile'
  BY <1>0, <1>1 DEF RecordImpliesFile
<1>3. ASSUME NEW n \in Names, NEW t \in Times \cup {Missing},
             src' = [src EXCEPT ![n] = t], disturbed' = (disturbed \/ InFlight(n)),
             UNCHANGED <<engineVars, now, revisions, batch, cand, step>>
      PROVE  IngestInv'
  <2>1. UNCHANGED <<status, kind, RecordId>>
    BY <1>3 DEF engineVars, RecordId
  <2>2. BaseType' /\ CacheNeverAhead' /\ CandInv'
    BY <1>0, <1>1, <1>3, <2>1 DEF BaseType, Files, CacheNeverAhead, CandInv
  <2>3. /\ disturbed => disturbed'
        /\ Delivered => Delivered'
        /\ PlanCovers' = PlanCovers
        /\ Recorded => Recorded'
    BY <1>1, <1>3, <2>1 DEF Delivered, PlanCovers, Recorded, Target
  <2>4. status = "running" /\ ~disturbed' =>
          /\ src'[cand.name] = src[cand.name] /\ ~disturbed
          /\ Waiting => Waiting'
    <3>1. status = "running" => cand \in Candidate
      BY <1>0 DEF CandInv
    <3>2. status = "running" /\ ~disturbed' => cand.name # n /\ cand.final # n /\ ~disturbed
      BY <1>3 DEF InFlight
    <3>3. status = "running" => cand.name \in Files /\ cand.final \in Files
      BY <3>1, IdOfCandidate
    <3> QED BY <1>0, <1>3, <3>2, <3>3 DEF BaseType, Waiting
  <2>5. ProgressInv'
    BY <1>0, <1>1, <1>3, <2>1, <2>3, <2>4 DEF ProgressInv
  <2> QED BY <1>2, <2>2, <2>5 DEF IngestInv
<1>4. ASSUME NEW n \in Names, Withdraw(n) PROVE IngestInv'
  BY <1>3, <1>4 DEF Withdraw
<1>5. ASSUME NEW n \in Names, NEW t \in Times, Drop(n, t) PROVE IngestInv'
  BY <1>3, <1>5 DEF Drop
<1>6. CASE Tick
  <2>1. /\ UNCHANGED <<status, kind, src, revisions, batch, cand, step, disturbed,
                       RecordId>>
        /\ now' \in Times
    BY <1>0, <1>6, IngestionAssumption
       DEF Tick, engineVars, BaseType, Times, RecordId
  <2>2. BaseType' /\ CacheNeverAhead' /\ CandInv' /\ ProgressInv'
    BY <1>0, <1>1, <2>1 DEF BaseType, CacheNeverAhead, CandInv, ProgressInv, Waiting,
                            PlanCovers, Recorded, Delivered, Target
  <2> QED BY <1>2, <2>2 DEF IngestInv
<1>7. CASE Restart
  <2>1. /\ status' = "idle" /\ kind' = "none" /\ revisions' = [id \in RecordIds |-> -1]
        /\ batch' = {} /\ UNCHANGED <<now, src>>
    BY <1>7 DEF Restart
  <2>2. BaseType' /\ CacheNeverAhead'
    BY <1>0, <1>1, <2>1 DEF BaseType, CacheNeverAhead
  <2> QED BY <1>2, <2>1, <2>2, Quiet
<1> QED BY <1>4, <1>5, <1>6, <1>7 DEF Environment

\* The invariant of the stages holds in every state.
LEMMA IngestInvariant == Spec => []IngestInv
<1>1. IngestInv /\ [Next]_vars => IngestInv'
  <2> SUFFICES ASSUME IngestInv, [Next]_vars PROVE IngestInv'
    OBVIOUS
  <2>1. CASE UNCHANGED vars
    <3>1. UNCHANGED <<status, kind, now, src, dest, records, revisions, batch, remote,
                      warned, cand, step, disturbed, RecordId>>
      BY <2>1 DEF vars, engineVars, worldVars, RecordId
    <3> QED BY <3>1 DEF IngestInv, BaseType, CandInv, ProgressInv, RecordImpliesFile,
                        CacheNeverAhead, Waiting, PlanCovers, Recorded, Delivered, Target
  <2> QED BY <2>1, EarlyStages, MoveStep, SaveStep, PostPersistStep, NormalizeStep,
             LoopStep, EnvironmentStep DEF Next, StageStep
<1> QED BY <1>1, IngestInit, PTL DEF Spec

\* Wherever the process dies, a record's target path holds a file.
THEOREM RecordsHaveFiles == Spec => []RecordImpliesFile
<1>1. IngestInv => RecordImpliesFile
  BY DEF IngestInv
<1> QED BY <1>1, IngestInvariant, PTL

\* However saves, updates, marks and refreshes fail, the revision cache does not
\* run ahead of the store.
THEOREM CacheIsBehind == Spec => []CacheNeverAhead
<1>1. IngestInv => CacheNeverAhead
  BY DEF IngestInv
<1> QED BY <1>1, IngestInvariant, PTL

\* A succeeded event is durable, whatever files its processor takes away, writes
\* and returns and wherever a force_path sends them: the files are under the route
\* root, the record is booked with their target, and it is synced or warned of.
THEOREM SuccessSurvives == Spec => []SuccessIsDurable
<1>1. IngestInv => SuccessIsDurable
  BY DEF IngestInv, ProgressInv, Recorded, Delivered, SuccessIsDurable, Target
<1> QED BY <1>1, IngestInvariant, PTL

\* No step changes a record whose revision the process has not cached.
THEOREM ReplaysKeepRecords == Spec => ReplayKeepsRecords
<1>1. ASSUME IngestInv, [Next]_vars, NEW id \in RecordIds,
             records[id] # Missing, revisions[id] = -1
      PROVE  records'[id] = records[id]
  <2>0. /\ records \in [RecordIds -> Row \cup {Missing}]
        /\ CandInv /\ ProgressInv
    BY <1>1 DEF IngestInv, BaseType
  <2>1. CASE SaveRecord \/ SaveFails
    <3>1. records' # records => records' = Saved /\ StoreAccepts
      BY <2>1 DEF SaveRecord, SaveFails
    <3>2. StoreAccepts => RecordId # id
      <4> SUFFICES ASSUME RecordId = id PROVE ~StoreAccepts
        OBVIOUS
      <4>1. records[id].rev \in Nat
        BY <1>1, <2>0, RowUpdates
      <4>2. NextRevision = 0
        BY <1>1 DEF NextRevision
      <4> QED BY <1>1, <4>1, <4>2 DEF StoreAccepts
    <3> QED BY <2>0, <3>1, <3>2 DEF Saved
  <2>2. CASE Bookkeeping \/ BookkeepingFails \/ MarkUnsynced
    <3>1. RecordId # id
      BY <1>1, <2>0, <2>2
         DEF ProgressInv, Recorded, Behind, Bookkeeping, BookkeepingFails, MarkUnsynced, At
    <3> QED BY <2>0, <2>2, <3>1 DEF Bookkeeping, BookkeepingFails, MarkUnsynced, Booked
  <2>3. CASE ~(SaveRecord \/ SaveFails \/ Bookkeeping \/ BookkeepingFails \/ MarkUnsynced)
    <3>1. UNCHANGED records
      BY <1>1, <2>3 DEF Next, StageStep, Resolve, Stabilize, Transform, Route, MoveFile,
             MoveFails, SyncAccepted, SyncFails, EmitSyncError, NormalizeException,
             Discover, Take, Environment, Withdraw, Drop, Tick, Restart, vars, worldVars
    <3> QED BY <3>1
  <2> QED BY <2>1, <2>2, <2>3
<1>2. IngestInv /\ [Next]_vars =>
        [\A id \in RecordIds : records[id] # Missing /\ revisions[id] = -1
            => records'[id] = records[id]]_vars
  BY <1>1
<1> QED BY <1>2, IngestInvariant, PTL DEF Spec, ReplayKeepsRecords
=============================================================================
