------------------------------ MODULE Ingestion ------------------------------
(* The ingestion pipeline as compose_runtime wires it: the six stage handlers
   with the file system, the record store and the sync backend they act on. A
   handler step that touches something outside the process is an action of its
   own, because the process may die and the instrument may write files between
   any two of them. A file is known by its name and by its modification time,
   which also stands for its content. *)
EXTENDS IngestionEngine, Integers, FiniteSets

CONSTANTS
    Names,             \* file names the instrument uses in the watch directory
    Extras,            \* names under which a processor may write files
    Root,              \* the route root
    OverrideFolders,   \* folders below it that an event's force_path may name
    Missing,           \* no such file, no such record
    MaxTime,           \* bound: last clock reading
    MaxDrops,          \* bound: files that are written to the watch directory
    MaxRestarts,       \* bound: process restarts
    SettleDelay,       \* settle_delay_seconds
    Faults,            \* which calls may fail
    MoveErrors,        \* reason codes of a failed move
    PlannerAnswers,    \* what the retry planner may answer
    OverrideRejected   \* events may carry a force_path outside the route root

Times == 0..MaxTime
Files == Names \cup Extras
RecordIds == Files \X Times
\* A target path: the folder and the file's name in it.
Targets == ({Root} \cup OverrideFolders) \X Files
\* What a row of the record store says of a record.
Row == [rev : Nat, booked : BOOLEAN, sync : {"pending", "unsynced"}, target : Targets]

ASSUME IngestionAssumption ==
    /\ {MaxTime, MaxDrops, MaxRestarts, SettleDelay} \subseteq Nat
    /\ MoveErrors \subseteq {"move_failed", "collision"} /\ MoveErrors # {}
    /\ Faults \subseteq {"resolve", "transform", "move", "save", "bookkeeping",
                         "sync", "mark", "refresh", "emit"}
    /\ PlannerAnswers \subseteq {"stop", "retry", "invalid"} /\ PlannerAnswers # {}
    /\ OverrideRejected \in BOOLEAN
    /\ Missing \notin Times /\ Missing \notin Row

VARIABLES
    now,        \* wall clock
    src,        \* watch directory: name -> mtime
    dest,       \* under the route root: target path -> mtime of the file there
    records,    \* record store: id -> [rev, booked, sync, target]
    remote,     \* records the sync backend has accepted
    warned,     \* records for which immediate_sync_error was emitted
    revisions,  \* record_revisions: the process's cache of stored revisions
    batch,      \* discovered events the loop has still to process
    seen,       \* DPostApp._seen_event_ids
    cand,       \* IngestionState of the event in flight
    step,       \* call the current handler makes next
    disturbed,  \* the file in flight was written or withdrawn under the handlers
    drops, restarts

worldVars == <<now, src, dest, records, remote, warned, revisions, batch, seen, cand,
               step, disturbed, drops, restarts>>
vars == <<engineVars, worldVars>>

NoCandidate == [name |-> Missing]

Init == /\ EngineInit
        /\ now = 0
        /\ src = [f \in Files |-> Missing]
        /\ dest = [t \in Targets |-> Missing]
        /\ records = [id \in RecordIds |-> Missing]
        /\ remote = {} /\ warned = {}
        /\ revisions = [id \in RecordIds |-> -1]
        /\ batch = {} /\ seen = {}
        /\ cand = NoCandidate
        /\ step = "none"
        /\ disturbed = FALSE
        /\ drops = 0 /\ restarts = 0

RecordId == <<cand.name, cand.stamp>>

At(s) == status = "running" /\ step = s

\* _discover_headless_events: an event is a file's path and mtime; the ones
\* this process has seen are going to be skipped.
Discover ==
    /\ status \in {"idle", "done"} /\ batch = {}
    /\ batch' = {<<f, src[f]>> : f \in {g \in Files : src[g] # Missing}} \ seen
    /\ batch' # {}
    /\ UNCHANGED <<engineVars, now, src, dest, records, remote, warned, revisions,
                   seen, cand, step, disturbed, drops, restarts>>

\* DPostApp hands the engine the events of the batch, oldest file first,
\* whatever has happened to the file since the discovery.
Take(event) ==
    /\ Begin
    /\ event \in batch
    /\ \A other \in batch : event[2] <= other[2]
    /\ batch' = batch \ {event}
    /\ seen' = seen \cup {event}
    /\ cand' = [name |-> event[1], stamp |-> 0, final |-> event[1], content |-> Missing,
                forced |-> {}, target |-> <<Root, event[1]>>, plan |-> {}]
    /\ step' = "resolve"
    /\ disturbed' = FALSE
    /\ UNCHANGED <<now, src, dest, records, remote, warned, revisions,
                   drops, restarts>>

-----------------------------------------------------------------------------
\* run_resolve_stage: file facts, candidate, processor. A file that is gone
\* reports the current time as its mtime.
Resolve ==
    /\ At("resolve")
    /\ \/ /\ ContinueTo("stabilize")
          /\ step' = "stabilize"
          /\ cand' = [cand EXCEPT !.stamp =
                        IF src[cand.name] = Missing THEN now ELSE src[cand.name]]
       \/ /\ "resolve" \in Faults
          /\ Terminal("rejected") \/ Terminal("failed")
          /\ UNCHANGED <<step, cand>>
    /\ UNCHANGED <<now, src, dest, records, remote, warned, revisions, batch, seen,
                   disturbed, drops, restarts>>

\* run_stabilize_stage. The runtime's gate answers with a mapping, on which
\* getattr(..., "decision", ALLOW) finds no attribute: it never drops or defers.
Stabilize ==
    /\ At("stabilize")
    /\ \/ /\ now < cand.stamp
          /\ Terminal("failed")
          /\ UNCHANGED step
       \/ /\ now >= cand.stamp /\ now - cand.stamp < SettleDelay
          /\ Terminal("retry")
          /\ UNCHANGED step
       \/ /\ now >= cand.stamp /\ now - cand.stamp >= SettleDelay
          /\ ContinueTo("transform")
          /\ step' = "transform"
    /\ UNCHANGED <<now, src, dest, records, remote, warned, revisions, batch, seen,
                   cand, disturbed, drops, restarts>>

\* What a processor does to the watch directory in prepare and process: it may
\* take away any files and write others, its own source excepted.
ProcessorWrites ==
    \E used \in SUBSET Files, made \in SUBSET (Extras \ {cand.name}), t \in Times :
        /\ drops' = drops + Cardinality(made) /\ drops' <= MaxDrops
        /\ src' = [f \in Files |-> IF f \in made THEN t
                                  ELSE IF f \in used THEN Missing ELSE src[f]]

\* run_transform_stage: prepare, can_process, process. The result's final_path
\* and force_paths may name any files, whether they are there or not. What a
\* processor did to the directory before it declined or raised stays.
Transform ==
    /\ At("transform")
    /\ ProcessorWrites
    /\ \/ /\ ContinueTo("route")
          /\ step' = "route"
          /\ \E final \in Files, forced \in SUBSET Files :
                cand' = [cand EXCEPT !.final = final, !.forced = forced,
                                     !.content = src'[final]]
       \/ /\ "transform" \in Faults
          /\ Terminal("deferred_stage") \/ Terminal("failed")
          /\ UNCHANGED <<cand, step>>
    /\ UNCHANGED <<now, dest, records, remote, warned, revisions, batch, seen,
                   disturbed, restarts>>

\* _build_move_plan: the sources to move. A forced file whose target is already
\* taken by the final file is left out.
MovePlan(final, forced, target) ==
    {final} \cup {f \in forced : <<target[1], f>> # target}

\* _build_runtime_filename: the target is named after final_path.
DefaultTarget == <<Root, cand.final>>

\* evaluate_force_path: the targets an event may name, under the allowed root.
Overrides == OverrideFolders \X Files

\* run_route_stage: the route root is always configured; an override outside the
\* allowed roots is rejected. The move plan of run_persist_stage follows.
Route ==
    /\ At("route")
    /\ \/ /\ ContinueTo("persist")
          /\ step' = "move"
          /\ \E target \in {DefaultTarget} \cup Overrides :
                cand' = [cand EXCEPT !.target = target,
                                     !.plan = MovePlan(cand.final, cand.forced, target)]
       \/ /\ OverrideRejected
          /\ Terminal("rejected")
          /\ UNCHANGED <<cand, step>>
    /\ UNCHANGED <<now, src, dest, records, remote, warned, revisions, batch, seen,
                   disturbed, drops, restarts>>

-----------------------------------------------------------------------------
\* The directive of run_persist_stage after a failed move or save.
PersistFailure(reason) ==
    \E answer \in PlannerAnswers :
        \/ answer = "retry"   /\ Terminal("retry")
        \/ answer = "invalid" /\ Terminal("failed")
        \/ answer = "stop"    /\ Terminal(IF reason = "collision" THEN "rejected"
                                                                ELSE "failed")

\* Where a file of the plan goes: a forced one keeps its name.
Target(f) == IF f = cand.final THEN cand.target ELSE <<cand.target[1], f>>

\* The file the plan moves next: the final one first.
Due(f) == At("move") /\ f \in cand.plan /\ (cand.final \in cand.plan => f = cand.final)

\* One move of the plan: rename replaces a file of the same name.
MoveFile(f) ==
    /\ Due(f)
    /\ src[f] # Missing
    /\ dest' = [dest EXCEPT ![Target(f)] = src[f]]
    /\ src' = [src EXCEPT ![f] = Missing]
    /\ cand' = [cand EXCEPT !.plan = @ \ {f}]
    /\ UNCHANGED <<engineVars, now, records, remote, warned, revisions, batch, seen,
                   step, disturbed, drops, restarts>>

\* Mutant: a failing move is skipped, the plan goes on.
MoveFailsIgnored(f) ==
    /\ Due(f)
    /\ src[f] = Missing \/ "move" \in Faults
    /\ cand' = [cand EXCEPT !.plan = @ \ {f}]
    /\ UNCHANGED <<engineVars, now, src, dest, records, remote, warned, revisions,
                   batch, seen, step, disturbed, drops, restarts>>

\* The first failing move ends the plan; the moves before it stay.
MoveFails(f) ==
    /\ Due(f)
    /\ src[f] = Missing \/ "move" \in Faults
    /\ \E reason \in MoveErrors : PersistFailure(reason)
    /\ UNCHANGED worldVars

NextRevision == revisions[RecordId] + 1

\* Mutant: the stored revision is not compared.
StoreAcceptsAll == TRUE

\* SqliteRecordStoreAdapter.save: a stored record yields to a newer revision only.
StoreAccepts == records[RecordId] # Missing => NextRevision > records[RecordId].rev

Saved == [records EXCEPT ![RecordId] =
            [rev |-> NextRevision, booked |-> FALSE, sync |-> "pending",
             target |-> cand.target]]

\* save_record
SaveRecord ==
    /\ At("move") /\ cand.plan = {}
    /\ StoreAccepts
    /\ records' = Saved
    /\ revisions' = [revisions EXCEPT ![RecordId] = NextRevision]
    /\ ContinueTo("post_persist")
    /\ step' = "bookkeeping"
    /\ UNCHANGED <<now, src, dest, remote, warned, batch, seen, cand, disturbed, drops,
                   restarts>>

\* A conflict, or an error of the database: before the write was committed, or
\* when the row is read back after it.
SaveFails ==
    /\ At("move") /\ cand.plan = {}
    /\ \/ ~StoreAccepts /\ UNCHANGED records
       \/ "save" \in Faults /\ StoreAccepts /\ records' \in {records, Saved}
    /\ PersistFailure("record_save_failed")
    /\ UNCHANGED <<now, src, dest, remote, warned, revisions, batch, seen, cand,
                   step, disturbed, drops, restarts>>

-----------------------------------------------------------------------------
CacheIsCurrent == revisions[RecordId] = records[RecordId].rev

Booked == [records EXCEPT ![RecordId].rev = @ + 1, ![RecordId].booked = TRUE]

\* update_bookkeeping with the cached revision as expected_revision.
Bookkeeping ==
    /\ At("bookkeeping")
    /\ CacheIsCurrent
    /\ records' = Booked
    /\ revisions' = [revisions EXCEPT ![RecordId] = @ + 1]
    /\ step' = "sync"
    /\ UNCHANGED <<engineVars, now, src, dest, remote, warned, batch, seen, cand,
                   disturbed, drops, restarts>>

\* Mutant: the cache is advanced before the update is known to be committed.
BookkeepingFailsCached ==
    /\ At("bookkeeping") /\ "bookkeeping" \in Faults
    /\ revisions' = [revisions EXCEPT ![RecordId] = @ + 1]
    /\ Terminal("failed")
    /\ UNCHANGED <<now, src, dest, records, remote, warned, batch, seen, cand, step,
                   disturbed, drops, restarts>>

BookkeepingFails ==
    /\ At("bookkeeping")
    /\ "bookkeeping" \in Faults \/ ~CacheIsCurrent
    /\ records' \in {records} \cup (IF CacheIsCurrent THEN {Booked} ELSE {})
    /\ Terminal("failed")
    /\ UNCHANGED <<now, src, dest, remote, warned, revisions, batch, seen, cand,
                   step, disturbed, drops, restarts>>

\* trigger_sync: the backend answered synced, queued or skipped_noop.
SyncAccepted ==
    /\ At("sync")
    /\ remote' = remote \cup {RecordId}
    /\ Terminal("completed")
    /\ UNCHANGED <<now, src, dest, records, warned, revisions, batch, seen, cand, step,
                   disturbed, drops, restarts>>

\* Mutant: a failed sync completes the stage without marking or emitting.
SyncFailsSilently ==
    /\ At("sync") /\ "sync" \in Faults
    /\ Terminal("completed")
    /\ UNCHANGED worldVars

\* trigger_sync: an exception or another status. The answer may be what got
\* lost, after the backend had accepted the record.
SyncFails ==
    /\ At("sync") /\ "sync" \in Faults
    /\ remote' \in {remote, remote \cup {RecordId}}
    /\ step' = "mark"
    /\ UNCHANGED <<engineVars, now, src, dest, records, warned, revisions, batch, seen,
                   cand, disturbed, drops, restarts>>

\* _mark_runtime_record_unsynced: errors are swallowed; the cached revision is
\* refreshed by a read that may fail after the mark was stored.
MarkUnsynced ==
    /\ At("mark")
    /\ \/ /\ records' = [records EXCEPT ![RecordId].rev = @ + 1,
                                        ![RecordId].sync = "unsynced"]
          /\ \/ revisions' = [revisions EXCEPT ![RecordId] = records[RecordId].rev + 1]
             \/ "refresh" \in Faults /\ UNCHANGED revisions
       \/ /\ "mark" \in Faults
          /\ UNCHANGED <<records, revisions>>
    /\ step' = "emit"
    /\ UNCHANGED <<engineVars, now, src, dest, remote, warned, batch, seen, cand,
                   disturbed, drops, restarts>>

\* emit_sync_error, then completed with sync_warning. A raising emitter leaves
\* the stage through the engine's exception handler.
EmitSyncError ==
    /\ At("emit")
    /\ \/ /\ warned' = warned \cup {RecordId}
          /\ Terminal("completed")
       \/ /\ "emit" \in Faults
          /\ HandlerRaises
          /\ UNCHANGED warned
    /\ UNCHANGED <<now, src, dest, records, remote, revisions, batch, seen, cand, step,
                   disturbed, drops, restarts>>

NormalizeException == (Classify \/ BuildFailure) /\ UNCHANGED worldVars

-----------------------------------------------------------------------------
InFlight(n) == status \notin {"idle", "done"} /\ n \in {cand.name, cand.final}

\* The instrument (or an operator) writes a file under a new, an old or the
\* same mtime: mtimes survive copying.
Drop(n, t) ==
    /\ drops < MaxDrops
    /\ disturbed' = (disturbed \/ InFlight(n))
    /\ src' = [src EXCEPT ![n] = t]
    /\ drops' = drops + 1
    /\ UNCHANGED <<engineVars, now, dest, records, remote, warned, revisions,
                   batch, seen, cand, step, restarts>>

Withdraw(n) ==
    /\ src[n] # Missing
    /\ disturbed' = (disturbed \/ InFlight(n))
    /\ src' = [src EXCEPT ![n] = Missing]
    /\ UNCHANGED <<engineVars, now, dest, records, remote, warned, revisions,
                   batch, seen, cand, step, drops, restarts>>

Tick == /\ now < MaxTime
        /\ now' = now + 1
        /\ UNCHANGED <<engineVars, src, dest, records, remote, warned, revisions,
                       batch, seen, cand, step, disturbed, drops, restarts>>

\* The process ends wherever it is and is started again: what it kept in
\* memory is gone.
Restart ==
    /\ restarts < MaxRestarts
    /\ restarts' = restarts + 1
    /\ status' = "idle" /\ stage' = StartStage /\ log' = <<>>
    /\ kind' = "none" /\ emission' = "skipped"
    /\ revisions' = [id \in RecordIds |-> -1]
    /\ batch' = {} /\ seen' = {}
    /\ cand' = NoCandidate /\ step' = "none" /\ disturbed' = FALSE
    /\ UNCHANGED <<now, src, dest, records, remote, warned, drops>>

StageStep == \/ Resolve \/ Stabilize \/ Transform \/ Route
             \/ \E f \in Files : MoveFile(f) \/ MoveFails(f)
             \/ SaveRecord \/ SaveFails
             \/ Bookkeeping \/ BookkeepingFails
             \/ SyncAccepted \/ SyncFails \/ MarkUnsynced \/ EmitSyncError
             \/ NormalizeException

Environment == \/ \E n \in Names : Withdraw(n) \/ (\E t \in Times : Drop(n, t))
               \/ Tick
               \/ Restart

Next == StageStep \/ Discover \/ (\E event \in batch : Take(event)) \/ Environment

Spec == Init /\ [][Next]_vars

-----------------------------------------------------------------------------
Candidate == [name : Files, stamp : Times, final : Files,
              content : Times \cup {Missing}, forced : SUBSET Files,
              target : Targets, plan : SUBSET Files]

\* Type invariant.
TypeOK ==
    /\ EngineTypeOK
    /\ now \in Times
    /\ src \in [Files -> Times \cup {Missing}]
    /\ dest \in [Targets -> Times \cup {Missing}]
    /\ records \in [RecordIds -> Row \cup {Missing}]
    /\ revisions \in [RecordIds -> Nat \cup {-1}]
    /\ {remote, warned, batch, seen} \subseteq SUBSET RecordIds
    /\ cand \in Candidate \cup {NoCandidate}
    /\ step \in {"none", "resolve", "stabilize", "transform", "route", "move",
                 "bookkeeping", "sync", "mark", "emit"}
    /\ disturbed \in BOOLEAN
    /\ drops \in 0..MaxDrops /\ restarts \in 0..MaxRestarts

\* An event reported as succeeded is durable, whatever files its processor
\* returned and whatever failed in between: every file of the result lies under
\* the folder of the target path, the final one at the target path itself with
\* the content it had when the processor returned (for the event's own file:
\* when it was resolved) unless the instrument touched it in flight; the record
\* is stored with that target path and booked, and the backend has the record or
\* immediate_sync_error was emitted for it.
SuccessIsDurable ==
    status = "done" /\ kind = "succeeded" =>
        /\ \A f \in {cand.final} \cup cand.forced : dest[Target(f)] # Missing
        /\ ~disturbed => /\ dest[cand.target] = cand.content
                         /\ cand.final = cand.name => cand.content = cand.stamp
        /\ records[RecordId] # Missing /\ records[RecordId].booked
        /\ records[RecordId].target = cand.target
        /\ RecordId \in remote \cup warned

\* A record never exists before its file: wherever the process dies and however
\* often it is restarted, a stored record's target path holds a file.
RecordImpliesFile ==
    \A id \in RecordIds : records[id] # Missing => dest[records[id].target] # Missing

\* The revision cache never runs ahead of the store, although saves, updates
\* and marks may fail before or after their commit and the refresh may fail.
CacheNeverAhead ==
    \A id \in RecordIds :
        revisions[id] >= 0 =>
            records[id] # Missing /\ revisions[id] <= records[id].rev

\* A record this process has not cached, because an earlier process stored it
\* or because the save failed after its commit, keeps its content: a replay
\* starts at revision 0, which the store refuses.
ReplayKeepsRecords ==
    [][\A id \in RecordIds :
          records[id] # Missing /\ revisions[id] = -1
             => records'[id] = records[id]]_vars
=============================================================================
