------------------------------- MODULE Watchdog -------------------------------
(***************************************************************************)
(* The legacy watchdog application: the observer thread and its gate for   *)
(* modified files, the event queue, the timers of the UI loop, and the     *)
(* pipeline that the UI thread runs for one path at a time: device         *)
(* resolution, the blocking stability guard, preprocessing, routing, the   *)
(* dialogs, rejection (ipat_watchdog/core/app/device_watchdog_app.py and   *)
(* core/processing).  Instruments write, replace and remove what is in the *)
(* watch directory at any time.                                            *)
(*                                                                         *)
(* The artefact that is processed need not be the path of the event: a     *)
(* preprocessor may answer with another path, or gather several into a     *)
(* staging folder.  Message boxes are modal: the UI thread waits in them   *)
(* for the user, with only its timers running.                             *)
(*                                                                         *)
(* A path's content is a version number, 0 when it is not there; each      *)
(* write gives a new one, as size and mtime do.  One poll interval of the  *)
(* stability guard is the unit of time.                                    *)
(***************************************************************************)
EXTENDS Integers, Sequences

CONSTANTS
    Paths,         \* names in the watch directory
    MaxVersion,    \* bound on the writes of each path
    Candidates,    \* [Paths -> [versions -> Seq(Devices)]]: selector matches
    Directories,   \* the paths that are folders; version 1 of one is empty
    Deferred,      \* folders deferred by name: temporary ones, staging folders
    Reappears,     \* devices with a reappear window
    Rewatched,     \* paths whose processor wants modified events, and copies
    Stages,        \* names of staging folders that preprocessors make
    Collectors,    \* devices whose processors track several paths at a time
    Lenient,       \* devices whose processing masks the moves that fail in it
    Sentinel,      \* [Paths -> Nat]: version with which the sentinel arrives
    StableCycles, MaxWait, Window,
    None           \* no path, no device

Devices == UNION {UNION {{Candidates[p][v][i] : i \in DOMAIN Candidates[p][v]} :
                            v \in 1..MaxVersion[p]} : p \in Paths}

ASSUME WatchdogAssumption ==
    /\ MaxVersion \in [Paths -> Nat \ {0}] /\ StableCycles \in Nat \ {0}
    /\ MaxWait \in Nat /\ Window \in Nat
    /\ \A S \in {Directories, Deferred, Rewatched} : S \subseteq Paths
    /\ Stages \subseteq Deferred
    /\ None \notin Paths
    /\ \A p \in Paths : \A v \in 1..MaxVersion[p] : Candidates[p][v] \in Seq(Devices)

VARIABLES
    fs,            \* version of each path
    last,          \* the last version written
    notices,       \* events the observer thread has not handled
    hot,           \* paths seen by the gate within its cooldown
    queue,         \* event_queue
    timers,        \* scheduled retries of each path
    pc,            \* where the UI thread is
    cur, dev,      \* the path it processes and the device selected for it
    eff,           \* effective_path of its candidate
    track,         \* locals of FileStabilityTracker.wait
    rejected,      \* _rejected_queue
    quiet,         \* history: polls since cur last changed
    due,           \* history: paths created under observation and still there,
                   \* but for those that an item has left behind
    taken          \* history: paths the pipeline has taken away unrejected

fileVars == <<fs, last, due>>
eventVars == <<notices, hot, queue, timers>>
workVars == <<cur, dev, eff, track, quiet>>
vars == <<fileVars, eventVars, workVars, pc, rejected, taken>>

Running == pc \notin {"closed", "hung"}
NoTrack == [snap |-> 0, cycles |-> 0, waited |-> 0]
Range(s) == {s[i] : i \in DOMAIN s}
Present == {p \in Paths : fs[p] > 0}

\* What a processor may move besides its artefact.
Others == IF dev \in Collectors THEN Present ELSE {}

\* The UI thread is in a modal dialog: of a warning, the rename dialog, of the
\* cancelled rename, of the immediate sync, of the exception handler, or of the
\* first rejection to be shown.
Waiting ==
    \/ pc \in {"warning", "rename", "cancelled", "sync", "exception"}
    \/ pc = "show" /\ rejected # <<>>

(***************************************************************************)
(* The instruments.                                                        *)
(***************************************************************************)

Write(p) ==
    /\ last[p] < MaxVersion[p] /\ last' = [last EXCEPT ![p] = @ + 1]
    /\ fs' = [fs EXCEPT ![p] = last[p] + 1]
    /\ quiet' = IF p = cur THEN 0 ELSE quiet
    /\ taken' = taken \ {p}
    /\ UNCHANGED <<hot, queue, timers, cur, dev, eff, track, pc, rejected>>

Notice(kind, p) == notices' = Append(notices, <<kind, p>>)

Create(p) ==
    /\ fs[p] = 0 /\ Write(p) /\ Notice("created", p)
    /\ due' = due \cup {p}

Modify(p) ==
    /\ fs[p] > 0 /\ Write(p) /\ UNCHANGED due
    /\ IF p \in Directories THEN UNCHANGED notices ELSE Notice("modified", p)

Remove(p) ==
    /\ fs[p] > 0 /\ fs' = [fs EXCEPT ![p] = 0] /\ quiet' = IF p = cur THEN 0 ELSE quiet
    /\ due' = due \ {p}
    /\ UNCHANGED <<last, eventVars, cur, dev, eff, track, pc, rejected, taken>>

(***************************************************************************)
(* The observer thread.                                                    *)
(***************************************************************************)

\* ModifiedEventGate.should_queue: a path a processor asks for, once per
\* cooldown.  Pruning forgets only paths whose cooldown is long over.
ShouldQueue(p) == p \in Rewatched /\ p \notin hot

\* on_created, on_modified
OnEvent ==
    /\ notices # <<>> /\ notices' = Tail(notices)
    /\ LET kind == Head(notices)[1]
           p == Head(notices)[2]
           put == kind = "created" \/ ShouldQueue(p)
       IN /\ queue' = IF put THEN Append(queue, p) ELSE queue
          /\ hot' = IF kind = "modified" /\ ShouldQueue(p) THEN hot \cup {p} ELSE hot
    /\ UNCHANGED <<fileVars, timers, workVars, pc, rejected, taken>>

\* The cooldown of a path is over.
Cooldown(p) ==
    /\ p \in hot /\ hot' = hot \ {p}
    /\ UNCHANGED <<fileVars, notices, queue, timers, workVars, pc, rejected, taken>>

(***************************************************************************)
(* Ends of an item.  process_events shows the rejections behind each one.  *)
(***************************************************************************)

Untrack == track' = NoTrack /\ quiet' = 0

EndItem == pc' = "show" /\ cur' = None /\ dev' = None /\ eff' = None /\ Untrack

\* The pipeline moves paths out of their place, and gives up others.
Vanish(gone, left) ==
    /\ fs' = [p \in Paths |-> IF p \in gone THEN 0 ELSE fs[p]]
    /\ due' = due \ (gone \cup left)
    /\ taken' = taken \cup (gone \ {cur})
    /\ UNCHANGED last

\* DEFERRED: _schedule_retry
Defer ==
    /\ EndItem /\ timers' = [timers EXCEPT ![cur] = @ + 1]
    /\ UNCHANGED <<notices, hot, queue, rejected>>

\* A rejection by the stability guard, and _handle_processing_failure, whose
\* exception _process_next_event swallows: the effective path is moved to the
\* exceptions folder by safe_move_to_exception, which masks a move that fails,
\* and the path of the event is reported.  Nothing will look at it again, be it
\* still there.
RejectSafely(target, gone) ==
    /\ \E moved \in SUBSET ({target} \cap Present) : Vanish(gone \cup moved, {cur})
    /\ rejected' = Append(rejected, cur) /\ EndItem
    /\ UNCHANGED eventVars

(***************************************************************************)
(* The UI thread.                                                          *)
(***************************************************************************)

Init ==
    /\ fs \in [Paths -> {0, 1}] /\ (\A p \in Stages : fs[p] = 0) /\ last = fs /\ due = {}
    /\ notices = <<>> /\ hot = {} /\ queue = <<>>
    /\ timers = [p \in Paths |-> 0]
    /\ pc = "idle" /\ cur = None /\ dev = None /\ eff = None /\ track = NoTrack
    /\ rejected = <<>> /\ taken = {} /\ quiet = 0

\* process_events takes one item.
Tick ==
    /\ pc = "idle" /\ queue # <<>>
    /\ cur' = Head(queue) /\ queue' = Tail(queue) /\ pc' = "resolve"
    /\ UNCHANGED <<fileVars, notices, hot, timers, dev, eff, track, quiet, rejected, taken>>

\* _enqueue_if_present: the timers run when the UI thread is in its loop, be it
\* the one of a dialog.
EnqueueIfPresent(p) ==
    /\ pc = "idle" \/ Waiting
    /\ timers[p] > 0 /\ timers' = [timers EXCEPT ![p] = @ - 1]
    /\ queue' = IF fs[p] > 0 THEN Append(queue, p) ELSE queue
    /\ UNCHANGED <<fileVars, notices, hot, workVars, pc, rejected, taken>>

\* matching_devices of the path as it is now.
Matching ==
    IF cur \in Deferred THEN <<>>
    ELSE Candidates[cur][IF fs[cur] = 0 THEN last[cur] ELSE fs[cur]]

Select(d) ==
    /\ dev' = d /\ pc' = "stabilize"
    /\ track' = [snap |-> fs[cur], cycles |-> 0, waited |-> 0]
    /\ quiet' = 0
    /\ UNCHANGED <<fileVars, eventVars, cur, eff, rejected, taken>>

Doom ==
    /\ pc' = "reject"
    /\ UNCHANGED <<fileVars, eventVars, workVars, rejected, taken>>

Matches(probes) == {i \in DOMAIN probes : probes[i] > 0}
Unknowns(probes) == {i \in DOMAIN probes : probes[i] = 0}
FirstOf(S) == CHOOSE i \in S : \A j \in S : i <= j

\* DeviceResolver._choose on the probes of the candidates in selector order: a
\* confidence for a match, 0 for unknown, -1 for a mismatch.  A tie at the top
\* goes to the first match of all, not to the first of the tied ones.
Chosen(probes) ==
    LET top == {i \in Matches(probes) : \A j \in Matches(probes) : probes[j] <= probes[i]}
    IN IF Matches(probes) # {}
       THEN IF \E i \in top : top = {i} THEN FirstOf(top) ELSE FirstOf(Matches(probes))
       ELSE IF Unknowns(probes) # {} THEN FirstOf(Unknowns(probes)) ELSE 0

\* Mutant: a path that is gone is rejected.
ResolveMissingRejects ==
    /\ pc = "resolve" /\ fs[cur] = 0 /\ cur \notin Deferred /\ RejectSafely(cur, {})

\* A path that is gone: a device with a reappear window may wait for it.
ResolveMissing ==
    /\ pc = "resolve" /\ fs[cur] = 0 /\ cur \notin Deferred
    /\ LET waiting == {i \in DOMAIN Matching : Matching[i] \in Reappears}
       IN IF waiting # {} THEN Select(Matching[FirstOf(waiting)])
          ELSE Defer /\ UNCHANGED <<fileVars, taken>>

\* Staging folders of the program itself and folders a device defers by name
\* (_is_internal_staging_path, should_defer_dir), and empty folders that no
\* device matches.
ResolveDefers ==
    /\ pc = "resolve"
    /\ cur \in Deferred \/ (fs[cur] = 1 /\ cur \in Directories /\ Matching = <<>>)
    /\ Defer /\ UNCHANGED <<fileVars, taken>>

\* What the probes of the candidates may answer; a single one is not probed.
Probes == IF Len(Matching) = 1 THEN {<<1>>} ELSE [DOMAIN Matching -> -1..2]

\* No selector matches, or every probe is a mismatch.
ResolveRejects ==
    /\ pc = "resolve" /\ fs[cur] > 0
    /\ cur \notin Deferred
    /\ ~(fs[cur] = 1 /\ cur \in Directories /\ Matching = <<>>)
    /\ \E probes \in Probes : Chosen(probes) = 0
    /\ Doom

ResolveSelects ==
    /\ pc = "resolve" /\ fs[cur] > 0
    /\ \E probes \in Probes : Chosen(probes) # 0 /\ Select(Matching[Chosen(probes)])

\* _reject_immediately: the move is not guarded.  When it raises, the item ends
\* with neither a rejection nor a retry.
RejectImmediately ==
    /\ pc = "reject" /\ EndItem
    /\ \/ cur \in Present /\ Vanish({cur}, {}) /\ rejected' = Append(rejected, cur)
       \/ Vanish({}, {cur}) /\ UNCHANGED rejected
    /\ UNCHANGED eventVars

(***************************************************************************)
(* FileStabilityTracker.wait: one round of the loop and the sleep after it.*)
(***************************************************************************)

Sleep(snap, cycles) ==
    /\ track' = [snap |-> snap, cycles |-> cycles, waited |-> track.waited + 1]
    /\ quiet' = quiet + 1
    /\ UNCHANGED <<fileVars, eventVars, cur, dev, eff, pc, rejected, taken>>

\* Mutant: the window is not looked at.
PollMissingWaits ==
    /\ pc = "stabilize" /\ fs[cur] = 0
    /\ IF dev \in Reappears THEN UNCHANGED vars ELSE RejectSafely(cur, {})

PollMissing ==
    /\ pc = "stabilize" /\ fs[cur] = 0
    /\ IF dev \in Reappears /\ track.waited < Window
       THEN Sleep(track.snap, track.cycles) ELSE RejectSafely(cur, {})

PollTimeout ==
    /\ pc = "stabilize" /\ fs[cur] > 0 /\ track.waited >= MaxWait
    /\ RejectSafely(cur, {})

PollChanged ==
    /\ pc = "stabilize" /\ fs[cur] > 0 /\ track.waited < MaxWait
    /\ fs[cur] # track.snap /\ Sleep(fs[cur], 0)

\* Mutant: the snapshot is not compared.
UnchangedAnyway == pc = "stabilize" /\ fs[cur] > 0 /\ track.waited < MaxWait

Unchanged ==
    pc = "stabilize" /\ fs[cur] > 0 /\ track.waited < MaxWait /\ fs[cur] = track.snap

\* Not stable long enough, or the sentinel is not there yet.
PollSame ==
    /\ Unchanged
    /\ track.cycles + 1 < StableCycles \/ (cur \in Directories /\ fs[cur] < Sentinel[cur])
    /\ Sleep(track.snap, track.cycles + 1)

Stable ==
    /\ Unchanged /\ track.cycles + 1 >= StableCycles
    /\ cur \in Directories => fs[cur] >= Sentinel[cur]
    /\ pc' = "prepare" /\ Untrack
    /\ UNCHANGED <<fileVars, eventVars, cur, dev, eff, rejected, taken>>

(***************************************************************************)
(* _execute_pipeline.                                                      *)
(***************************************************************************)

\* Preprocessing answers None: paired artefacts are awaited.  It may purge stale
\* ones on the way.
AwaitPair ==
    /\ pc = "prepare" /\ Defer
    /\ \E stale \in SUBSET Others : Vanish(stale, {})

\* Preprocessing answers with the path of the event, or with another one; when
\* that is not there, _derive_candidate_metadata takes the path of the event.
Prepare ==
    /\ pc = "prepare" /\ pc' = "route"
    /\ \E answer \in {cur} \cup Others, stale \in SUBSET Others :
          /\ Vanish(stale, {})
          /\ eff' = IF fs'[answer] > 0 THEN answer ELSE cur
    /\ UNCHANGED <<eventVars, cur, dev, track, quiet, rejected>>

\* Preprocessing gathers paths in a new staging folder and answers with that; a
\* move of one of them, the path of the event included, may fail.
Gather(stage) ==
    /\ pc = "prepare" /\ pc' = "route" /\ dev \in Collectors
    /\ fs[stage] = 0 /\ last[stage] < MaxVersion[stage]
    /\ \E moved \in SUBSET Present :
          /\ last' = [last EXCEPT ![stage] = @ + 1]
          /\ fs' = [p \in Paths |-> IF p = stage THEN last[stage] + 1
                                    ELSE IF p \in moved THEN 0 ELSE fs[p]]
          /\ taken' = (taken \cup (moved \ {cur})) \ {stage}
          /\ due' = (due \ moved) \cup {stage}
    /\ eff' = stage /\ Notice("created", stage)
    /\ UNCHANGED <<quiet, hot, queue, timers, cur, dev, track, rejected>>

\* Preprocessing, routing, processing, a move to the rename folder or a dialog
\* raises; processing may have moved artefacts by then.
Fails ==
    /\ pc \in {"prepare", "route", "warning", "rename", "cancelled"}
    /\ \E gone \in SUBSET (Others \cup ({eff} \cap Present)) :
          /\ gone # {} => pc = "route"
          /\ RejectSafely(IF pc = "prepare" THEN cur ELSE eff, gone)

\* determine_routing_state, _dispatch_route: the name is invalid, or its record
\* takes nothing more, which handle_unappendable_record warns of first.
AskForName ==
    /\ pc = "route" /\ pc' \in {"rename", "warning"}
    /\ UNCHANGED <<fileVars, eventVars, workVars, rejected, taken>>

ConfirmWarning ==
    /\ pc = "warning" /\ pc' = "rename"
    /\ UNCHANGED <<fileVars, eventVars, workVars, rejected, taken>>

\* The processing of this item need not move the path of its event: the artefact
\* is another one, its device masks failing moves, or copies the path because its
\* later modifications matter.
MayStay == eff # cur \/ dev \in Lenient \/ cur \in Rewatched

\* Mutant: a processor copies its source.
AcceptLeavesSource ==
    /\ pc = "route" /\ eff \in Present /\ EndItem
    /\ UNCHANGED <<fileVars, eventVars, rejected, taken>>

\* ACCEPT: add_item_to_record moves artefacts into the record.  The immediate
\* sync may show an error, whose own exception it masks.
Accept ==
    /\ pc = "route" /\ (eff \in Present \/ dev \in Lenient)
    /\ \E gone \in SUBSET (Others \cup ({eff} \cap Present)) :
          /\ ~MayStay => cur \in gone
          /\ fs' = [p \in Paths |-> IF p \in gone THEN 0 ELSE fs[p]]
          /\ due' = due \ (gone \cup (IF MayStay THEN {cur} ELSE {}))
          /\ taken' = taken \cup gone
    /\ EndItem \/ (pc' = "sync" /\ UNCHANGED workVars)
    /\ UNCHANGED <<last, eventVars, rejected>>

\* obtain_valid_prefix: the dialog comes back until the name is valid, and a
\* valid name is routed again.
Rename ==
    /\ pc = "rename" /\ pc' = "route"
    /\ UNCHANGED <<fileVars, eventVars, workVars, rejected, taken>>

\* Cancelled: the manual bucket, and a box that says so.
CancelRename ==
    /\ pc = "rename" /\ eff \in Present /\ pc' = "cancelled"
    /\ Vanish({eff}, {cur})
    /\ UNCHANGED <<eventVars, workVars, rejected>>

\* The box of the cancelled rename or of the sync is closed.
ConfirmEnd ==
    /\ pc \in {"cancelled", "sync"} /\ EndItem
    /\ UNCHANGED <<fileVars, eventVars, rejected, taken>>

(***************************************************************************)
(* Rejections, exceptions, closing.                                        *)
(***************************************************************************)

\* _handle_rejections shows one after the other; the user closes the box.
ConfirmRejection ==
    /\ pc = "show" /\ rejected # <<>> /\ rejected' = Tail(rejected)
    /\ UNCHANGED <<fileVars, eventVars, workVars, pc, taken>>

\* None is left, and the next check of the queue is scheduled.
NextCheck ==
    /\ pc = "show" /\ rejected = <<>> /\ pc' = "idle"
    /\ UNCHANGED <<fileVars, eventVars, workVars, rejected, taken>>

\* show_error raises out of process_events: the box of handle_exception, unless
\* that raises too; then nothing polls the queue any more.
ShowFails ==
    /\ pc = "show" /\ rejected # <<>> /\ rejected' = <<>>
    /\ pc' \in {"exception", "hung"}
    /\ UNCHANGED <<fileVars, eventVars, workVars, taken>>

\* on_closing
Close ==
    /\ pc \in {"idle", "exception", "hung"} /\ pc' = "closed"
    /\ UNCHANGED <<fileVars, eventVars, workVars, rejected, taken>>

\* Steps the UI thread takes by itself ...
UiStep ==
    \/ Tick \/ ResolveMissing \/ ResolveDefers \/ ResolveRejects \/ ResolveSelects
    \/ RejectImmediately \/ PollMissing \/ PollTimeout \/ PollChanged \/ PollSame \/ Stable
    \/ AwaitPair \/ Prepare \/ (\E stage \in Stages : Gather(stage))
    \/ (~Waiting /\ Fails) \/ AskForName \/ Accept \/ NextCheck

\* ... and those that a dialog waits for.
UserStep ==
    \/ ConfirmWarning \/ Rename \/ CancelRename \/ ConfirmEnd \/ (Waiting /\ Fails)
    \/ ConfirmRejection \/ ShowFails \/ Close

Next ==
    \/ UiStep \/ UserStep
    \/ Running /\ OnEvent
    \/ \E p \in Paths : Running /\ (EnqueueIfPresent(p) \/ Cooldown(p))
    \/ \E p \in Paths \ Stages : Running /\ (Create(p) \/ Modify(p) \/ Remove(p))

\* A run ends when the program is closed or nothing polls its queue any more.
\* The UI loop runs, and calls to the file system, the processors and Kadi come
\* back.  Neither the user, the instruments nor the observer thread owe anything.
Spec == Init /\ [][Next]_vars /\ WF_vars(UiStep)

(***************************************************************************)
(* Properties.                                                             *)
(***************************************************************************)

WatchdogTypeOK ==
    /\ \A p \in Paths : fs[p] \in 0..last[p] /\ last[p] \in 0..MaxVersion[p]
    /\ \A p \in Paths : timers[p] \in Nat
    /\ due \subseteq Present /\ taken \cap Present = {}
    /\ Range(queue) \cup hot \cup taken \cup Range(rejected)
         \subseteq Paths
    /\ pc \in {"idle", "resolve", "reject", "stabilize", "prepare", "route", "warning",
               "rename", "cancelled", "sync", "show", "exception", "closed", "hung"}
    /\ (cur = None) = (pc \in {"idle", "show", "exception", "closed", "hung"})
    /\ (eff # None) = (pc \in {"route", "warning", "rename", "cancelled", "sync"})
    /\ dev \in Devices \cup {None}
    /\ track.cycles \in 0..MaxWait /\ track.waited \in 0..(IF MaxWait < Window THEN Window ELSE MaxWait)

\* What was created under observation and is still in the watch directory is
\* queued, about to be, awaiting its retry or in work, whatever was deferred,
\* gathered, failed or written in between.  An item leaves its path behind with
\* nothing to bring it back only where the code gives it up: a failed move to the
\* exceptions folder (safe_move_to_exception masks it, _reject_immediately
\* raises); a candidate whose effective path is another one; and processing by a
\* device that masks failing moves, or of a path that is copied.
NothingDropped ==
    Running => \A p \in due :
        \/ p \in Range(queue) \cup {cur} \/ timers[p] > 0
        \/ \E i \in DOMAIN notices : notices[i][2] = p

\* A path goes into processing only after StableCycles - 1 whole poll intervals
\* without a write, also when it vanished and came back in between
\* (FileStabilityTracker.wait).
QuietBeforeUse ==
    [][pc = "stabilize" /\ pc' = "prepare" => quiet >= StableCycles - 1]_vars

\* A path that the pipeline has taken away, for its own item or for that of
\* another path, is not reported as rejected when one of its older events comes
\* up, unless its device waits for paths to reappear (DeviceResolver.resolve on
\* missing paths).
NoFalseRejection ==
    [][\A p \in taken : p = cur /\ dev \notin Reappears =>
          p \notin Range(rejected') \ Range(rejected)]_vars

\* The UI thread always comes back to its loop or to a dialog that waits for the
\* user, as long as the program runs: neither the stability guard, device
\* resolution, staging nor exceptions of any kind hold it up, whatever the
\* instruments write meanwhile.  A dialog does hold it up, and the queue with it,
\* until the user closes it.
ItemEnds == []<>(pc = "idle" \/ Waiting \/ ~Running)
=============================================================================
