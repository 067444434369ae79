---------------------------- MODULE SentinelBatch ----------------------------
(***************************************************************************)
(* The device processors that pair native measurement files with exports   *)
(* and stage whole batches: PSA Horiba and Kinexus of ipat_watchdog, PSA   *)
(* Horiba of dpost_v2.  A native waits for its export, pairs wait in a     *)
(* bucket, and an export that finds no native waiting is the sentinel: the *)
(* next native completes its pair and moves the batch into a staging       *)
(* folder, which then goes through the pipeline.                           *)
(*                                                                         *)
(* One watch folder, one sample name: staging folders differ by their      *)
(* index only, so a name that became free is taken again.  Ages count      *)
(* ticks and stop at TTL + 1, which is stale.  At most one mishap happens  *)
(* in a behaviour: a file is removed, a move or the making of a folder     *)
(* fails, the program restarts; all names of folders being taken is one.   *)
(***************************************************************************)
EXTENDS Integers, Sequences, FiniteSets

CONSTANTS
    Natives, Exports,  \* file names
    Stages,            \* staging folders: their indexes, and a last one for
                       \* the folder without an index
    TTL,               \* ttl_seconds, stale_after_seconds, in ticks
    MaxFiles,          \* bound on the files the instrument writes
    Kinds              \* the processors: "psa", "kinexus", "psa_v2"

ASSUME BatchAssumption ==
    /\ Natives \cap Exports = {} /\ "none" \notin Natives \cup Exports
    /\ Stages \subseteq Nat \ {0} /\ \E s \in Stages : \A t \in Stages : t <= s
    /\ TTL \in Nat /\ MaxFiles \in Nat
    /\ Kinds \subseteq {"psa", "kinexus", "psa_v2"}

VARIABLES
    kind,     \* the processor
    mem,      \* its fields: pending_ngb, bucket, sentinel of the folder state,
              \* batches (_finalizing), alias (_ngb_to_stage)
    watch,    \* files in the watch folder
    stage,    \* staging folders: their files and age
    events,   \* files with an event queued or a retry scheduled
    served,   \* those that have had their turn in this round of retries
    work,     \* the item in the pipeline: its file and staging folder
    written,  \* number of files written
    mishap    \* history: something failed outside the processor

batchVars == <<kind, mem, watch, stage, events, served, work, written, mishap>>

Files == Natives \cup Exports
Legacy == kind \in {"psa", "kinexus"}
NoFile == "none"
NoSentinel == [c |-> NoFile, age |-> 0]
NoStage == [files |-> {}, age |-> -1]
NoWork == [src |-> NoFile, to |-> 0]
Existing == {s \in Stages : stage[s] # NoStage}

NoMemory == [pending |-> <<>>, bucket |-> <<>>, sentinel |-> NoSentinel,
             batches |-> [s \in Stages |-> <<>>], alias |-> [n \in Natives |-> 0]]

Listed(pairs) == {pairs[i].c : i \in DOMAIN pairs} \cup {pairs[i].n : i \in DOMAIN pairs}

\* _FolderState.is_idle
IsIdle(m) == m.pending = <<>> /\ m.bucket = <<>> /\ m.sentinel = NoSentinel

\* _csv_tracked, _ngb_tracked
Tracked(m, f) ==
    \/ f = m.sentinel.c \/ f \in Listed(m.bucket)
    \/ \E i \in DOMAIN m.pending : m.pending[i].n = f

Start(k) ==
    /\ kind = k /\ mem = NoMemory /\ watch = {} /\ stage = [s \in Stages |-> NoStage]
    /\ events = {} /\ served = {} /\ work = NoWork /\ written = 0 /\ mishap = FALSE
BatchInit == \E k \in Kinds : Start(k)

(***************************************************************************)
(* Surroundings.                                                           *)
(***************************************************************************)

CreateFile(f) ==
    /\ f \notin watch /\ written < MaxFiles /\ written' = written + 1
    /\ watch' = watch \cup {f} /\ events' = events \cup {f}
    /\ UNCHANGED <<kind, mem, stage, served, work, mishap>>

\* A new modification time is a new event for dpost_v2.
Touch(f) ==
    /\ ~Legacy /\ f \in watch \ events /\ written < MaxFiles /\ written' = written + 1
    /\ events' = events \cup {f}
    /\ UNCHANGED <<kind, mem, watch, stage, served, work, mishap>>

RemoveFile(f) ==
    /\ f \in watch /\ ~mishap /\ mishap' = TRUE /\ watch' = watch \ {f}
    /\ UNCHANGED <<kind, mem, stage, events, served, work, written>>

\* The processor's state is in memory only.  Files that are there at start cause
\* no event in ipat_watchdog; dpost_v2 has seen none of them yet.
Restart ==
    /\ ~mishap /\ mishap' = TRUE
    /\ mem' = NoMemory /\ work' = NoWork /\ served' = {}
    /\ events' = IF Legacy THEN {} ELSE watch
    /\ UNCHANGED <<kind, watch, stage, written>>

Older(x) == [x EXCEPT !.age = IF @ > TTL THEN @ ELSE @ + 1]
TimePasses ==
    /\ mem' = [mem EXCEPT
                 !.pending = [i \in DOMAIN @ |-> Older(@[i])],
                 !.bucket = [i \in DOMAIN @ |-> Older(@[i])],
                 !.sentinel = IF @ = NoSentinel THEN @ ELSE Older(@)]
    /\ stage' = [s \in Stages |-> IF s \in Existing THEN Older(stage[s]) ELSE NoStage]
    /\ UNCHANGED <<kind, watch, events, served, work, written, mishap>>

(***************************************************************************)
(* Pairing.  An export takes the oldest native, or becomes the sentinel,   *)
(* in place of another one if need be.                                     *)
(***************************************************************************)

\* Mutant: an export becomes the sentinel unless one is waiting.
ExportFirst(m, c) ==
    IF m.sentinel = NoSentinel THEN [m EXCEPT !.sentinel = [c |-> c, age |-> 0]]
    ELSE IF m.pending = <<>> THEN m
    ELSE [m EXCEPT !.pending = Tail(@),
                   !.bucket = Append(@, [c |-> c, n |-> Head(m.pending).n, age |-> 0])]

\* _handle_csv, _handle_export, _prepare_csv
HandleExport(m, c) ==
    IF m.pending = <<>> THEN [m EXCEPT !.sentinel = [c |-> c, age |-> 0]]
    ELSE [m EXCEPT !.pending = Tail(@),
                   !.bucket = Append(@, [c |-> c, n |-> Head(m.pending).n, age |-> 0])]

\* _handle_ngb, _handle_native, _prepare_ngb without a sentinel
HandleNative(m, n) == [m EXCEPT !.pending = Append(@, [n |-> n, age |-> 0])]

Handle(m, f) == IF f \in Exports THEN HandleExport(m, f) ELSE HandleNative(m, f)

\* Mutant: no check whether the file is tracked.
NoteAlways(m, f) == Handle(m, f)

\* Mutant: a native that comes again starts its time anew.
NoteRefreshes(m, f) ==
    IF Tracked(m, f)
    THEN [m EXCEPT !.pending = [i \in DOMAIN @ |-> [@[i] EXCEPT !.age = 0]]]
    ELSE Handle(m, f)

\* ipat_watchdog ignores a file it tracks.
Note(m, f) == IF Tracked(m, f) THEN m ELSE Handle(m, f)

\* A native that meets the sentinel.
Completes(m, f) == f \in Natives /\ m.sentinel # NoSentinel /\ ~Tracked(m, f)
Batch(m, n) == Append(m.bucket, [c |-> m.sentinel.c, n |-> n, age |-> 0])

\* Mutant: a folder that is there is used again.
FirstStage == CHOOSE s \in Stages : \A t \in Stages : s <= t

\* create_unique_stage_dir, _create_unique_stage_dir: the first free index.  When
\* none is left ipat_watchdog takes the folder without one, be it there or not.
FreeStage ==
    IF Existing # Stages
    THEN CHOOSE s \in Stages \ Existing : \A t \in Stages \ Existing : s <= t
    ELSE CHOOSE s \in Stages : \A t \in Stages : t <= s

\* The state behind a flush of pairs into folder s: Kinexus remembers every
\* native of the batch, PSA the one that completed it.
Flushed(m, s, pairs, n) ==
    [pending |-> <<>>, bucket |-> <<>>, sentinel |-> NoSentinel,
     batches |-> [m.batches EXCEPT ![s] = pairs],
     alias |-> [x \in Natives |->
                  IF x = n \/ (kind = "kinexus" /\ x \in Listed(pairs))
                  THEN s ELSE m.alias[x]]]

(***************************************************************************)
(* Staleness.                                                              *)
(***************************************************************************)

\* The entries of s at the positions I, in their order.
Picked(s, I) == [k \in 1..Cardinality(I) |->
                   s[CHOOSE i \in I : Cardinality({j \in I : j <= i}) = k]]

\* The entries within the TTL.
Young(s) == Picked(s, {i \in DOMAIN s : s[i].age <= TTL})

\* ipat_watchdog: what _purge_stale keeps of the state ...
Fresh(m) ==
    [m EXCEPT !.pending = Young(@), !.bucket = Young(@),
              !.sentinel = IF @.age > TTL THEN NoSentinel ELSE @]

\* ... the files it moves to the exceptions folder ...
Purged(m) == {f \in Files : Tracked(m, f) /\ ~Tracked(Fresh(m), f)}

\* ... and the staging folders, which nobody looks at while the folder state is
\* idle (PSA; Kinexus listed the folders before).
StaleStages(m) ==
    {s \in Existing : /\ stage[s].age > TTL /\ m.batches[s] = <<>>
                      /\ kind = "psa" => ~IsIdle(Fresh(m))}

\* Kinexus forgets the natives of a folder it moves away.
Forget(m, S) ==
    [m EXCEPT !.alias = [n \in Natives |->
        IF kind # "psa" /\ @[n] \in S THEN 0 ELSE @[n]]]

\* dpost_v2: entries that are stale or whose files are gone, and batches of the
\* same kind with their aliases.  No file is moved.
Usable(m) ==
    LET dead == {s \in Stages : m.batches[s] # <<>> /\
                    (s \notin Existing \/ stage[s].age > TTL)}
        left == Fresh(m)
    IN [pending |-> Picked(left.pending, {i \in DOMAIN left.pending :
                                            left.pending[i].n \in watch}),
        bucket |-> Picked(left.bucket, {i \in DOMAIN left.bucket :
                                          {left.bucket[i].c, left.bucket[i].n} \subseteq watch}),
        sentinel |-> IF left.sentinel.c \in watch THEN left.sentinel ELSE NoSentinel,
        batches |-> [s \in Stages |-> IF s \in dead THEN <<>> ELSE m.batches[s]],
        alias |-> [n \in Natives |-> IF m.alias[n] \in dead THEN 0 ELSE m.alias[n]]]

(***************************************************************************)
(* Preprocessing of the event of f.                                        *)
(***************************************************************************)

Event(f) == work = NoWork /\ f \in events \ served

\* Files whose move fails: none, or one by a mishap.
Stuck(S) == {{}} \cup (IF mishap THEN {} ELSE {{f} : f \in S})

\* The event of f has been handled and evs are left.  A file that waits is
\* retried after a fixed delay, so that all have their turn once in a round.
Handled(f, evs) ==
    /\ events' = evs
    /\ served' = IF evs \subseteq served \cup {f} THEN {} ELSE (served \cup {f}) \cap evs
Ended(f) == Handled(f, events \ {f})

\* Deferred: the application tries again as long as the path is there.
Defer(f) == IF f \in watch' THEN Handled(f, events) ELSE Ended(f)

\* The path handed to the pipeline is folder s, or the file where that is gone.
Advertise(f, s) ==
    /\ work' = [src |-> f, to |-> IF stage'[s] # NoStage THEN s ELSE 0]
    /\ Ended(f)

\* A native whose name belongs to a staged batch.
FollowAlias(f) ==
    /\ Event(f) /\ f \in Natives /\ mem.alias[f] # 0
    /\ UNCHANGED <<kind, mem, watch, stage, written, mishap>>
    /\ Advertise(f, mem.alias[f])

NotAliased(f) == f \in Natives => mem.alias[f] = 0

\* The path is gone: no result, or an error.
PrepareGone(f) ==
    /\ Event(f) /\ NotAliased(f) /\ f \notin watch /\ Ended(f)
    /\ UNCHANGED <<kind, mem, watch, stage, work, written, mishap>>

\* ipat_watchdog: device_specific_preprocessing without a flush.
Prepare(f) ==
    /\ Legacy /\ Event(f) /\ NotAliased(f) /\ f \in watch /\ ~Completes(mem, f)
    /\ LET m == Note(mem, f)
       IN /\ mem' = Forget(Fresh(m), StaleStages(m))
          /\ stage' = [s \in Stages |-> IF s \in StaleStages(m) THEN NoStage ELSE stage[s]]
          /\ \E stay \in Stuck(Purged(m) \cap watch) :
                /\ watch' = watch \ (Purged(m) \ stay)
                /\ mishap' = (mishap \/ stay # {})
    /\ Defer(f)
    /\ UNCHANGED <<kind, work, written>>

\* ipat_watchdog: the flush.  A failing move is logged and the batch goes on
\* with the next pair: a native whose export stays is not moved either.
Flush(f) ==
    /\ Legacy /\ Event(f) /\ NotAliased(f) /\ f \in watch /\ Completes(mem, f)
    /\ LET pairs == Batch(mem, f)
           s == FreeStage
       IN \E stay \in Stuck(Listed(pairs) \cap watch) :
             LET behind == {x \in Natives : \E i \in DOMAIN pairs :
                               pairs[i].n = x /\ pairs[i].c \in stay}
                 moved == (Listed(pairs) \cap watch) \ (stay \cup behind)
             IN /\ stage' = [stage EXCEPT ![s] = [files |-> @.files \cup moved, age |-> 0]]
                /\ watch' = watch \ moved
                /\ mishap' = (mishap \/ stay # {} \/ Existing = Stages)
                /\ mem' = Flushed(mem, s, pairs, f)
                /\ Advertise(f, s)
    /\ UNCHANGED <<kind, written>>

\* dpost_v2: prepare without a flush; the event does not come again.
PrepareV2(f) ==
    /\ ~Legacy /\ Event(f) /\ NotAliased(f) /\ f \in watch
    /\ f \in Exports \/ Usable(mem).sentinel = NoSentinel
    /\ mem' = Handle(Usable(mem), f) /\ Ended(f)
    /\ UNCHANGED <<kind, watch, stage, work, written, mishap>>

\* The files of a batch in the order of the moves.
MoveOrder(pairs) ==
    [i \in 1..2 * Len(pairs) |->
        IF i % 2 = 1 THEN pairs[(i + 1) \div 2].c ELSE pairs[i \div 2].n]

\* dpost_v2: the flush stops at the first move that raises, of a file that was
\* moved already or that stays.  Its indexes have no end.
FlushV2(f) ==
    /\ ~Legacy /\ Event(f) /\ NotAliased(f) /\ f \in watch /\ f \in Natives
    /\ LET m == Usable(mem)
           pairs == Batch(m, f)
           order == MoveOrder(pairs)
       IN /\ m.sentinel # NoSentinel /\ Existing # Stages
          /\ \E stay \in Stuck(Listed(pairs)) :
                LET raises == {i \in DOMAIN order : order[i] \in stay \cup
                                                      {order[j] : j \in 1..i - 1}}
                    done == {order[j] : j \in {j \in DOMAIN order : \A i \in raises : j < i}}
                IN /\ stage' = [stage EXCEPT ![FreeStage] =
                                  [files |-> @.files \cup done, age |-> 0]]
                   /\ watch' = watch \ done /\ mishap' = (mishap \/ stay # {})
                   /\ IF raises = {}
                      THEN mem' = Flushed(m, FreeStage, pairs, f) /\ Advertise(f, FreeStage)
                      ELSE mem' = m /\ Ended(f) /\ UNCHANGED work
    /\ UNCHANGED <<kind, written>>

\* The staging folder cannot be made: ipat_watchdog rejects the native of the
\* event, in dpost_v2 the event fails; what is tracked stays so.
StageFails(f) ==
    /\ Event(f) /\ NotAliased(f) /\ f \in watch /\ ~mishap /\ mishap' = TRUE
    /\ \/ Legacy /\ Completes(mem, f) /\ watch' = watch \ {f} /\ UNCHANGED mem
       \/ /\ ~Legacy /\ f \in Natives /\ Usable(mem).sentinel # NoSentinel
          /\ mem' = Usable(mem) /\ UNCHANGED watch
    /\ Ended(f) /\ UNCHANGED <<kind, stage, work, written>>

(***************************************************************************)
(* The pipeline.                                                           *)
(***************************************************************************)

\* The folder is moved away as a whole (to the exceptions, to the manual
\* bucket), unless that fails.  dpost_v2 leaves it where it is.
MoveStage(s, left) ==
    \/ Legacy /\ stage' = [left EXCEPT ![s] = NoStage] /\ UNCHANGED mishap
    \/ Legacy /\ ~mishap /\ mishap' = TRUE /\ stage' = left
    \/ ~Legacy /\ stage' = left /\ UNCHANGED mishap

\* What processing may take from folder s: the batch as it was staged or, when
\* that is not known, as many pairs as reconstruct_pairs_from_stage finds
\* (dpost_v2 raises unless they leave nothing over).
Takes(s) ==
    LET batch == mem.batches[s]
        There(T, S) == Cardinality(T \cap S)
        Balanced(T) == There(T, Exports) = There(T, Natives) /\ T # {}
        Full(T) == There(T, Exports) = There(stage[s].files, Exports)
                   \/ There(T, Natives) = There(stage[s].files, Natives)
    IN IF batch # <<>> THEN {Listed(batch)} \cap SUBSET stage[s].files
       ELSE {T \in SUBSET stage[s].files :
                /\ Balanced(T) /\ Full(T)
                /\ Legacy \/ T = stage[s].files}

\* _finalizing.pop
Forgotten(s) == [mem EXCEPT !.batches[s] = <<>>]

\* device_specific_processing, process: all is moved or zipped into the record,
\* an empty folder removed, its aliases forgotten.
Processed ==
    /\ work.to # 0
    /\ \E T \in Takes(work.to) :
          LET rest == stage[work.to].files \ T
          IN stage' = [stage EXCEPT ![work.to] =
                         IF rest = {} THEN NoStage ELSE [files |-> rest, age |-> 0]]
    /\ mem' = [Forgotten(work.to) EXCEPT !.alias = [n \in Natives |->
                                           IF @[n] = work.to THEN 0 ELSE @[n]]]
    /\ work' = NoWork
    /\ UNCHANGED <<kind, watch, events, served, written, mishap>>

\* It raises, for a missing file or a failing move, behind the first k pairs.
\* The aliases stay.
ProcessingFails ==
    /\ work.to # 0
    /\ \E k \in 0..Len(mem.batches[work.to]) :
          LET done == Listed(SubSeq(mem.batches[work.to], 1, k))
          IN MoveStage(work.to, [stage EXCEPT ![work.to].files = @ \ done])
    /\ mem' = Forgotten(work.to) /\ work' = NoWork
    /\ UNCHANGED <<kind, watch, events, served, written>>

\* The user cancels the rename, or routing fails, ahead of processing.
Cancelled ==
    /\ work.to # 0 /\ MoveStage(work.to, stage) /\ work' = NoWork
    /\ UNCHANGED <<kind, mem, watch, events, served, written>>

\* The alias led to a folder that is gone: the native is rejected.
RejectAliased ==
    /\ work # NoWork /\ work.to = 0 /\ work' = NoWork
    /\ \/ Legacy /\ watch' = watch \ {work.src} /\ UNCHANGED mishap
       \/ ~Legacy /\ UNCHANGED <<watch, mishap>>
       \/ Legacy /\ work.src \in watch /\ ~mishap /\ mishap' = TRUE /\ UNCHANGED watch
    /\ UNCHANGED <<kind, mem, stage, events, served, written>>

Preprocess(f) ==
    \/ FollowAlias(f) \/ PrepareGone(f) \/ Prepare(f) \/ Flush(f)
    \/ PrepareV2(f) \/ FlushV2(f) \/ StageFails(f)
Pipeline == Processed \/ ProcessingFails \/ Cancelled \/ RejectAliased

BatchStep == Pipeline \/ \E f \in Files : Preprocess(f)

BatchNext ==
    \/ BatchStep \/ TimePasses \/ Restart
    \/ \E f \in Files : CreateFile(f) \/ Touch(f) \/ RemoveFile(f)

(***************************************************************************)
(* Properties.                                                             *)
(***************************************************************************)

BatchTypeOK ==
    /\ kind \in Kinds \cup {"none"} /\ watch \cup events \subseteq Files
    /\ served \subseteq events
    /\ \A i \in DOMAIN mem.pending : mem.pending[i].n \in Natives
    /\ \A i \in DOMAIN mem.bucket : mem.bucket[i].c \in Exports /\ mem.bucket[i].n \in Natives
    /\ mem.sentinel.c \in Exports \cup {NoFile}
    /\ \A n \in Natives : mem.alias[n] \in Stages \cup {0}
    /\ \A s \in Stages : stage[s].files \subseteq Files /\ stage[s].age \in -1..TTL + 1
    /\ work.src \in Files \cup {NoFile} /\ work.to \in Stages \cup {0}

\* A sentinel and waiting natives exclude each other, over all arrivals,
\* retries, purges and restarts: otherwise a batch would be closed while
\* natives of it still wait, and lose them (pending_ngb.clear() in the flush).
SentinelExclusive == mem.sentinel # NoSentinel => mem.pending = <<>>

\* ipat_watchdog tracks a file in one place, although the application presents
\* every waiting file again and again: no file ends up in two pairs.
TrackedOnce ==
    Legacy =>
        \A i, j \in DOMAIN mem.bucket :
            /\ i # j => mem.bucket[i].n # mem.bucket[j].n /\ mem.bucket[i].c # mem.bucket[j].c
            /\ mem.bucket[i].c # mem.sentinel.c
            /\ \A k \in DOMAIN mem.pending : mem.pending[k].n # mem.bucket[i].n

\* A batch in the pipeline lies complete in its folder, whatever was purged,
\* rejected, cancelled or staged under the same name before; in dpost_v2 even if
\* files were removed, as its flush raises instead.
BatchIsWhole ==
    work.to # 0 /\ mem.batches[work.to] # <<>> /\ (Legacy => ~mishap) =>
        Listed(mem.batches[work.to]) = stage[work.to].files

\* A native never stays in the watch folder for good: it is staged with its
\* batch, or purged after the TTL (_purge_stale, run by the retries).
NativesLeave ==
    \A n \in Natives : (Legacy /\ n \in watch) ~> (n \notin watch \/ mishap)
=============================================================================
