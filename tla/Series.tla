------------------------------- MODULE Series -------------------------------
(***************************************************************************)
(* The device processors that collect the raw files and the export of one  *)
(* measurement under their common name: Zwick (.zs2 and .xlsx) and Horiba  *)
(* dissolver (.wdb, .wdk, .wdp and .txt) of ipat_watchdog, Zwick of        *)
(* dpost_v2.  A file is its name and its type.  Ages count ticks up to     *)
(* TTL + 1.                                                                *)
(***************************************************************************)
EXTENDS Integers

CONSTANTS
    Keys,        \* names (stems) of measurements
    Raws,        \* types of raw files; Zwick has "raw" only
    SeriesTTL,   \* ttl_seconds, in ticks
    MaxWrites,   \* bound on the files written
    Devices      \* the processors: "zwick", "dsv", "zwick_v2"

ASSUME SeriesAssumption ==
    /\ "raw" \in Raws /\ "exp" \notin Raws
    /\ SeriesTTL \in Nat /\ MaxWrites \in Nat
    /\ Devices \subseteq {"zwick", "dsv", "zwick_v2"}

VARIABLES
    device,    \* the processor
    series,    \* _series, _batches: what was seen of each name
    present,   \* files in the watch folder
    due,       \* files with an event queued or a retry scheduled
    asked,     \* those that have had their turn in this round of retries
    item,      \* the item in the pipeline: its source and its effective path
    writes,    \* number of files written
    filed,     \* history: files put into a record since they were written
    spoiled    \* history: names with a failure, a cancelled rename, a removed
               \* file or an event the TTL fallback used for another name

seriesVars == <<device, series, present, due, asked, item, writes, filed, spoiled>>

Types == Raws \cup {"exp"}
SeriesFiles == Keys \X Types
Key(f) == f[1]
FilesOf(k) == {k} \X Types
NoItem == [src |-> <<"none", "raw">>, eff |-> <<"none", "raw">>]
Closed == [open |-> FALSE, has |-> {}, ready |-> FALSE, age |-> 0]
Retried == device # "zwick_v2"

SeriesStart(d) ==
    /\ device = d /\ series = [k \in Keys |-> Closed] /\ present = {} /\ due = {}
    /\ asked = {} /\ item = NoItem /\ writes = 0 /\ filed = {} /\ spoiled = {}
SeriesInit == \E d \in Devices : SeriesStart(d)

(***************************************************************************)
(* Surroundings.                                                           *)
(***************************************************************************)

WriteFile(f) ==
    /\ f \notin present /\ (device = "dsv" \/ f[2] \in {"raw", "exp"})
    /\ writes < MaxWrites /\ writes' = writes + 1
    /\ present' = present \cup {f} /\ due' = due \cup {f} /\ filed' = filed \ {f}
    /\ UNCHANGED <<device, series, asked, item, spoiled>>

\* At most one file is lost in a behaviour, ahead of other failures.
LoseFile(f) ==
    /\ f \in present /\ spoiled = {}
    /\ present' = present \ {f} /\ spoiled' = spoiled \cup {Key(f)}
    /\ UNCHANGED <<device, series, due, asked, item, writes, filed>>

SeriesTick ==
    /\ series' = [k \in Keys |->
                    [series[k] EXCEPT !.age = IF series[k].open /\ @ <= SeriesTTL
                                              THEN @ + 1 ELSE @]]
    /\ UNCHANGED <<device, present, due, asked, item, writes, filed, spoiled>>

(***************************************************************************)
(* Preprocessing of the event of f.                                        *)
(***************************************************************************)

SeriesEvent(f) == item = NoItem /\ f \in due \ asked

\* The event of f has been handled; evs are left, each with one turn in a round.
Answered(f, evs) ==
    /\ due' = evs
    /\ asked' = IF evs \subseteq asked \cup {f} THEN {} ELSE (asked \cup {f}) \cap evs

\* The effective path goes into the pipeline, the source if it is not there.
TakeUp(f, eff) ==
    /\ item' = [src |-> f, eff |-> IF eff \in present THEN eff ELSE f]
    /\ Answered(f, due \ {f})

\* Mutant: nothing is retried.
PutOffOnce(f) == item' = NoItem /\ Answered(f, due \ {f})

\* Deferred: retried by ipat_watchdog while the path is there.
PutOff(f) ==
    /\ item' = NoItem
    /\ Answered(f, IF Retried /\ f \in present' THEN due ELSE due \ {f})

EventOfGone(f) ==
    /\ SeriesEvent(f) /\ f \notin present /\ Answered(f, due \ {f})
    /\ UNCHANGED <<device, series, present, item, writes, filed, spoiled>>

\* _find_ttl_ready_locked
TtlReady ==
    {k \in Keys : series[k].has = {"raw"} /\ series[k].age >= SeriesTTL}

\* has_native and has_exported, sentinel_xlsx behind last_zs2
Complete(types) == "exp" \in types /\ types \cap Raws # {}

\* Mutant: a raw file of the name is enough.
JoinedRawEnough(s, t) == [open |-> TRUE, has |-> s.has \cup {t}, ready |-> TRUE, age |-> 0]

\* The series with one more file of type t; every call refreshes its time.
Joined(s, t) == [open |-> TRUE, has |-> s.has \cup {t},
                 ready |-> Complete(s.has \cup {t}), age |-> 0]

\* Zwick: a series over the TTL is answered first, whatever the event is.
ZwickFallback(f) ==
    /\ device = "zwick" /\ SeriesEvent(f) /\ f \in present
    /\ \E k \in TtlReady :
          /\ TakeUp(f, <<k, "raw">>)
          /\ spoiled' = spoiled \cup {k, Key(f)}
    /\ UNCHANGED <<device, series, present, writes, filed>>

\* Zwick: an export needs its raw file first, then completes the series.
ZwickStage(f) ==
    /\ device = "zwick" /\ SeriesEvent(f) /\ f \in present /\ TtlReady = {}
    /\ IF f[2] = "exp" /\ "raw" \notin series[Key(f)].has
       THEN UNCHANGED <<series, present>> /\ PutOff(f)
       ELSE /\ series' = [series EXCEPT ![Key(f)] = Joined(@, f[2])]
            /\ UNCHANGED present
            /\ IF series'[Key(f)].ready THEN TakeUp(f, <<Key(f), "exp">>) ELSE PutOff(f)
    /\ UNCHANGED <<device, writes, filed, spoiled>>

\* The files seen of series k that are there.
Belonging(k) == {f \in FilesOf(k) \cap present : f[2] \in series[k].has}

\* _purge_orphans, behind the refresh of the name that was asked for.
Orphans(k) == {j \in Keys \ {k} : /\ series[j].open /\ ~series[j].ready
                                  /\ series[j].age > SeriesTTL}

\* Dissolver: the series is reported ready once.  Moving an orphan may fail.
DissolverStage(f) ==
    /\ device = "dsv" /\ SeriesEvent(f) /\ f \in present
    /\ LET k == Key(f)
           old == Orphans(k)
           orphaned == UNION {Belonging(j) : j \in old}
       IN /\ series' = [j \in Keys |-> IF j \in old THEN Closed
                                       ELSE IF j = k THEN Joined(series[k], f[2])
                                       ELSE series[j]]
          /\ \E stay \in SUBSET orphaned :
                /\ present' = present \ (orphaned \ stay)
                /\ spoiled' = spoiled \cup {Key(g) : g \in stay}
          /\ IF series'[k].ready /\ ~series[k].ready THEN TakeUp(f, f) ELSE PutOff(f)
    /\ UNCHANGED <<device, writes, filed>>

\* dpost_v2 prepare: an event comes once, an export ahead of its raw file has
\* had its chance.
ZwickPrepareV2(f) ==
    /\ device = "zwick_v2" /\ SeriesEvent(f)
    /\ LET k == Key(f)
           counts == f[2] # "exp" \/ "raw" \in series[k].has
           ready == f[2] = "exp" /\ counts
       IN /\ series' = IF counts THEN [series EXCEPT ![k] = Joined(@, f[2])] ELSE series
          /\ IF ready THEN item' = [src |-> f, eff |-> f] ELSE item' = NoItem
          /\ Answered(f, due \ {f})
    /\ UNCHANGED <<device, present, writes, filed, spoiled>>

(***************************************************************************)
(* The pipeline.                                                           *)
(***************************************************************************)

\* _pop_series_state, _batches.pop
Popped(k) == [series EXCEPT ![k] = Closed]

\* The raw files seen, which the dissolver zips.
RawsOf(k) == {f \in FilesOf(k) : f[2] \in series[k].has \cap Raws}

\* The series is popped and its files go into the record.  Zwick logs a file
\* that cannot be moved and carries on; the dissolver needs its files, but leaves
\* a zipped one behind that it cannot delete.
SeriesProcessed ==
    /\ item # NoItem
    /\ LET k == Key(item.eff)
           needed == {f \in FilesOf(k) : f[2] \in series[k].has}
       IN /\ series[k].open
          /\ device = "dsv" => needed \subseteq present
          /\ \E stay \in SUBSET Belonging(k) :
                /\ stay # {} => device = "zwick" \/ (device = "dsv" /\ stay \subseteq RawsOf(k))
                /\ present' = present \ (Belonging(k) \ stay)
                /\ filed' = filed \cup (Belonging(k) \ IF device = "dsv" THEN {} ELSE stay)
                /\ spoiled' = IF stay = {} THEN spoiled ELSE spoiled \cup {k}
          /\ series' = Popped(k)
    /\ item' = NoItem
    /\ UNCHANGED <<device, due, asked, writes>>

\* Processing raises: the effective path is moved to the exceptions folder (by
\* ipat_watchdog), the series is gone; the dissolver may have zipped the raw files.
SeriesFails ==
    /\ item # NoItem /\ item' = NoItem
    /\ LET k == Key(item.eff)
       IN /\ series' = Popped(k)
          /\ \E zipped \in {{}, RawsOf(k)} : \E gone \in SUBSET zipped :
                /\ zipped \subseteq present /\ (zipped # {} => device = "dsv")
                /\ present' = IF Retried THEN present \ ({item.eff} \cup gone) ELSE present
                /\ filed' = filed \cup zipped
          /\ spoiled' = spoiled \cup {k}
    /\ UNCHANGED <<device, due, asked, writes>>

\* Routing fails or the user cancels the rename, ahead of processing: the path
\* is moved away and the series stays as it is.
SeriesCancelled ==
    /\ item # NoItem /\ item' = NoItem
    /\ present' = IF Retried THEN present \ {item.eff} ELSE present
    /\ spoiled' = spoiled \cup {Key(item.eff)}
    /\ UNCHANGED <<device, series, due, asked, writes, filed>>

Collect(f) ==
    \/ EventOfGone(f) \/ ZwickFallback(f) \/ ZwickStage(f) \/ DissolverStage(f)
    \/ ZwickPrepareV2(f)
SeriesPipeline == SeriesProcessed \/ SeriesFails \/ SeriesCancelled

SeriesStep == SeriesPipeline \/ \E f \in SeriesFiles : Collect(f)

SeriesNext ==
    \/ SeriesStep \/ SeriesTick
    \/ \E f \in SeriesFiles : WriteFile(f) \/ LoseFile(f)

(***************************************************************************)
(* Properties.                                                             *)
(***************************************************************************)

SeriesTypeOK ==
    /\ device \in Devices \cup {"none"}
    /\ \A k \in Keys : /\ series[k].has \subseteq Types /\ series[k].age \in 0..SeriesTTL + 1
                       /\ series[k].ready => series[k].open
    /\ present \cup due \cup filed \subseteq SeriesFiles /\ spoiled \subseteq Keys
    /\ item # NoItem => {item.src, item.eff} \subseteq SeriesFiles

\* An export is put into a record only together with a raw file, in whatever
\* order the two arrived and whatever became of earlier files of the name, short
\* of a failure, a cancelled rename or a TTL fallback for it.
FiledTogether ==
    [][\A k \in Keys : <<k, "exp">> \in filed' \ filed /\ k \notin spoiled' =>
          \E t \in Raws : <<k, t>> \in filed' \ filed]_seriesVars

\* A raw file and an export of name k are among the files S.
HasPair(k, S) == Complete({t \in Types : <<k, t>> \in S})

\* A raw file and an export that lie together in the watch folder are taken up,
\* in whatever order they came, as ipat_watchdog retries what it puts off.  (Raw
\* files of the dissolver that come behind wait for another export.)
PairLeaves ==
    \A k \in Keys :
        (Retried /\ HasPair(k, present \cap due)) ~> (~HasPair(k, present) \/ k \in spoiled)

\* utm_zwick/file_processor.py:6 "If the sentinel never arrives, a TTL fallback
\* can process the `.zs2` alone."  A raw file of Zwick does not stay for good.
FallbackComes ==
    \A k \in Keys :
        (device = "zwick" /\ <<k, "raw">> \in present \cap due) ~>
            (<<k, "raw">> \notin present \/ k \in spoiled)
=============================================================================
