---------------------------- MODULE WatchdogProofs ----------------------------
(* Proofs about Watchdog, for any paths, devices, selectors and bounds: nothing
   that was created under observation is dropped, only what was quiet is
   processed, and what was processed is not reported as rejected. *)
EXTENDS Watchdog, WellFoundedInduction, TLAPS

(***************************************************************************)
(* The invariant.                                                          *)
(***************************************************************************)

\* Paths that have been there.
Written == {p \in Paths : last[p] > 0}

\* The UI thread has a path in work.
Working == {"resolve", "reject", "stabilize", "prepare", "route", "warning", "rename",
            "cancelled", "sync"}

\* The item in work has been dealt with, but for a message to the user.
Told == {"cancelled", "sync"}

\* The events of the observer.
Kinds == {"created", "modified"}

\* Types; what is queued, awaited or in work has been there.
TypeInv ==
    /\ fs \in [Paths -> Nat] /\ last \in [Paths -> Nat]
    /\ \A p \in Paths : fs[p] <= last[p] /\ last[p] <= MaxVersion[p]
    /\ timers \in [Paths -> Nat] /\ \A p \in Paths : timers[p] > 0 => p \in Written
    /\ queue \in Seq(Written) /\ notices \in Seq(Kinds \X Written)
    /\ IF pc \in Working THEN cur \in Written ELSE cur = None
    /\ quiet \in Nat /\ track \in [snap : Nat, cycles : Nat, waited : Nat]

\* What is due is there.
DueInv == \A p \in due : p \in Paths /\ fs[p] > 0

\* A path that is there is accounted for.  A modification in the observer's queue
\* does not account for it, as the gate may refuse it, and neither does a message
\* about what has become of the path.
Kept(p) ==
    \/ p \in Range(queue) \/ (p = cur /\ pc \notin Told) \/ timers[p] > 0
    \/ <<"created", p>> \in Range(notices)

\* Everything the application has been told of is kept.
KeptInv == Running => \A p \in due : Kept(p)

\* The tracker compares with a version that was written, and as long as that one
\* is there it has counted no more cycles than passed without a write.
QuietInv ==
    pc = "stabilize" =>
        /\ track.snap <= last[cur]
        /\ fs[cur] = track.snap /\ fs[cur] > 0 => quiet >= track.cycles

\* What was taken away is not there; and when it is in work all the same, its
\* device waits for it.
TakenInv ==
    /\ taken \subseteq Paths /\ \A p \in taken : fs[p] = 0
    /\ pc \in Working \ {"resolve", "sync"} /\ cur \in taken => dev \in Reappears

\* The inductive invariant.
WatchdogInv == TypeInv /\ DueInv /\ KeptInv /\ QuietInv /\ TakenInv

(***************************************************************************)
(* Sequences.                                                              *)
(***************************************************************************)

\* The members of a queue after appending to it.
LEMMA AppendRange ==
    ASSUME NEW S, NEW s \in Seq(S), NEW x \in S
    PROVE  Append(s, x) \in Seq(S) /\ Range(Append(s, x)) = Range(s) \cup {x}
<1>1. /\ Append(s, x) \in Seq(S) /\ Len(s) \in Nat /\ DOMAIN s = 1..Len(s)
      /\ DOMAIN Append(s, x) = 1..Len(s) + 1 /\ Append(s, x)[Len(s) + 1] = x
      /\ \A i \in 1..Len(s) : Append(s, x)[i] = s[i]
  OBVIOUS
<1>2. \A i \in 1..Len(s) + 1 : i \in 1..Len(s) \/ i = Len(s) + 1
  BY <1>1
<1>3. Len(s) + 1 \in 1..Len(s) + 1 /\ \A i \in 1..Len(s) : i \in 1..Len(s) + 1
  BY <1>1
<1> QED BY <1>1, <1>2, <1>3 DEF Range

\* The members of a queue are its head and those of the rest.
LEMMA TailRange ==
    ASSUME NEW S, NEW s \in Seq(S), s # <<>>
    PROVE  /\ Tail(s) \in Seq(S) /\ Head(s) \in S
           /\ Range(s) = Range(Tail(s)) \cup {Head(s)}
<1>1. /\ Tail(s) \in Seq(S) /\ Len(s) \in Nat /\ Len(s) > 0 /\ DOMAIN s = 1..Len(s)
      /\ DOMAIN Tail(s) = 1..Len(s) - 1 /\ Head(s) = s[1] /\ 1 \in 1..Len(s)
      /\ \A i \in 1..Len(s) - 1 : Tail(s)[i] = s[i + 1] /\ i + 1 \in 1..Len(s)
  OBVIOUS
<1>2. ASSUME NEW i \in 1..Len(s) PROVE i = 1 \/ \E j \in 1..Len(s) - 1 : Tail(s)[j] = s[i]
  <2>1. CASE i # 1
    <3>1. i - 1 \in 1..Len(s) - 1 /\ i - 1 + 1 = i
      BY <1>1, <2>1
    <3>2. Tail(s)[i - 1] = s[i - 1 + 1]
      BY <1>1, <3>1
    <3> QED BY <3>1, <3>2
  <2> QED BY <2>1
<1>3. Range(s) \subseteq Range(Tail(s)) \cup {Head(s)}
  <2> SUFFICES ASSUME NEW i \in 1..Len(s) PROVE s[i] \in Range(Tail(s)) \cup {Head(s)}
    BY <1>1 DEF Range
  <2>1. CASE i = 1
    BY <1>1, <2>1
  <2>2. CASE \E j \in 1..Len(s) - 1 : Tail(s)[j] = s[i]
    BY <1>1, <2>2 DEF Range
  <2> QED BY <1>2, <2>1, <2>2
<1>4. Range(Tail(s)) \cup {Head(s)} \subseteq Range(s)
  BY <1>1 DEF Range
<1> QED BY <1>1, <1>3, <1>4

\* Sequences over more.
LEMMA WiderSeq ==
    ASSUME NEW S, NEW T, S \subseteq T, NEW s \in Seq(S)
    PROVE  s \in Seq(T)
OBVIOUS

\* The first of a set of positions is one of them.
LEMMA FirstIsMember ==
    ASSUME NEW S, S \subseteq Nat, S # {}
    PROVE  FirstOf(S) \in S
<1>1. IsWellFoundedOn(OpToRel(<, Nat), Nat)
  BY NatLessThanWellFounded
<1>2. PICK x \in S : \A y \in S : ~(<<y, x>> \in OpToRel(<, Nat))
  BY <1>1, WFMin
<1>3. \A y \in S : ~(y < x)
  BY <1>2 DEF OpToRel
<1>4. \A y \in S : x <= y
  BY <1>3
<1> QED BY <1>4 DEF FirstOf

(***************************************************************************)
(* The steps, by what they do to the item in work.                         *)
(***************************************************************************)

\* A device is selected for a path that is there, or that it waits for.
Selected ==
    pc = "resolve" /\ \E d : Select(d) /\ (fs[cur] > 0 \/ d \in Reappears)

\* The pipeline moves some paths.
Moves(left) == \E gone \in SUBSET Paths : Vanish(gone, left)

\* The item is rejected: by the guard, or because something raised.
Rejection ==
    /\ pc \in {"stabilize", "prepare", "route", "warning", "rename", "cancelled"}
    /\ Moves({cur}) /\ rejected' = Append(rejected, cur) /\ EndItem
    /\ UNCHANGED eventVars

\* The item is deferred.
Deferral == pc \in Working \ Told /\ Defer /\ Moves({})

\* One round of the tracker.
Polled ==
    /\ pc = "stabilize"
    /\ \/ fs[cur] = 0 /\ Sleep(track.snap, track.cycles)
       \/ fs[cur] > 0 /\ fs[cur] # track.snap /\ Sleep(fs[cur], 0)
       \/ fs[cur] > 0 /\ fs[cur] = track.snap /\ Sleep(track.snap, track.cycles + 1)

\* The item goes on to its next phase.
GoesOn ==
    /\ \/ pc = "resolve" /\ pc' = "reject" /\ fs[cur] > 0
       \/ pc \in {"route", "warning"} /\ pc' \in {"rename", "warning"}
       \/ pc = "rename" /\ pc' = "route"
    /\ UNCHANGED <<fileVars, eventVars, workVars, rejected, taken>>

\* Preprocessing has an answer, from what is there.
Prepared ==
    /\ pc = "prepare" /\ pc' = "route" /\ Moves({})
    /\ UNCHANGED <<eventVars, cur, dev, track, quiet, rejected>>

\* Nobody is in work.
Between ==
    /\ pc \in {"idle", "show", "exception", "hung"}
    /\ pc' \in {"idle", "show", "exception", "closed", "hung"}
    /\ pc # "hung" \/ pc' = "closed"
    /\ UNCHANGED <<fileVars, eventVars, workVars, taken>>

\* Moving nothing is a case of moving.
LEMMA StillMoves == ASSUME TypeInv, UNCHANGED <<fileVars, taken>> PROVE Moves({})
<1>1. fs' = [p \in Paths |-> IF p \in {} THEN 0 ELSE fs[p]]
  BY DEF TypeInv, fileVars
<1>2. Vanish({}, {})
  BY <1>1 DEF Vanish, fileVars
<1> QED BY <1>2 DEF Moves

\* A missing path's device waits for it.
LEMMA MissingSelect ==
    ASSUME TypeInv, ResolveMissing
    PROVE  Selected \/ Deferral
<1> DEFINE waiting == {i \in DOMAIN Matching : Matching[i] \in Reappears}
<1>1. pc = "resolve" /\ fs[cur] = 0 /\ cur \notin Deferred
  BY DEF ResolveMissing
<1>2. CASE waiting = {}
  BY <1>1, <1>2, StillMoves DEF ResolveMissing, Deferral, Working, Told
<1>3. CASE waiting # {}
  <2>1. cur \in Paths /\ last[cur] \in 1..MaxVersion[cur]
    BY <1>1, WatchdogAssumption DEF TypeInv, Working, Written
  <2>2. Matching = Candidates[cur][last[cur]]
    BY <1>1 DEF Matching
  <2>3. Matching \in Seq(Devices)
    BY <2>1, <2>2, WatchdogAssumption
  <2>4. waiting \subseteq Nat
    BY <2>3
  <2>5. FirstOf(waiting) \in waiting
    <3> HIDE DEF waiting
    <3> QED BY <1>3, <2>4, FirstIsMember
  <2>6. Select(Matching[FirstOf(waiting)])
    BY <1>3 DEF ResolveMissing
  <2> QED BY <1>1, <2>5, <2>6 DEF Selected
<1> QED BY <1>2, <1>3

\* Every step of the UI thread and the user is one of these.
LEMMA UiSteps ==
    ASSUME TypeInv, UiStep \/ UserStep
    PROVE  \/ Tick \/ Selected \/ Rejection \/ Polled \/ GoesOn \/ Between \/ Deferral
           \/ Stable \/ Prepared \/ (\E stage \in Stages : Gather(stage))
           \/ RejectImmediately \/ Accept \/ CancelRename \/ ConfirmEnd
<1>0. Others \subseteq Paths /\ Present \subseteq Paths
  BY DEF Others, Present
<1>1. CASE ResolveMissing
  BY <1>1, MissingSelect
<1>2. CASE ResolveDefers
  BY <1>2, StillMoves DEF ResolveDefers, Deferral, Working, Told
<1>3. CASE AwaitPair
  BY <1>0, <1>3 DEF AwaitPair, Deferral, Moves, Working, Told
<1>4. CASE ResolveRejects
  BY <1>4 DEF ResolveRejects, Doom, GoesOn
<1>5. CASE ResolveSelects
  BY <1>5 DEF ResolveSelects, Doom, GoesOn, Selected
<1>6. ASSUME NEW target, NEW gone \in SUBSET Paths, RejectSafely(target, gone),
             pc \in {"stabilize", "prepare", "route", "warning", "rename", "cancelled"}
      PROVE  Rejection
  BY <1>0, <1>6 DEF RejectSafely, Rejection, Moves
<1>7. CASE PollMissing \/ PollTimeout
  BY <1>6, <1>7 DEF PollMissing, PollTimeout, Polled
<1>8. CASE PollChanged \/ PollSame
  BY <1>8 DEF PollChanged, PollSame, Unchanged, Polled
<1>9. CASE Prepare
  BY <1>0, <1>9 DEF Prepare, Prepared, Moves
<1>10. CASE Fails
  BY <1>0, <1>6, <1>10 DEF Fails
<1>11. CASE AskForName \/ ConfirmWarning \/ Rename
  BY <1>11 DEF AskForName, ConfirmWarning, Rename, GoesOn
<1>12. CASE ConfirmRejection \/ NextCheck \/ ShowFails \/ Close
  BY <1>12 DEF ConfirmRejection, NextCheck, ShowFails, Close, Between
<1> QED BY <1>1, <1>2, <1>3, <1>4, <1>5, <1>7, <1>8, <1>9, <1>10, <1>11, <1>12
        DEF UiStep, UserStep

\* All steps.
LEMMA Steps ==
    ASSUME TypeInv, [Next]_vars
    PROVE  \/ \E p \in Paths : Create(p) \/ Modify(p) \/ Remove(p)
           \/ \E p \in Paths : EnqueueIfPresent(p) \/ Cooldown(p)
           \/ OnEvent \/ Tick \/ Selected \/ Rejection \/ Polled \/ GoesOn \/ Between
           \/ Deferral \/ Stable \/ Prepared \/ (\E stage \in Stages : Gather(stage))
           \/ RejectImmediately \/ Accept \/ CancelRename \/ ConfirmEnd \/ UNCHANGED vars
BY UiSteps DEF Next

\* The steps at the files that end an item or move it to its last message.
Outcome == Rejection \/ RejectImmediately \/ Accept \/ CancelRename

\* What they have in common: paths are moved, the item's own is no longer due, and
\* the item is over but for a message.
LEMMA Outcomes ==
    ASSUME TypeInv, DueInv, Outcome
    PROVE  /\ pc \in Working \ {"resolve", "sync"}
           /\ \E gone \in SUBSET Paths :
                 /\ fs' = [p \in Paths |-> IF p \in gone THEN 0 ELSE fs[p]]
                 /\ due' \subseteq due \ (gone \cup {cur}) /\ taken' \subseteq taken \cup gone
                 /\ cur \notin taken => cur \notin taken' \/ pc' \in {"show", "sync"}
           /\ UNCHANGED <<last, eventVars>>
           /\ \/ pc' = "show" /\ cur' = None /\ track' = NoTrack /\ quiet' = 0
              \/ pc' \in Told /\ UNCHANGED workVars
<1>1. CASE Rejection
  BY <1>1 DEF Rejection, Moves, Vanish, EndItem, Untrack, Working
<1>2. CASE RejectImmediately
  <2>1. /\ pc = "reject" /\ EndItem /\ UNCHANGED eventVars
        /\ (cur \in Paths /\ Vanish({cur}, {})) \/ Vanish({}, {cur})
    BY <1>2 DEF RejectImmediately, Present
  <2>2. PICK gone \in {{}, {cur}} :
           /\ fs' = [p \in Paths |-> IF p \in gone THEN 0 ELSE fs[p]] /\ gone \subseteq Paths
           /\ due' = due \ {cur} /\ taken' = taken \cup (gone \ {cur}) /\ UNCHANGED last
    <3>1. CASE cur \in Paths /\ Vanish({cur}, {})
      BY <3>1 DEF Vanish
    <3>2. CASE Vanish({}, {cur})
      BY <3>2 DEF Vanish
    <3> QED BY <2>1, <3>1, <3>2
  <2> QED BY <2>1, <2>2 DEF EndItem, Untrack, Working
<1>3. CASE Accept
  <2>1. Others \cup ({eff} \cap Present) \subseteq Paths
    BY DEF Others, Present
  <2> QED BY <1>3, <2>1 DEF Accept, EndItem, Untrack, Working, Told
<1>4. CASE CancelRename
  BY <1>4 DEF CancelRename, Vanish, Working, Told, Present
<1> QED BY <1>1, <1>2, <1>3, <1>4 DEF Outcome

(***************************************************************************)
(* Types.                                                                  *)
(***************************************************************************)

\* The path in work is one of the paths, and the parts of what the types say.
LEMMA TypeParts ==
    ASSUME TypeInv
    PROVE  /\ pc \in Working => cur \in Paths /\ cur \in Written /\ cur # None
           /\ \A p \in Paths : fs[p] \in Nat /\ last[p] \in Nat /\ timers[p] \in Nat
           /\ track.snap \in Nat /\ track.cycles \in Nat /\ track.waited \in Nat
BY WatchdogAssumption DEF TypeInv, Written

\* A write makes a path known, and a new notice is about a known path.
LEMMA TypeWrites ==
    ASSUME TypeInv, NEW p \in Paths, Create(p) \/ Modify(p)
    PROVE  TypeInv'
<1>1. /\ Write(p) /\ UNCHANGED <<hot, queue, timers, cur, track, pc>>
      /\ \E kind \in Kinds : notices' \in {notices, Append(notices, <<kind, p>>)}
  BY DEF Create, Modify, Notice, Write, Kinds
<1>2. /\ last' = [last EXCEPT ![p] = last[p] + 1] /\ fs' = [fs EXCEPT ![p] = last[p] + 1]
      /\ last[p] < MaxVersion[p] /\ quiet' \in {0, quiet}
  BY <1>1 DEF Write
<1>3. MaxVersion[p] \in Nat /\ \A q \in Paths : fs[q] \in Nat /\ last[q] \in Nat
  BY WatchdogAssumption, TypeParts
<1>4. /\ fs' \in [Paths -> Nat] /\ last' \in [Paths -> Nat]
      /\ \A q \in Paths : fs'[q] <= last'[q] /\ last'[q] <= MaxVersion[q]
  BY <1>2, <1>3 DEF TypeInv
<1>5. p \in Written' /\ Written \subseteq Written'
  BY <1>2, <1>3 DEF Written, TypeInv
<1>6. queue' \in Seq(Written')
  BY <1>1, <1>5, WiderSeq DEF TypeInv
<1>7. notices' \in Seq(Kinds \X Written')
  <2>1. Kinds \X Written \subseteq Kinds \X Written'
    BY <1>5
  <2>2. notices \in Seq(Kinds \X Written')
    BY <2>1, WiderSeq DEF TypeInv
  <2>3. \A kind \in Kinds : <<kind, p>> \in Kinds \X Written'
    BY <1>5
  <2>4. \A kind \in Kinds : Append(notices, <<kind, p>>) \in Seq(Kinds \X Written')
    BY <2>2, <2>3
  <2> QED BY <1>1, <2>2, <2>4
<1>8. quiet' \in Nat
  BY <1>2 DEF TypeInv
<1> QED BY <1>1, <1>4, <1>5, <1>6, <1>7, <1>8 DEF TypeInv

\* Steps that move nothing but the UI thread and the files.
LEMMA TypeFrame ==
    ASSUME TypeInv, last' = last,
           fs' = fs \/ \E gone : fs' = [p \in Paths |-> IF p \in gone THEN 0 ELSE fs[p]]
    PROVE  /\ Written' = Written /\ fs' \in [Paths -> Nat] /\ last' \in [Paths -> Nat]
           /\ \A p \in Paths : fs'[p] <= last'[p] /\ last'[p] <= MaxVersion[p]
<1>1. Written' = Written
  BY DEF Written
<1>2. fs' \in [Paths -> Nat] /\ \A p \in Paths : fs'[p] = 0 \/ fs'[p] = fs[p]
  BY DEF TypeInv
<1>3. \A p \in Paths : 0 <= last[p] /\ fs[p] <= last[p] /\ last[p] <= MaxVersion[p]
  BY DEF TypeInv
<1> QED BY <1>1, <1>2, <1>3 DEF TypeInv

\* A staging folder is a path that is written and noticed.
LEMMA TypeGather ==
    ASSUME TypeInv, NEW stage \in Stages, Gather(stage)
    PROVE  TypeInv'
<1>1. PICK moved \in SUBSET Present :
        /\ last' = [last EXCEPT ![stage] = last[stage] + 1]
        /\ fs' = [p \in Paths |-> IF p = stage THEN last[stage] + 1
                                  ELSE IF p \in moved THEN 0 ELSE fs[p]]
  BY DEF Gather
<1>2. /\ last[stage] < MaxVersion[stage] /\ notices' = Append(notices, <<"created", stage>>)
      /\ UNCHANGED <<quiet, queue, timers, cur, track>> /\ pc = "prepare" /\ pc' = "route"
  BY DEF Gather, Notice
<1>3. stage \in Paths /\ MaxVersion[stage] \in Nat
  BY WatchdogAssumption
<1>4. \A q \in Paths : fs[q] \in Nat /\ last[q] \in Nat
  BY TypeParts
<1>5. /\ fs' \in [Paths -> Nat] /\ last' \in [Paths -> Nat]
      /\ \A q \in Paths : fs'[q] <= last'[q] /\ last'[q] <= MaxVersion[q]
  BY <1>1, <1>2, <1>3, <1>4 DEF TypeInv
<1>6. stage \in Written' /\ Written \subseteq Written'
  BY <1>1, <1>3, <1>4 DEF Written, TypeInv
<1>7. queue' \in Seq(Written')
  BY <1>2, <1>6, WiderSeq DEF TypeInv
<1>8. notices' \in Seq(Kinds \X Written')
  <2>1. Kinds \X Written \subseteq Kinds \X Written'
    BY <1>6
  <2>2. notices \in Seq(Kinds \X Written')
    BY <2>1, WiderSeq DEF TypeInv
  <2>3. <<"created", stage>> \in Kinds \X Written'
    BY <1>6 DEF Kinds
  <2> QED BY <1>2, <2>2, <2>3
<1> QED BY <1>2, <1>5, <1>6, <1>7, <1>8 DEF TypeInv, Working

\* The types hold throughout.
LEMMA TypeStep == ASSUME TypeInv, DueInv, [Next]_vars PROVE TypeInv'
<1>1. ASSUME NEW p \in Paths, Create(p) \/ Modify(p) PROVE TypeInv'
  BY <1>1, TypeWrites
<1>2. ASSUME NEW p \in Paths, Remove(p) PROVE TypeInv'
  <2>1. /\ last' = last /\ fs' = [fs EXCEPT ![p] = 0] /\ quiet' \in {0, quiet}
        /\ UNCHANGED <<timers, queue, notices, pc, cur, track>>
    BY <1>2 DEF Remove, eventVars
  <2>2. fs' = [q \in Paths |-> IF q \in {p} THEN 0 ELSE fs[q]]
    BY <2>1 DEF TypeInv
  <2>3. /\ Written' = Written /\ fs' \in [Paths -> Nat] /\ last' \in [Paths -> Nat]
        /\ \A q \in Paths : fs'[q] <= last'[q] /\ last'[q] <= MaxVersion[q]
    BY <2>1, <2>2, TypeFrame
  <2> QED BY <2>1, <2>3 DEF TypeInv
<1>3. ASSUME NEW p \in Paths, EnqueueIfPresent(p) PROVE TypeInv'
  <2>1. /\ UNCHANGED <<fs, last, notices, pc, cur, track, quiet>> /\ timers[p] > 0
        /\ timers' = [timers EXCEPT ![p] = timers[p] - 1]
        /\ queue' \in {queue, Append(queue, p)}
    BY <1>3 DEF EnqueueIfPresent, fileVars, workVars
  <2>2. p \in Written /\ Written' = Written /\ timers[p] \in Nat
    BY <2>1 DEF TypeInv, Written
  <2>3. queue' \in Seq(Written)
    <3>1. queue \in Seq(Written)
      BY DEF TypeInv
    <3>2. Append(queue, p) \in Seq(Written)
      BY <2>2, <3>1
    <3> QED BY <2>1, <3>1, <3>2
  <2>4. timers' \in [Paths -> Nat] /\ \A q \in Paths : timers'[q] > 0 => q \in Written
    BY <2>1, <2>2 DEF TypeInv
  <2> QED BY <2>1, <2>2, <2>3, <2>4 DEF TypeInv
<1>4. CASE OnEvent
  <2>1. /\ UNCHANGED <<fs, last, timers, pc, cur, track, quiet>> /\ notices # <<>>
        /\ notices' = Tail(notices) /\ queue' \in {queue, Append(queue, Head(notices)[2])}
    BY <1>4 DEF OnEvent, fileVars, workVars
  <2>2. notices' \in Seq(Kinds \X Written) /\ Head(notices) \in Kinds \X Written
    BY <2>1, TailRange DEF TypeInv
  <2>3. Head(notices)[2] \in Written /\ Written' = Written
    BY <2>1, <2>2 DEF Written
  <2>4. queue' \in Seq(Written)
    <3>1. queue \in Seq(Written)
      BY DEF TypeInv
    <3>2. Append(queue, Head(notices)[2]) \in Seq(Written)
      BY <2>3, <3>1
    <3> QED BY <2>1, <3>1, <3>2
  <2> QED BY <2>1, <2>2, <2>3, <2>4 DEF TypeInv
<1>5. CASE Tick
  <2>1. /\ UNCHANGED <<fs, last, timers, notices, track, quiet>> /\ queue # <<>>
        /\ queue' = Tail(queue) /\ cur' = Head(queue) /\ pc' = "resolve"
    BY <1>5 DEF Tick, fileVars
  <2>2. Tail(queue) \in Seq(Written) /\ Head(queue) \in Written /\ Written' = Written
    BY <2>1, TailRange DEF TypeInv, Written
  <2> QED BY <2>1, <2>2 DEF TypeInv, Working
<1>6. CASE Selected
  <2>1. /\ pc = "resolve" /\ pc' = "stabilize" /\ track' = [snap |-> fs[cur], cycles |-> 0, waited |-> 0]
        /\ quiet' = 0 /\ UNCHANGED <<fs, last, timers, queue, notices, cur>>
    BY <1>6 DEF Selected, Select, eventVars, fileVars
  <2>2. track' \in [snap : Nat, cycles : Nat, waited : Nat]
    BY <2>1, TypeParts DEF Working
  <2> QED BY <2>1, <2>2 DEF TypeInv, Working, Written
<1>7. CASE Polled
  <2>1. PICK snap \in {track.snap, fs[cur]}, cycles \in {track.cycles, 0, track.cycles + 1} :
           Sleep(snap, cycles)
    BY <1>7 DEF Polled
  <2>2. pc = "stabilize"
    BY <1>7 DEF Polled
  <2>3. /\ track' = [snap |-> snap, cycles |-> cycles, waited |-> track.waited + 1]
        /\ quiet' = quiet + 1 /\ UNCHANGED <<fs, last, timers, queue, notices, cur, pc>>
    BY <2>1 DEF Sleep, eventVars, fileVars
  <2>4. track' \in [snap : Nat, cycles : Nat, waited : Nat]
    <3>1. snap \in Nat /\ cycles \in Nat /\ track.waited + 1 \in Nat
      BY <2>2, TypeParts DEF Working
    <3> QED BY <2>3, <3>1
  <2> QED BY <2>3, <2>4 DEF TypeInv, Written
<1>8. CASE GoesOn \/ Between
  BY <1>8 DEF GoesOn, Between, fileVars, eventVars, workVars, TypeInv, Working, Written
<1>9. CASE Deferral
  <2>1. /\ pc' = "show" /\ cur' = None /\ track' = NoTrack /\ quiet' = 0 /\ last' = last
        /\ timers' = [timers EXCEPT ![cur] = timers[cur] + 1]
        /\ \E gone : fs' = [p \in Paths |-> IF p \in gone THEN 0 ELSE fs[p]]
        /\ UNCHANGED <<notices, queue>> /\ pc \in Working
    BY <1>9 DEF Deferral, Defer, EndItem, Untrack, Moves, Vanish
  <2>2. /\ Written' = Written /\ fs' \in [Paths -> Nat] /\ last' \in [Paths -> Nat]
        /\ \A q \in Paths : fs'[q] <= last'[q] /\ last'[q] <= MaxVersion[q]
    BY <2>1, TypeFrame
  <2>3. cur \in Paths /\ cur \in Written /\ timers[cur] \in Nat
    BY <2>1, TypeParts
  <2>4. timers' \in [Paths -> Nat] /\ \A q \in Paths : timers'[q] > 0 => q \in Written
    BY <2>1, <2>3 DEF TypeInv
  <2>5. NoTrack \in [snap : Nat, cycles : Nat, waited : Nat]
    BY DEF NoTrack
  <2> QED BY <2>1, <2>2, <2>4, <2>5 DEF TypeInv, Working
<1>10. ASSUME DueInv, Outcome PROVE TypeInv'
  <2>1. /\ \E gone : fs' = [p \in Paths |-> IF p \in gone THEN 0 ELSE fs[p]]
        /\ UNCHANGED <<last, timers, notices, queue>> /\ pc \in Working
        /\ \/ pc' = "show" /\ cur' = None /\ track' = NoTrack /\ quiet' = 0
           \/ pc' \in Working /\ UNCHANGED <<cur, track, quiet>>
    BY <1>10, Outcomes DEF eventVars, workVars, Told, Working
  <2>2. /\ Written' = Written /\ fs' \in [Paths -> Nat] /\ last' \in [Paths -> Nat]
        /\ \A q \in Paths : fs'[q] <= last'[q] /\ last'[q] <= MaxVersion[q]
    BY <2>1, TypeFrame
  <2>3. NoTrack \in [snap : Nat, cycles : Nat, waited : Nat]
    BY DEF NoTrack
  <2> QED BY <2>1, <2>2, <2>3 DEF TypeInv, Working
<1>12. CASE Prepared
  <2>1. /\ \E gone : fs' = [p \in Paths |-> IF p \in gone THEN 0 ELSE fs[p]]
        /\ UNCHANGED <<last, timers, notices, queue, cur, track, quiet>>
        /\ pc = "prepare" /\ pc' = "route"
    BY <1>12 DEF Prepared, Moves, Vanish, eventVars
  <2>2. /\ Written' = Written /\ fs' \in [Paths -> Nat] /\ last' \in [Paths -> Nat]
        /\ \A q \in Paths : fs'[q] <= last'[q] /\ last'[q] <= MaxVersion[q]
    BY <2>1, TypeFrame
  <2> QED BY <2>1, <2>2 DEF TypeInv, Working
<1>13. ASSUME NEW stage \in Stages, Gather(stage) PROVE TypeInv'
  BY <1>13, TypeGather
<1>14. CASE Stable \/ ConfirmEnd
  <2>1. NoTrack \in [snap : Nat, cycles : Nat, waited : Nat]
    BY DEF NoTrack
  <2>2. /\ UNCHANGED <<fs, last, timers, notices, queue>> /\ track' = NoTrack /\ quiet' = 0
        /\ \/ pc' = "show" /\ cur' = None
           \/ pc = "stabilize" /\ pc' = "prepare" /\ cur' = cur
    BY <1>14 DEF Stable, Unchanged, ConfirmEnd, EndItem, Untrack, fileVars, eventVars
  <2> QED BY <2>1, <2>2 DEF TypeInv, Working, Written
<1>11. CASE UNCHANGED vars \/ \E p \in Paths : Cooldown(p)
  <2>1. UNCHANGED <<fs, last, timers, quiet, notices, queue, pc, cur, track>>
    BY <1>11 DEF vars, Cooldown, fileVars, eventVars, workVars
  <2> QED BY <2>1 DEF TypeInv, Written
<1> QED BY <1>1, <1>2, <1>3, <1>4, <1>5, <1>6, <1>7, <1>8, <1>9, <1>10, <1>11, <1>12,
           <1>13, <1>14, Steps DEF Outcome

(***************************************************************************)
(* Nothing is dropped.                                                     *)
(***************************************************************************)

\* The steps that leave the files alone.
LEMMA FilesRest ==
    ASSUME \/ OnEvent \/ Tick \/ Selected \/ Polled \/ GoesOn \/ Between \/ Stable
           \/ ConfirmEnd \/ UNCHANGED vars
           \/ \E p \in Paths : EnqueueIfPresent(p) \/ Cooldown(p)
    PROVE  UNCHANGED <<fs, last, due, taken>>
<1>1. CASE OnEvent \/ Tick \/ \E p \in Paths : EnqueueIfPresent(p) \/ Cooldown(p)
  BY <1>1 DEF OnEvent, Tick, EnqueueIfPresent, Cooldown, fileVars
<1>2. CASE Selected \/ Polled
  BY <1>2 DEF Selected, Select, Polled, Sleep, fileVars
<1>3. CASE GoesOn \/ Between \/ Stable \/ ConfirmEnd \/ UNCHANGED vars
  BY <1>3 DEF GoesOn, Between, Stable, ConfirmEnd, vars, fileVars
<1> QED BY <1>1, <1>2, <1>3

\* What is moved away is no longer due.
LEMMA DueStep == ASSUME TypeInv, DueInv, [Next]_vars PROVE DueInv'
<1>0. /\ fs \in [Paths -> Nat]
      /\ \A p \in Paths : last[p] \in Nat /\ fs[p] \in Nat
  BY TypeParts DEF TypeInv
<1>1. ASSUME NEW q \in Paths, Create(q) \/ Modify(q) \/ Remove(q) PROVE DueInv'
  <2>1. CASE Create(q) \/ Modify(q)
    <3>1. fs' = [fs EXCEPT ![q] = last[q] + 1] /\ due' \subseteq due \cup {q}
      BY <2>1 DEF Create, Modify, Write
    <3> QED BY <1>0, <3>1 DEF DueInv
  <2>2. CASE Remove(q)
    <3>1. fs' = [fs EXCEPT ![q] = 0] /\ due' = due \ {q}
      BY <2>2 DEF Remove
    <3> QED BY <1>0, <3>1 DEF DueInv
  <2> QED BY <1>1, <2>1, <2>2
<1>2. ASSUME NEW gone, fs' = [p \in Paths |-> IF p \in gone THEN 0 ELSE fs[p]],
             due' \subseteq due \ gone
      PROVE  DueInv'
  BY <1>2 DEF DueInv
<1>3. CASE Deferral \/ Prepared
  BY <1>2, <1>3 DEF Deferral, Prepared, Moves, Vanish
<1>4. CASE Outcome
  <2>1. PICK gone \in SUBSET Paths :
           /\ fs' = [p \in Paths |-> IF p \in gone THEN 0 ELSE fs[p]]
           /\ due' \subseteq due \ (gone \cup {cur})
    BY <1>4, Outcomes
  <2> QED BY <1>2, <2>1
<1>5. ASSUME NEW stage \in Stages, Gather(stage) PROVE DueInv'
  <2>1. stage \in Paths
    BY WatchdogAssumption
  <2>2. PICK moved \in SUBSET Present :
           /\ fs' = [p \in Paths |-> IF p = stage THEN last[stage] + 1
                                     ELSE IF p \in moved THEN 0 ELSE fs[p]]
           /\ due' = (due \ moved) \cup {stage}
    BY <1>5 DEF Gather
  <2> QED BY <1>0, <2>1, <2>2 DEF DueInv
<1>6. ASSUME UNCHANGED <<fs, due>> PROVE DueInv'
  BY <1>6 DEF DueInv
<1> QED BY <1>1, <1>3, <1>4, <1>5, <1>6, FilesRest, Steps DEF Outcome

\* What is created is noticed; a write or a removal takes no account away.
LEMMA KeptFiles ==
    ASSUME TypeInv, KeptInv, NEW q \in Paths, Create(q) \/ Modify(q) \/ Remove(q)
    PROVE  KeptInv'
<1> SUFFICES ASSUME Running', NEW p \in due' PROVE Kept(p)'
  BY DEF KeptInv
<1>0. UNCHANGED <<queue, timers, cur, pc>> /\ Running
  BY DEF Create, Modify, Remove, Write, eventVars, Running
<1>1. \A x \in Kinds \X Written' : Range(notices) \subseteq Range(Append(notices, x))
                                   /\ x \in Range(Append(notices, x))
  <2>1. Kinds \X Written \subseteq Kinds \X Written' /\ notices \in Seq(Kinds \X Written)
    <3>1. last' = last \/ last' = [last EXCEPT ![q] = last[q] + 1]
      BY DEF Create, Modify, Remove, Write
    <3>2. last \in [Paths -> Nat]
      BY DEF TypeInv
    <3>3. \A x \in Paths : last[x] > 0 => last'[x] > 0
      BY <3>1, <3>2
    <3>4. Written \subseteq Written'
      BY <3>3 DEF Written
    <3> QED BY <3>4 DEF TypeInv
  <2>2. notices \in Seq(Kinds \X Written')
    BY <2>1, WiderSeq
  <2> QED BY <2>2, AppendRange
<1>2. ASSUME p \in due, Range(notices) \subseteq Range(notices') PROVE Kept(p)'
  <2>1. Kept(p)
    BY <1>0, <1>2 DEF KeptInv
  <2> QED BY <1>0, <1>2, <2>1 DEF Kept
<1>3. CASE Create(q)
  <2>1. /\ notices' = Append(notices, <<"created", q>>) /\ due' = due \cup {q}
        /\ last' = [last EXCEPT ![q] = last[q] + 1]
    BY <1>3 DEF Create, Notice, Write
  <2>2. <<"created", q>> \in Kinds \X Written'
    BY <2>1 DEF Kinds, Written, TypeInv
  <2>3. Range(notices) \subseteq Range(notices') /\ <<"created", q>> \in Range(notices')
    BY <1>1, <2>1, <2>2
  <2>4. CASE p = q
    BY <2>3, <2>4 DEF Kept
  <2> QED BY <1>2, <2>1, <2>3, <2>4
<1>4. CASE Modify(q)
  <2>1. /\ notices' \in {notices, Append(notices, <<"modified", q>>)} /\ due' = due
        /\ last' = [last EXCEPT ![q] = last[q] + 1]
    BY <1>4 DEF Modify, Notice, Write
  <2>2. <<"modified", q>> \in Kinds \X Written'
    BY <2>1 DEF Kinds, Written, TypeInv
  <2> QED BY <1>1, <1>2, <2>1, <2>2
<1>5. CASE Remove(q)
  <2>1. notices' = notices /\ due' = due \ {q}
    BY <1>5 DEF Remove, eventVars
  <2> QED BY <1>2, <2>1
<1> QED BY <1>3, <1>4, <1>5

\* A path goes from the observer to the queue, from there into work, and from a
\* timer back to the queue.
LEMMA KeptEvents ==
    ASSUME TypeInv, DueInv, KeptInv,
           OnEvent \/ Tick \/ \E q \in Paths : EnqueueIfPresent(q) \/ Cooldown(q)
    PROVE  KeptInv'
<1> SUFFICES ASSUME Running', NEW p \in due' PROVE Kept(p)'
  BY DEF KeptInv
<1>0. UNCHANGED <<fs, due>> /\ Running
  BY DEF OnEvent, Tick, EnqueueIfPresent, Cooldown, fileVars, Running
<1>1. Kept(p) /\ p \in Paths /\ fs[p] > 0
  BY <1>0 DEF KeptInv, DueInv
<1>2. queue \in Seq(Written) /\ notices \in Seq(Kinds \X Written)
  BY DEF TypeInv
<1>3. CASE OnEvent
  <2> DEFINE h == Head(notices)
  <2>1. /\ UNCHANGED <<timers, cur, pc>> /\ notices # <<>> /\ notices' = Tail(notices)
        /\ queue' = Append(queue, h[2]) \/ (queue' = queue /\ h[1] # "created")
    BY <1>3 DEF OnEvent, workVars
  <2>2. h \in Kinds \X Written /\ Range(notices) = Range(notices') \cup {h}
    BY <1>2, <2>1, TailRange
  <2>3. h[2] \in Written
    BY <2>2
  <2>4. Range(Append(queue, h[2])) = Range(queue) \cup {h[2]}
    BY <1>2, <2>3, AppendRange
  <2>5. CASE <<"created", p>> = h
    <3>1. h[1] = "created" /\ h[2] = p
      BY <2>5
    <3> HIDE DEF h
    <3>2. p \in Range(queue')
      BY <2>1, <2>4, <3>1
    <3> QED BY <3>2 DEF Kept
  <2>6. CASE <<"created", p>> # h
    BY <1>1, <2>1, <2>2, <2>4, <2>6 DEF Kept
  <2> QED BY <2>5, <2>6
<1>4. CASE Tick
  <2>1. /\ queue # <<>> /\ queue' = Tail(queue) /\ cur' = Head(queue) /\ cur = None
        /\ UNCHANGED <<timers, notices>> /\ pc' \notin Told
    BY <1>4 DEF Tick, TypeInv, Working, Told
  <2>2. Range(queue) = Range(queue') \cup {cur'}
    BY <1>2, <2>1, TailRange
  <2> QED BY <1>1, <2>1, <2>2, WatchdogAssumption DEF Kept
<1>5. ASSUME NEW q \in Paths, EnqueueIfPresent(q) PROVE Kept(p)'
  <2>1. /\ UNCHANGED <<notices, cur, pc>> /\ timers' = [timers EXCEPT ![q] = timers[q] - 1]
        /\ timers[q] > 0 /\ queue' = IF fs[q] > 0 THEN Append(queue, q) ELSE queue
    BY <1>5 DEF EnqueueIfPresent, workVars
  <2>2. q \in Written
    BY <2>1 DEF TypeInv
  <2>3. Range(Append(queue, q)) = Range(queue) \cup {q}
    BY <1>2, <2>2, AppendRange
  <2>4. CASE p = q
    BY <1>1, <2>1, <2>3, <2>4 DEF Kept
  <2>5. CASE p # q
    <3>1. timers'[p] = timers[p]
      BY <1>1, <2>1, <2>5 DEF TypeInv
    <3> QED BY <1>1, <2>1, <2>3, <3>1 DEF Kept
  <2> QED BY <2>4, <2>5
<1>6. ASSUME NEW q \in Paths, Cooldown(q) PROVE Kept(p)'
  <2>1. UNCHANGED <<queue, notices, timers, cur, pc>>
    BY <1>6 DEF Cooldown, workVars
  <2> QED BY <1>1, <2>1 DEF Kept
<1> QED BY <1>3, <1>4, <1>5, <1>6

\* An item keeps its path until it is deferred, or until the path is no longer due.
LEMMA KeptWork ==
    ASSUME TypeInv, DueInv, KeptInv,
           \/ Selected \/ Polled \/ GoesOn \/ Between \/ Stable \/ Prepared \/ Deferral
           \/ (\E stage \in Stages : Gather(stage)) \/ Outcome \/ ConfirmEnd \/ UNCHANGED vars
    PROVE  KeptInv'
<1> SUFFICES ASSUME Running', NEW p \in due' PROVE Kept(p)'
  BY DEF KeptInv
<1>1. CASE Selected \/ Polled \/ GoesOn \/ Stable \/ Prepared
  <2>1. /\ due' \subseteq due /\ UNCHANGED <<queue, notices, timers, cur>>
        /\ pc \in Working \ Told /\ pc' \notin Told
    <3>1. CASE Selected \/ Polled
      BY <3>1 DEF Selected, Select, Polled, Sleep, fileVars, eventVars, Working, Told
    <3>2. CASE GoesOn \/ Stable \/ Prepared
      BY <3>2 DEF GoesOn, Stable, Unchanged, Prepared, Moves, Vanish, fileVars, eventVars,
                  workVars, Working, Told
    <3> QED BY <1>1, <3>1, <3>2
  <2>2. Kept(p)
    BY <2>1 DEF KeptInv, Running, Working
  <2> QED BY <2>1, <2>2 DEF Kept
<1>2. CASE Between \/ UNCHANGED vars
  <2>1. UNCHANGED <<due, queue, notices, timers, cur>>
    BY <1>2 DEF Between, vars, fileVars, eventVars, workVars
  <2>2. Running /\ (pc' = pc \/ pc' \notin Told)
    BY <1>2 DEF Between, vars, Running, Told
  <2>3. Kept(p)
    BY <2>1, <2>2 DEF KeptInv
  <2> QED BY <2>1, <2>2, <2>3 DEF Kept
<1>3. CASE Deferral
  <2>1. /\ timers' = [timers EXCEPT ![cur] = timers[cur] + 1] /\ cur \in Paths
        /\ UNCHANGED <<queue, notices>> /\ timers[cur] \in Nat /\ due' \subseteq due
    BY <1>3, TypeParts DEF Deferral, Defer, Moves, Vanish
  <2>2. Kept(p) /\ p \in Paths
    BY <1>3, <2>1 DEF KeptInv, DueInv, Deferral, Working, Running
  <2>3. CASE p = cur
    <3>1. timers'[p] > 0
      BY <2>1, <2>3 DEF TypeInv
    <3> QED BY <3>1 DEF Kept
  <2>4. CASE p # cur
    <3>1. timers'[p] = timers[p]
      BY <2>1, <2>2, <2>4 DEF TypeInv
    <3> QED BY <2>1, <2>2, <2>4, <3>1 DEF Kept
  <2> QED BY <2>3, <2>4
<1>4. ASSUME NEW stage \in Stages, Gather(stage) PROVE Kept(p)'
  <2>1. /\ pc = "prepare" /\ pc' = "route" /\ notices' = Append(notices, <<"created", stage>>)
        /\ UNCHANGED <<queue, timers, cur>> /\ due' \subseteq due \cup {stage}
        /\ last[stage] \in Nat /\ last' = [last EXCEPT ![stage] = last[stage] + 1]
    BY <1>4, TypeParts, WatchdogAssumption DEF Gather, Notice
  <2>2. stage \in Written' /\ Written \subseteq Written'
    BY <2>1, TypeParts, WatchdogAssumption DEF Written, TypeInv
  <2>3. Kinds \X Written \subseteq Kinds \X Written' /\ <<"created", stage>> \in Kinds \X Written'
    BY <2>2 DEF Kinds
  <2>4. notices \in Seq(Kinds \X Written')
    BY <2>3, WiderSeq DEF TypeInv
  <2>5. Range(notices') = Range(notices) \cup {<<"created", stage>>}
    BY <2>1, <2>3, <2>4, AppendRange
  <2>6. CASE p = stage
    BY <2>5, <2>6 DEF Kept
  <2>7. CASE p # stage
    <3>1. Kept(p)
      BY <2>1, <2>7 DEF KeptInv, Running
    <3> QED BY <2>1, <2>5, <3>1 DEF Kept, Told
  <2> QED BY <2>6, <2>7
<1>5. CASE Outcome
  <2>1. /\ pc \in Working /\ UNCHANGED <<queue, notices, timers>> /\ p \in due /\ p # cur
    BY <1>5, Outcomes DEF eventVars
  <2>2. Kept(p)
    BY <2>1 DEF KeptInv, Running, Working
  <2> QED BY <2>1, <2>2 DEF Kept
<1>6. CASE ConfirmEnd
  <2>1. UNCHANGED <<due, queue, notices, timers>> /\ pc \in Told
    BY <1>6 DEF ConfirmEnd, fileVars, eventVars, Told
  <2>2. Kept(p)
    BY <2>1 DEF KeptInv, Running, Told
  <2> QED BY <2>1, <2>2 DEF Kept
<1> QED BY <1>1, <1>2, <1>3, <1>4, <1>5, <1>6

(***************************************************************************)
(* The stability guard.                                                    *)
(***************************************************************************)

\* Every write is a new version and starts the count of quiet polls again.
LEMMA QuietStep == ASSUME TypeInv, DueInv, QuietInv, [Next]_vars PROVE QuietInv'
<1> SUFFICES ASSUME pc' = "stabilize"
             PROVE  /\ track'.snap <= last'[cur']
                    /\ fs'[cur'] = track'.snap /\ fs'[cur'] > 0 => quiet' >= track'.cycles
  BY DEF QuietInv
<1>0. /\ quiet \in Nat /\ track.snap \in Nat /\ track.cycles \in Nat
      /\ \A p \in Paths : fs[p] \in Nat /\ last[p] \in Nat /\ fs[p] <= last[p]
  BY TypeParts DEF TypeInv
<1>1. ASSUME NEW p \in Paths, Create(p) \/ Modify(p) PROVE QuietInv'
  <2>1. /\ last' = [last EXCEPT ![p] = last[p] + 1] /\ fs' = [fs EXCEPT ![p] = last[p] + 1]
        /\ UNCHANGED <<cur, track, pc>> /\ quiet' = IF p = cur THEN 0 ELSE quiet
    BY <1>1 DEF Create, Modify, Write
  <2>2. cur \in Paths /\ pc = "stabilize"
    BY <2>1, TypeParts DEF Working
  <2>3. track.snap <= last[cur] /\ (fs[cur] = track.snap /\ fs[cur] > 0 => quiet >= track.cycles)
    BY <2>2 DEF QuietInv
  <2>4. CASE p = cur
    <3>1. last'[cur] = last[cur] + 1 /\ fs'[cur] = last[cur] + 1
      BY <2>1, <2>2, <2>4 DEF TypeInv
    <3>2. track.snap <= last'[cur] /\ fs'[cur] # track.snap
      BY <1>0, <2>2, <2>3, <3>1
    <3> QED BY <2>1, <3>2 DEF QuietInv
  <2>5. CASE p # cur
    <3>1. last'[cur] = last[cur] /\ fs'[cur] = fs[cur] /\ quiet' = quiet
      BY <2>1, <2>2, <2>5 DEF TypeInv
    <3> QED BY <2>1, <2>3, <3>1 DEF QuietInv
  <2> QED BY <2>4, <2>5
<1>2. ASSUME NEW p \in Paths, Remove(p) PROVE QuietInv'
  <2>1. /\ fs' = [fs EXCEPT ![p] = 0] /\ quiet' = IF p = cur THEN 0 ELSE quiet
        /\ UNCHANGED <<last, cur, track, pc>>
    BY <1>2 DEF Remove
  <2>2. cur \in Paths /\ pc = "stabilize"
    BY <2>1, TypeParts DEF Working
  <2>3. fs'[cur] = 0 \/ (fs'[cur] = fs[cur] /\ quiet' = quiet)
    BY <2>1, <2>2 DEF TypeInv
  <2> QED BY <2>1, <2>2, <2>3 DEF QuietInv
<1>3. CASE Selected
  <2>1. /\ track' = [snap |-> fs[cur], cycles |-> 0, waited |-> 0] /\ quiet' = 0
        /\ UNCHANGED <<fs, last, cur>> /\ pc = "resolve"
    BY <1>3 DEF Selected, Select, fileVars
  <2>2. cur \in Paths /\ track'.snap = fs[cur] /\ track'.cycles = 0
    BY <2>1, TypeParts DEF Working
  <2> QED BY <1>0, <2>1, <2>2
<1>4. CASE Polled
  <2>1. UNCHANGED <<fs, last, cur>> /\ quiet' = quiet + 1 /\ pc = "stabilize" /\ cur \in Paths
    BY <1>4, TypeParts DEF Polled, Sleep, Working, fileVars
  <2>2. track.snap <= last[cur] /\ (fs[cur] = track.snap /\ fs[cur] > 0 => quiet >= track.cycles)
    BY <2>1 DEF QuietInv
  <2>3. \/ fs[cur] = 0 /\ track'.snap = track.snap /\ track'.cycles = track.cycles
        \/ track'.snap = fs[cur] /\ track'.cycles = 0
        \/ /\ fs[cur] > 0 /\ fs[cur] = track.snap /\ track'.snap = track.snap
           /\ track'.cycles = track.cycles + 1
    BY <1>4 DEF Polled, Sleep
  <2> QED BY <1>0, <2>1, <2>2, <2>3
<1>5. CASE OnEvent \/ \E p \in Paths : EnqueueIfPresent(p) \/ Cooldown(p)
  <2>1. UNCHANGED <<fs, last, quiet, cur, track, pc>>
    BY <1>5 DEF OnEvent, EnqueueIfPresent, Cooldown, fileVars, workVars
  <2> QED BY <2>1 DEF QuietInv
<1>6. CASE UNCHANGED vars
  BY <1>6 DEF vars, fileVars, workVars, QuietInv
<1>7. CASE \/ Tick \/ GoesOn \/ Between \/ Deferral \/ Stable \/ Prepared \/ Outcome
           \/ ConfirmEnd \/ \E stage \in Stages : Gather(stage)
  <2>1. pc' # "stabilize"
    <3>1. CASE Tick \/ GoesOn \/ Between \/ Stable \/ Prepared \/ \E stage \in Stages : Gather(stage)
      BY <3>1 DEF Tick, GoesOn, Between, Stable, Prepared, Gather
    <3>2. CASE Deferral \/ ConfirmEnd
      BY <3>2 DEF Deferral, Defer, ConfirmEnd, EndItem
    <3>3. CASE Outcome
      BY <3>3, Outcomes DEF Told
    <3> QED BY <1>7, <3>1, <3>2, <3>3
  <2> QED BY <2>1
<1> QED BY <1>1, <1>2, <1>3, <1>4, <1>5, <1>6, <1>7, Steps DEF QuietInv, Outcome

\* What is processed was quiet: FileStabilityTracker.wait lets a path through only
\* after StableCycles - 1 whole intervals without a write, however often it
\* vanished and came back before.
LEMMA QuietAction ==
    ASSUME TypeInv, DueInv, QuietInv, [Next]_vars, pc = "stabilize", pc' = "prepare"
    PROVE  quiet >= StableCycles - 1
<1>1. Stable
  <2>1. ~(Tick \/ Selected \/ GoesOn \/ Between \/ Prepared \/ \E stage \in Stages : Gather(stage))
    BY DEF Tick, Selected, GoesOn, Between, Prepared, Gather
  <2>2. ~(OnEvent \/ UNCHANGED vars \/ \E p \in Paths : EnqueueIfPresent(p) \/ Cooldown(p))
    BY DEF OnEvent, EnqueueIfPresent, Cooldown, vars
  <2>3. ~\E p \in Paths : Create(p) \/ Modify(p) \/ Remove(p)
    BY DEF Create, Modify, Remove, Write
  <2>4. ~(Polled \/ Deferral \/ ConfirmEnd)
    BY DEF Polled, Sleep, Deferral, Defer, ConfirmEnd, EndItem
  <2>5. ~Outcome
    BY Outcomes DEF Told
  <2> QED BY <2>1, <2>2, <2>3, <2>4, <2>5, Steps DEF Outcome
<1>2. fs[cur] > 0 /\ fs[cur] = track.snap /\ track.cycles + 1 >= StableCycles
  BY <1>1 DEF Stable, Unchanged
<1>3. quiet >= track.cycles
  BY <1>2 DEF QuietInv
<1> QED BY <1>2, <1>3, TypeParts, WatchdogAssumption DEF TypeInv

(***************************************************************************)
(* Rejections.                                                             *)
(***************************************************************************)

\* What was taken away stays away until it is written again.
LEMMA TakenGone ==
    ASSUME TypeInv, DueInv, TakenInv, [Next]_vars
    PROVE  taken' \subseteq Paths /\ \A p \in taken' : fs'[p] = 0
<1>0. taken \subseteq Paths /\ (\A p \in taken : fs[p] = 0) /\ fs \in [Paths -> Nat]
  BY DEF TakenInv, TypeInv
<1>1. ASSUME NEW q \in Paths, Create(q) \/ Modify(q) \/ Remove(q)
      PROVE  taken' \subseteq Paths /\ \A p \in taken' : fs'[p] = 0
  <2>1. CASE Create(q) \/ Modify(q)
    <3>1. fs' = [fs EXCEPT ![q] = last[q] + 1] /\ taken' = taken \ {q}
      BY <2>1 DEF Create, Modify, Write
    <3> QED BY <1>0, <3>1
  <2>2. CASE Remove(q)
    <3>1. fs' = [fs EXCEPT ![q] = 0] /\ taken' = taken
      BY <2>2 DEF Remove
    <3> QED BY <1>0, <3>1
  <2> QED BY <1>1, <2>1, <2>2
<1>2. ASSUME NEW gone \in SUBSET Paths, taken' \subseteq taken \cup gone,
             fs' = [p \in Paths |-> IF p \in gone THEN 0 ELSE fs[p]]
      PROVE  taken' \subseteq Paths /\ \A p \in taken' : fs'[p] = 0
  BY <1>0, <1>2
<1>3. CASE Deferral \/ Prepared
  BY <1>2, <1>3 DEF Deferral, Prepared, Moves, Vanish
<1>4. CASE Outcome
  <2>1. PICK gone \in SUBSET Paths :
           /\ fs' = [p \in Paths |-> IF p \in gone THEN 0 ELSE fs[p]]
           /\ taken' \subseteq taken \cup gone
    BY <1>4, Outcomes
  <2> QED BY <1>2, <2>1
<1>5. ASSUME NEW stage \in Stages, Gather(stage)
      PROVE  taken' \subseteq Paths /\ \A p \in taken' : fs'[p] = 0
  <2>1. PICK moved \in SUBSET Present :
           /\ fs' = [p \in Paths |-> IF p = stage THEN last[stage] + 1
                                     ELSE IF p \in moved THEN 0 ELSE fs[p]]
           /\ taken' = (taken \cup (moved \ {cur})) \ {stage}
    BY <1>5 DEF Gather
  <2> QED BY <1>0, <2>1 DEF Present
<1>6. ASSUME UNCHANGED <<fs, taken>>
      PROVE  taken' \subseteq Paths /\ \A p \in taken' : fs'[p] = 0
  BY <1>0, <1>6
<1> QED BY <1>1, <1>3, <1>4, <1>5, <1>6, FilesRest, Steps DEF Outcome

\* A path in work that was taken away before is one its device waits for: it was
\* there, or awaited, when it was selected, and its own item does not count as
\* taking it away until it is accepted.
LEMMA TakenStep == ASSUME TypeInv, DueInv, TakenInv, [Next]_vars PROVE TakenInv'
<1> SUFFICES ASSUME pc' \in Working \ {"resolve", "sync"}, cur' \in taken'
             PROVE  dev' \in Reappears
  BY TakenGone DEF TakenInv
<1>0. (\A p \in taken : fs[p] = 0) /\ (pc \in Working => cur \in Paths)
  BY TypeParts DEF TakenInv
<1>1. ASSUME UNCHANGED <<cur, dev>>, pc \in Working \ {"resolve", "sync"}, cur \in taken
      PROVE  dev' \in Reappears
  BY <1>1 DEF TakenInv
<1>2. CASE \E p \in Paths : Create(p) \/ Modify(p) \/ Remove(p)
  <2>1. UNCHANGED <<cur, dev, pc>> /\ taken' \subseteq taken
    BY <1>2 DEF Create, Modify, Write, Remove
  <2> QED BY <1>1, <2>1
<1>3. CASE Selected
  BY <1>0, <1>3 DEF Selected, Select
<1>4. CASE Polled \/ Stable
  <2>1. UNCHANGED <<cur, dev, taken>> /\ pc = "stabilize"
    BY <1>4 DEF Polled, Sleep, Stable, Unchanged
  <2> QED BY <1>1, <2>1 DEF Working
<1>5. CASE GoesOn
  <2>1. UNCHANGED <<cur, dev, taken>>
    BY <1>5 DEF GoesOn, workVars
  <2>2. pc \in Working \ {"resolve", "sync"}
    BY <1>0, <1>5, <2>1 DEF GoesOn, Working
  <2> QED BY <1>1, <2>1, <2>2
<1>6. CASE Prepared \/ \E stage \in Stages : Gather(stage)
  <2>1. UNCHANGED <<cur, dev>> /\ pc = "prepare" /\ (cur \in taken' => cur \in taken)
    BY <1>6 DEF Prepared, Moves, Vanish, Gather
  <2> QED BY <1>1, <2>1 DEF Working
<1>7. CASE OnEvent \/ UNCHANGED vars \/ \E p \in Paths : EnqueueIfPresent(p) \/ Cooldown(p)
  <2>1. UNCHANGED <<taken, cur, dev, pc>>
    BY <1>7 DEF OnEvent, EnqueueIfPresent, Cooldown, workVars, vars
  <2> QED BY <1>1, <2>1
<1>8. CASE Outcome
  <2>1. /\ pc \in Working \ {"resolve", "sync"}
        /\ cur \notin taken => cur \notin taken' \/ pc' \in {"show", "sync"}
        /\ pc' = "show" \/ UNCHANGED <<cur, dev>>
    BY <1>8, Outcomes DEF workVars
  <2> QED BY <1>1, <2>1 DEF Working
<1>9. ~(Tick \/ Between \/ Deferral \/ ConfirmEnd)
  BY DEF Tick, Between, Deferral, Defer, ConfirmEnd, EndItem, Working
<1> QED BY <1>2, <1>3, <1>4, <1>5, <1>6, <1>7, <1>8, <1>9, Steps DEF Outcome

\* A path that was taken away is not rejected, unless its device waits for it.
LEMMA TakenAction ==
    ASSUME TypeInv, TakenInv, [Next]_vars, cur \in taken, dev \notin Reappears
    PROVE  rejected' = rejected
<1>0. pc \in Working => pc \in {"resolve", "sync"}
  BY DEF TakenInv
<1>1. ~(Rejection \/ RejectImmediately \/ Accept \/ CancelRename)
  BY <1>0 DEF Rejection, RejectImmediately, Accept, CancelRename, Working
<1>2. CASE Selected \/ Polled \/ GoesOn \/ UNCHANGED vars
  BY <1>2 DEF Selected, Select, Polled, Sleep, GoesOn, vars
<1>3. ~Between
  <2>1. Between => cur = None
    BY DEF Between, TypeInv, Working
  <2> QED BY <2>1, WatchdogAssumption DEF TakenInv
<1>4. CASE Tick \/ Deferral \/ Stable \/ Prepared \/ ConfirmEnd \/ \E stage \in Stages : Gather(stage)
  BY <1>4 DEF Tick, Deferral, Defer, Stable, Prepared, ConfirmEnd, Gather
<1>5. CASE OnEvent \/ \E p \in Paths : EnqueueIfPresent(p) \/ Cooldown(p)
  BY <1>5 DEF OnEvent, EnqueueIfPresent, Cooldown
<1>6. CASE \E p \in Paths : Create(p) \/ Modify(p) \/ Remove(p)
  BY <1>6 DEF Create, Modify, Remove, Write
<1> QED BY <1>1, <1>2, <1>3, <1>4, <1>5, <1>6, Steps

(***************************************************************************)
(* The theorems.                                                           *)
(***************************************************************************)

\* The invariant holds in every reachable state.
LEMMA WatchdogInvariant == Spec => []WatchdogInv
<1>1. Init => WatchdogInv
  <2> SUFFICES ASSUME Init PROVE WatchdogInv
    OBVIOUS
  <2>1. /\ fs \in [Paths -> {0, 1}] /\ last = fs /\ quiet = 0 /\ due = {} /\ taken = {}
        /\ notices = <<>> /\ queue = <<>> /\ timers = [p \in Paths |-> 0]
        /\ pc = "idle" /\ cur = None /\ track = NoTrack
    BY DEF Init
  <2>2. \A p \in Paths : fs[p] \in Nat /\ fs[p] <= MaxVersion[p]
    <3> TAKE p \in Paths
    <3>1. MaxVersion[p] \in Nat \ {0}
      BY WatchdogAssumption
    <3>2. fs[p] = 0 \/ fs[p] = 1
      BY <2>1
    <3> QED BY <3>1, <3>2
  <2>3. <<>> \in Seq(Written) /\ <<>> \in Seq(Kinds \X Written)
    OBVIOUS
  <2>4. NoTrack \in [snap : Nat, cycles : Nat, waited : Nat]
    BY DEF NoTrack
  <2>5. TypeInv
    BY <2>1, <2>2, <2>3, <2>4 DEF TypeInv, Working
  <2> QED BY <2>1, <2>5 DEF WatchdogInv, DueInv, KeptInv, QuietInv, TakenInv, Working
<1>2. WatchdogInv /\ [Next]_vars => WatchdogInv'
  <2> SUFFICES ASSUME WatchdogInv, [Next]_vars PROVE WatchdogInv'
    OBVIOUS
  <2>1. TypeInv /\ DueInv /\ KeptInv /\ QuietInv /\ TakenInv
    BY DEF WatchdogInv
  <2>2. KeptInv'
    BY <2>1, KeptFiles, KeptEvents, KeptWork, Steps DEF Outcome
  <2> QED BY <2>1, <2>2, TypeStep, DueStep, QuietStep, TakenStep DEF WatchdogInv
<1> QED BY <1>1, <1>2, PTL DEF Spec

\* What was created under observation and is still there is queued, noticed,
\* awaiting its retry or in work, unless its item gave it up: for any paths,
\* devices and limits, whatever the instruments write, the preprocessors answer
\* and gather, and the moves that fail.
THEOREM NothingIsDropped == Spec => []NothingDropped
<1>1. WatchdogInv => NothingDropped
  <2> SUFFICES ASSUME KeptInv, Running, NEW p \in due
               PROVE  \/ p \in Range(queue) \cup {cur} \/ timers[p] > 0
                      \/ \E i \in DOMAIN notices : notices[i][2] = p
    BY DEF WatchdogInv, NothingDropped
  <2>1. Kept(p)
    BY DEF KeptInv
  <2>2. <<"created", p>> \in Range(notices) => \E i \in DOMAIN notices : notices[i][2] = p
    BY DEF Range
  <2> QED BY <2>1, <2>2 DEF Kept
<1> QED BY <1>1, WatchdogInvariant, PTL

\* Only a path that was quiet for StableCycles - 1 intervals is processed.
THEOREM OnlyQuietPathsAreUsed == Spec => QuietBeforeUse
<1>1. WatchdogInv /\ [Next]_vars =>
        [pc = "stabilize" /\ pc' = "prepare" => quiet >= StableCycles - 1]_vars
  BY QuietAction DEF WatchdogInv
<1> QED BY <1>1, WatchdogInvariant, PTL DEF Spec, QuietBeforeUse

\* A path that the pipeline has taken away is not reported as rejected when an
\* older event of it comes up, unless its device waits for paths to reappear.
THEOREM NoProcessedPathIsRejected == Spec => NoFalseRejection
<1>1. WatchdogInv /\ [Next]_vars =>
        [\A p \in taken : p = cur /\ dev \notin Reappears =>
            p \notin Range(rejected') \ Range(rejected)]_vars
  <2> SUFFICES ASSUME WatchdogInv, [Next]_vars, NEW p \in taken, p = cur,
                      dev \notin Reappears
               PROVE  p \notin Range(rejected') \ Range(rejected)
    OBVIOUS
  <2>1. rejected' = rejected
    BY TakenAction DEF WatchdogInv
  <2> QED BY <2>1
<1> QED BY <1>1, WatchdogInvariant, PTL DEF Spec, NoFalseRejection
=============================================================================
