---------------------------- MODULE DPostAppProofs ----------------------------
(* Proofs about DPostApp, for every session policy, every set of event ids, runs
   and hooks, and any clock. The invariant says for each step of run() what the
   session, the rest of the batch and the emitted log look like there. *)
EXTENDS DPostApp, SessionManagerProofs, FiniteSetTheorems

\* Steps of the loop.
Loop == {"loop", "poll", "event", "admit", "activity", "engine", "processed",
         "canonical", "handler"}

\* The steps during which the session is active.
Active == Loop \cup {"started", "terminate"}

\* Steps that have the event they are about at the head of the batch.
InEvent == {"admit", "activity", "engine", "processed", "canonical"}

\* A log that has been opened and not yet been closed by a terminal event.
Opened(l) ==
    /\ l # <<>>
    /\ \A i \in DOMAIN l : /\ l[i][1] = "runtime_started" <=> i = 1
                           /\ l[i][1] \notin TerminalEvents

\* LifecycleInOrder of any log.
InOrder(l) ==
    \A i \in DOMAIN l : /\ l[i][1] = "runtime_started" <=> i = 1
                        /\ l[i][1] \in TerminalEvents => i = Len(l)

\* Types, with a watch directory that holds finitely many files.
TypeInv == AppTypeOK /\ SessionInv /\ run \in Runs /\ IsFiniteSet(files)

\* What the steps find when they begin.
ControlInv ==
    /\ pc = "start" => session.kind = "inactive"
    /\ pc \in Active => session.kind = "active" /\ session.id = Sid
    /\ pc = "emit_failed" => session.kind = "aborted"
    /\ pc = "emit_terminal" =>
         session.kind = IF TerminalEvent(reason) = "runtime_completed"
                        THEN "completed" ELSE "aborted"
    /\ pc \in InEvent => queue # <<>>
    /\ pc = "processed" => outcome # "none"
    /\ pc \in {"terminate", "emit_terminal", "returned"} => reason # "none"
    /\ ~run.regresses /\ session.kind = "active" => session.last <= now

\* The events handed to the engine have been seen before; the one that is on its
\* way has been seen and not been handed on.
HandedInv ==
    /\ Range(handed) \subseteq seen
    /\ IsInjective(handed)
    /\ pc \in {"activity", "engine"} => Head(queue) \in seen \ Range(handed)

\* The log is empty in front of the loop and open until the terminal event.
LogInv ==
    /\ pc \in {"start", "started"} => log = <<>>
    /\ pc \in Loop \cup {"emit_failed", "terminate", "emit_terminal"} => Opened(log)
    /\ InOrder(log)

\* How the run is left.
ExitInv ==
    /\ ResultAgrees
    /\ pc \in {"raised", "exited"} /\ log # <<>> /\ ~run.regresses
       /\ "interrupt" \notin run.faults => session.kind \in TerminalKinds
    /\ exit # None => pc = "exited"
    /\ ExitCodeHonest

\* The inductive invariant of the application.
AppInv == TypeInv /\ ControlInv /\ HandedInv /\ LogInv /\ ExitInv

\* The start satisfies the invariant.
LEMMA AppInit == Init => AppInv
<1> SUFFICES ASSUME Init PROVE AppInv
  OBVIOUS
<1>1. SessionInv /\ session.kind = "inactive"
  BY InitInv DEF Init, SessionInit, Inactive
<1>2. /\ pc = "start" /\ now = 0 /\ files = {} /\ cancelled = FALSE /\ queue = <<>>
      /\ consumed = FALSE /\ seen = {} /\ outcome = "none" /\ handed = <<>>
      /\ log = <<>> /\ reason = "none" /\ released = {} /\ exit = None /\ run \in Runs
  BY DEF Init
<1>3. <<>> \in Seq(Events) /\ <<>> \in Seq(LogEntries)
  OBVIOUS
<1>4. AppTypeOK
  BY <1>1, <1>2, <1>3, AppAssumption DEF AppTypeOK, SessionInv
<1>5. TypeInv
  BY <1>1, <1>2, <1>4, FS_EmptySet DEF TypeInv
<1>6. ControlInv
  BY <1>1, <1>2 DEF ControlInv, Active, Loop, InEvent
<1>7. HandedInv /\ LogInv
  <2>1. DOMAIN <<>> = {}
    OBVIOUS
  <2> QED BY <1>2, <2>1 DEF HandedInv, LogInv, Range, IsInjective, InOrder, Loop
<1>8. ExitInv
  BY <1>2, NoneAssumption DEF ExitInv, ResultAgrees, ExitCodeHonest
<1> QED BY <1>5, <1>6, <1>7, <1>8 DEF AppInv

\* Whatever the application does to the session is an operation of the session
\* manager.
LEMMA SessionSteps ==
    ASSUME now \in Times, [Next]_vars
    PROVE  [SessionNext]_sessionVars
<1>1. Sid \in SessionIds
  BY AppAssumption
<1>2. CASE Start
  BY <1>1, <1>2 DEF Start, SessionNext
<1>3. CASE LoopTop \/ NextEvent
  BY <1>3 DEF LoopTop, NextEvent, CheckTimeouts, SessionNext, sessionVars
<1>4. CASE Activity
  BY <1>1, <1>4 DEF Activity, SessionNext
<1>5. CASE Handler
  BY <1>1, <1>5 DEF Handler, SessionNext
<1>6. CASE Terminate
  BY <1>1, <1>6 DEF Terminate, SessionNext
<1>7. CASE \/ EmitStarted \/ Poll \/ Admit \/ Engine \/ EmitProcessed \/ AfterEvent
           \/ EmitFailed \/ EmitTerminal \/ Shutdown \/ Interrupt \/ Tick
           \/ SetClockBack \/ Cancel \/ (\E e \in Events : Drop(e)) \/ UNCHANGED vars
  <2>1. UNCHANGED sessionVars
    BY <1>7 DEF EmitStarted, Poll, Admit, Engine, EmitProcessed, AfterEvent, EmitFailed,
                EmitTerminal, Shutdown, Interrupt, Tick, SetClockBack, Cancel, Drop, vars
  <2> QED BY <2>1
<1> QED BY <1>2, <1>3, <1>4, <1>5, <1>6, <1>7 DEF Next, Step

\* What is emitted is an entry of the log.
LEMMA Entries ==
    /\ <<"runtime_started">> \in LogEntries
    /\ \A e \in Events, o \in OutcomeKinds :
          <<"runtime_event_processed", e, o>> \in LogEntries
    /\ \A why \in Reasons : <<TerminalEvent(why), why>> \in LogEntries
    /\ <<"runtime_failed", "runtime_exception">> \in LogEntries
BY DEF LogEntries, TerminalEvent, TerminalEvents

\* Every step keeps the types.
LEMMA TypeStep == ASSUME AppInv, [Next]_vars PROVE TypeInv'
<1>0. /\ AppTypeOK /\ SessionInv /\ run \in Runs /\ IsFiniteSet(files) /\ now \in Times
      /\ ControlInv
  BY DEF AppInv, TypeInv, AppTypeOK
<1>1. SessionInv'
  BY <1>0, SessionSteps, NextInv
<1>2. /\ queue \in Seq(Events) /\ handed \in Seq(Events) /\ log \in Seq(LogEntries)
      /\ files \subseteq Events /\ seen \subseteq Events
  BY <1>0 DEF AppTypeOK
<1>3. ASSUME queue # <<>> PROVE Head(queue) \in Events /\ Tail(queue) \in Seq(Events)
  BY <1>2, <1>3
<1>4. run' \in Runs
  BY <1>0 DEF Next, Step, Start, EmitStarted, LoopTop, Poll, NextEvent, Admit, Activity,
        Engine, EmitProcessed, AfterEvent, Handler, EmitFailed, Terminate, EmitTerminal,
        Shutdown, Interrupt, Tick, SetClockBack, Cancel, Drop, vars, hostVars
<1>5. now' \in Times /\ cancelled' \in BOOLEAN
  BY <1>0 DEF AppTypeOK, Next, Step, Start, EmitStarted, LoopTop, Poll, NextEvent, Admit,
        Activity, Engine, EmitProcessed, AfterEvent, Handler, EmitFailed, Terminate,
        EmitTerminal, Shutdown, Interrupt, Tick, SetClockBack, Cancel, Drop, vars, envVars
<1>6. files' \subseteq Events /\ IsFiniteSet(files')
  <2>1. CASE Engine
    <3>1. files' = files \/ files' = files \ {Head(queue)}
      BY <2>1 DEF Engine
    <3>2. IsFiniteSet(files \ {Head(queue)})
      BY <1>0, FS_RemoveElement
    <3> QED BY <1>0, <1>2, <3>1, <3>2
  <2>2. ASSUME NEW e \in Events, Drop(e) PROVE <1>6!:
    <3>1. IsFiniteSet(files \cup {e})
      BY <1>0, FS_AddElement
    <3> QED BY <1>2, <2>2, <3>1 DEF Drop
  <2>3. CASE files' = files
    BY <1>0, <1>2, <2>3
  <2> QED BY <2>1, <2>2, <2>3 DEF Next, Step, Start, EmitStarted, LoopTop, Poll, NextEvent,
        Admit, Activity, EmitProcessed, AfterEvent, Handler, EmitFailed, Terminate,
        EmitTerminal, Shutdown, Interrupt, Tick, SetClockBack, Cancel, vars, envVars
<1>7. queue' \in Seq(Events) /\ consumed' \in BOOLEAN
  <2>1. CASE Poll
    <3>1. consumed' \in BOOLEAN
      BY <1>0, <2>1 DEF Poll, AppTypeOK
    <3>2. CASE queue' = queue
      BY <1>2, <3>1, <3>2
    <3>3. CASE queue' \in Sorted(files)
      <4>1. Cardinality(files) \in Nat
        BY <1>0, FS_CardinalityType
      <4>2. queue' \in [1..Cardinality(files) -> files]
        BY <3>3 DEF Sorted
      <4>3. queue' \in [1..Cardinality(files) -> Events]
        BY <1>2, <4>2
      <4> QED BY <3>1, <4>1, <4>3
    <3>4. CASE queue' = <<>>
      <4>1. <<>> \in Seq(Events)
        OBVIOUS
      <4> QED BY <3>1, <3>4, <4>1
    <3>5. CASE run.stream # None /\ queue' = run.stream
      <4>1. run.stream \in Seq(Events) \cup {None}
        BY <1>0, AppAssumption
      <4> QED BY <3>1, <3>5, <4>1
    <3> QED BY <2>1, <3>2, <3>3, <3>4, <3>5 DEF Poll, NextBatch
  <2>2. CASE Admit \/ AfterEvent
    <3>1. queue # <<>>
      BY <1>0, <2>2 DEF ControlInv, InEvent, Admit, AfterEvent
    <3>2. queue' \in {queue, Tail(queue)} /\ consumed' = consumed
      BY <2>2 DEF Admit, AfterEvent
    <3> QED BY <1>0, <1>2, <1>3, <3>1, <3>2 DEF AppTypeOK
  <2>3. CASE UNCHANGED <<queue, consumed>>
    BY <1>0, <2>3 DEF AppTypeOK
  <2> QED BY <2>1, <2>2, <2>3 DEF Next, Step, Start, EmitStarted, LoopTop, NextEvent,
        Activity, Engine, EmitProcessed, Handler, EmitFailed, Terminate,
        EmitTerminal, Shutdown, Interrupt, Tick, SetClockBack, Cancel, Drop, vars, loopVars
<1>8. seen' \subseteq Events /\ outcome' \in OutcomeKinds \cup {"none"}
  <2>1. CASE Admit
    <3>1. queue # <<>>
      BY <1>0, <2>1 DEF ControlInv, InEvent, Admit
    <3>2. (seen' = seen \/ seen' = seen \cup {Head(queue)}) /\ outcome' = outcome
      BY <2>1 DEF Admit
    <3> QED BY <1>0, <1>2, <1>3, <3>1, <3>2 DEF AppTypeOK
  <2>2. CASE Engine
    BY <1>0, <2>2 DEF Engine, AppTypeOK
  <2>3. CASE UNCHANGED <<seen, outcome>>
    BY <1>0, <2>3 DEF AppTypeOK
  <2> QED BY <2>1, <2>2, <2>3 DEF Next, Step, Start, EmitStarted, LoopTop, Poll, NextEvent,
        Activity, EmitProcessed, AfterEvent, Handler, EmitFailed, Terminate,
        EmitTerminal, Shutdown, Interrupt, Tick, SetClockBack, Cancel, Drop, vars, loopVars
<1>9. handed' \in Seq(Events)
  <2>1. CASE Engine
    <3>1. queue # <<>>
      BY <1>0, <2>1 DEF ControlInv, InEvent, Engine
    <3> QED BY <1>2, <1>3, <2>1, <3>1 DEF Engine
  <2>2. CASE handed' = handed
    BY <1>2, <2>2
  <2> QED BY <2>1, <2>2 DEF Next, Step, Start, EmitStarted, LoopTop, Poll, NextEvent, Admit,
        Activity, EmitProcessed, AfterEvent, Handler, EmitFailed, Terminate,
        EmitTerminal, Shutdown, Interrupt, Tick, SetClockBack, Cancel, Drop, vars, loopVars
<1>10. log' \in Seq(LogEntries)
  <2>1. ASSUME NEW entry \in LogEntries, log' = Append(log, entry) PROVE <1>10!:
    BY <1>2, <2>1
  <2>2. CASE log' = log
    BY <1>2, <2>2
  <2>3. CASE EmitStarted \/ EmitFailed
    BY <2>1, <2>2, <2>3, Entries DEF EmitStarted, EmitFailed, Emit
  <2>4. CASE EmitProcessed
    <3>1. queue # <<>> /\ outcome \in OutcomeKinds
      BY <1>0, <2>4 DEF ControlInv, InEvent, EmitProcessed, AppTypeOK
    <3>2. <<"runtime_event_processed", Head(queue), outcome>> \in LogEntries
      BY <1>3, <3>1, Entries
    <3> QED BY <2>1, <2>2, <2>4, <3>2 DEF EmitProcessed, Emit
  <2>5. CASE EmitTerminal
    <3>1. reason \in Reasons
      BY <1>0, <2>5 DEF ControlInv, EmitTerminal, AppTypeOK
    <3> QED BY <2>1, <2>2, <2>5, <3>1, Entries DEF EmitTerminal, Emit
  <2> QED BY <2>2, <2>3, <2>4, <2>5 DEF Next, Step, Start, LoopTop, Poll, NextEvent, Admit,
        Activity, Engine, AfterEvent, Handler, Terminate, Shutdown, Interrupt, Tick,
        SetClockBack, Cancel, Drop, vars
<1>11. /\ pc' \in {"start", "started", "loop", "poll", "event", "admit", "activity",
                    "engine", "processed", "canonical", "handler", "emit_failed",
                    "terminate", "emit_terminal", "returned", "raised", "exited"}
       /\ reason' \in Reasons \cup {"none"}
  BY <1>0 DEF AppTypeOK, Next, Step, Start, EmitStarted, LoopTop, Poll, NextEvent, Admit,
        Activity, Engine, EmitProcessed, AfterEvent, Handler, EmitFailed, Terminate,
        EmitTerminal, Shutdown, Interrupt, Tick, SetClockBack, Cancel, Drop, vars,
        CheckTimeouts, Emit, RaiseInLoop, Goto, Break, Reasons, SuccessTerminals
<1>12. released' \subseteq Range(Hooks) /\ exit' \in {None, 0, 1}
  <2>1. CASE Shutdown
    <3>1. Len(Hooks) \in Nat /\ DOMAIN Hooks = 1..Len(Hooks)
      BY AppAssumption
    <3>2. PICK n \in 0..Len(Hooks) : released' = {Hooks[i] : i \in 1..n}
      BY <2>1 DEF Shutdown
    <3>3. exit' \in {0, 1}
      BY <2>1 DEF Shutdown
    <3> QED BY <3>1, <3>2, <3>3 DEF Range
  <2>2. CASE UNCHANGED <<released, exit>>
    BY <1>0, <2>2 DEF AppTypeOK
  <2> QED BY <2>1, <2>2 DEF Next, Step, Start, EmitStarted, LoopTop, Poll, NextEvent, Admit,
        Activity, Engine, EmitProcessed, AfterEvent, Handler, EmitFailed, Terminate,
        EmitTerminal, Interrupt, Tick, SetClockBack, Cancel, Drop, vars, hostVars
<1> QED BY <1>1, <1>4, <1>5, <1>6, <1>7, <1>8, <1>9, <1>10, <1>11, <1>12
        DEF TypeInv, AppTypeOK, SessionInv

\* What ending the active session does: it ends unless the clock was set back.
LEMMA SessionEnds ==
    ASSUME SessionInv, now \in Times, NEW kind \in TerminalKinds,
           session.kind = "active", session.id = Sid, EndSession(Sid, now, kind)
    PROVE  \/ result' = kind /\ session'.kind = kind
           \/ result' \notin TerminalKinds /\ session' = session /\ ~(session.last <= now)
<1>1. session.last \in Int /\ now \in Int
  BY ActiveSession, TimesAssumption
<1>2. RequireActive(Sid) = "ok"
  BY DEF RequireActive
<1>3. CASE now < session.last
  BY <1>1, <1>2, <1>3 DEF EndSession, Raise, TerminalKinds
<1>4. CASE now >= session.last
  <2>1. session' = [session EXCEPT !.kind = kind, !.ended = now] /\ result' = kind
    BY <1>1, <1>2, <1>4 DEF EndSession
  <2>2. session'.kind = kind
    BY <2>1 DEF SessionInv, SessionTypeOK
  <2> QED BY <2>1, <2>2
<1> QED BY <1>1, <1>3, <1>4

\* Every step leaves the session, the batch and the outcome as the next one
\* expects them.
LEMMA ControlStep == ASSUME AppInv, [Next]_vars PROVE ControlInv'
<1>0. /\ ControlInv /\ SessionInv /\ AppTypeOK /\ now \in Times /\ queue \in Seq(Events)
  BY DEF AppInv, TypeInv, AppTypeOK
<1>1. CASE Start
  <2>1. /\ session' = [kind |-> "active", id |-> Sid, started |-> now, last |-> now,
                       ended |-> None]
        /\ pc' = "started" /\ UNCHANGED <<now, run>>
    BY <1>0, <1>1 DEF Start, StartSession, ControlInv, Goto, envVars, hostVars
  <2>2. session'.kind = "active" /\ session'.id = Sid /\ session'.last <= now'
    BY <1>0, <2>1, TimesAssumption
  <2> QED BY <2>1, <2>2 DEF ControlInv, Active, Loop, InEvent
<1>2. CASE LoopTop \/ NextEvent
  <2>1. /\ UNCHANGED <<session, now, run, queue>> /\ pc \in {"loop", "event"}
        /\ session.kind = "active" /\ session.id = Sid
    BY <1>0, <1>2 DEF LoopTop, NextEvent, CheckTimeouts, EvaluateTimeouts, Raise, envVars,
            loopVars, hostVars, sessionVars, ControlInv, Active, Loop
  <2>2. pc' \in {"handler", "poll", "loop", "terminate", "admit"}
    BY <1>2 DEF LoopTop, NextEvent, CheckTimeouts, Break, RaiseInLoop, Goto
  <2>3. /\ pc' = "terminate" => reason' # "none"
        /\ pc' = "admit" => queue # <<>>
    BY <1>2 DEF LoopTop, NextEvent, CheckTimeouts, Break, RaiseInLoop, Goto
  <2> QED BY <1>0, <2>1, <2>2, <2>3 DEF ControlInv, Active, Loop, InEvent
<1>3. CASE Activity
  <2>1. /\ pc = "activity" /\ UNCHANGED <<now, run, queue>> /\ pc' \in {"engine", "handler"}
        /\ session.kind = "active" /\ session.id = Sid /\ queue # <<>>
    BY <1>0, <1>3 DEF Activity, Goto, RaiseInLoop, envVars, loopVars, hostVars,
                      ControlInv, Active, Loop, InEvent
  <2>2. session'.kind = "active" /\ session'.id = Sid
        /\ (session' = session \/ session'.last = now)
    BY <1>0, <1>3, <2>1 DEF Activity, RecordActivity, Raise, SessionInv, SessionTypeOK
  <2>3. now <= now
    BY <1>0, TimesAssumption
  <2> QED BY <1>0, <2>1, <2>2, <2>3 DEF ControlInv, Active, Loop, InEvent
<1>4. CASE Handler
  <2>1. /\ pc = "handler" /\ session.kind = "active" /\ session.id = Sid
        /\ EndSession(Sid, now, "aborted")
        /\ pc' = (IF result' = "aborted" THEN "emit_failed" ELSE "raised")
        /\ UNCHANGED <<now, run>>
    BY <1>0, <1>4 DEF Handler, AbortSession, Goto, ControlInv, Active, Loop, envVars, hostVars
  <2>2. \/ result' = "aborted" /\ session'.kind = "aborted"
        \/ result' \notin TerminalKinds /\ session' = session
    BY <1>0, <2>1, SessionEnds DEF TerminalKinds
  <2> QED BY <1>0, <2>1, <2>2 DEF ControlInv, Active, Loop, InEvent, TerminalKinds
<1>5. CASE Terminate
  <2> DEFINE kind == IF TerminalEvent(reason) = "runtime_completed"
                     THEN "completed" ELSE "aborted"
  <2>1. /\ pc = "terminate" /\ session.kind = "active" /\ session.id = Sid
        /\ reason # "none" /\ reason' = reason
        /\ EndSession(Sid, now, kind)
        /\ pc' = (IF result' \in TerminalKinds THEN "emit_terminal" ELSE "raised")
        /\ UNCHANGED <<now, run>>
    BY <1>0, <1>5 DEF Terminate, AbortSession, StopSession, Goto, ControlInv, Active,
                      envVars, hostVars
  <2>2. \/ result' = kind /\ session'.kind = kind
        \/ result' \notin TerminalKinds /\ session' = session
    <3>1. kind \in TerminalKinds
      BY DEF TerminalKinds
    <3> HIDE DEF kind
    <3> QED BY <1>0, <2>1, <3>1, SessionEnds
  <2>3. TerminalEvent(reason') = TerminalEvent(reason)
    BY <2>1
  <2> QED BY <1>0, <2>1, <2>2, <2>3 DEF ControlInv, Active, Loop, InEvent, TerminalKinds
<1>6. CASE EmitStarted \/ EmitProcessed \/ EmitFailed \/ EmitTerminal
  <2>1. UNCHANGED <<session, now, run, queue, outcome, reason>>
    BY <1>6 DEF EmitStarted, EmitProcessed, EmitFailed, EmitTerminal, Emit, Goto, sessionVars,
                envVars, loopVars, hostVars
  <2>2. \/ pc = "started" /\ pc' \in {"loop", "raised"}
        \/ pc = "processed" /\ pc' \in {"canonical", "handler"}
        \/ pc = "emit_failed" /\ pc' = "raised"
        \/ pc = "emit_terminal" /\ pc' \in {"returned", "raised"}
    BY <1>6 DEF EmitStarted, EmitProcessed, EmitFailed, EmitTerminal, Emit, Goto
  <2> QED BY <1>0, <2>1, <2>2 DEF ControlInv, Active, Loop, InEvent
<1>7. CASE Poll \/ Admit \/ Engine \/ AfterEvent
  <2>1. UNCHANGED <<session, now, run>>
    BY <1>7 DEF Poll, Admit, Engine, AfterEvent, sessionVars, envVars, hostVars
  <2>2. /\ pc \in Loop
        /\ pc' \in {"loop", "event", "activity", "processed", "handler", "terminate"}
    BY <1>7 DEF Poll, Admit, Engine, AfterEvent, Break, Goto, RaiseInLoop, Loop
  <2>3. /\ pc' = "terminate" => reason' # "none"
        /\ pc' \in {"activity", "processed"} => pc \in InEvent /\ queue' = queue
        /\ pc' = "processed" => outcome' # "none"
    BY <1>7 DEF Poll, Admit, Engine, AfterEvent, Break, Goto, RaiseInLoop, InEvent, OutcomeKinds
  <2> QED BY <1>0, <2>1, <2>2, <2>3 DEF ControlInv, Active, Loop, InEvent
<1>8. CASE Shutdown \/ Interrupt
  <2>1. UNCHANGED <<session, now, run>> /\ pc' \in {"raised", "exited"}
    BY <1>8 DEF Shutdown, Interrupt, sessionVars, envVars, hostVars
  <2> QED BY <1>0, <2>1 DEF ControlInv, Active, Loop, InEvent
<1>9. CASE Tick \/ SetClockBack \/ Cancel \/ (\E e \in Events : Drop(e)) \/ UNCHANGED vars
  <2>1. UNCHANGED <<session, run, pc, queue, outcome, reason>>
    BY <1>9 DEF Tick, SetClockBack, Cancel, Drop, vars, sessionVars, loopVars, hostVars
  <2>2. TerminalEvent(reason') = TerminalEvent(reason)
    BY <2>1
  <2>3. ~run.regresses /\ session.kind = "active" => session.last <= now'
    <3>1. CASE Tick
      <4>1. now' \in Int /\ now \in Int /\ now' > now
        BY <1>0, <3>1, TimesAssumption DEF Tick
      <4>2. session.kind = "active" => session.last \in Int
        BY <1>0, ActiveSession
      <4> QED BY <1>0, <4>1, <4>2 DEF ControlInv
    <3>2. CASE SetClockBack
      BY <3>2 DEF SetClockBack
    <3>3. CASE now' = now
      BY <1>0, <3>3 DEF ControlInv
    <3> QED BY <1>9, <3>1, <3>2, <3>3 DEF Cancel, Drop, vars, envVars
  <2> QED BY <1>0, <2>1, <2>2, <2>3 DEF ControlInv
<1> QED BY <1>1, <1>2, <1>3, <1>4, <1>5, <1>6, <1>7, <1>8, <1>9 DEF Next, Step

\* No event on its way to the engine has been there before.
LEMMA HandedStep == ASSUME AppInv, [Next]_vars PROVE HandedInv'
<1>0. /\ HandedInv /\ ControlInv /\ handed \in Seq(Events) /\ queue \in Seq(Events)
  BY DEF AppInv, TypeInv, AppTypeOK
<1>1. CASE Engine
  <2>1. /\ handed' = Append(handed, Head(queue)) /\ seen' = seen /\ pc = "engine"
        /\ pc' \in {"processed", "handler"} /\ queue # <<>>
    BY <1>0, <1>1 DEF Engine, Goto, RaiseInLoop, ControlInv, InEvent
  <2>2. Head(queue) \in seen /\ Head(queue) \notin Range(handed) /\ Head(queue) \in Events
    BY <1>0, <2>1 DEF HandedInv
  <2>3. /\ Len(handed) \in Nat /\ DOMAIN handed = 1..Len(handed)
        /\ DOMAIN handed' = 1..Len(handed) + 1 /\ handed'[Len(handed) + 1] = Head(queue)
        /\ \A i \in 1..Len(handed) : handed'[i] = handed[i]
    BY <1>0, <2>1, <2>2
  <2>4. Range(handed') = Range(handed) \cup {Head(queue)}
    BY <2>3 DEF Range
  <2>5. IsInjective(handed')
    <3>1. ASSUME NEW a \in DOMAIN handed', NEW b \in DOMAIN handed', handed'[a] = handed'[b]
          PROVE  a = b
      <4>1. \A i \in 1..Len(handed) : handed'[i] # Head(queue)
        BY <2>2, <2>3 DEF Range
      <4>2. \A i, j \in 1..Len(handed) : handed'[i] = handed'[j] => i = j
        BY <1>0, <2>3 DEF HandedInv, IsInjective
      <4>3. a \in 1..Len(handed) \/ a = Len(handed) + 1
        BY <2>3
      <4>4. b \in 1..Len(handed) \/ b = Len(handed) + 1
        BY <2>3
      <4> QED BY <2>3, <3>1, <4>1, <4>2, <4>3, <4>4
    <3> QED BY <3>1 DEF IsInjective
  <2> QED BY <1>0, <2>1, <2>2, <2>4, <2>5 DEF HandedInv
<1>2. CASE Admit
  <2>1. /\ handed' = handed /\ seen \subseteq seen'
        /\ pc' = "activity" =>
             queue' = queue /\ Head(queue) \in seen' /\ Head(queue) \notin seen
        /\ pc' # "engine"
    BY <1>2 DEF Admit, Goto, Break, RaiseInLoop
  <2> QED BY <1>0, <2>1 DEF HandedInv
<1>3. CASE Activity
  <2>1. UNCHANGED <<handed, seen, queue>> /\ pc = "activity"
    BY <1>3 DEF Activity, loopVars
  <2> QED BY <1>0, <2>1 DEF HandedInv
<1>4. CASE /\ UNCHANGED <<handed, seen>>
           /\ pc' \in {"activity", "engine"} => pc' = pc /\ queue' = queue
  BY <1>0, <1>4 DEF HandedInv
<1>5. CASE Start \/ EmitStarted \/ LoopTop \/ Poll \/ NextEvent \/ EmitProcessed
           \/ AfterEvent \/ Handler \/ EmitFailed \/ Terminate \/ EmitTerminal
           \/ Shutdown \/ Interrupt
  <2>1. UNCHANGED <<handed, seen>> /\ pc' \notin {"activity", "engine"}
    BY <1>5 DEF Start, EmitStarted, LoopTop, Poll, NextEvent, EmitProcessed, AfterEvent,
            Handler, EmitFailed, Terminate, EmitTerminal, Shutdown, Interrupt, CheckTimeouts,
            Emit, Goto, Break, RaiseInLoop, loopVars
  <2> QED BY <1>4, <2>1
<1>6. CASE Tick \/ SetClockBack \/ Cancel \/ (\E e \in Events : Drop(e)) \/ UNCHANGED vars
  BY <1>4, <1>6 DEF Tick, SetClockBack, Cancel, Drop, vars, loopVars
<1> QED BY <1>1, <1>2, <1>3, <1>5, <1>6 DEF Next, Step

\* Emitting on an open log: it stays in order, and open unless the entry ends it.
LEMMA Emits ==
    ASSUME NEW l \in Seq(LogEntries), Opened(l), NEW entry \in LogEntries,
           entry[1] # "runtime_started"
    PROVE  /\ InOrder(Append(l, entry))
           /\ entry[1] \notin TerminalEvents => Opened(Append(l, entry))
           /\ Append(l, entry)[Len(Append(l, entry))] = entry
<1> DEFINE m == Append(l, entry)
<1>1. /\ Len(l) \in Nat /\ DOMAIN l = 1..Len(l) /\ Len(l) # 0
      /\ DOMAIN m = 1..Len(l) + 1 /\ Len(m) = Len(l) + 1
      /\ m # <<>> /\ m[Len(l) + 1] = entry
      /\ \A i \in 1..Len(l) : m[i] = l[i]
  BY DEF Opened
<1> HIDE DEF m
<1>2. ASSUME NEW i \in DOMAIN m
      PROVE  /\ m[i][1] = "runtime_started" <=> i = 1
             /\ m[i][1] \in TerminalEvents => i = Len(m) /\ entry[1] \in TerminalEvents
  <2>1. CASE i \in 1..Len(l)
    BY <1>1, <2>1 DEF Opened
  <2>2. CASE i = Len(l) + 1
    BY <1>1, <2>2
  <2> QED BY <1>1, <2>1, <2>2
<1>3. InOrder(m)
  BY <1>2 DEF InOrder
<1>4. entry[1] \notin TerminalEvents => Opened(m)
  BY <1>1, <1>2 DEF Opened
<1> QED BY <1>1, <1>3, <1>4 DEF m

\* The log is opened once, grows by processed events and is closed once.
LEMMA LogStep == ASSUME AppInv, [Next]_vars PROVE LogInv'
<1>0. LogInv /\ ControlInv /\ log \in Seq(LogEntries) /\ AppTypeOK
  BY DEF AppInv, TypeInv, AppTypeOK
<1>1. CASE EmitStarted
  <2>1. CASE log' = log /\ pc' = "raised"
    BY <1>0, <2>1 DEF LogInv, Loop
  <2>2. CASE log' = Append(log, <<"runtime_started">>) /\ pc' = "loop"
    <3>1. log = <<>>
      BY <1>0, <1>1 DEF EmitStarted, LogInv
    <3>2. log' = <<<<"runtime_started">>>>
      BY <2>2, <3>1
    <3>3. /\ log' # <<>> /\ DOMAIN log' = {1} /\ log'[1][1] = "runtime_started"
      BY <3>2
    <3>4. "runtime_started" \notin TerminalEvents
      BY DEF TerminalEvents
    <3> QED BY <2>2, <3>3, <3>4 DEF LogInv, Opened, InOrder, Loop
  <2> QED BY <1>1, <2>1, <2>2 DEF EmitStarted, Emit, Goto
<1>2. CASE EmitProcessed \/ EmitFailed \/ EmitTerminal
  <2>1. Opened(log) /\ pc \in {"processed", "emit_failed", "emit_terminal"}
    BY <1>0, <1>2 DEF LogInv, Loop, EmitProcessed, EmitFailed, EmitTerminal
  <2>2. CASE log' = log
    <3>1. pc' \notin {"start", "started", "emit_terminal"}
      BY <1>2 DEF EmitProcessed, EmitFailed, EmitTerminal, Emit, Goto
    <3> QED BY <1>0, <2>1, <2>2, <3>1 DEF LogInv
  <2>3. ASSUME NEW entry \in LogEntries, log' = Append(log, entry),
               entry[1] # "runtime_started", pc' \notin {"start", "started"},
               entry[1] \in TerminalEvents => pc' \in {"returned", "raised"}
        PROVE  LogInv'
    <3>1. InOrder(log') /\ (entry[1] \notin TerminalEvents => Opened(log'))
      BY <1>0, <2>1, <2>3, Emits
    <3> QED BY <2>3, <3>1 DEF LogInv, Loop
  <2>4. CASE EmitProcessed /\ log' # log
    <3>1. queue # <<>> /\ queue \in Seq(Events) /\ outcome \in OutcomeKinds
      BY <1>0, <2>4 DEF ControlInv, InEvent, EmitProcessed, AppTypeOK
    <3>2. Head(queue) \in Events
      BY <3>1
    <3> DEFINE entry == <<"runtime_event_processed", Head(queue), outcome>>
    <3>3. entry \in LogEntries
      BY <3>1, <3>2, Entries
    <3>4. entry[1] = "runtime_event_processed" /\ entry[1] \notin TerminalEvents
      BY DEF TerminalEvents
    <3>5. log' = Append(log, entry) /\ pc' = "canonical"
      BY <2>4 DEF EmitProcessed, Emit, Goto
    <3> HIDE DEF entry
    <3> QED BY <2>3, <3>3, <3>4, <3>5
  <2>5. CASE EmitFailed /\ log' # log
    <3> DEFINE entry == <<"runtime_failed", "runtime_exception">>
    <3>1. log' = Append(log, entry) /\ pc' = "raised" /\ entry[1] = "runtime_failed"
      BY <2>5 DEF EmitFailed, Emit, Goto
    <3>2. entry \in LogEntries
      BY Entries
    <3> HIDE DEF entry
    <3> QED BY <2>3, <3>1, <3>2
  <2>6. CASE EmitTerminal /\ log' # log
    <3> DEFINE entry == <<TerminalEvent(reason), reason>>
    <3>1. log' = Append(log, entry) /\ pc' = "returned" /\ entry[1] = TerminalEvent(reason)
      BY <2>6 DEF EmitTerminal, Emit, Goto
    <3>2. reason \in Reasons
      BY <1>0, <2>6 DEF ControlInv, EmitTerminal, AppTypeOK
    <3>3. entry \in LogEntries
      BY <3>2, Entries
    <3>4. TerminalEvent(reason) # "runtime_started"
      BY DEF TerminalEvent
    <3> HIDE DEF entry
    <3> QED BY <2>3, <3>1, <3>3, <3>4
  <2> QED BY <1>2, <2>2, <2>4, <2>5, <2>6
<1>3. ASSUME log' = log, pc' \in {"start", "started"} => pc \in {"start", "started"},
             pc' \in Loop \cup {"emit_failed", "terminate", "emit_terminal"} =>
                pc \in Loop \cup {"emit_failed", "terminate", "emit_terminal"}
      PROVE  LogInv'
  BY <1>0, <1>3 DEF LogInv
<1>4. CASE Start \/ LoopTop \/ Poll \/ NextEvent \/ Admit \/ Activity \/ Engine
           \/ AfterEvent \/ Handler \/ Terminate \/ Shutdown \/ Interrupt
  <2>1. log' = log /\ pc' # "start"
    BY <1>4 DEF Start, LoopTop, Poll, NextEvent, Admit, Activity, Engine, AfterEvent,
            Handler, Terminate, Shutdown, Interrupt, Goto, Break, CheckTimeouts, RaiseInLoop
  <2>2. pc' = "started" => pc = "start"
    BY <1>4 DEF Start, LoopTop, Poll, NextEvent, Admit, Activity, Engine, AfterEvent,
            Handler, Terminate, Shutdown, Interrupt, Goto, Break, CheckTimeouts, RaiseInLoop
  <2>3. \/ pc \in Loop \cup {"terminate"} \/ pc' \in {"started", "raised", "exited"}
    BY <1>4 DEF Start, LoopTop, Poll, NextEvent, Admit, Activity, Engine, AfterEvent,
            Handler, Terminate, Shutdown, Interrupt, Goto, Loop
  <2> QED BY <1>3, <2>1, <2>2, <2>3 DEF Loop
<1>5. CASE Tick \/ SetClockBack \/ Cancel \/ (\E e \in Events : Drop(e)) \/ UNCHANGED vars
  BY <1>3, <1>5 DEF Tick, SetClockBack, Cancel, Drop, vars
<1> QED BY <1>1, <1>2, <1>4, <1>5 DEF Next, Step

\* However run() is left, its session, its log and the exit code agree.
LEMMA ExitStep == ASSUME AppInv, [Next]_vars PROVE ExitInv'
<1>0. /\ ExitInv /\ LogInv /\ ControlInv /\ AppTypeOK /\ SessionInv /\ now \in Times
      /\ log \in Seq(LogEntries)
  BY DEF AppInv, TypeInv, AppTypeOK
<1>1. ASSUME pc' \notin {"returned", "raised", "exited"}, exit' = exit, exit = None
      PROVE  ExitInv'
  BY <1>1, NoneAssumption DEF ExitInv, ResultAgrees, ExitCodeHonest
<1>2. exit # None => pc = "exited"
  BY <1>0 DEF ExitInv
<1>3. CASE Start \/ LoopTop \/ Poll \/ NextEvent \/ Admit \/ Activity \/ Engine
           \/ EmitProcessed \/ AfterEvent
  <2>1. exit' = exit /\ pc # "exited" /\ pc' \notin {"returned", "raised", "exited"}
    BY <1>3 DEF Start, LoopTop, Poll, NextEvent, Admit, Activity, Engine, AfterEvent,
            EmitProcessed, Emit, Goto, Break, CheckTimeouts, RaiseInLoop, hostVars
  <2> QED BY <1>1, <1>2, <2>1
<1>4. ASSUME pc # "exited", pc' = "raised", exit' = exit,
             log' # <<>> /\ ~run'.regresses /\ "interrupt" \notin run'.faults =>
                session'.kind \in TerminalKinds
      PROVE  ExitInv'
  BY <1>2, <1>4, NoneAssumption DEF ExitInv, ResultAgrees, ExitCodeHonest
<1>5. CASE EmitStarted
  <2>1. exit' = exit /\ pc = "started" /\ log = <<>>
        /\ (pc' = "loop" \/ (pc' = "raised" /\ log' = log))
    BY <1>0, <1>5 DEF EmitStarted, Emit, Goto, hostVars, LogInv
  <2> QED BY <1>1, <1>2, <1>4, <2>1
<1>6. CASE Handler \/ Terminate
  <2>1. /\ exit' = exit /\ run' = run /\ pc \in {"handler", "terminate"}
        /\ pc' = "raised" =>
             result' \notin TerminalKinds \/ (result' # "aborted" /\ pc = "handler")
        /\ pc' \in {"raised", "emit_failed", "emit_terminal"}
        /\ \E kind \in TerminalKinds : EndSession(Sid, now, kind)
                                       /\ (pc = "handler" => kind = "aborted")
        /\ session.kind = "active" /\ session.id = Sid
    BY <1>0, <1>6 DEF Handler, Terminate, Goto, hostVars, StopSession, AbortSession,
                      TerminalKinds, ControlInv, Active, Loop
  <2>2. PICK kind \in TerminalKinds : EndSession(Sid, now, kind)
                                       /\ (pc = "handler" => kind = "aborted")
    BY <2>1
  <2>3. pc' = "raised" => ~(session.last <= now)
    BY <1>0, <2>1, <2>2, SessionEnds
  <2>4. pc' = "raised" => run.regresses
    BY <1>0, <2>1, <2>3 DEF ControlInv
  <2>5. CASE pc' = "raised"
    BY <1>4, <2>1, <2>4, <2>5
  <2>6. CASE pc' # "raised"
    BY <1>1, <1>2, <2>1, <2>6
  <2> QED BY <2>5, <2>6
<1>7. CASE EmitFailed
  <2>1. /\ exit' = exit /\ pc = "emit_failed" /\ pc' = "raised"
        /\ session' = session /\ session.kind = "aborted"
    BY <1>0, <1>7 DEF EmitFailed, Emit, Goto, hostVars, ControlInv, sessionVars
  <2> QED BY <1>4, <2>1 DEF TerminalKinds
<1>8. CASE EmitTerminal
  <2>1. /\ exit' = exit /\ pc = "emit_terminal" /\ session' = session /\ reason' = reason
        /\ session.kind = IF TerminalEvent(reason) = "runtime_completed"
                          THEN "completed" ELSE "aborted"
        /\ pc' \in {"returned", "raised"} /\ Opened(log) /\ reason \in Reasons
    BY <1>0, <1>8 DEF EmitTerminal, Emit, Goto, hostVars, ControlInv, sessionVars, LogInv,
                      AppTypeOK
  <2>2. CASE pc' = "raised"
    BY <1>4, <2>1, <2>2 DEF TerminalKinds
  <2>3. CASE pc' = "returned"
    <3> DEFINE entry == <<TerminalEvent(reason), reason>>
    <3>1. log' = Append(log, entry)
      BY <1>8, <2>3 DEF EmitTerminal, Emit, Goto
    <3>2. entry \in LogEntries /\ entry[1] = TerminalEvent(reason)
      BY <2>1, Entries
    <3>3. entry[1] # "runtime_started"
      BY <3>2 DEF TerminalEvent
    <3>4. log'[Len(log')] = entry
      <4> HIDE DEF entry
      <4> QED BY <1>0, <2>1, <3>1, <3>2, <3>3, Emits
    <3>5. ResultAgrees'
      BY <2>1, <3>2, <3>4 DEF ResultAgrees, TerminalEvent
    <3> QED BY <1>2, <2>1, <2>3, <3>5, NoneAssumption DEF ExitInv, ExitCodeHonest
  <2> QED BY <2>1, <2>2, <2>3
<1>9. CASE Shutdown
  <2>1. /\ pc' = "exited" /\ pc \in {"returned", "raised"}
        /\ UNCHANGED <<session, log, reason, run>>
    BY <1>9 DEF Shutdown, sessionVars
  <2>2. exit' = 0 => pc = "returned" /\ released' = Range(Hooks)
    <3>1. PICK n \in 0..Len(Hooks) :
             /\ released' = {Hooks[i] : i \in 1..n}
             /\ exit' = IF n = Len(Hooks) /\ pc = "returned" /\ reason \in SuccessTerminals
                        THEN 0 ELSE 1
      BY <1>9 DEF Shutdown
    <3>2. DOMAIN Hooks = 1..Len(Hooks)
      BY AppAssumption
    <3>3. n = Len(Hooks) => released' = Range(Hooks)
      BY <3>1, <3>2 DEF Range
    <3> QED BY <3>1, <3>3
  <2>3. pc = "returned" => /\ session.kind \in TerminalKinds
                           /\ log[Len(log)] = <<TerminalEvent(reason), reason>>
    BY <1>0 DEF ExitInv, ResultAgrees, TerminalKinds
  <2>4. TerminalEvent(reason) \in TerminalEvents
    BY DEF TerminalEvent, TerminalEvents
  <2>5. <<TerminalEvent(reason), reason>>[1] = TerminalEvent(reason)
    OBVIOUS
  <2>6. ExitCodeHonest'
    BY <2>1, <2>2, <2>3, <2>4, <2>5 DEF ExitCodeHonest
  <2>7. ResultAgrees'
    BY <2>1 DEF ResultAgrees
  <2> QED BY <1>0, <2>1, <2>3, <2>6, <2>7 DEF ExitInv
<1>10. CASE Interrupt
  <2>1. /\ pc' = "raised" /\ exit' = exit /\ run' = run /\ pc # "exited"
        /\ "interrupt" \in run.faults
    BY <1>10 DEF Interrupt, Running, hostVars
  <2> QED BY <1>4, <2>1
<1>11. CASE Tick \/ SetClockBack \/ Cancel \/ (\E e \in Events : Drop(e)) \/ UNCHANGED vars
  <2>1. UNCHANGED <<session, pc, log, reason, run, exit, released>>
    BY <1>11 DEF Tick, SetClockBack, Cancel, Drop, vars, sessionVars, hostVars
  <2>2. ResultAgrees' /\ ExitCodeHonest'
    BY <1>0, <2>1 DEF ExitInv, ResultAgrees, ExitCodeHonest, TerminalEvent
  <2> QED BY <1>0, <2>1, <2>2 DEF ExitInv
<1> QED BY <1>3, <1>5, <1>6, <1>7, <1>8, <1>9, <1>10, <1>11 DEF Next, Step

\* The invariant holds in every state of every run.
LEMMA AppInvariant == Spec => []AppInv
<1>1. AppInv /\ [Next]_vars => AppInv'
  BY TypeStep, ControlStep, HandedStep, LogStep, ExitStep DEF AppInv
<1> QED BY <1>1, AppInit, PTL DEF Spec

\* The state of the application is well typed in every run.
THEOREM AppWellTyped == Spec => []AppTypeOK
<1>1. AppInv => AppTypeOK
  BY DEF AppInv, TypeInv
<1> QED BY <1>1, AppInvariant, PTL

\* However often the files left in the directory are listed again, no event id
\* reaches the ingestion engine twice.
THEOREM EventsHandedOnce == Spec => []HandedOnce
<1>1. AppInv => HandedOnce
  BY DEF AppInv, HandedInv, HandedOnce
<1> QED BY <1>1, AppInvariant, PTL

\* The emitted lifecycle is well formed on every path.
THEOREM LifecycleWellFormed == Spec => []LifecycleInOrder
<1>1. AppInv => LifecycleInOrder
  BY DEF AppInv, LogInv, InOrder, LifecycleInOrder
<1> QED BY <1>1, AppInvariant, PTL

\* When run() returns, its terminal reason, the last lifecycle event and the
\* state of the session say the same.
THEOREM ResultsAreHonest == Spec => []ResultAgrees
<1>1. AppInv => ResultAgrees
  BY DEF AppInv, ExitInv
<1> QED BY <1>1, AppInvariant, PTL

\* No run leaves its session active, unless the clock was set back or an
\* interrupt came.
THEOREM SessionsAreEnded == Spec => []SessionEnded
<1>1. AppInv => SessionEnded
  BY DEF AppInv, ExitInv, SessionEnded
<1> QED BY <1>1, AppInvariant, PTL

\* The process exits with 0 only if the session has ended, its terminal event was
\* emitted and every adapter has been released.
THEOREM ExitCodesAreHonest == Spec => []ExitCodeHonest
<1>1. AppInv => ExitCodeHonest
  BY DEF AppInv, ExitInv
<1> QED BY <1>1, AppInvariant, PTL

\* The application drives its session as a client of the session manager: every
\* behaviour of the run is, for the session, one of SessionSpec.
THEOREM AppRefinesSession == Spec => SessionSpec
<1>1. Init => SessionInit
  BY DEF Init
<1>2. AppInv /\ [Next]_vars => [SessionNext]_sessionVars
  BY SessionSteps DEF AppInv, TypeInv, AppTypeOK
<1> QED BY <1>1, <1>2, AppInvariant, PTL DEF Spec, SessionSpec
=============================================================================
