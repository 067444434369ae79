------------------------------ MODULE DPostApp ------------------------------
(* The runtime loop DPostApp.run with the SessionManager it drives, the event
   source it polls, and the RuntimeHost and _execute_runtime around it. The
   wall clock, the watch directory, the cancellation signal and the user's
   Ctrl-C act between any two steps of the loop. The ingestion engine is a call
   that returns one of its outcome kinds. *)
EXTENDS SessionManager, Sequences, FiniteSets, Functions

CONSTANTS
    Sid,            \* session id of the run
    Events,         \* event ids (path and mtime), numbered in sort order
    Runs,           \* [mode, stream, regresses, faults]: "oneshot" or "continuous"
                    \* loop_mode; the events of a one-time source, or None: poll
                    \* the directory; whether the wall clock may be set back; and
                    \* what may raise
    StopOnFailure,  \* stop_on_failure
    Cancellable,    \* a cancellation_signal is passed
    Hooks           \* adapters with a shutdown hook, in release order

ASSUME AppAssumption ==
    /\ Sid \in SessionIds
    /\ Events \subseteq Nat
    /\ Runs \subseteq [mode : {"oneshot", "continuous"}, stream : Seq(Events) \cup {None},
                       regresses : BOOLEAN,
                       faults : SUBSET {"source", "event", "context", "engine", "emit",
                                        "hook", "interrupt"}]
    /\ {StopOnFailure, Cancellable} \subseteq BOOLEAN
    /\ 0 \in Times
    /\ Hooks \in Seq(Range(Hooks))

VARIABLES
    run,        \* the configuration of this run, one of Runs
    pc,         \* next step of run(), then of _execute_runtime
    now,        \* wall clock
    files,      \* events whose file lies in the watch directory
    cancelled,  \* cancellation_signal()
    queue,      \* rest of the batch
    consumed,   \* _event_source_consumed
    seen,       \* _seen_event_ids
    outcome,    \* outcome kind of the event just processed
    handed,     \* events passed to IngestionEngine.process, in order
    log,        \* emitted runtime events (skips left out)
    reason,     \* terminal_reason
    released,   \* adapters whose shutdown hook has run
    exit        \* exit code of the process, or None

loopVars == <<queue, consumed, seen, outcome, handed>>
hostVars == <<run, released, exit>>
envVars == <<now, files, cancelled>>
vars == <<sessionVars, pc, envVars, loopVars, log, reason, hostVars>>

OutcomeKinds == {"succeeded", "deferred_stage", "deferred_retry", "rejected",
                 "failed_terminal"}
FailureOutcomes == {"rejected", "failed_terminal"}
SuccessTerminals == {"end_of_stream", "cancelled", "soft_timeout"}
Reasons == SuccessTerminals \cup {"failed_terminal", "hard_timeout"}

Init == /\ SessionInit
        /\ run \in Runs
        /\ pc = "start"
        /\ now = 0 /\ files = {} /\ cancelled = FALSE
        /\ queue = <<>> /\ consumed = FALSE /\ seen = {}
        /\ outcome = "none" /\ handed = <<>>
        /\ log = <<>> /\ reason = "none"
        /\ released = {} /\ exit = None

-----------------------------------------------------------------------------
Goto(next) == pc' = next /\ UNCHANGED reason

\* Leave the loop for the terminal mapping behind it.
Break(why) == pc' = "terminate" /\ reason' = why

\* An exception inside the try block reaches its except clause.
RaiseInLoop == Goto("handler")

\* _emit: one runtime event; the emitter may raise.
Emit(entry, next, onError) ==
    \/ log' = Append(log, entry) /\ Goto(next)
    \/ "emit" \in run.faults /\ Goto(onError) /\ UNCHANGED log

\* start_session and _emit("runtime_started") stand in front of the try block.
Start == /\ pc = "start"
         /\ StartSession(Sid, now)
         /\ Goto("started")
         /\ UNCHANGED <<envVars, loopVars, log, hostVars>>

EmitStarted == /\ pc = "started"
               /\ Emit(<<"runtime_started">>, "loop", "raised")
               /\ UNCHANGED <<sessionVars, envVars, loopVars, hostVars>>

\* evaluate_timeouts, at the top of the loop and in front of every event.
CheckTimeouts(next) ==
    /\ EvaluateTimeouts(now)
    /\ \/ result' \in {"hard_timeout", "soft_timeout"} /\ Break(result')
       \/ result' = "time_source_error" /\ RaiseInLoop
       \/ result' = "still_active" /\ Goto(next)

\* Mutant: timeouts are checked in front of events only.
LoopTopUnchecked == /\ pc = "loop"
                    /\ Goto("poll")
                    /\ UNCHANGED <<sessionVars, envVars, loopVars, log, hostVars>>

LoopTop == /\ pc = "loop"
           /\ CheckTimeouts("poll")
           /\ UNCHANGED <<envVars, loopVars, log, hostVars>>

\* The files of a directory as a batch, oldest first.
Sorted(fs) == {s \in [1..Cardinality(fs) -> fs] :
                 \A i, j \in DOMAIN s : i < j => s[i] < s[j]}

\* _next_event_batch: the batch it returns is the one member of the set.
NextBatch == IF run.stream = None THEN Sorted(files)
             ELSE {IF consumed THEN <<>> ELSE run.stream}

\* An empty batch ends a oneshot run; a continuous one waits and polls again.
Poll == /\ pc = "poll"
        /\ \/ /\ queue' \in NextBatch
              /\ consumed' = TRUE
              /\ IF queue' # <<>> THEN Goto("event")
                 ELSE IF cancelled THEN Break("cancelled")
                 ELSE IF run.mode = "oneshot" THEN Break("end_of_stream")
                 ELSE Goto("loop")
           \/ /\ "source" \in run.faults
              /\ RaiseInLoop
              /\ UNCHANGED <<queue, consumed>>
        /\ UNCHANGED <<sessionVars, envVars, seen, outcome, handed, log, hostVars>>

\* The for statement of _process_event_batch and its timeout check.
NextEvent == /\ pc = "event"
             /\ \/ /\ queue = <<>>
                   /\ IF run.mode = "oneshot" THEN Break("end_of_stream")
                                              ELSE Goto("loop")
                   /\ UNCHANGED sessionVars
                \/ /\ queue # <<>>
                   /\ CheckTimeouts("admit")
             /\ UNCHANGED <<envVars, loopVars, log, hostVars>>

\* Mutant: the cancellation signal is only read for an event that is new.
AdmitBeforeCancel ==
    /\ pc = "admit"
    /\ IF Head(queue) \in seen
       THEN Goto("event") /\ queue' = Tail(queue) /\ UNCHANGED seen
       ELSE IF cancelled THEN Break("cancelled") /\ UNCHANGED <<queue, seen>>
       ELSE Goto("activity") /\ seen' = seen \cup {Head(queue)} /\ UNCHANGED queue
    /\ UNCHANGED <<sessionVars, envVars, consumed, outcome, handed, log, hostVars>>

\* Mutant: the event id is not remembered.
AdmitForgets ==
    /\ pc = "admit"
    /\ IF cancelled THEN Break("cancelled") ELSE Goto("activity")
    /\ UNCHANGED <<sessionVars, envVars, loopVars, log, hostVars>>

\* Cancellation, then the event id, then the duplicate check. The id counts as
\* seen before anything is known of the event's fate. Building the processing
\* context may raise.
Admit ==
    /\ pc = "admit"
    /\ \/ /\ cancelled
          /\ Break("cancelled")
          /\ UNCHANGED <<queue, seen>>
       \/ /\ ~cancelled /\ "event" \in run.faults
          /\ RaiseInLoop
          /\ UNCHANGED <<queue, seen>>
       \/ /\ ~cancelled /\ Head(queue) \in seen
          /\ \/ Goto("event") /\ queue' = Tail(queue)
             \/ "emit" \in run.faults /\ RaiseInLoop /\ UNCHANGED queue
          /\ UNCHANGED seen
       \/ /\ ~cancelled /\ Head(queue) \notin seen
          /\ seen' = seen \cup {Head(queue)}
          /\ \/ Goto("activity")
             \/ "context" \in run.faults /\ RaiseInLoop
          /\ UNCHANGED queue
    /\ UNCHANGED <<sessionVars, envVars, consumed, outcome, handed, log, hostVars>>

Activity ==
    /\ pc = "activity"
    /\ RecordActivity(Sid, now)
    /\ IF result' = "activity_recorded" THEN Goto("engine") ELSE RaiseInLoop
    /\ UNCHANGED <<envVars, loopVars, log, hostVars>>

\* IngestionEngine.process: a success has moved the file out of the watch
\* directory, any other outcome may have.
Engine ==
    /\ pc = "engine"
    /\ handed' = Append(handed, Head(queue))
    /\ \/ /\ Goto("processed")
          /\ outcome' \in OutcomeKinds
          /\ files' \in {files \ {Head(queue)}}
                        \cup (IF outcome' = "succeeded" THEN {} ELSE {files})
       \/ /\ "engine" \in run.faults
          /\ RaiseInLoop
          /\ UNCHANGED <<outcome, files>>
    /\ UNCHANGED <<sessionVars, now, cancelled, queue, consumed, seen, log, hostVars>>

EmitProcessed ==
    /\ pc = "processed"
    /\ Emit(<<"runtime_event_processed", Head(queue), outcome>>, "canonical", "handler")
    /\ UNCHANGED <<sessionVars, envVars, loopVars, hostVars>>

\* The canonical outcome event, then the failure policy.
AfterEvent ==
    /\ pc = "canonical"
    /\ \/ /\ outcome \in FailureOutcomes /\ StopOnFailure
          /\ Break("failed_terminal")
       \/ /\ ~(outcome \in FailureOutcomes /\ StopOnFailure)
          /\ Goto("event")
       \/ /\ "emit" \in run.faults
          /\ RaiseInLoop
    /\ queue' = Tail(queue)
    /\ UNCHANGED <<sessionVars, envVars, consumed, seen, outcome, handed, log, hostVars>>

-----------------------------------------------------------------------------
\* Mutant: the except clause emits without aborting the session.
HandlerKeepsSession ==
    /\ pc = "handler"
    /\ Goto("emit_failed")
    /\ UNCHANGED <<sessionVars, envVars, loopVars, log, hostVars>>

\* The except clause: abort_session, _emit, raise. Both calls may raise
\* themselves, abort_session when the clock has gone back.
Handler ==
    /\ pc = "handler"
    /\ AbortSession(Sid, now)
    /\ Goto(IF result' = "aborted" THEN "emit_failed" ELSE "raised")
    /\ UNCHANGED <<envVars, loopVars, log, hostVars>>

EmitFailed ==
    /\ pc = "emit_failed"
    /\ Emit(<<"runtime_failed", "runtime_exception">>, "raised", "raised")
    /\ UNCHANGED <<sessionVars, envVars, loopVars, hostVars>>

\* Mutant: a timeout has an event kind of its own.
TerminalEventTimeout(why) == CASE why = "hard_timeout"    -> "runtime_timeout"
                               [] why = "failed_terminal" -> "runtime_failed"
                               [] why = "cancelled"       -> "runtime_cancelled"
                               [] OTHER                   -> "runtime_completed"

TerminalEvent(why) == CASE why \in {"failed_terminal", "hard_timeout"} -> "runtime_failed"
                        [] why = "cancelled" -> "runtime_cancelled"
                        [] OTHER -> "runtime_completed"

\* Mutant: every regular end of the loop completes the session.
TerminateAlwaysStops ==
    /\ pc = "terminate"
    /\ StopSession(Sid, now)
    /\ Goto(IF result' \in TerminalKinds THEN "emit_terminal" ELSE "raised")
    /\ UNCHANGED <<envVars, loopVars, log, hostVars>>

\* Behind the loop: end the session as the reason demands. Nothing catches an
\* exception here.
Terminate ==
    /\ pc = "terminate"
    /\ IF TerminalEvent(reason) = "runtime_completed"
       THEN StopSession(Sid, now)
       ELSE AbortSession(Sid, now)
    /\ Goto(IF result' \in TerminalKinds THEN "emit_terminal" ELSE "raised")
    /\ UNCHANGED <<envVars, loopVars, log, hostVars>>

\* Mutant: the terminal mapping falls through into the failure path.
EmitTerminalFallsThrough ==
    /\ pc = "emit_terminal"
    /\ Emit(<<TerminalEvent(reason), reason>>, "emit_failed", "raised")
    /\ UNCHANGED <<sessionVars, envVars, loopVars, hostVars>>

EmitTerminal ==
    /\ pc = "emit_terminal"
    /\ Emit(<<TerminalEvent(reason), reason>>, "returned", "raised")
    /\ UNCHANGED <<sessionVars, envVars, loopVars, hostVars>>

\* Mutant: the exit code does not look at the shutdown.
ShutdownExitIgnoresHook ==
    /\ pc \in {"returned", "raised"}
    /\ pc' = "exited"
    /\ exit' = IF pc = "returned" /\ reason \in SuccessTerminals THEN 0 ELSE 1
    /\ \E n \in 0..Len(Hooks) :
          /\ n < Len(Hooks) => "hook" \in run.faults
          /\ released' = {Hooks[i] : i \in 1..n}
    /\ UNCHANGED <<sessionVars, run, envVars, loopVars, log, reason>>

\* _execute_runtime: the shutdown hooks run in order until one raises, then
\* the exit code is settled.
Shutdown ==
    /\ pc \in {"returned", "raised"}
    /\ pc' = "exited"
    /\ \E n \in 0..Len(Hooks) :
          /\ n < Len(Hooks) => "hook" \in run.faults
          /\ released' = {Hooks[i] : i \in 1..n}
          /\ exit' = IF n = Len(Hooks) /\ pc = "returned" /\ reason \in SuccessTerminals
                     THEN 0 ELSE 1
    /\ UNCHANGED <<sessionVars, run, envVars, loopVars, log, reason>>

-----------------------------------------------------------------------------
Running == pc \notin {"returned", "raised", "exited"}

\* KeyboardInterrupt is no Exception: no except clause of run() sees it.
Interrupt == /\ "interrupt" \in run.faults
             /\ Running
             /\ pc' = "raised"
             /\ UNCHANGED <<sessionVars, envVars, loopVars, log, reason, hostVars>>

\* The run starts at time 0.
Tick == /\ pc # "start"
        /\ \E t \in Times : t > now /\ now' = t
        /\ UNCHANGED <<sessionVars, pc, files, cancelled, loopVars, log, reason, hostVars>>

SetClockBack == /\ run.regresses
                /\ \E t \in Times : t < now /\ now' = t
                /\ UNCHANGED <<sessionVars, pc, files, cancelled, loopVars, log,
                               reason, hostVars>>

Cancel == /\ Cancellable /\ ~cancelled
          /\ cancelled' = TRUE
          /\ UNCHANGED <<sessionVars, pc, now, files, loopVars, log, reason, hostVars>>

Drop(e) == /\ Running /\ run.stream = None
           /\ files' = files \cup {e}
           /\ UNCHANGED <<sessionVars, pc, now, cancelled, loopVars, log, reason, hostVars>>

Step == \/ Start \/ EmitStarted \/ LoopTop \/ Poll \/ NextEvent \/ Admit \/ Activity
        \/ Engine \/ EmitProcessed \/ AfterEvent \/ Handler \/ EmitFailed
        \/ Terminate \/ EmitTerminal \/ Shutdown

Next == Step \/ Interrupt \/ Tick \/ SetClockBack \/ Cancel
        \/ (\E e \in Events : Drop(e))

\* The loop's thread keeps running: every call it makes returns or raises.
\* The clock advances. Files, signals and interrupts need not come.
Spec == Init /\ [][Next]_vars /\ WF_vars(Step) /\ WF_vars(Tick)

-----------------------------------------------------------------------------
TerminalEvents == {"runtime_completed", "runtime_cancelled", "runtime_failed"}

LogEntries ==
    {<<"runtime_started">>}
        \cup ({"runtime_event_processed"} \X Events \X OutcomeKinds)
        \cup (TerminalEvents \X (Reasons \cup {"runtime_exception"}))

\* Type invariant.
AppTypeOK ==
    /\ SessionTypeOK
    /\ pc \in {"start", "started", "loop", "poll", "event", "admit", "activity",
               "engine", "processed", "canonical", "handler", "emit_failed",
               "terminate", "emit_terminal", "returned", "raised", "exited"}
    /\ now \in Times /\ files \subseteq Events /\ cancelled \in BOOLEAN
    /\ queue \in Seq(Events) /\ consumed \in BOOLEAN /\ seen \subseteq Events
    /\ outcome \in OutcomeKinds \cup {"none"} /\ handed \in Seq(Events)
    /\ log \in Seq(LogEntries) /\ reason \in Reasons \cup {"none"}
    /\ released \subseteq Range(Hooks) /\ exit \in {None, 0, 1}

\* No event id reaches the ingestion engine twice in one run, although every
\* poll lists the files left in the directory again, files come back, and
\* exceptions leave batches half done.
HandedOnce == IsInjective(handed)

\* The emitted lifecycle is well formed on every path: runtime_started first
\* and once, at most one terminal event, nothing after it.
LifecycleInOrder ==
    \A i \in DOMAIN log : /\ log[i][1] = "runtime_started" <=> i = 1
                          /\ log[i][1] \in TerminalEvents => i = Len(log)

\* When run() returns, the terminal reason, the terminal event and the session
\* agree: completed and stopped, or cancelled or failed and aborted.
ResultAgrees ==
    pc = "returned" =>
        /\ log[Len(log)] = <<TerminalEvent(reason), reason>>
        /\ session.kind = IF log[Len(log)][1] = "runtime_completed"
                          THEN "completed" ELSE "aborted"

\* However run() is left after runtime_started, short of an interrupt or a
\* clock set back, no session is left active: exceptions of the source, the
\* engine, the context or the emitter included.
SessionEnded ==
    pc = "exited" /\ log # <<>> /\ ~run.regresses /\ "interrupt" \notin run.faults =>
        session.kind \in TerminalKinds

\* The process exits with 0 only if the session has ended, the terminal event
\* was emitted and every adapter has been released.
ExitCodeHonest ==
    exit = 0 => /\ session.kind \in TerminalKinds
                /\ log[Len(log)][1] \in TerminalEvents
                /\ released = Range(Hooks)

\* A run with max_runtime_seconds ends at its deadline at the latest, whatever
\* files keep arriving and whatever raises, if the clock is not set back.
RunEnds == <>(pc = "exited" \/ run.regresses)

\* A oneshot run and a cancelled run end without the help of any timeout (the
\* clock may be set back for ever), also if files nobody will ever process
\* again keep the batches of a continuous run from being empty.
StopsWhenAsked == (cancelled \/ run.mode = "oneshot") ~> pc = "exited"
=============================================================================
