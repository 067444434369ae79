--------------------------- MODULE SessionManager ---------------------------
(* The session lifecycle state machine of application/session:
   SessionManager keeps one immutable SessionState and replaces it in
   start_session, record_activity, stop_session and abort_session.
   evaluate_timeouts only classifies. A call that raises leaves the state as
   it was. Every operation takes its timestamp from the caller or from the
   wall clock, so time is any member of Times, earlier ones included. *)
EXTENDS Integers

CONSTANTS
    SessionIds,   \* normalized, non-empty session ids
    Times,        \* clock readings
    IdleTimeout,  \* SessionPolicy.idle_timeout_seconds, or None
    MaxRuntime,   \* SessionPolicy.max_runtime_seconds, or None
    None          \* Python's None

ASSUME TimesAssumption  == Times \subseteq Int
ASSUME PolicyAssumption == {IdleTimeout, MaxRuntime} \subseteq Nat \cup {None}
ASSUME NoneAssumption   == None \notin Int \cup SessionIds

VARIABLES
    session,  \* SessionManager._state
    result    \* what the last call returned or raised

sessionVars == <<session, result>>

\* SessionStateKind. "starting" and "stopping" are declared by the enum and
\* assigned by no operation.
Kinds == {"inactive", "starting", "active", "stopping", "aborted", "completed"}

TerminalKinds == {"aborted", "completed"}

Inactive == [kind    |-> "inactive", id   |-> None, started |-> None,
             last    |-> None,       ended |-> None]

SessionInit == /\ session = Inactive
               /\ result = "none"

-----------------------------------------------------------------------------
\* _require_active_session: the error it raises, or "ok".
RequireActive(id) ==
    IF session.kind # "active" THEN "not_started_error"
    ELSE IF session.id # id THEN "transition_error"
    ELSE "ok"

\* A call that raises changes nothing but the result its caller sees.
Raise(error) == /\ result' = error
                /\ UNCHANGED session

\* Mutant: an ended session may be started again.
StartSessionAgain(id, t) ==
    \/ /\ session.kind = "active"
       /\ Raise(IF session.id = id THEN "idempotent_start" ELSE "transition_error")
    \/ /\ session.kind # "active"
       /\ session' = [kind |-> "active", id |-> id, started |-> t,
                      last |-> t, ended |-> None]
       /\ result' = "started"

StartSession(id, t) ==
    \/ /\ session.kind = "active"
       /\ Raise(IF session.id = id THEN "idempotent_start"
                                   ELSE "transition_error")
    \/ /\ session.kind \notin {"active", "inactive"}
       /\ Raise("transition_error")
    \/ /\ session.kind = "inactive"
       /\ session' = [kind |-> "active", id |-> id, started |-> t,
                      last |-> t, ended |-> None]
       /\ result' = "started"

RecordActivity(id, t) ==
    \/ /\ RequireActive(id) # "ok"
       /\ Raise(RequireActive(id))
    \/ /\ RequireActive(id) = "ok"
       /\ t < session.last
       /\ Raise("time_source_error")
    \/ /\ RequireActive(id) = "ok"
       /\ t >= session.last
       /\ session' = [session EXCEPT !.last = t]
       /\ result' = "activity_recorded"

\* Mutant: the end time is not compared with the last activity.
EndSessionAnytime(id, t, kind) ==
    IF RequireActive(id) # "ok" THEN Raise(RequireActive(id))
    ELSE /\ session' = [session EXCEPT !.kind = kind, !.ended = t]
         /\ result' = kind

\* stop_session and abort_session differ in the terminal kind they assign.
EndSession(id, t, kind) ==
    \/ /\ RequireActive(id) # "ok"
       /\ Raise(RequireActive(id))
    \/ /\ RequireActive(id) = "ok"
       /\ t < session.last
       /\ Raise("time_source_error")
    \/ /\ RequireActive(id) = "ok"
       /\ t >= session.last
       /\ session' = [session EXCEPT !.kind = kind, !.ended = t]
       /\ result' = kind

StopSession(id, t)  == EndSession(id, t, "completed")
AbortSession(id, t) == EndSession(id, t, "aborted")

\* Mutant: the runtime is measured from the last activity.
TimeoutFromActivity(s, t) ==
    IF s.kind # "active" THEN "not_started"
    ELSE IF t < s.started \/ t < s.last THEN "time_source_error"
    ELSE IF MaxRuntime # None /\ t - s.last >= MaxRuntime THEN "hard_timeout"
    ELSE "still_active"

\* The outcome of evaluate_timeouts for session state s at time t.
TimeoutOutcome(s, t) ==
    IF s.kind # "active" THEN "not_started"
    ELSE IF t < s.started \/ t < s.last THEN "time_source_error"
    ELSE IF MaxRuntime # None /\ t - s.started >= MaxRuntime THEN "hard_timeout"
    ELSE IF IdleTimeout # None /\ t - s.last >= IdleTimeout THEN "soft_timeout"
    ELSE "still_active"

EvaluateTimeouts(t) == Raise(TimeoutOutcome(session, t))

-----------------------------------------------------------------------------
SessionNext ==
    \E t \in Times :
        \/ \E id \in SessionIds : \/ StartSession(id, t)
                                  \/ RecordActivity(id, t)
                                  \/ StopSession(id, t)
                                  \/ AbortSession(id, t)
        \/ EvaluateTimeouts(t)

SessionSpec == SessionInit /\ [][SessionNext]_sessionVars

-----------------------------------------------------------------------------
Results == {"none", "started", "idempotent_start", "activity_recorded",
            "completed", "aborted", "transition_error", "not_started_error",
            "time_source_error", "not_started", "hard_timeout",
            "soft_timeout", "still_active"}

\* Type invariant of the manager's state and of what its calls return.
SessionTypeOK ==
    /\ session \in [kind : Kinds, id : SessionIds \cup {None},
                    started : Times \cup {None}, last : Times \cup {None},
                    ended : Times \cup {None}]
    /\ result \in Results

\* Whatever order of calls and whatever the clock readings, the timestamps of
\* a session are present exactly when its lifecycle has reached them and are
\* ordered started <= last <= ended: start_session, record_activity,
\* stop_session and abort_session together keep SessionState consistent.
LifecycleConsistent ==
    /\ session.kind = "inactive" => session = Inactive
    /\ session.kind # "inactive" =>
         /\ session.id # None /\ session.started # None /\ session.last # None
         /\ session.started <= session.last
    /\ session.kind \in TerminalKinds <=> session.ended # None
    /\ session.ended # None => session.last <= session.ended
    /\ session.kind \notin {"starting", "stopping"}

\* A session's id and start time never change once it is started, its end is
\* final, and its last activity never moves backwards.
LifecycleForward ==
    [][/\ session.kind # "inactive" =>
            /\ session'.id = session.id
            /\ session'.started = session.started
            /\ session'.last >= session.last
       /\ session.kind \in TerminalKinds => session' = session]_sessionVars

\* Activity cannot postpone the hard timeout: once evaluate_timeouts would
\* report hard_timeout at some reading, it reports it at every later reading
\* the session accepts, whatever record_activity calls come in between.
HardTimeoutIsFinal ==
    [][\A t1, t2 \in Times :
          /\ TimeoutOutcome(session, t1) = "hard_timeout"
          /\ session'.kind = "active"
          /\ t2 >= t1
          /\ t2 >= session'.last
          => TimeoutOutcome(session', t2) = "hard_timeout"]_sessionVars
=============================================================================
