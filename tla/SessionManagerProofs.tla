------------------------ MODULE SessionManagerProofs ------------------------
(* Proofs about SessionManager for every set of ids, every set of integer
   clock readings and every timeout policy. SessionTypeOK and
   LifecycleConsistent are inductive together: the order of the timestamps
   needs their types, and the types of what record_activity keeps need that
   an active session has its timestamps. *)
EXTENDS SessionManager, TLAPS

\* The inductive invariant of the session manager.
SessionInv == SessionTypeOK /\ LifecycleConsistent

\* The shape of an active session: what the handlers of an active session
\* may rely on.
LEMMA ActiveSession ==
    ASSUME SessionInv, session.kind = "active"
    PROVE  /\ session.id \in SessionIds
           /\ session.started \in Times /\ session.last \in Times
           /\ session.started \in Int /\ session.last \in Int
           /\ session.started <= session.last
           /\ session.ended = None
BY TimesAssumption, NoneAssumption
   DEF SessionInv, SessionTypeOK, LifecycleConsistent, TerminalKinds

\* SessionManager.__init__ establishes the invariant.
LEMMA InitInv == SessionInit => SessionInv
BY DEF SessionInit, SessionInv, SessionTypeOK, LifecycleConsistent, Inactive,
       Kinds, TerminalKinds, Results

\* start_session preserves the invariant: the new session is well formed and
\* every other path leaves the state alone.
LEMMA StartInv ==
    ASSUME SessionInv, NEW id \in SessionIds, NEW t \in Times, StartSession(id, t)
    PROVE  SessionInv'
<1> USE DEF SessionInv, SessionTypeOK, LifecycleConsistent, Kinds, TerminalKinds
<1>1. CASE session.kind # "inactive"
  <2>1. session' = session /\ result' \in Results
    BY <1>1 DEF StartSession, Raise, Results
  <2> QED BY <2>1
<1>2. CASE session.kind = "inactive"
  <2>1. session' = [kind |-> "active", id |-> id, started |-> t, last |-> t,
                    ended |-> None]
    BY <1>2 DEF StartSession
  <2>2. result' \in Results
    BY <1>2 DEF StartSession, Results
  <2> QED BY <2>1, <2>2, TimesAssumption, NoneAssumption
<1> QED BY <1>1, <1>2

\* The errors of _require_active_session are results.
LEMMA RequireActiveResult ==
    ASSUME NEW id, RequireActive(id) # "ok"
    PROVE  RequireActive(id) \in Results
BY DEF RequireActive, Results

\* record_activity preserves the invariant.
LEMMA ActivityInv ==
    ASSUME SessionInv, NEW id \in SessionIds, NEW t \in Times, RecordActivity(id, t)
    PROVE  SessionInv'
<1>1. CASE UNCHANGED session
  <2>1. result' \in Results
    BY RequireActiveResult DEF RecordActivity, Raise, Results
  <2> QED BY <1>1, <2>1 DEF SessionInv, SessionTypeOK, LifecycleConsistent
<1>2. CASE /\ RequireActive(id) = "ok" /\ t >= session.last
           /\ session' = [session EXCEPT !.last = t]
           /\ result' = "activity_recorded"
  <2>1. session.kind = "active"
    BY <1>2 DEF RequireActive
  <2>2. session.started <= t
    BY <1>2, <2>1, ActiveSession, TimesAssumption
  <2> QED BY <1>2, <2>1, <2>2, ActiveSession, TimesAssumption, NoneAssumption
          DEF SessionInv, SessionTypeOK, LifecycleConsistent, Kinds,
              TerminalKinds, Results
<1> QED BY <1>1, <1>2 DEF RecordActivity, Raise

\* stop_session and abort_session preserve the invariant.
LEMMA EndInv ==
    ASSUME SessionInv, NEW id \in SessionIds, NEW t \in Times,
           NEW kind \in TerminalKinds, EndSession(id, t, kind)
    PROVE  SessionInv'
<1>1. CASE UNCHANGED session
  <2>1. result' \in Results
    BY RequireActiveResult DEF EndSession, Raise, Results, TerminalKinds
  <2> QED BY <1>1, <2>1 DEF SessionInv, SessionTypeOK, LifecycleConsistent
<1>2. CASE /\ RequireActive(id) = "ok" /\ t >= session.last
           /\ session' = [session EXCEPT !.kind = kind, !.ended = t]
           /\ result' = kind
  <2>1. session.kind = "active"
    BY <1>2 DEF RequireActive
  <2> QED BY <1>2, <2>1, ActiveSession, TimesAssumption, NoneAssumption
          DEF SessionInv, SessionTypeOK, LifecycleConsistent, Kinds,
              TerminalKinds, Results
<1> QED BY <1>1, <1>2 DEF EndSession, Raise

\* evaluate_timeouts preserves the invariant: it only classifies.
LEMMA TimeoutInv ==
    ASSUME SessionInv, NEW t \in Times, EvaluateTimeouts(t)
    PROVE  SessionInv'
<1>1. TimeoutOutcome(session, t) \in Results
  <2>1. CASE session.kind # "active"
    BY <2>1 DEF TimeoutOutcome, Results
  <2>2. CASE session.kind = "active"
    BY <2>2, ActiveSession, TimesAssumption DEF TimeoutOutcome, Results
  <2> QED BY <2>1, <2>2
<1> QED BY <1>1 DEF EvaluateTimeouts, Raise, SessionInv, SessionTypeOK,
                    LifecycleConsistent

\* Every step of the session manager preserves the invariant.
LEMMA NextInv == SessionInv /\ [SessionNext]_sessionVars => SessionInv'
<1> SUFFICES ASSUME SessionInv, [SessionNext]_sessionVars PROVE SessionInv'
  OBVIOUS
<1>1. CASE UNCHANGED sessionVars
  BY <1>1 DEF sessionVars, SessionInv, SessionTypeOK, LifecycleConsistent
<1>2. CASE SessionNext
  <2>1. PICK t \in Times :
            \/ \E id \in SessionIds : \/ StartSession(id, t)
                                      \/ RecordActivity(id, t)
                                      \/ StopSession(id, t)
                                      \/ AbortSession(id, t)
            \/ EvaluateTimeouts(t)
    BY <1>2 DEF SessionNext
  <2>2. CASE EvaluateTimeouts(t)
    BY <2>2, TimeoutInv
  <2>3. ASSUME NEW id \in SessionIds, StartSession(id, t) PROVE SessionInv'
    BY <2>3, StartInv
  <2>4. ASSUME NEW id \in SessionIds, RecordActivity(id, t) PROVE SessionInv'
    BY <2>4, ActivityInv
  <2>5. ASSUME NEW id \in SessionIds, StopSession(id, t) PROVE SessionInv'
    BY <2>5, EndInv DEF StopSession, TerminalKinds
  <2>6. ASSUME NEW id \in SessionIds, AbortSession(id, t) PROVE SessionInv'
    BY <2>6, EndInv DEF AbortSession, TerminalKinds
  <2> QED BY <2>1, <2>2, <2>3, <2>4, <2>5, <2>6
<1> QED BY <1>1, <1>2

\* The session state is well typed and its timestamps are consistent in every
\* reachable state, for every policy and every clock.
THEOREM SessionConsistent == SessionSpec => [](SessionTypeOK /\ LifecycleConsistent)
<1>1. SessionSpec => []SessionInv
  BY InitInv, NextInv, PTL DEF SessionSpec
<1> QED BY <1>1, PTL DEF SessionInv

\* What one step may do to a session that was started.
LEMMA StepForward ==
    ASSUME SessionInv, SessionNext, session.kind # "inactive"
    PROVE  /\ session'.id = session.id
           /\ session'.started = session.started
           /\ session'.last >= session.last
           /\ session.kind \in TerminalKinds => session' = session
<1> USE DEF SessionInv, SessionTypeOK, LifecycleConsistent
<1>0. session.last \in Int /\ session.last >= session.last
  <2>1. session.last \in Times
    OBVIOUS
  <2>2. session.last \in Int
    BY <2>1, TimesAssumption
  <2> QED BY ONLY <2>2
<1>1. CASE UNCHANGED session
  BY <1>0, <1>1
<1>2. CASE session' # session
  <2>1. PICK t \in Times, id \in SessionIds :
            /\ RequireActive(id) = "ok" /\ t >= session.last
            /\ \/ session' = [session EXCEPT !.last = t]
               \/ \E kind \in TerminalKinds :
                      session' = [session EXCEPT !.kind = kind, !.ended = t]
    BY <1>2 DEF SessionNext, StartSession, RecordActivity, StopSession,
                AbortSession, EndSession, EvaluateTimeouts, Raise, TerminalKinds
  <2>2. session.kind = "active"
    BY <2>1 DEF RequireActive
  <2> QED BY <2>1, <2>2, <1>0 DEF TerminalKinds
<1> QED BY <1>1, <1>2

\* A started session keeps its id and its start, its activity never moves
\* backwards and its end is final, in every behaviour.
THEOREM SessionMovesForward == SessionSpec => LifecycleForward
<1>1. SessionInv /\ [SessionNext]_sessionVars =>
        [/\ session.kind # "inactive" =>
              /\ session'.id = session.id
              /\ session'.started = session.started
              /\ session'.last >= session.last
         /\ session.kind \in TerminalKinds => session' = session]_sessionVars
  BY StepForward DEF TerminalKinds
<1> QED BY <1>1, InitInv, NextInv, PTL DEF SessionSpec, LifecycleForward

\* The hard timeout, once reached, stays: no activity revives the session.
THEOREM HardTimeoutStays == SessionSpec => HardTimeoutIsFinal
<1>1. ASSUME SessionInv, SessionNext, NEW t1 \in Times, NEW t2 \in Times,
             TimeoutOutcome(session, t1) = "hard_timeout",
             session'.kind = "active", t2 >= t1, t2 >= session'.last
      PROVE  TimeoutOutcome(session', t2) = "hard_timeout"
  <2>1. /\ session.kind = "active" /\ MaxRuntime # None
        /\ t1 - session.started >= MaxRuntime
    BY <1>1 DEF TimeoutOutcome
  <2>2. session'.started = session.started
    BY <1>1, <2>1, StepForward
  <2>3. session.started \in Int /\ t1 \in Int /\ t2 \in Int /\ MaxRuntime \in Nat
    BY <1>1, <2>1, ActiveSession, TimesAssumption, PolicyAssumption
  <2>4. t2 - session'.started >= MaxRuntime
    BY <1>1, <2>1, <2>2, <2>3
  <2>5. t2 >= session'.started
    BY <2>2, <2>3, <2>4
  <2>6. SessionInv'
    BY <1>1, NextInv
  <2>7. session'.last \in Int
    BY <1>1, <2>6, TimesAssumption, NoneAssumption
       DEF SessionInv, SessionTypeOK, LifecycleConsistent
  <2>8. session'.started \in Int
    BY <2>2, <2>3
  <2> QED BY <1>1, <2>1, <2>3, <2>4, <2>5, <2>7, <2>8 DEF TimeoutOutcome
<1>2. SessionInv /\ [SessionNext]_sessionVars =>
        [\A t1, t2 \in Times :
            /\ TimeoutOutcome(session, t1) = "hard_timeout"
            /\ session'.kind = "active"
            /\ t2 >= t1
            /\ t2 >= session'.last
            => TimeoutOutcome(session', t2) = "hard_timeout"]_sessionVars
  BY <1>1
<1> QED BY <1>2, InitInv, NextInv, PTL DEF SessionSpec, HardTimeoutIsFinal
=============================================================================
