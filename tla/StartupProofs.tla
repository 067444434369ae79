---------------------------- MODULE StartupProofs ----------------------------
(* Proofs about PluginHost and Startup for every set of plugin modules, every
   manifest, every request and any number of bootstraps. *)
EXTENDS Startup, WellFoundedInduction, TLAPS

(***************************************************************************)
(* The plugin host.                                                        *)
(***************************************************************************)

\* What the host's books say about the plugins that run, between calls and
\* inside one: activate_profile keeps them in current_active, shutdown works
\* through a copy of the active set.
HostInv ==
    /\ call = [op |-> call.op, cur |-> call.cur, down |-> call.down, add |-> call.add]
    /\ call.op \in {"none", "activate", "shutdown"}
    /\ call.op = "none" => up \subseteq active /\ (~aborted => active = up)
    /\ call.op = "activate" => up \subseteq call.cur /\ (~aborted => call.cur = up)
    /\ call.op = "shutdown" => up \subseteq call.down /\ call.down \subseteq active

\* A new host satisfies the invariant.
LEMMA HostInitInv == HostInit => HostInv
BY DEF HostInit, HostInv, NoCall

\* Every call that enters the host, and every hook that returns or raises
\* inside one, keeps the invariant.
LEMMA HostStepInv == HostInv /\ [HostNext]_hostVars => HostInv'
<1> SUFFICES ASSUME HostInv, [HostNext]_hostVars PROVE HostInv'
  OBVIOUS
<1> USE DEF HostInv
<1>1. ASSUME NEW ms \in SUBSET Modules \ {{}}, RegisterDescriptors(ms) PROVE HostInv'
  BY <1>1 DEF RegisterDescriptors
<1>2. ASSUME NEW p \in Profiles, NEW allow \in SUBSET PluginIds,
             NEW deny \in SUBSET PluginIds,
             ActivateProfile(p, KnownProfiles(registered), allow, deny)
      PROVE HostInv'
  BY <1>2 DEF ActivateProfile, NoCall
<1>3. CASE ShutdownHost
  BY <1>3 DEF ShutdownHost, NoCall
<1>4. CASE Deactivate
  BY <1>4 DEF Deactivate
<1>5. CASE DeactivateFails
  BY <1>5 DEF DeactivateFails, NoCall
<1>6. CASE Activate
  BY <1>6 DEF Activate
<1>7. CASE ActivateFails
  BY <1>7 DEF ActivateFails, NoCall
<1>8. CASE ActivateReturns
  BY <1>8 DEF ActivateReturns, NoCall
<1>9. CASE StopPlugin
  BY <1>9 DEF StopPlugin
<1>10. CASE StopPluginFails
  BY <1>10 DEF StopPluginFails, NoCall
<1>11. CASE ShutdownReturns
  BY <1>11 DEF ShutdownReturns, NoCall
<1>12. CASE UNCHANGED hostVars
  BY <1>12 DEF hostVars
<1> QED
  BY <1>1, <1>2, <1>3, <1>4, <1>5, <1>6, <1>7, <1>8, <1>9, <1>10, <1>11, <1>12
     DEF HostNext, HostStep

\* Whatever hooks raise, a plugin that runs is in the host's active set between
\* calls, and without a failed shutdown() the set is exactly what runs.
THEOREM HostForgetsNoPlugin == HostSpec => [](NoForgottenPlugin /\ ActiveAreUp)
<1>1. HostInv => NoForgottenPlugin /\ ActiveAreUp
  BY DEF HostInv, NoForgottenPlugin, ActiveAreUp, NoCall
<1> QED BY <1>1, HostInitInv, HostStepInv, PTL DEF HostSpec

\* The smallest of a non-empty set of plugin ids is one of them.
LEMMA SmallestIsMember ==
    ASSUME NEW S \in SUBSET Nat, S # {}
    PROVE  Smallest(S) \in S
<1> DEFINE less == {ss \in Nat \X Nat : ss[1] < ss[2]}
<1>1. IsWellFoundedOn(less, Nat)
  BY NatLessThanWellFounded DEF OpToRel
<1> HIDE DEF less
<1>2. PICK x \in S : \A y \in S : ~(<<y, x>> \in less)
  BY <1>1, WFMin
<1>3. ASSUME NEW y \in S PROVE x <= y
  <2>1. <<y, x>> \in Nat \X Nat /\ <<y, x>>[1] = y /\ <<y, x>>[2] = x
    OBVIOUS
  <2>2. ~(y < x)
    BY <1>2, <2>1 DEF less
  <2> QED BY <2>2
<1> QED BY <1>3 DEF Smallest

\* Ids of modules are natural numbers.
LEMMA IdsAreNaturals == ASSUME NEW ms \in SUBSET Modules PROVE Ids(ms) \in SUBSET Nat
BY ManifestAssumption DEF Ids, Id

(***************************************************************************)
(* Bootstrap and shutdown.                                                 *)
(***************************************************************************)

\* Phases in which run_bootstrap has not come to the plugins factory yet.
Early == {"idle", "settings", "dependencies", "context", "compose"}
\* Phases in which compose_runtime has not been called yet.
Uncomposed == {"settings", "dependencies", "context"}
\* Phases in which compose_runtime has bound every port.
Composed == {"ports", "launch", "running"}

\* Plugins the host has activated, or is about to, are registered.
Registered ==
    /\ registered \subseteq Modules
    /\ active \subseteq Ids(registered)
    /\ call.cur \subseteq Ids(registered) /\ call.add \subseteq Ids(registered)

\* Adapters that hold a resource were made and have a shutdown hook.
PortsInv ==
    /\ made \in Seq(Ports)
    /\ pc \in Uncomposed => made = <<>>
    /\ pc = "compose" => Len(made) < Len(PortOrder)
    /\ pc # "idle" => open \subseteq Hooks

\* In front of the shutdown nothing of it has happened, and started plugins are
\* in the hands of the plugins adapter or of the call that activates them;
\* during the shutdown, what is still open is what is still to be closed.
ReleaseInv ==
    /\ pc \in Early =>
         call = NoCall /\ registered = {} /\ active = {} /\ up = {} /\ aborted = FALSE
    /\ pc \in Early \cup Composed \cup {"plugins"} => hasRun = FALSE
    /\ pc \in Early \cup {"plugins", "ports"} => cleanup \in Seq({"dependencies"})
    /\ pc = "launch" => \E i \in DOMAIN cleanup : cleanup[i] = "composition"
    /\ pc = "plugins" => "plugins" \notin req.doubles
    /\ pc \in Composed => call = NoCall /\ ("plugins" \notin open => up = {})
    /\ pc = "running" => result = "success"
    /\ pc = "releasing" /\ TakenDown /\ ~raised =>
         open \subseteq closing /\ ("plugins" \notin closing => up = {})
    /\ pc \in {"cleanup", "ended"} /\ TakenDown /\ ~raised =>
         open = {} /\ up = {}

\* While the program runs, its plugin policy is the one the present settings
\* and the present plugins give, and processors are chosen under it.
PolicyInv ==
    /\ pc \in Early \cup {"plugins", "ports", "launch"} => chosen = NoProcessor
    /\ pc \in {"launch", "running"} => policy = Policy /\ ~PolicyRaises
    /\ pc = "running" /\ chosen # NoProcessor =>
         chosen.id \in CandidateIds /\ (chosen.real <=> chosen.id \in processors)

\* Settings apart from the root directory.
SansRoot(s) == [s EXCEPT !.root = None]

\* Settings, cached or loaded, are those of the sources they stand for, but for
\* the root directory.
CacheInv ==
    /\ cache # NoEntry =>
         SansRoot(cache.settings) = SansRoot(FromRaw(Merged(cache.fingerprint), None))
    /\ cfg # None => SansRoot(cfg) = SansRoot(FromRaw(Merged(Sources(req)), None))

\* The inductive invariant.
StartupInv == HostInv /\ Registered /\ PortsInv /\ ReleaseInv /\ PolicyInv /\ CacheInv

\* The state before the first bootstrap satisfies the invariant.
LEMMA StartupInitInv == Init => StartupInv
<1> SUFFICES ASSUME Init PROVE StartupInv
  OBVIOUS
<1>1. HostInv /\ Registered
  BY HostInitInv DEF Init, HostInit, Registered, NoCall
<1>2. PortsInv /\ ReleaseInv /\ PolicyInv /\ CacheInv
  BY DEF Init, HostInit, PortsInv, ReleaseInv, PolicyInv, CacheInv, Early, Composed,
         PortOrder
<1> QED BY <1>1, <1>2 DEF StartupInv

\* Before the composition is registered, a failure goes straight to the
\* dependency cleanup: nothing is released.
LEMMA EarlyFailure ==
    ASSUME NEW stage, cleanup \in Seq({"dependencies"}), Fail(stage)
    PROVE  pc' = "cleanup" /\ result' = stage /\ UNCHANGED <<closing, hasRun>>
BY DEF Fail

\* The host's books stay in order: inside a bootstrap the host is driven by the
\* calls of its own specification, or it is new.
LEMMA StepHostInv == StartupInv /\ [Next]_vars => HostInv'
<1> SUFFICES ASSUME StartupInv, [Next]_vars PROVE HostInv'
  OBVIOUS
<1>1. ASSUME [HostNext]_hostVars PROVE HostInv'
  BY <1>1, HostStepInv DEF StartupInv
<1>2. ASSUME NEW r \in Requests, Bootstrap(r) PROVE HostInv'
  BY <1>2 DEF Bootstrap, HostInv, NoCall
<1>3. ASSUME NEW importable \in SUBSET Modules, BuildPlugins(importable) PROVE HostInv'
  <2>1. call = NoCall /\ active = {} /\ up = {}
    BY <1>3 DEF StartupInv, ReleaseInv, Early, BuildPlugins
  <2>2. CASE UNCHANGED hostVars
    BY <2>2, <1>1
  <2>3. CASE ~UNCHANGED hostVars
    BY <1>3, <2>1, <2>3 DEF BuildPlugins, HostInv, NoCall
  <2> QED BY <2>2, <2>3
<1>4. ASSUME \/ LoadSettings \/ ResolveDependencies \/ BuildContext \/ Instantiate
             \/ InstantiateFails \/ PluginDouble \/ BuildApp \/ Launch \/ LaunchUnreported \/ LaunchFails
      PROVE HostInv'
  BY <1>4, <1>1 DEF LoadSettings, ResolveDependencies, BuildContext, Instantiate,
       InstantiateFails, PluginDouble, BuildApp, Launch, LaunchUnreported, LaunchFails
<1>5. ASSUME \/ DryRunEnds \/ RunEnds \/ Release \/ ReleaseEnds \/ ReportFailure
             \/ \E supports, failing \in SUBSET PluginIds : SelectProcessor(supports, failing)
             \/ UNCHANGED vars
      PROVE HostInv'
  BY <1>5, <1>1 DEF DryRunEnds, RunEnds, Release, ReleaseEnds, ReportFailure, SelectProcessor,
                      vars
<1>6. ASSUME \/ ActivatePlugin \/ ActivationFails \/ PluginsReady
             \/ ReleasePlugins \/ ReleaseRaises
      PROVE HostInv'
  BY <1>6, <1>1 DEF ActivatePlugin, ActivationFails, PluginsReady, ReleasePlugins,
       ReleaseRaises, HostNext, HostStep
<1> QED BY <1>2, <1>3, <1>4, <1>5, <1>6 DEF Next, Step

\* Only registered plugins are activated.
LEMMA StepRegistered == StartupInv /\ [Next]_vars => Registered'
<1> SUFFICES ASSUME StartupInv, [Next]_vars PROVE Registered'
  OBVIOUS
<1> USE DEF Registered
<1>0. Registered
  BY DEF StartupInv
<1>1. ASSUME UNCHANGED hostVars PROVE Registered'
  BY <1>0, <1>1 DEF hostVars
<1>2. ASSUME NEW r \in Requests, Bootstrap(r) PROVE Registered'
  BY <1>2 DEF Bootstrap, NoCall
<1>3. ASSUME NEW importable \in SUBSET Modules, BuildPlugins(importable) PROVE Registered'
  <2>1. call = NoCall /\ active = {} /\ up = {}
    BY <1>3 DEF StartupInv, ReleaseInv, Early, BuildPlugins
  <2>2. CASE UNCHANGED hostVars
    BY <2>2, <1>1
  <2>3. CASE ~UNCHANGED hostVars
    <3>1. ASSUME NEW ms, NEW p PROVE Selected(ms, p, {}, {}) \subseteq Ids(ms)
      BY DEF Selected, Ids
    <3>2. Usable(importable) \subseteq Modules
      BY DEF Usable
    <3>3. registered' = Usable(importable) /\ active' = active
      BY <1>3, <2>3 DEF BuildPlugins
    <3>4. PICK p : call' = [NoCall EXCEPT !.op = "activate",
                              !.add = Selected(Usable(importable), p, {}, {})]
      BY <1>3, <2>3 DEF BuildPlugins
    <3>5. call'.cur = {} /\ call'.add = Selected(Usable(importable), p, {}, {})
      BY <3>4 DEF NoCall
    <3> QED BY <2>1, <3>1, <3>2, <3>3, <3>5
  <2> QED BY <2>2, <2>3
<1>4. ASSUME \/ LoadSettings \/ ResolveDependencies \/ BuildContext \/ Instantiate
             \/ InstantiateFails \/ PluginDouble \/ BuildApp \/ Launch \/ LaunchUnreported \/ LaunchFails
      PROVE Registered'
  BY <1>4, <1>1 DEF LoadSettings, ResolveDependencies, BuildContext, Instantiate,
       InstantiateFails, PluginDouble, BuildApp, Launch, LaunchUnreported, LaunchFails
<1>5. ASSUME \/ DryRunEnds \/ RunEnds \/ Release \/ ReleaseEnds \/ ReportFailure
             \/ \E supports, failing \in SUBSET PluginIds : SelectProcessor(supports, failing)
             \/ UNCHANGED vars
      PROVE Registered'
  BY <1>5, <1>1 DEF DryRunEnds, RunEnds, Release, ReleaseEnds, ReportFailure, SelectProcessor,
                      vars
<1>6. CASE ActivatePlugin
  <2>1. Smallest(call.add) \in call.add
    BY <1>0, <1>6, SmallestIsMember, IdsAreNaturals DEF ActivatePlugin, Activate
  <2>2. /\ call'.cur = call.cur \cup {Smallest(call.add)}
        /\ call'.add = call.add \ {Smallest(call.add)}
        /\ UNCHANGED <<registered, active>>
    BY <1>6 DEF ActivatePlugin, Activate, StartupInv, HostInv
  <2> QED BY <1>0, <2>1, <2>2
<1>7. ASSUME ActivationFails \/ PluginsReady PROVE Registered'
  BY <1>0, <1>7 DEF ActivationFails, PluginsReady, ActivateFails, ActivateReturns, NoCall
<1>8. ASSUME ReleasePlugins \/ ReleaseRaises PROVE Registered'
  <2>1. CASE ShutdownHost
    BY <1>0, <2>1 DEF ShutdownHost, NoCall
  <2>2. CASE StopPlugin
    BY <1>0, <2>2 DEF StopPlugin, StartupInv, HostInv
  <2>3. ASSUME StopPluginFails \/ ShutdownReturns PROVE Registered'
    BY <1>0, <2>3 DEF StopPluginFails, ShutdownReturns, NoCall
  <2> QED BY <1>1, <1>8, <2>1, <2>2, <2>3 DEF ReleasePlugins, ReleaseRaises
<1> QED BY <1>2, <1>3, <1>4, <1>5, <1>6, <1>7, <1>8 DEF Next, Step

\* The eight ports, plugins last.
LEMMA OrderLength ==
    Len(PortOrder) = 8 /\ DOMAIN PortOrder = 1..8 /\ "plugins" \in Ports
<1>1. Len(PortOrder) = 8 /\ DOMAIN PortOrder = 1..8 /\ PortOrder[8] = "plugins"
  BY DEF PortOrder
<1> QED BY <1>1 DEF Ports

\* What holds a resource can be shut down: an adapter is open only if it is one
\* shutdown_all has a hook for.
LEMMA StepPortsInv == StartupInv /\ [Next]_vars => PortsInv'
<1> SUFFICES ASSUME StartupInv, [Next]_vars PROVE PortsInv'
  OBVIOUS
<1> USE DEF PortsInv, Hooks
<1>0. PortsInv
  BY DEF StartupInv
<1>1. ASSUME UNCHANGED <<made, open, req, pc>> PROVE PortsInv'
  BY <1>0, <1>1
<1>2. ASSUME UNCHANGED <<made, req>>, open' \subseteq open, pc # "idle", pc' # "compose",
             pc' \in Uncomposed => pc \in Uncomposed
      PROVE PortsInv'
  BY <1>0, <1>2
<1>3. ASSUME NEW r \in Requests, Bootstrap(r) PROVE PortsInv'
  BY <1>3 DEF Bootstrap
<1>4. CASE BuildContext
  <2>1. made = <<>> /\ UNCHANGED <<made, open, req>>
    BY <1>0, <1>4 DEF BuildContext, Uncomposed, bootVars
  <2>2. pc = "context" /\ (pc' = "compose" \/ pc' = "cleanup" \/ pc' = "releasing")
    BY <1>4 DEF BuildContext, Fail
  <2> QED BY <1>0, <2>1, <2>2, OrderLength DEF Uncomposed
<1>5. CASE Instantiate
  <2>1. Len(made) \in Nat /\ Len(made) < 7 /\ NextPort \in Ports
    <3>1. Len(made) \in Nat /\ Len(made) < 8 /\ PortOrder[Len(made) + 1] # "plugins"
      BY <1>0, <1>5, OrderLength DEF Instantiate, NextPort
    <3>2. PortOrder[8] = "plugins"
      BY DEF PortOrder
    <3>3. Len(made) + 1 \in DOMAIN PortOrder
      BY <3>1, OrderLength
    <3> QED BY <3>1, <3>2, <3>3 DEF Ports, NextPort
  <2>2. /\ made' \in Seq(Ports) /\ Len(made') = Len(made) + 1
        /\ \A i \in 1..Len(made) : made'[i] = made[i]
        /\ made'[Len(made) + 1] = NextPort
    BY <1>0, <1>5, <2>1 DEF Instantiate
  <2>3. /\ open' = open \cup ({NextPort} \cap (Held \ req.doubles))
        /\ req' = req /\ pc' = pc /\ pc = "compose"
    BY <1>5 DEF Instantiate, bootVars
  <2>4. {made[i] : i \in DOMAIN made} \cup {NextPort} \subseteq {made'[i] : i \in DOMAIN made'}
    <3>1. DOMAIN made = 1..Len(made) /\ DOMAIN made' = 1..(Len(made) + 1)
      BY <1>0, <2>2
    <3>2. ASSUME NEW i \in DOMAIN made PROVE made[i] \in {made'[j] : j \in DOMAIN made'}
      BY <2>2, <3>1, i \in DOMAIN made', made'[i] = made[i]
    <3>3. NextPort \in {made'[j] : j \in DOMAIN made'}
      BY <2>1, <2>2, <3>1, Len(made) + 1 \in DOMAIN made'
    <3> QED BY <3>2, <3>3
  <2>5. Len(made') < Len(PortOrder)
    BY <2>1, <2>2, OrderLength
  <2> QED BY <1>0, <2>2, <2>3, <2>4, <2>5 DEF Uncomposed
<1>6. ASSUME PluginDouble \/ PluginsReady PROVE PortsInv'
  <2>1. made' = Append(made, "plugins") /\ made' \in Seq(Ports) /\ pc' = "ports" /\ req' = req
    BY <1>0, <1>6, OrderLength DEF PluginDouble, PluginsReady, bootVars
  <2>2. {made[i] : i \in DOMAIN made} \cup {"plugins"} \subseteq {made'[i] : i \in DOMAIN made'}
    <3>1. /\ Len(made') = Len(made) + 1 /\ made'[Len(made) + 1] = "plugins"
          /\ \A i \in 1..Len(made) : made'[i] = made[i]
      BY <1>0, <2>1
    <3> QED BY <1>0, <2>1, <3>1
  <2>3. open' = open \/ (open' = open \cup {"plugins"} /\ "plugins" \in Held \ req.doubles)
    BY <1>6 DEF PluginDouble, PluginsReady, StartupInv, ReleaseInv, Held
  <2>4. pc # "idle"
    BY <1>6 DEF PluginDouble, PluginsReady
  <2> QED BY <1>0, <2>1, <2>2, <2>3, <2>4 DEF Uncomposed
<1>7. ASSUME LoadSettings \/ ResolveDependencies \/ InstantiateFails
             \/ ActivationFails \/ BuildApp \/ LaunchFails
             \/ \E importable \in SUBSET Modules : BuildPlugins(importable)
      PROVE PortsInv'
  <2>1. pc # "idle" /\ pc' # "compose" /\ UNCHANGED <<made, open, req>>
        /\ (pc' \in Uncomposed => pc \in Uncomposed)
    BY <1>7 DEF Uncomposed, LoadSettings, ResolveDependencies, InstantiateFails, ActivationFails,
         BuildApp, LaunchFails, BuildPlugins, Fail, bootVars
  <2> QED BY <1>2, <2>1
<1>8. ASSUME Launch \/ LaunchUnreported \/ DryRunEnds \/ RunEnds \/ Release \/ ReleasePlugins \/ ReleaseRaises
             \/ ReleaseEnds \/ ReportFailure
      PROVE PortsInv'
  <2>1. pc # "idle" /\ pc' # "compose" /\ UNCHANGED <<made, req>> /\ open' \subseteq open
        /\ (pc' \in Uncomposed => pc \in Uncomposed)
    BY <1>8 DEF Uncomposed, Launch, LaunchUnreported, DryRunEnds, RunEnds, Release, ReleasePlugins, ReleaseRaises, ReleaseEnds,
         ReportFailure, bootVars, portVars
  <2> QED BY <1>2, <2>1
<1>9. ASSUME \/ ActivatePlugin \/ UNCHANGED vars
             \/ \E supports, failing \in SUBSET PluginIds : SelectProcessor(supports, failing)
      PROVE PortsInv'
  BY <1>1, <1>9 DEF ActivatePlugin, SelectProcessor, vars, bootVars, portVars
<1> QED BY <1>3, <1>4, <1>5, <1>6, <1>7, <1>8, <1>9 DEF Next, Step

\* Loaded settings are those of their sources, whether the cache served them or
\* not, and a later bootstrap with other sources is not served by it.
LEMMA StepCacheInv == StartupInv /\ [Next]_vars => CacheInv'
<1> SUFFICES ASSUME StartupInv, [Next]_vars PROVE CacheInv'
  OBVIOUS
<1> USE DEF CacheInv
<1>0. CacheInv
  BY DEF StartupInv
<1>1. ASSUME UNCHANGED <<cache, cfg, req>> PROVE CacheInv'
  BY <1>0, <1>1
<1>2. ASSUME NEW r \in Requests, Bootstrap(r) PROVE CacheInv'
  BY <1>0, <1>2 DEF Bootstrap
<1>3. CASE LoadSettings
  <2>1. CASE UNCHANGED <<cache, cfg>>
    BY <1>1, <1>3, <2>1 DEF LoadSettings
  <2>2. CASE ~UNCHANGED <<cache, cfg>>
    <3>1. req' = req /\ cfg' = LoadedSettings(cache, req) /\ cache' = CacheAfter(cache, req)
      BY <1>3, <2>2 DEF LoadSettings
    <3>2. SansRoot(FreshSettings(req)) = SansRoot(FromRaw(Merged(Sources(req)), None))
      BY DEF SansRoot, FreshSettings, FromRaw
    <3>3. CASE CacheHit(cache, req)
      BY <1>0, <3>1, <3>3 DEF CacheHit, LoadedSettings, CacheAfter, Fingerprint
    <3>4. CASE ~CacheHit(cache, req)
      BY <3>1, <3>2, <3>4 DEF LoadedSettings, CacheAfter, Fingerprint
    <3> QED BY <3>3, <3>4
  <2> QED BY <2>1, <2>2
<1>4. ASSUME \/ ResolveDependencies \/ BuildContext \/ Instantiate \/ InstantiateFails
             \/ PluginDouble \/ ActivatePlugin \/ ActivationFails \/ PluginsReady
             \/ \E importable \in SUBSET Modules : BuildPlugins(importable)
      PROVE CacheInv'
  BY <1>1, <1>4 DEF ResolveDependencies, BuildContext, Instantiate, InstantiateFails,
       PluginDouble, ActivatePlugin, ActivationFails, PluginsReady, BuildPlugins, bootVars
<1>5. ASSUME \/ BuildApp \/ Launch \/ LaunchUnreported \/ LaunchFails \/ DryRunEnds
             \/ RunEnds \/ Release \/ ReleasePlugins \/ ReleaseRaises \/ ReleaseEnds \/ ReportFailure \/ UNCHANGED vars
             \/ \E supports, failing \in SUBSET PluginIds : SelectProcessor(supports, failing)
      PROVE CacheInv'
  BY <1>1, <1>5 DEF BuildApp, Launch, LaunchUnreported, LaunchFails, DryRunEnds, RunEnds, Release, ReleasePlugins,
       ReleaseRaises, ReleaseEnds, ReportFailure, SelectProcessor, bootVars, vars
<1> QED BY <1>2, <1>3, <1>4, <1>5 DEF Next, Step

\* The shutdown takes down what the composition has put up.
LEMMA StepReleaseInv == StartupInv /\ [Next]_vars => ReleaseInv'
<1> SUFFICES ASSUME StartupInv, [Next]_vars PROVE ReleaseInv'
  OBVIOUS
<1> USE DEF ReleaseInv, Early, Composed, TakenDown
<1>0. ReleaseInv
  BY DEF StartupInv
<1>1. ASSUME NEW stage, cleanup \in Seq({"dependencies"}), Fail(stage), stage \notin {"launch", "success"}
      PROVE  ReleaseInv'
  BY <1>1, EarlyFailure
<1>2. ASSUME NEW r \in Requests, Bootstrap(r) PROVE ReleaseInv'
  BY <1>2 DEF Bootstrap
<1>3. CASE LoadSettings
  BY <1>0, <1>1, <1>3 DEF LoadSettings, hostVars
<1>4. CASE ResolveDependencies
  <2>1. <<"dependencies">> \in Seq({"dependencies"}) /\ <<>> \in Seq({"dependencies"})
    OBVIOUS
  <2> QED BY <1>0, <1>1, <1>4, <2>1 DEF ResolveDependencies, hostVars
<1>5. CASE BuildContext
  BY <1>0, <1>1, <1>5 DEF BuildContext, hostVars
<1>6. CASE Instantiate
  BY <1>0, <1>6 DEF Instantiate, hostVars
<1>7. CASE InstantiateFails
  BY <1>0, <1>1, <1>7 DEF InstantiateFails
<1>8. ASSUME NEW importable \in SUBSET Modules, BuildPlugins(importable) PROVE ReleaseInv'
  BY <1>0, <1>1, <1>8 DEF BuildPlugins, bootVars
<1>9. CASE PluginDouble
  BY <1>0, <1>9 DEF PluginDouble, hostVars
<1>10. CASE ActivatePlugin
  BY <1>0, <1>10 DEF ActivatePlugin, bootVars, portVars
<1>11. CASE ActivationFails
  BY <1>0, <1>1, <1>11 DEF ActivationFails
<1>12. CASE PluginsReady
  BY <1>0, <1>12 DEF PluginsReady, ActivateReturns
<1>13. CASE BuildApp
  <2>1. cleanup \in Seq({"dependencies"}) /\ pc = "ports"
    BY <1>0, <1>13 DEF BuildApp
  <2>2. CASE Fail("composition")
    BY <1>1, <2>1, <2>2
  <2>3. CASE ~Fail("composition")
    <3>1. /\ cleanup' = Append(cleanup, "composition") /\ pc' = "launch"
          /\ UNCHANGED <<result, closing, hasRun, open, call, up>>
      BY <1>13, <2>3 DEF BuildApp, hostVars
    <3>2. cleanup'[Len(cleanup) + 1] = "composition" /\ Len(cleanup) + 1 \in DOMAIN cleanup'
      BY <2>1, <3>1
    <3> QED BY <1>0, <2>1, <3>1, <3>2
  <2> QED BY <2>2, <2>3
<1>14. ASSUME Launch \/ LaunchUnreported PROVE ReleaseInv'
  BY <1>0, <1>14 DEF Launch, LaunchUnreported, portVars, hostVars
<1>15. ASSUME pc \in {"launch", "running"}, StartShutdownAll, pc' = "releasing",
              UNCHANGED <<open, made, req, up>>
       PROVE  ReleaseInv'
  <2>1. closing' = Hooks /\ open \subseteq Hooks
    BY <1>0, <1>15 DEF StartShutdownAll, StartupInv, PortsInv
  <2>2. "plugins" \notin open => up = {}
    BY <1>0, <1>15
  <2> QED BY <1>15, <2>1, <2>2
<1>16. CASE LaunchFails
  <2>1. pc = "launch" /\ "composition" \in {cleanup[i] : i \in DOMAIN cleanup}
    BY <1>0, <1>16 DEF LaunchFails
  <2>2. StartShutdownAll /\ pc' = "releasing"
    BY <1>16, <2>1 DEF LaunchFails, Fail
  <2> QED BY <1>15, <1>16, <2>1, <2>2 DEF LaunchFails, bootVars, hostVars
<1>17. ASSUME DryRunEnds \/ RunEnds PROVE ReleaseInv'
  BY <1>0, <1>15, <1>17 DEF DryRunEnds, RunEnds, bootVars, portVars, hostVars
<1>18. CASE Release
  BY <1>0, <1>18 DEF Release, hostVars, bootVars
<1>19. CASE ReleasePlugins
  <2>0. pc = "releasing" /\ pc' = pc /\ UNCHANGED <<result, raised, req>>
    BY <1>19 DEF ReleasePlugins, bootVars
  <2>1. CASE (ShutdownHost \/ StopPlugin) /\ UNCHANGED <<open, closing>>
    BY <1>0, <2>0, <2>1 DEF ShutdownHost, StopPlugin
  <2>2. CASE ShutdownReturns /\ open' = open \ {"plugins"} /\ closing' = closing \ {"plugins"}
    <3>1. up = {} /\ up' = {}
      BY <2>2 DEF ShutdownReturns, StartupInv, HostInv
    <3> QED BY <1>0, <2>0, <2>2, <3>1
  <2> QED BY <1>19, <2>1, <2>2 DEF ReleasePlugins
<1>20. CASE ReleaseRaises
  BY <1>20 DEF ReleaseRaises
<1>21. CASE ReleaseEnds
  BY <1>0, <1>21 DEF ReleaseEnds, bootVars, portVars, hostVars
<1>22. CASE ReportFailure
  BY <1>0, <1>22 DEF ReportFailure, bootVars, portVars, hostVars
<1>23. ASSUME \/ UNCHANGED vars
              \/ \E supports, failing \in SUBSET PluginIds : SelectProcessor(supports, failing)
       PROVE ReleaseInv'
  BY <1>0, <1>23 DEF SelectProcessor, vars, bootVars, portVars, hostVars
<1> QED
  BY <1>2, <1>3, <1>4, <1>5, <1>6, <1>7, <1>8, <1>9, <1>10, <1>11, <1>12, <1>13, <1>14,
     <1>16, <1>17, <1>18, <1>19, <1>20, <1>21, <1>22, <1>23 DEF Next, Step

\* The plugin policy is derived from what the host has activated, and neither
\* changes while the program runs.
LEMMA StepPolicyInv == StartupInv /\ [Next]_vars => PolicyInv'
<1> SUFFICES ASSUME StartupInv, [Next]_vars PROVE PolicyInv'
  OBVIOUS
<1> USE DEF PolicyInv
<1>0. PolicyInv
  BY DEF StartupInv
<1>1. ASSUME pc' \notin {"launch", "running"},
             pc' \in Early \cup {"plugins", "ports"} => pc \in Early \cup {"plugins", "ports"},
             chosen' = chosen
      PROVE PolicyInv'
  BY <1>0, <1>1 DEF Early
<1>2. ASSUME NEW r \in Requests, Bootstrap(r) PROVE PolicyInv'
  BY <1>2 DEF Bootstrap
<1>3. ASSUME \/ LoadSettings \/ ResolveDependencies \/ BuildContext \/ Instantiate
             \/ InstantiateFails \/ PluginDouble \/ ActivationFails \/ PluginsReady
             \/ \E importable \in SUBSET Modules : BuildPlugins(importable)
      PROVE PolicyInv'
  BY <1>1, <1>3 DEF LoadSettings, ResolveDependencies, BuildContext, Instantiate,
       InstantiateFails, BuildPlugins, PluginDouble, ActivationFails, PluginsReady,
       Fail, Early, bootVars
<1>4. ASSUME \/ ActivatePlugin \/ LaunchUnreported \/ LaunchFails \/ DryRunEnds
             \/ RunEnds \/ Release \/ ReleasePlugins \/ ReleaseRaises \/ ReleaseEnds
             \/ ReportFailure
      PROVE PolicyInv'
  <2>1. CASE LaunchFails
    <3>1. "composition" \in {cleanup[i] : i \in DOMAIN cleanup}
      BY <2>1 DEF LaunchFails, StartupInv, ReleaseInv
    <3> QED BY <1>1, <2>1, <3>1 DEF LaunchFails, Fail, Early, bootVars
  <2> QED BY <1>1, <1>4, <2>1 DEF ActivatePlugin, LaunchUnreported, DryRunEnds, RunEnds, Release, ReleasePlugins,
       ReleaseRaises, ReleaseEnds, ReportFailure, Early, bootVars
<1>5. ASSUME UNCHANGED <<cfg, req, registered, active>>
      PROVE  Policy' = Policy /\ PolicyRaises' = PolicyRaises
  BY <1>5 DEF Policy, PolicyRaises, DeviceScope, ScopeRaises, ActiveOf, Plugin
<1>6. CASE BuildApp
  <2>1. CASE Fail("composition")
    BY <1>1, <1>6, <2>1 DEF BuildApp, Fail, Early
  <2>2. CASE ~Fail("composition")
    <3>1. /\ ~PolicyRaises /\ policy' = Policy /\ pc' = "launch" /\ pc = "ports"
          /\ UNCHANGED <<cfg, req, registered, active, chosen>>
      BY <1>6, <2>2 DEF BuildApp, hostVars
    <3> QED BY <1>0, <1>5, <3>1
  <2> QED BY <2>1, <2>2
<1>7. CASE Launch
  <2>1. pc = "launch" /\ pc' = "running" /\ chosen = NoProcessor
        /\ UNCHANGED <<cfg, req, registered, active, chosen, policy>>
    BY <1>0, <1>7 DEF Launch, bootVars, hostVars
  <2> QED BY <1>0, <1>5, <2>1
<1>8. ASSUME pc = "running", pc' = "running",
             UNCHANGED <<cfg, req, registered, active, policy>>
      PROVE  CandidateIds' = CandidateIds /\ Policy' = Policy /\ PolicyRaises' = PolicyRaises
  BY <1>5, <1>8 DEF CandidateIds, ActiveOf, Plugin
<1>9. ASSUME NEW supports \in SUBSET PluginIds, NEW failing \in SUBSET PluginIds,
             SelectProcessor(supports, failing)
      PROVE PolicyInv'
  <2> DEFINE declining == {q \in CandidateIds : Built(q, failing) /\ q \notin supports}
  <2>1. /\ pc = "running" /\ pc' = "running"
        /\ UNCHANGED <<cfg, req, registered, active, policy>>
    BY <1>9 DEF SelectProcessor, hostVars
  <2>2. CASE chosen' = NoProcessor
    BY <1>0, <1>8, <2>1, <2>2 DEF Early
  <2>3. CASE chosen' # NoProcessor
    <3>1. PICK p \in CandidateIds \ declining, asked \in SUBSET declining :
            /\ chosen' = [id |-> p, real |-> Built(p, failing)]
            /\ processors' = processors \cup asked
                             \cup (IF Built(p, failing) THEN {p} ELSE {})
      BY <1>9, <2>3 DEF SelectProcessor
    <3>2. chosen'.id = p /\ chosen'.real = Built(p, failing)
      BY <3>1
    <3>3. p \in processors => Built(p, failing)
      BY DEF Built
    <3>4. Built(p, failing) <=> p \in processors'
      BY <3>1, <3>3
    <3> QED BY <1>0, <1>8, <2>1, <3>1, <3>2, <3>4 DEF Early
  <2> QED BY <2>2, <2>3
<1>10. CASE UNCHANGED vars
  <2>1. CASE pc = "running"
    BY <1>0, <1>8, <1>10, <2>1 DEF vars, bootVars, hostVars, Early
  <2>2. CASE pc # "running"
    BY <1>0, <1>5, <1>10, <2>2 DEF vars, bootVars, hostVars
  <2> QED BY <2>1, <2>2
<1> QED BY <1>2, <1>3, <1>4, <1>6, <1>7, <1>9, <1>10 DEF Next, Step

\* The invariant holds throughout any number of bootstraps of one process.
LEMMA StartupInvariance == Spec => []StartupInv
<1>1. StartupInv /\ [Next]_vars => StartupInv'
  BY StepHostInv, StepRegistered, StepPortsInv, StepReleaseInv, StepPolicyInv,
     StepCacheInv DEF StartupInv
<1> QED BY <1>1, StartupInitInv, PTL DEF Spec

\* A bootstrap that failed at launch and a program that was shut down have closed
\* every adapter and stopped every plugin, unless a hook raised: shutdown_all
\* misses no adapter, and the plugin host stops all it has started.
THEOREM StartupReleases == Spec => []NothingLeftOpen
<1>1. StartupInv => NothingLeftOpen
  BY DEF StartupInv, ReleaseInv, NothingLeftOpen, TakenDown
<1> QED BY <1>1, StartupInvariance, PTL

\* With a PC plugin selected, candidates are attributed to active device plugins
\* of its scope only, and the catch-all default processor stands in for one of
\* them only as long as none of its builds has succeeded, whatever the manifests,
\* the settings, the plugins that could be activated and the builds that fail.
THEOREM StartupScopesProcessors == Spec => []PcScopeHolds
<1>1. ASSUME StartupInv, pc = "running", chosen # NoProcessor, cfg.pc # None
      PROVE  /\ chosen.id \in Plugin(cfg.pc).devices \cap ActiveOf("device")
             /\ cfg.devices # {} => chosen.id \in cfg.devices
             /\ chosen.real <=> chosen.id \in processors
  <2>1. /\ policy = Policy /\ chosen.id \in CandidateIds
        /\ chosen.real <=> chosen.id \in processors
    BY <1>1 DEF StartupInv, PolicyInv
  <2>2. policy.applied /\ policy.scope \subseteq DeviceScope(cfg.pc)
        /\ (cfg.devices # {} => policy.scope \subseteq cfg.devices)
    BY <1>1, <2>1 DEF Policy
  <2>3. chosen.id \in DeviceScope(cfg.pc) /\ (cfg.devices # {} => chosen.id \in cfg.devices)
    BY <2>1, <2>2 DEF CandidateIds
  <2> QED BY <2>1, <2>3 DEF DeviceScope
<1>2. StartupInv => PcScopeHolds
  BY <1>1 DEF PcScopeHolds
<1> QED BY <1>2, StartupInvariance, PTL

\* The settings cache never serves settings of other sources: what it returns
\* differs from a fresh load at most in the root directory.
THEOREM StartupCacheFresh == Spec => []CacheStaleInRootOnly
<1>1. SansRoot(FreshSettings(req)) = SansRoot(FromRaw(Merged(Sources(req)), None))
  BY DEF SansRoot, FreshSettings, FromRaw
<1>2. StartupInv => CacheStaleInRootOnly
  BY <1>1 DEF StartupInv, CacheInv, CacheStaleInRootOnly, SansRoot
<1> QED BY <1>2, StartupInvariance, PTL

\* The host that a bootstrap drives forgets no plugin either, although it is
\* given up half way when a hook raises.
THEOREM StartupForgetsNoPlugin == Spec => []NoForgottenPlugin
<1>1. StartupInv => NoForgottenPlugin
  BY DEF StartupInv, HostInv, NoForgottenPlugin, NoCall
<1> QED BY <1>1, StartupInvariance, PTL

\* What such a host lists as active has been started and not stopped, but for a
\* shutdown that was broken off.
THEOREM StartupActiveAreUp == Spec => []ActiveAreUp
<1>1. StartupInv => ActiveAreUp
  BY DEF StartupInv, HostInv, ActiveAreUp, NoCall
<1> QED BY <1>1, StartupInvariance, PTL
=============================================================================
