-------------------------------- MODULE Startup --------------------------------
(***************************************************************************)
(* Starting dpost_v2 and taking it down again: the bootstrap sequence      *)
(* settings -> dependencies -> context -> composition -> launch with its   *)
(* cleanup (application/startup/bootstrap.py), the dependency resolver     *)
(* (runtime/startup_dependencies.py), the startup context, the composition *)
(* root that creates one adapter per port (runtime/composition.py), the    *)
(* plugin host it activates (module PluginHost), the plugin policy it      *)
(* derives for the ingestion runtime, and RuntimeHost.shutdown.            *)
(*                                                                         *)
(* An adapter with a shutdown, close or stop method holds a resource from  *)
(* its creation to the return of that method: the database connection, the *)
(* sync adapter, the UI, and the plugins the host has activated.  A        *)
(* process may bootstrap several times with one settings cache.            *)
(***************************************************************************)
EXTENDS Settings, PluginHost

CONSTANTS
    Requests,      \* bootstrap requests with the environment they find
    MaxBoots       \* bound on the bootstraps of one process

VARIABLES
    pc,            \* where run_bootstrap, or the runtime after it, is
    boots,         \* bootstraps begun
    req,           \* the request and the environment of this bootstrap
    cache,         \* the settings cache entry
    cfg,           \* the loaded settings
    made,          \* ports bound so far by _instantiate_bindings, in order
    open,          \* ports of this bootstrap whose adapter holds its resource
    cleanup,       \* cleanup_hooks
    hasRun,        \* has_run of shutdown_all
    closing,       \* hooks shutdown_all has left to call
    raised,        \* history: one of them raised
    policy,        \* _RuntimePluginPolicy
    processors,    \* processor_cache: ids whose processor has been built
    chosen,        \* the processor of the last selected candidate
    log,           \* startup events handed to emit_event
    result         \* "success", the stage that failed, "escaped" when emit_event
                   \* raised out of run_bootstrap, or "none"

bootVars == <<boots, req, cache, cfg, policy, processors, chosen>>
portVars == <<made, open, cleanup, hasRun, closing, raised>>
vars == <<pc, bootVars, portVars, log, result, hostVars>>

ASSUME BootsAssumption == MaxBoots \in Nat \ {0}

\* _deterministic_port_order of DEFAULT_REQUIRED_PORTS.
PortOrder == <<"observability", "storage", "filesystem", "clock", "sync", "ui",
               "event_sink", "plugins">>
Ports == {PortOrder[i] : i \in DOMAIN PortOrder}
Position(p) == CHOOSE i \in DOMAIN PortOrder : PortOrder[i] = p
\* Ports whose adapters have a method _extract_shutdown_hook finds.
Held == {"storage", "sync", "ui", "plugins"}

NoPolicy == [pc |-> None, scope |-> {}, applied |-> FALSE]
NoProcessor == [id |-> 0, real |-> TRUE]

(***************************************************************************)
(* Settings, dependencies, context.                                        *)
(***************************************************************************)

\* _validate_backend_requirements, _resolve_sync_api_token: Kadi needs a token
\* from the environment or the settings.
DependenciesFail(s) == s.sync = "kadi" /\ s.token = None /\ ~req.kadiToken

\* validate_startup_context: the launch mode, when it names a runtime mode,
\* is the mode of the settings.
ContextFails(s) == req.mode # "v2" /\ req.mode # s.mode

\* _resolve_plugin_profile
PluginProfile(s, known) ==
    IF s.profile \in known THEN s.profile
    ELSE IF "default" \in known THEN "default"
    ELSE IF "prod" \in known THEN "prod"
    ELSE IF known # {} THEN CHOOSE p \in known : TRUE ELSE "default"

\* build_ui_adapter: desktop mode needs a display, and the desktop adapter is
\* built on TkinterUiAdapter(backend=None), whose initialize() raises.
UiFails(s) == (s.mode = "desktop" /\ ~req.display) \/ s.ui = "desktop"

(***************************************************************************)
(* Failure and cleanup.                                                    *)
(***************************************************************************)

\* The shutdown hooks of the adapters made so far ...
Hooks == {made[i] : i \in DOMAIN made} \cap (Held \ req.doubles)

\* ... and the one that is called next: the last one made.
NextHook == CHOOSE p \in closing : \A q \in closing : Position(q) <= Position(p)

\* shutdown_all: once, in the reverse order of creation.
StartShutdownAll ==
    /\ closing' = IF hasRun THEN {} ELSE Hooks
    /\ hasRun' = TRUE

\* Mutant: only the dependency cleanup is run.
FailSkipsComposition(stage) ==
    /\ result' = stage /\ cleanup' = <<>> /\ pc' = "cleanup"
    /\ UNCHANGED <<closing, hasRun>>

\* _build_failure_result: the hooks registered so far run in reverse, the
\* composition's shutdown_all (there only once compose_runtime has returned)
\* before the dependency cleanup.
Fail(stage) ==
    /\ result' = stage /\ cleanup' = <<>>
    /\ IF "composition" \in {cleanup[i] : i \in DOMAIN cleanup}
       THEN StartShutdownAll /\ pc' = "releasing"
       ELSE pc' = "cleanup" /\ UNCHANGED <<closing, hasRun>>

(***************************************************************************)
(* Bootstrap.                                                              *)
(***************************************************************************)

Init ==
    /\ pc = "idle" /\ boots = 0 /\ cache = NoEntry /\ cfg = None
    /\ req = None
    /\ made = <<>> /\ open = {} /\ cleanup = <<>> /\ hasRun = FALSE
    /\ closing = {} /\ raised = FALSE /\ policy = NoPolicy
    /\ processors = {} /\ chosen = NoProcessor /\ log = <<>> /\ result = "none"
    /\ HostInit

\* run_bootstrap begins: everything it keeps is new except the cache.  When
\* emit_event raises at startup_started, nothing has been done yet.
Bootstrap(r) ==
    /\ pc \in {"idle", "ended"} /\ boots < MaxBoots
    /\ req' = r /\ boots' = boots + 1 /\ cfg' = None
    /\ \/ pc' = "settings" /\ result' = "none"
       \/ pc' = "ended" /\ result' = "escaped"
    /\ made' = <<>> /\ open' = {} /\ cleanup' = <<>> /\ hasRun' = FALSE
    /\ closing' = {} /\ raised' = FALSE /\ policy' = NoPolicy
    /\ processors' = {} /\ chosen' = NoProcessor /\ log' = <<"startup_started">>
    /\ registered' = {} /\ active' = {} /\ up' = {}
    /\ call' = NoCall /\ aborted' = FALSE
    /\ UNCHANGED cache

LoadSettings ==
    /\ pc = "settings"
    /\ \/ /\ LoadFails(req) /\ Fail("settings")
          /\ UNCHANGED <<cache, cfg>>
       \/ /\ ~LoadFails(req)
          /\ cfg' = LoadedSettings(cache, req) /\ cache' = CacheAfter(cache, req)
          /\ pc' = "dependencies"
          /\ UNCHANGED <<result, cleanup, closing, hasRun>>
    /\ UNCHANGED <<boots, req, policy, processors, chosen, made, open, raised, log,
                   hostVars>>

ResolveDependencies ==
    /\ pc = "dependencies"
    /\ \/ DependenciesFail(cfg) /\ Fail("dependencies")
       \/ /\ ~DependenciesFail(cfg) /\ pc' = "context"
          /\ cleanup' = IF req.depCleanup THEN <<"dependencies">> ELSE <<>>
          /\ UNCHANGED <<result, closing, hasRun>>
    /\ UNCHANGED <<bootVars, made, open, raised, log, hostVars>>

BuildContext ==
    /\ pc = "context"
    /\ \/ ContextFails(cfg) /\ Fail("context")
       \/ /\ ~ContextFails(cfg) /\ pc' = "compose"
          /\ UNCHANGED <<result, cleanup, closing, hasRun>>
    /\ UNCHANGED <<bootVars, made, open, raised, log, hostVars>>

NextPort == PortOrder[Len(made) + 1]

\* One factory of _instantiate_bindings returns.  A double (a mapping that only
\* names its kind) stands for the adapter and holds nothing.
Instantiate ==
    /\ pc = "compose" /\ NextPort # "plugins"
    /\ NextPort \in {"ui"} \ req.doubles => ~UiFails(cfg)
    /\ made' = Append(made, NextPort)
    /\ open' = open \cup ({NextPort} \cap (Held \ req.doubles))
    /\ UNCHANGED <<pc, bootVars, cleanup, hasRun, closing, raised, log, result, hostVars>>

\* One raises, whichever it is: CompositionInitializationError, and
\* compose_runtime is left with the adapters made so far.
InstantiateFails ==
    /\ pc = "compose" /\ NextPort # "plugins" /\ NextPort \notin req.doubles
    /\ Fail("composition")
    /\ UNCHANGED <<bootVars, made, open, raised, log, hostVars>>

\* The plugins factory: discovery, registration and the start of
\* activate_profile for the profile it resolves.
BuildPlugins(importable) ==
    /\ pc = "compose" /\ NextPort = "plugins" /\ "plugins" \notin req.doubles
    /\ LET ms == Usable(importable)
           profile == PluginProfile(cfg, DeclaredProfiles(ms))
       IN \/ /\ DiscoveryRaises(importable) \/ profile \notin KnownProfiles(ms)
             /\ Fail("composition") /\ UNCHANGED hostVars
          \/ /\ ~DiscoveryRaises(importable) /\ profile \in KnownProfiles(ms)
             /\ registered' = ms
             /\ call' = [NoCall EXCEPT !.op = "activate",
                                       !.add = Selected(ms, profile, {}, {})]
             /\ pc' = "plugins"
             /\ UNCHANGED <<active, up, aborted, result, cleanup, closing, hasRun>>
    /\ UNCHANGED <<bootVars, made, open, raised, log>>

PluginDouble ==
    /\ pc = "compose" /\ NextPort = "plugins" /\ "plugins" \in req.doubles
    /\ made' = Append(made, "plugins") /\ pc' = "ports"
    /\ UNCHANGED <<bootVars, open, cleanup, hasRun, closing, raised, log, result, hostVars>>

ActivatePlugin ==
    /\ pc = "plugins" /\ Activate
    /\ UNCHANGED <<pc, bootVars, portVars, log, result>>

ActivationFails ==
    /\ pc = "plugins" /\ ActivateFails /\ Fail("composition")
    /\ UNCHANGED <<bootVars, made, open, raised, log>>

PluginsReady ==
    /\ pc = "plugins" /\ ActivateReturns
    /\ made' = Append(made, "plugins") /\ open' = open \cup {"plugins"}
    /\ pc' = "ports"
    /\ UNCHANGED <<bootVars, cleanup, hasRun, closing, raised, log, result>>

\* _resolve_runtime_plugin_policy raises: the plugin host is a double without
\* scope resolution, or the host refuses the selected PC plugin.
PolicyRaises ==
    cfg.pc # None /\ ("plugins" \in req.doubles \/ ScopeRaises(cfg.pc))

\* _resolve_runtime_plugin_policy: without a PC plugin the configured devices
\* as they stand; with one, the PC's scope cut down to them if there are any.
Policy ==
    IF cfg.pc = None THEN [pc |-> None, scope |-> cfg.devices, applied |-> FALSE]
    ELSE [pc |-> cfg.pc, applied |-> TRUE,
          scope |-> IF cfg.devices = {} THEN DeviceScope(cfg.pc)
                    ELSE DeviceScope(cfg.pc) \cap cfg.devices]

\* _build_application_ports (a binding that fits no protocol raises), the
\* plugin policy, the runtime app, and the bundle that bootstrap registers.
BuildApp ==
    /\ pc = "ports"
    /\ \/ /\ req.invalid # {} \/ PolicyRaises
          /\ Fail("composition") /\ UNCHANGED policy
       \/ /\ req.invalid = {} /\ ~PolicyRaises
          /\ policy' = Policy
          /\ cleanup' = Append(cleanup, "composition") /\ pc' = "launch"
          /\ UNCHANGED <<result, closing, hasRun>>
    /\ UNCHANGED <<boots, req, cache, cfg, processors, chosen, made, open, raised, log,
                   hostVars>>

\* launch_runtime returns and startup_succeeded is emitted.
Launch ==
    /\ pc = "launch" /\ pc' = "running" /\ result' = "success"
    /\ log' = Append(log, "startup_succeeded")
    /\ UNCHANGED <<bootVars, portVars, hostVars>>

\* emit_event raises at startup_succeeded: the exception leaves run_bootstrap
\* behind the last stage that cleans up, with everything composed still open.
LaunchUnreported ==
    /\ pc = "launch" /\ pc' = "ended" /\ result' = "escaped"
    /\ log' = Append(log, "startup_succeeded")
    /\ UNCHANGED <<bootVars, portVars, hostVars>>

LaunchFails ==
    /\ pc = "launch" /\ Fail("launch")
    /\ UNCHANGED <<bootVars, made, open, raised, log, hostVars>>

(***************************************************************************)
(* The running program and its end.                                        *)
(***************************************************************************)

\* Mutant: an empty scope counts as no scope although a PC was selected.
CandidateIdsFailOpen ==
    IF policy.scope # {} THEN policy.scope
    ELSE IF ActiveOf("device") # {} THEN ActiveOf("device") ELSE {0}

\* _select_runtime_processor: the ids it tries; 0 is "default_device".
CandidateIds ==
    IF policy.applied \/ policy.scope # {} THEN policy.scope
    ELSE IF ActiveOf("device") # {} THEN ActiveOf("device") ELSE {0}

\* A plugin whose processor is cached or can be built now.
Built(p, failing) == p \in processors \/ ~ProcessorRaises(p, failing)

\* _select_runtime_processor, _build_runtime_processor: an id without a
\* processor is served by _DefaultDeviceProcessor, which takes every file, until
\* a build succeeds and is cached.  The first id in order that takes the
\* candidate is chosen (the order is left open here); the ids asked before it
\* have been built and declined.
SelectProcessor(supports, failing) ==
    /\ pc = "running" /\ ~req.dryRun
    /\ LET declining == {q \in CandidateIds : Built(q, failing) /\ q \notin supports}
       IN \/ \E p \in CandidateIds \ declining, asked \in SUBSET declining :
                /\ chosen' = [id |-> p, real |-> Built(p, failing)]
                /\ processors' = processors \cup asked
                                 \cup (IF Built(p, failing) THEN {p} ELSE {})
          \/ /\ declining = CandidateIds \* ProcessorNotFoundError
             /\ chosen' = NoProcessor
             /\ processors' = processors \cup declining
    /\ UNCHANGED <<pc, boots, req, cache, cfg, policy, portVars, log, result, hostVars>>

\* main() after a dry run: it returns 0, and shuts nothing down.
DryRunEnds ==
    /\ pc = "running" /\ req.dryRun /\ pc' = "ended"
    /\ UNCHANGED <<bootVars, portVars, log, result, hostVars>>

\* RuntimeHost.shutdown after run() has returned or raised.
RunEnds ==
    /\ pc = "running" /\ ~req.dryRun /\ StartShutdownAll /\ pc' = "releasing"
    /\ UNCHANGED <<bootVars, made, open, cleanup, raised, log, result, hostVars>>

Release ==
    /\ pc = "releasing" /\ closing # {} /\ NextHook # "plugins"
    /\ open' = open \ {NextHook} /\ closing' = closing \ {NextHook}
    /\ UNCHANGED <<pc, bootVars, made, cleanup, hasRun, raised, log, result, hostVars>>

\* PluginHost.shutdown, hook by hook.
ReleasePlugins ==
    /\ pc = "releasing" /\ closing # {} /\ NextHook = "plugins"
    /\ \/ (ShutdownHost \/ StopPlugin) /\ UNCHANGED <<open, closing>>
       \/ ShutdownReturns /\ open' = open \ {"plugins"} /\ closing' = closing \ {"plugins"}
    /\ UNCHANGED <<pc, bootVars, made, cleanup, hasRun, raised, log, result>>

\* A hook raises: shutdown_all stops there and cannot be run again.
ReleaseRaises ==
    /\ pc = "releasing" /\ closing # {}
    /\ \/ NextHook = "storage" /\ UNCHANGED hostVars
       \/ NextHook = "plugins" /\ StopPluginFails
    /\ closing' = {} /\ raised' = TRUE
    /\ UNCHANGED <<pc, bootVars, made, open, cleanup, hasRun, log, result>>

\* Mutant: the loop waits for the hook that raised.
ReleaseEndsUnlessRaised ==
    /\ pc = "releasing" /\ closing = {} /\ ~raised
    /\ pc' = IF result = "success" THEN "ended" ELSE "cleanup"
    /\ UNCHANGED <<bootVars, portVars, log, result, hostVars>>

ReleaseEnds ==
    /\ pc = "releasing" /\ closing = {}
    /\ pc' = IF result = "success" THEN "ended" ELSE "cleanup"
    /\ UNCHANGED <<bootVars, portVars, log, result, hostVars>>

\* The dependency cleanup (its errors are swallowed) and startup_failed; should
\* emit_event raise here, run_bootstrap raises in place of returning the failure.
ReportFailure ==
    /\ pc = "cleanup" /\ pc' = "ended"
    /\ log' = Append(log, "startup_failed")
    /\ UNCHANGED <<bootVars, portVars, result, hostVars>>

Step ==
    \/ LoadSettings \/ ResolveDependencies \/ BuildContext
    \/ Instantiate \/ InstantiateFails
    \/ \E importable \in SUBSET Modules : BuildPlugins(importable)
    \/ PluginDouble \/ ActivatePlugin \/ ActivationFails \/ PluginsReady
    \/ BuildApp \/ Launch \/ LaunchUnreported \/ LaunchFails \/ DryRunEnds \/ RunEnds
    \/ Release \/ ReleasePlugins \/ ReleaseRaises \/ ReleaseEnds \/ ReportFailure

Next ==
    \/ \E r \in Requests : Bootstrap(r)
    \/ \E supports, failing \in SUBSET PluginIds : SelectProcessor(supports, failing)
    \/ Step

\* run_bootstrap and shutdown are straight-line code on one thread, and the
\* runtime loop ends (module DPostApp is about that).
Spec == Init /\ [][Next]_vars /\ WF_vars(Step)

(***************************************************************************)
(* Properties.                                                             *)
(***************************************************************************)

StartupTypeOK ==
    /\ pc \in {"idle", "settings", "dependencies", "context", "compose", "plugins",
               "ports", "launch", "running", "releasing", "cleanup", "ended"}
    /\ boots \in 0..MaxBoots /\ open \subseteq Held
    /\ made = SubSeq(PortOrder, 1, Len(made))
    /\ \A i \in DOMAIN cleanup : cleanup[i] \in {"dependencies", "composition"}
    /\ hasRun \in BOOLEAN /\ raised \in BOOLEAN
    /\ result \in {"none", "success", "settings", "dependencies", "context",
                   "composition", "launch", "escaped"}
    /\ processors \subseteq PluginIds
    /\ HostTypeOK

\* The ends of a bootstrap that take the composition down.
TakenDown == result = "launch" \/ (result = "success" /\ ~req.dryRun)

\* A bootstrap that fails at launch, or a runtime that ran and was shut down,
\* leaves no adapter open and no plugin started, unless a release hook raised
\* (run_bootstrap's cleanup, RuntimeHost.shutdown, shutdown_all).  A dry run
\* runs nothing and shuts nothing down, and a composition that fails or a
\* startup_succeeded that raises releases nothing.
NothingLeftOpen ==
    pc = "ended" /\ ~raised /\ TakenDown => open = {} /\ up = {}

\* While a program with a selected PC plugin runs, every candidate is attributed
\* to an active device plugin that the PC is configured for and the settings
\* allow, however builds of processors fail; the catch-all default processor
\* stands in for such a plugin at most, and only as long as no build of that
\* plugin's own processor has succeeded (_resolve_runtime_plugin_policy,
\* _select_runtime_processor, _build_runtime_processor).
PcScopeHolds ==
    pc = "running" /\ chosen # NoProcessor /\ cfg.pc # None =>
        /\ chosen.id \in Plugin(cfg.pc).devices \cap ActiveOf("device")
        /\ cfg.devices # {} => chosen.id \in cfg.devices
        /\ chosen.real <=> chosen.id \in processors

\* Settings taken from the cache differ from a fresh load at most in the root
\* directory: the fingerprint covers every source, but not the directory that
\* relative paths are resolved against.
CacheStaleInRootOnly ==
    cfg # None => [cfg EXCEPT !.root = None] = [FreshSettings(req) EXCEPT !.root = None]

\* Every bootstrap comes to an end with one more startup event than the first:
\* it runs the program or reports a failure, and a program that ran is taken
\* down, also when emit_event raises.
BootEnds == (pc = "settings") ~> (pc = "ended" /\ Len(log) = 2)
=============================================================================
