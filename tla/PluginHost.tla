------------------------------ MODULE PluginHost ------------------------------
(***************************************************************************)
(* The plugin host of dpost_v2 and what feeds it: discovery of plugin      *)
(* modules, contract validation, the catalog and its indexes, selection    *)
(* for a profile, and the activation and shutdown of plugins through       *)
(* hooks that belong to the plugins and may raise                          *)
(* (plugins/discovery.py, plugins/catalog.py, plugins/profile_selection.py,*)
(* plugins/host.py, application/contracts/plugin_contracts.py).            *)
(*                                                                         *)
(* Plugin ids are numbers: their order is the order of the sorted id       *)
(* strings, which is the order the hooks run in.  A hook call is one step, *)
(* so a call to activate_profile or shutdown is a sequence of steps.       *)
(***************************************************************************)
EXTENDS Integers, FiniteSets

CONSTANTS
    Modules,       \* plugin modules found under the plugin namespaces
    Manifest,      \* what each module exports: [Modules -> record]
    Profiles,      \* profile tokens a caller may ask for
    Hooked         \* plugin ids that export on_activate and on_shutdown

VARIABLES
    registered,    \* modules whose descriptors are in the catalog
    active,        \* _active_plugin_ids
    call,          \* the call in progress and its local state
    up,            \* history: plugins started and not stopped since
    aborted        \* history: a shutdown() raised and none succeeded since

hostVars == <<registered, active, call, up, aborted>>

Id(m) == Manifest[m].id
Ids(ms) == {Id(m) : m \in ms}
PluginIds == Ids(Modules)

\* get_plugin: the manifest behind a registered id.
Plugin(p) == Manifest[CHOOSE m \in registered : Id(m) = p]

ASSUME ManifestAssumption ==
    \A m \in Modules : /\ Manifest[m].id \in Nat \ {0}
                       /\ Manifest[m].family \in {"device", "pc"}
                       /\ Manifest[m].profiles \subseteq Profiles

\* The locals of activate_profile: current_active, and the removed and added ids
\* still to do.
NoCall == [op |-> "none", cur |-> {}, down |-> {}, add |-> {}]

Largest(S) == CHOOSE x \in S : \A y \in S : y <= x
Smallest(S) == CHOOSE x \in S : \A y \in S : x <= y

(***************************************************************************)
(* Contract validation and discovery.                                      *)
(***************************************************************************)

\* _validate_capability_combinations
CapabilitiesValid(x) ==
    /\ x.preprocess \/ x.batch => x.can_process
    /\ x.family = "device" => x.can_process
    /\ x.family = "pc" => x.sync

\* validate_plugin_contract: exports, version, capabilities, and a trial
\* create_processor({}) for a device plugin.
ContractValid(x) ==
    /\ {"metadata", "capabilities"} \subseteq x.exports
    /\ x.major = 2
    /\ CapabilitiesValid(x)
    /\ x.family = "device" =>
         {"create_processor", "validate_settings"} \subseteq x.exports /\ x.builds
    /\ x.family = "pc" =>
         {"create_sync_adapter", "prepare_sync_payload"} \subseteq x.exports
    /\ x.can_process => "create_processor" \in x.exports

\* Two descriptors of one id: discovery, the host and the catalog each refuse.
Clash(ms) == \E m, n \in ms : m # n /\ Id(m) = Id(n)

\* discover_plugins: a module that does not import or breaks the contract is
\* skipped and reported; a duplicate id aborts the discovery.
Usable(importable) == {m \in importable : ContractValid(Manifest[m])}

\* discover_from_namespaces also aborts when a plugin's family is not the one
\* of its namespace.
DiscoveryRaises(importable) ==
    \/ Clash(Usable(importable))
    \/ \E m \in Usable(importable) : Manifest[m].family # Manifest[m].namespace

(***************************************************************************)
(* Catalog and selection.                                                  *)
(***************************************************************************)

\* Supported by profile p: no profile listed means every profile.
ProfileMatch(m, p) == Manifest[m].profiles = {} \/ p \in Manifest[m].profiles

DeclaredProfiles(ms) == UNION {Manifest[m].profiles : m \in ms}

\* _normalize_known_profiles without an explicit list.
KnownProfiles(ms) ==
    IF DeclaredProfiles(ms) = {} THEN {"default"} ELSE DeclaredProfiles(ms)

\* select_plugins_for_profile: the conditions under which it raises ...
SelectionRaises(ms, p, known, allow, deny) ==
    \/ p \notin known
    \/ allow \cap deny # {}
    \/ ~((allow \cup deny) \subseteq Ids(ms))

\* ... and the ids it selects: deny wins, then allow, then the profile.
Selected(ms, p, allow, deny) ==
    {Id(m) : m \in {n \in ms : /\ Id(n) \notin deny
                               /\ Id(n) \in allow \/ ProfileMatch(n, p)}}

(***************************************************************************)
(* Queries.                                                                *)
(***************************************************************************)

\* get_device_plugins, get_pc_plugins with active_only
ActiveOf(family) == {p \in active : Plugin(p).family = family}

\* resolve_device_scope_for_pc: raises for an unknown id, another family, or
\* an inactive plugin; else the configured devices that are active.
ScopeRaises(p) ==
    ~(/\ p \in Ids(registered) /\ Plugin(p).family = "pc"
      /\ p \in active /\ Plugin(p).builds)
DeviceScope(p) == Plugin(p).devices \cap ActiveOf("device")

\* create_device_processor raises: for a plugin that is no active device, and
\* whenever the plugin's create_processor raises or returns something that is
\* not a processor.  That is the plugin's own code: a build that worked in the
\* validation, with empty settings, may fail at any later call (failing is the
\* set of ids whose build fails this time).
ProcessorRaises(p, failing) ==
    \/ ~(p \in Ids(registered) /\ Plugin(p).family = "device" /\ p \in active)
    \/ p \in failing

(***************************************************************************)
(* Operations.                                                             *)
(***************************************************************************)

HostInit ==
    /\ registered = {} /\ active = {} /\ up = {}
    /\ call = NoCall /\ aborted = FALSE

\* register_descriptors: validated into a copy, so it is all or nothing.
RegisterDescriptors(ms) ==
    /\ call = NoCall
    /\ \A m \in ms : ContractValid(Manifest[m]) /\ Id(m) \notin Ids(registered)
    /\ ~Clash(ms)
    /\ registered' = registered \cup ms
    /\ UNCHANGED <<active, call, up, aborted>>

\* activate_profile up to the first hook.
ActivateProfile(p, known, allow, deny) ==
    /\ call = NoCall
    /\ ~SelectionRaises(registered, p, known, allow, deny)
    /\ LET sel == Selected(registered, p, allow, deny)
       IN call' = [op |-> "activate", cur |-> active,
                   down |-> active \ sel, add |-> sel \ active]
    /\ UNCHANGED <<registered, active, up, aborted>>

\* A plugin the new selection drops: its on_shutdown returns (or it has none).
Deactivate ==
    /\ call.op = "activate" /\ call.down # {}
    /\ LET p == Largest(call.down)
       IN /\ call' = [call EXCEPT !.cur = @ \ {p}, !.down = @ \ {p}]
          /\ up' = up \ {p}
    /\ UNCHANGED <<registered, active, aborted>>

\* Its on_shutdown raises: the set reached so far is kept.
DeactivateFails ==
    /\ call.op = "activate" /\ call.down # {}
    /\ Largest(call.down) \in Hooked
    /\ active' = call.cur /\ call' = NoCall
    /\ UNCHANGED <<registered, up, aborted>>

\* A plugin the new selection adds: its on_activate returns (or it has none).
Activate ==
    /\ call.op = "activate" /\ call.down = {} /\ call.add # {}
    /\ LET p == Smallest(call.add)
       IN /\ call' = [call EXCEPT !.cur = @ \cup {p}, !.add = @ \ {p}]
          /\ up' = up \cup {p}
    /\ UNCHANGED <<registered, active, aborted>>

\* Mutant: a failing on_activate leaves the active set of before the call.
ActivateFailsNoSave ==
    /\ call.op = "activate" /\ call.down = {} /\ call.add # {}
    /\ Smallest(call.add) \in Hooked
    /\ call' = NoCall
    /\ UNCHANGED <<registered, active, up, aborted>>

\* Its on_activate raises.
ActivateFails ==
    /\ call.op = "activate" /\ call.down = {} /\ call.add # {}
    /\ Smallest(call.add) \in Hooked
    /\ active' = call.cur /\ call' = NoCall
    /\ UNCHANGED <<registered, up, aborted>>

\* activate_profile returns.
ActivateReturns ==
    /\ call.op = "activate" /\ call.down = {} /\ call.add = {}
    /\ active' = call.cur /\ call' = NoCall
    /\ UNCHANGED <<registered, up, aborted>>

\* shutdown() up to the first hook.
ShutdownHost ==
    /\ call = NoCall
    /\ call' = [NoCall EXCEPT !.op = "shutdown", !.down = active]
    /\ UNCHANGED <<registered, active, up, aborted>>

\* One on_shutdown of shutdown() returns.
StopPlugin ==
    /\ call.op = "shutdown" /\ call.down # {}
    /\ LET p == Largest(call.down)
       IN call' = [call EXCEPT !.down = @ \ {p}] /\ up' = up \ {p}
    /\ UNCHANGED <<registered, active, aborted>>

\* One raises: the loop ends, the active set is not touched, and plugins that
\* were stopped already stay listed as active.
StopPluginFails ==
    /\ call.op = "shutdown" /\ call.down # {}
    /\ Largest(call.down) \in Hooked
    /\ call' = NoCall /\ aborted' = TRUE
    /\ UNCHANGED <<registered, active, up>>

\* Mutant: the active set is not cleared.
ShutdownReturnsUncleared ==
    /\ call.op = "shutdown" /\ call.down = {}
    /\ call' = NoCall /\ aborted' = FALSE
    /\ UNCHANGED <<registered, active, up>>

\* shutdown() returns.
ShutdownReturns ==
    /\ call.op = "shutdown" /\ call.down = {}
    /\ active' = {} /\ call' = NoCall /\ aborted' = FALSE
    /\ UNCHANGED <<registered, up>>

HostStep ==
    \/ Deactivate \/ DeactivateFails \/ Activate \/ ActivateFails
    \/ ActivateReturns \/ StopPlugin \/ StopPluginFails \/ ShutdownReturns

\* A caller of the host, as the tests of the host and the plugins factory are.
HostNext ==
    \/ \E ms \in SUBSET Modules \ {{}} : RegisterDescriptors(ms)
    \/ \E p \in Profiles, allow, deny \in SUBSET PluginIds :
          ActivateProfile(p, KnownProfiles(registered), allow, deny)
    \/ ShutdownHost
    \/ HostStep

HostSpec == HostInit /\ [][HostNext]_hostVars

(***************************************************************************)
(* Properties.                                                             *)
(***************************************************************************)

HostTypeOK ==
    /\ registered \subseteq Modules /\ active \subseteq PluginIds
    /\ up \subseteq PluginIds /\ aborted \in BOOLEAN
    /\ call \in [op : {"none", "activate", "shutdown"}, cur : SUBSET PluginIds,
                down : SUBSET PluginIds, add : SUBSET PluginIds]

\* Between calls every plugin that was started and not stopped is in the
\* host's active set, whatever hooks raised on the way: the next
\* activate_profile or shutdown will stop it (host.py activate_profile saves
\* current_active on each failure, shutdown keeps the set).
NoForgottenPlugin == call = NoCall => up \subseteq active

\* Between calls, unless a shutdown() raised, the active set is exactly the
\* plugins that run: create_device_processor never serves a stopped plugin.
ActiveAreUp == call = NoCall /\ ~aborted => active = up
=============================================================================
