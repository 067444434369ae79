------------------------------- MODULE Settings -------------------------------
(***************************************************************************)
(* Loading the startup settings of dpost_v2: the four sources and their    *)
(* precedence, the merge and its provenance, the schema, the normalized    *)
(* settings and the cache a process may share between bootstraps           *)
(* (application/startup/settings_service.py, settings_schema.py,           *)
(* settings.py).                                                           *)
(*                                                                         *)
(* A source is a function on the keys it sets.  A nested key is written    *)
(* with its block, as in the dotted paths of the provenance; the key "ui"  *)
(* alone stands for a source that gives the block something other than a   *)
(* mapping.                                                                *)
(***************************************************************************)
EXTENDS Integers, Sequences

CONSTANT None      \* the value of a setting that is not given

Keys == {"mode", "profile", "ui.backend", "sync.backend", "sync.api_token",
         "ingestion.retry_limit", "paths.root", "plugins.pc_name",
         "plugins.device_plugins", "ui", "ui_backend", "other"}

BlockOf(k) ==
    CASE k = "ui.backend" -> "ui"
      [] k \in {"sync.backend", "sync.api_token"} -> "sync"
      [] k = "ingestion.retry_limit" -> "ingestion"
      [] k = "paths.root" -> "paths"
      [] k \in {"plugins.pc_name", "plugins.device_plugins"} -> "plugins"
      [] OTHER -> k

(***************************************************************************)
(* Sources.                                                                *)
(***************************************************************************)

\* _normalized_settings_mode: the launch architecture token is headless.
SettingsMode(requested) == IF requested \in {"v2", ""} THEN "headless" ELSE requested

\* The built-in defaults of _default_sources_from_request.
Defaults(req) ==
    [k \in Keys \ {"sync.api_token", "ui", "ui_backend", "other"} |->
        CASE k = "mode" -> SettingsMode(req.mode)
          [] k = "profile" -> "default"
          [] k = "ui.backend" -> "headless"
          [] k = "sync.backend" -> "noop"
          [] k = "ingestion.retry_limit" -> 3
          [] k = "paths.root" -> "relative"
          [] k = "plugins.pc_name" -> None
          [] k = "plugins.device_plugins" -> {}]

\* The mode of the request is always a CLI setting, the profile when given.
CliSource(req) ==
    IF req.profile = None THEN [k \in {"mode"} |-> SettingsMode(req.mode)]
    ELSE [k \in {"mode", "profile"} |->
             IF k = "mode" THEN SettingsMode(req.mode) ELSE req.profile]

\* _SOURCE_ORDER: defaults < file < environment < cli.
Sources(req) == <<Defaults(req), req.file, req.env, CliSource(req)>>

\* _load_file_config: missing, unreadable, malformed or not a mapping.
SourceUnreadable(req) == req.fileState # "readable"

(***************************************************************************)
(* Merge and provenance.                                                   *)
(***************************************************************************)

\* _deep_merge refuses to merge a mapping with anything else.
MergeTypeError(srcs) ==
    \E i, j \in DOMAIN srcs : \E a \in DOMAIN srcs[i], b \in DOMAIN srcs[j] :
        i # j /\ a # b /\ BlockOf(a) = b

Setters(srcs, k) == {i \in DOMAIN srcs : k \in DOMAIN srcs[i]}
Last(S) == CHOOSE i \in S : \A j \in S : j <= i
\* _merge_sources: the last source that sets a key wins.
Merged(srcs) ==
    [k \in UNION {DOMAIN srcs[i] : i \in DOMAIN srcs} |-> srcs[Last(Setters(srcs, k))][k]]

(***************************************************************************)
(* Schema and normalization.                                               *)
(***************************************************************************)

\* _normalize_aliases: ui_backend must equal ui.backend where both are set.
AliasClash(raw) ==
    /\ {"ui_backend", "ui.backend"} \subseteq DOMAIN raw
    /\ raw["ui_backend"] # raw["ui.backend"]

UiBackend(raw) ==
    IF "ui.backend" \in DOMAIN raw THEN raw["ui.backend"]
    ELSE IF "ui_backend" \in DOMAIN raw THEN raw["ui_backend"] ELSE "headless"

\* validate_raw_settings: aliases, unknown and mistyped keys, required
\* fields, enums and the one cross-field rule.
SchemaInvalid(raw) ==
    \/ AliasClash(raw)
    \/ {"ui", "other"} \cap DOMAIN raw # {}
    \/ ~({"mode", "paths.root"} \subseteq DOMAIN raw)
    \/ raw["paths.root"] = ""
    \/ raw["mode"] \notin {"headless", "desktop"}
    \/ UiBackend(raw) \notin {"headless", "desktop"}
    \/ raw["sync.backend"] \notin {"noop", "kadi"}
    \/ raw["mode"] = "desktop" /\ UiBackend(raw) # "desktop"

\* from_raw raises an error that load_startup_settings does not map.
NormalizationRaises(raw) == raw["ingestion.retry_limit"] < 0

\* normalize_paths: a relative root hangs below the anchor.
RootPath(raw, anchor) == IF raw["paths.root"] = "relative" THEN anchor ELSE raw["paths.root"]

\* from_raw: the settings of a valid payload.
FromRaw(raw, anchor) ==
    [mode |-> raw["mode"], profile |-> raw["profile"], ui |-> UiBackend(raw),
     sync |-> raw["sync.backend"],
     token |-> IF "sync.api_token" \in DOMAIN raw THEN raw["sync.api_token"] ELSE None,
     pc |-> raw["plugins.pc_name"], devices |-> raw["plugins.device_plugins"],
     root |-> RootPath(raw, anchor)]

\* What load_startup_settings would do without a cache.
LoadFails(req) ==
    \/ SourceUnreadable(req)
    \/ MergeTypeError(Sources(req))
    \/ SchemaInvalid(Merged(Sources(req)))
    \/ NormalizationRaises(Merged(Sources(req)))
FreshSettings(req) == FromRaw(Merged(Sources(req)), req.anchor)

(***************************************************************************)
(* The cache.  The fingerprint is taken over the sources alone, so the     *)
(* anchor of relative paths (config directory or root hint) is not in it.  *)
(***************************************************************************)

NoEntry == [fingerprint |-> <<>>, settings |-> None]

\* Mutant: the environment is left out of the fingerprint.
FingerprintNoEnv(req) == <<Defaults(req), req.file, CliSource(req)>>

\* _compute_fingerprint
Fingerprint(req) == Sources(req)

CacheHit(cache, req) == cache # NoEntry /\ cache.fingerprint = Fingerprint(req)

\* The settings load_startup_settings returns, and the entry it leaves.
LoadedSettings(cache, req) ==
    IF CacheHit(cache, req) THEN cache.settings ELSE FreshSettings(req)
CacheAfter(cache, req) ==
    IF CacheHit(cache, req) THEN cache
    ELSE [fingerprint |-> Fingerprint(req), settings |-> FreshSettings(req)]

=============================================================================
