------------------------------- MODULE MCStartup -------------------------------
(* Bootstrap requests and plugins for TLC.  Each request differs from a plain
   start in what one part of the sequence reacts to: the file and environment
   sources, the backends, the selected PC and devices, test doubles and
   overrides, and the directory relative paths hang below. *)
EXTENDS Startup, MCPlugins

Empty == [k \in {} |-> None]

Plain ==
    [mode |-> "v2", profile |-> None, file |-> Empty, fileState |-> "readable",
     env |-> Empty, anchor |-> "dirA", kadiToken |-> FALSE, display |-> TRUE,
     depCleanup |-> TRUE, doubles |-> {}, invalid |-> {}, dryRun |-> FALSE]

File(k, v) == [Plain EXCEPT !.file = [x \in {k} |-> v]]
Pc(devices) ==
    [Plain EXCEPT !.profile = "prod",
                  !.env = [k \in {"plugins.pc_name", "plugins.device_plugins"} |->
                             IF k = "plugins.pc_name" THEN 3 ELSE devices]]

MCRequests ==
    {Plain,
     [Plain EXCEPT !.anchor = "dirB"],
     [Plain EXCEPT !.fileState = "missing"],
     [Plain EXCEPT !.mode = "desktop"],
     [Plain EXCEPT !.mode = "desktop",
                   !.file = [k \in {"ui.backend"} |-> "desktop"]],
     [File("ui.backend", "desktop") EXCEPT !.display = FALSE],
     File("ui", "scalar"), File("ui_backend", "desktop"), File("other", "x"),
     File("mode", "desktop"), File("ingestion.retry_limit", -1),
     File("sync.backend", "kadi"),
     [File("sync.backend", "kadi") EXCEPT !.kadiToken = TRUE],
     [Plain EXCEPT !.env = [k \in {"plugins.device_plugins"} |-> {2, 7}]],
     Pc({}), Pc({2}), Pc({7}),
     [Pc({}) EXCEPT !.doubles = {"storage", "plugins"}],
     [Plain EXCEPT !.doubles = {"storage", "ui", "plugins"}, !.depCleanup = FALSE],
     [Plain EXCEPT !.invalid = {"sync"}], [Plain EXCEPT !.dryRun = TRUE]}

\* Ahead of the first bootstrap, a caller that uses a plugin host of its own, as
\* the tests of the host do; a bootstrap makes a new host.
MCNext ==
    \/ Next
    \/ pc = "idle" /\ HostNext /\ UNCHANGED <<pc, bootVars, portVars, log, result>>

MCSpec == Init /\ [][MCNext]_vars /\ WF_vars(Step)
=============================================================================
