# dpost: TLA+ models, checks and proofs

dpost watches a directory into which laboratory instruments write files, moves
every file to its place, keeps a record of it and announces the record to a
research data backend (Kadi). The repository holds two generations of the
program: `src/dpost_v2`, which its README names the canonical runtime, and the
predecessor `src/ipat_watchdog`, whose device processors and sync are the ones
with the most behaviour. This project models both. Paths below are relative to
the repository root; in `PROJECT.json` they carry one more `src/` in front.

`PROJECT.json` lists the components, the runs, for every property a mutation of
the model that breaks it, the source lines behind every definition, the findings,
the hazards and the theorems.

## 1. Inventory

### dpost_v2

Control runs through one thread. `__main__` parses arguments, `bootstrap` loads
settings and builds dependencies, `compose_runtime` wires adapters, plugins and the
ingestion engine into a `DPostApp`, and `_execute_runtime` calls `run()` and then
`shutdown()`. What is concurrent is the world: instruments write into the directory,
the clock moves (also backwards), the user presses Ctrl-C, other processes open the
same database, the process dies.

| component | state it keeps | operations | what is hard |
|---|---|---|---|
| `application/session/session_manager.py` | `SessionState`: kind, id, four timestamps | start, record_activity, stop, abort, evaluate_timeouts | any order of calls with any timestamps; deadlines at the boundary |
| `infrastructure/storage/record_store.py`, `application/records/service.py` | the SQLite table `records`, with a revision per row | create, save, update, mark_unsynced, get | reads outside the write transaction, several connections, a commit whose answer is lost |
| `application/ingestion/engine.py`, `stages/pipeline.py` | the run in progress: stage, transition log | process, run | handlers and policies that raise or return what the table forbids, cycles, cancellation |
| `application/ingestion/stages/*.py` with `runtime/composition.py` | candidate, `record_revisions` cache, files | resolve, stabilize, transform, route, persist, post_persist | file moved but record not saved, restart in between, instrument rewriting a file in flight, sync answers lost |
| `application/runtime/dpost_app.py`, `runtime_host.py`, `__main__.py` | seen event ids, batch, session, terminal reason | run, shutdown, exit code | timeouts against arriving files, duplicates, exceptions inside the exception handler, Ctrl-C, failing hooks |
| `application/startup`, `runtime/startup_dependencies.py`, `runtime/composition.py` | settings cache, adapters made so far, cleanup hooks | bootstrap phases, composition, shutdown_all | failure at any phase, hooks that raise, what stays open |
| `plugins` (host, discovery, catalog, profiles) | registered descriptors, active plugins | register, activate_profile, shutdown, scope and processor queries | a hook of one of several plugins raises |
| `plugins/devices/*` | pending natives, bucket, sentinel, staged batches, series | prepare, can_process, process | files in any order, events that come once only, staleness |
| `application/ingestion/policies`, `runtime_services.py`, `processor_factory.py` | debounce history, processor cache | retry plan, debounce, failure outcome | mostly replaced by closures of the composition root |
| `infrastructure/sync` | adapter lifecycle | initialize, sync_record, shutdown | responses outside the contract |
| `application/contracts`, `domain`, `infrastructure/observability`, `infrastructure/runtime/ui`, build helpers | none, or output handles | validation, naming, emit | nothing stateful |

### ipat_watchdog

An observer thread puts paths into a queue. The UI thread takes one path per tick
and runs its whole pipeline, including a blocking wait until the file is stable and
a modal rename dialog; retries are timers of the UI loop. Records live in memory and
in a JSON ledger that is rewritten after every change, and are uploaded at start and
behind every item.

| component | state it keeps | operations | what is hard |
|---|---|---|---|
| `core/app/device_watchdog_app.py`, `core/processing` | event queue, timers, modified-gate history, rejections | events, tick, resolve, stabilize, route, rename, reject | two threads, instruments that write and remove during every wait, moves that fail, exceptions in the exception path |
| `core/records`, `core/sync/sync_kadi.py`, `file_process_manager.py` (registration) | records with files, upload and force flags; the ledger; what Kadi holds | add_item_to_record, sync passes, save, load | an answer that is lost, a save that fails, a death between upload and save |
| `device_plugins/psa_horiba`, `rhe_kinexus` | natives waiting, pairs, sentinel, staged batches, aliases | preprocessing, purge, flush, processing | every waiting file is presented again every few seconds; folder names are reused |
| `device_plugins/utm_zwick`, `dsv_horiba` | series by file stem | preprocessing, TTL fallback, orphan purge, processing | exports ahead of raw files, TTL against retries |
| other device plugins, session timer, configuration, widgets | none, or a timer | | nothing stateful |

### Interactions

`DPostApp` asks the `SessionManager` for timeouts before every poll and every event
and records activity before each event is handed over. The engine runs the stages
through the pipeline runner; the stages reach the file system, the `RecordsService`
and the sync adapter through closures built in `composition.py`, which share the
`record_revisions` map. The plugin host is one of the adapters; its `shutdown`, like
the others', is run by `shutdown_all` in reverse order of creation. In
`ipat_watchdog` the processors' answer "not yet" becomes a retry timer of the
application, so the two together decide whether a file is ever taken up; what a
processor writes into a record folder becomes an entry of the ledger and then an
upload.

### What makes each part correct

* session: timestamps fit the lifecycle, an ended session stays ended, no activity
  postpones the hard deadline;
* record store: a mutation is merged into the content it replaces, revisions only
  grow, callers are told the truth about their writes;
* engine: one outcome per event, success only by way of all six stages, every run
  ends;
* stages: no record without a file, success is durable, the revision cache never
  runs ahead of the store, a replay does not overwrite;
* loop: every event id is handed over once, the lifecycle log is well formed, the
  result, the session and the exit code agree, deadlines, cancellation and the end
  of a source end the run;
* startup and plugin host: no started plugin is forgotten whatever hooks raise, a
  runtime that ran is taken down completely, a selected PC plugin bounds the devices
  files are attributed to, cached settings are current;
* legacy application: nothing observed is dropped but where the code gives it up,
  nothing is used while it is being written, what was taken away is not reported as
  rejected, nothing but a dialog holds up the UI thread;
* legacy records: what is flagged as uploaded is in Kadi with its current content,
  no pending file is blocked by its own older upload;
* staging processors: a file belongs to one pair, batches stay whole, natives are
  staged or purged, and a complete pair of raw file and export is taken up. Not
  everything leaves: an export that waits as the sentinel is replaced by the next
  one, and a raw file of the dissolver that comes behind its series waits for
  another export.

## 2. Modules and how they correspond to the code

### SessionManager (and SessionManagerProofs)

`session` is the `SessionState`, `result` the status or error of the last call. One
operator per method; its timestamp is a parameter because callers may pass `now`
explicitly, and `SessionNext` tries every timestamp, earlier ones included. `Raise`
stands for the error classes: state unchanged, error in `result`. Transition
callbacks are left out: the manager catches what they raise and they cannot change
the state.

### RecordStore, VersionedRecords (MCRecordStore, RecordStoreProofs)

Each member of `Conns` is one `SqliteRecordStoreAdapter` with its connection. A
`SELECT` or a `BEGIN ... COMMIT` is one step, since SQLite serializes them; `conn[c]`
says between which two of them a call is, and what it has read. `save` compares
against a row read before its transaction, `update` reads, writes `WHERE revision =
expected` and reads again, `mark_unsynced` reads the current revision first and then
updates. `Abandon` is a database error or the death of the process between two
steps. The payload is a set of tags, one fresh tag per call, so that the merge
`{**payload, **mutation}` is a union and a lost mutation is a missing tag.
`applied`, `acked` and `refused` are history: what was written, what callers were
told.

`VersionedRecords` is the abstract store: a record appears, or its revision grows by
one and its content keeps everything it had. `ImplementsVersionedRecords` is the
refinement with `store <- table`.

### IngestionEngine (MCIngestionEngine, IngestionProofs)

`status`, `stage`, `log`, `kind`, `emission` are one `process()` call. `ContinueTo`
and `Terminal` are the runner's treatment of the two kinds of directives, table check
included; `GuardRaises` the cycle guard, the missing policy and the missing handler;
`Classify` and `BuildFailure` the exception normalization, in which an absent policy,
a bound one and one that raises differ. The transition table is a constant;
`DefaultNextStages` and `DefaultTerminalOutcomes` are the table of the code.

### Ingestion (IngestionProofs)

Extends IngestionEngine: the six handlers with the closures `compose_runtime` gives
them, and the world they act on. Each external effect (a move, the save, the
bookkeeping update, the sync call, the mark, the emission) is an action of its own,
because the process may die and the instrument may write between any two of them. A
file is its name and its mtime, which also stands for its content; an event is the
pair of both, a record id likewise. A write that fails may have failed before or
after its commit (the adapter reads back after committing). `Restart` clears what
lives in memory: `revisions`, `seen`, `batch`, the run in flight. `disturbed` is
history: the instrument touched the event's file or the final file in flight.

A processor may take away and write any files of the watch directory except its own
source, and return any names as `final_path` (`cand.final`) and `force_paths`
(`cand.forced`): SEM strips a digit of the name, PSA names a numbered `.csv`, Zwick
forces another watched file. The target is named after the final path, below the root
or below the folder that an accepted `force_path` of the event names
(`OverrideFolders`); one outside the root rejects the event. The move plan is carried
out file by file, the final file first, and a row keeps its target path. Results
outside the watch directory are left out.

Modelled as they behave, rather than as they seem to be meant:

* `stabilize` looks up the duplicate gate's decision as an attribute; the runtime's
  gate answers with a mapping, so the gate never drops or defers;
* `settle_delay_seconds` reaches the stage only through settings that carry it; the
  model's `SettleDelay` is such a setting;
* `rename` replaces a file of the same name. Unique names are deferred in the
  repository's checklists, so this is no finding; `RecordImpliesFile` accordingly
  promises a file, not the same file;
* the runtime's retry planner always stops and its move adapter always reports
  `move_failed`. `PlannerAnswers` and `MoveErrors` are wider because
  `run_persist_stage` handles the other answers.

### DPostApp (MCDPostApp, DPostAppProofs)

Extends SessionManager: `pc` walks through `run()` call by call, then through
`_execute_runtime`. `run` is the configuration of the run: loop mode, polled
directory or one-time source, whether the wall clock may be set back, and which
collaborators may raise. The ingestion engine is a call with one of its outcome
kinds, or one that raises. `Interrupt` is a `KeyboardInterrupt`, which no `except
Exception` sees; `SetClockBack` the wall clock being corrected. `log` holds the
emitted lifecycle events. A batch is any enumeration of the new files in the order of
their sort key (`Sorted` is the set of these). Skip events and counters are left out (they are reporting
only and unbounded, since every poll skips the same files again).

### PluginHost (MCPlugins, StartupProofs)

`registered` and `active` are the host's catalog and active set, `call` the locals
of an `activate_profile` or `shutdown` in progress. A hook call is one step, because
it is the plugin's code and may raise; `up` is history, the plugins that were
started and not stopped. Discovery, contract validation, selection for a profile
and the queries of the host are operators on manifests. Plugin ids are numbers whose
order is the order of the sorted ids, in which hooks run. `create_processor` is the
plugin's code too: `ProcessorRaises(p, failing)` says when asking for the processor of
`p` raises, and `failing` are the plugins whose build raises, or answers with something
that is no processor, at this moment, whatever an earlier build did.

### Settings, Startup (MCStartup, StartupProofs)

`Settings` is pure: four sources, precedence, merge, aliases, schema, normalization,
fingerprint and cache. A source is a function on the keys it sets; there is one key
per kind of rule in the schema. `Startup` extends it and PluginHost: `pc` is the
phase of `run_bootstrap`, `made` the adapters `_instantiate_bindings` has created in
port order, `open` those that hold a resource, `closing` the adapters `shutdown_all` has
left to close, of which the one made last is next (`NextHook`). The plugins factory starts an `activate_profile` of PluginHost, whose hooks
then run step by step inside the composition. `SelectProcessor` is
`_select_runtime_processor` with the plugin policy of the composition root: an id
the host cannot serve, or whose build fails, is taken by the default processor, and
the next candidate tries the build again; `processors` is the cache of built ones and
`chosen.real` tells the two kinds of answers apart. Any factory may raise
(`InstantiateFails`). `emit_event` is a callable the caller passes and may raise at
`startup_started`, at `startup_succeeded` and while a failure is reported; the exception
then leaves `run_bootstrap` (`result = "escaped"`). A dry run ends behind the bootstrap
without a shutdown (`DryRunEnds`). A request carries the environment it finds (files,
variables, display, token, test doubles, overrides).

### Watchdog (MCWatchdog, WatchdogProofs)

`fs` gives each path of the watch directory a version, 0 when it is absent; a write
gives a new one, as size and mtime do. `notices` is what the observer thread has not
handled yet, `queue` the event queue, `timers` the retries scheduled for each path.
`pc`, `cur`, `dev`, `track` are the UI thread inside one item: device resolution with
its probes, each poll of the stability guard, preprocessing, routing, the rename
dialog, rejection. One poll interval of the guard is the unit of time, so instruments
act between any two polls.

What is routed and processed is `eff`, the effective path of the candidate, which
preprocessing may make another path than the event's: a device of `Collectors` gathers
the files of a batch in a folder of `Stages`, and the Zwick fallback takes another
series. A device of `Lenient` masks failing moves, so that a source may stay behind its
processing, as does one that is copied (`Rewatched`). Every message box and dialog is
modal: `Waiting` are the states in which one is open, and what leaves them is a
`UserStep`. When the error box raises and so does the exception handler's, nothing
polls the queue any more (`"hung"`). `quiet`, `due`, `taken` are history; an item that leaves its path behind by
one of these ways takes it out of `due`, which is what `NothingDropped` is about.

### WatchdogRecords (MCWatchdogRecords, WatchdogRecordsProofs)

`mem` is `_persist_records_dict`, `ledger` the JSON file (None when cut off in the
middle of a write), `ver` the files in the record folders, `server` what Kadi holds.
Processing an item, registering each of its paths, opening a record, each upload and
the save behind a record are steps of their own; between any two of them the process
may die or somebody may delete a file. `last` is the last version of each file, so that
a file that is deleted and written again has a new one. `doubt` is history: files the program lost
track of through a death or a failed save before their entry was written, a failed
processing, or a lost answer. The properties except exactly these files, since the
code has no defence for them.

Modelled as it behaves: whether the Kadi client raises or returns an error when it
refuses a name is outside the repository, so both happen.

### SentinelBatch, Series (MCStaging, StagingProofs)

`SentinelBatch` has the processors that pair native files with exports and stage
batches (`kind` is the PSA or Kinexus processor of `ipat_watchdog`, or the PSA
processor of `dpost_v2`), `Series` those that collect a raw file and an export of one
stem (Zwick and dissolver of `ipat_watchdog`, Zwick of `dpost_v2`). Both include the
application around them: a deferred file is presented again in rounds (`served`,
`asked`), as the retry delay is the same for all; `dpost_v2` presents a file once per
modification time. Ages count ticks and stop one past the TTL. Failing moves,
staging folders that cannot be made or whose names are all taken, cancelled renames,
processing that raises and restarts at any time are part of the models. Behind a
restart `ipat_watchdog` gets no events for the files that are there, while `dpost_v2`
presents each of them again. The moves of one processing are one step with respect to
a restart. At most one mishap happens in a behaviour of `SentinelBatch`, at most one
file is lost in one of `Series`, ahead of other failures. `Raws` are the types of raw
files: the dissolver has three, Zwick one.

Modelled as they behave, rather than as they seem to be meant:

* PSA looks at stale staging folders only while its folder state is not idle;
  Kinexus always does;
* the `dpost_v2` processor does not check whether it tracks a file already, so a
  touched file can be listed twice, and its flush then raises at the second move;
* the Zwick TTL fallback answers the event of one file with the series of another,
  and the event that was used is gone;
* an alias of PSA survives the folder it points to; its native is then rejected;
* when all indexed names of a staging folder are taken, the legacy processors use the
  folder without an index, whether or not it is there;
* a flush of `dpost_v2` stops at the first move that fails, with the files before it
  moved; the legacy flush goes on with the next pair;
* processing by the dissolver takes an archive for filed once it is written, also
  when the raw file cannot be deleted, and the move of an orphan may fail.

## 3. Runs

| run | checks | shows |
|---|---|---|
| `session` | LifecycleConsistent, LifecycleForward, HardTimeoutIsFinal | every order of calls with timestamps 0..4 keeps the session consistent, moves it forward only, never postpones its hard timeout |
| `records_shared` | MergeBaseIsCurrent, ImplementsVersionedRecords | two connections using create, update and mark_unsynced refine the versioned store |
| `records_single` | AckedWereApplied, MonotonicRevisions | one connection, all four operations, two records: callers are told the truth, revisions are monotonic |
| `records_lost_update` | violates AckedWereApplied | two connections, a mutation acknowledged but never written |
| `engine` | SuccessMeansAllStages, EveryRunEnds | free handlers and policies over a table with a cycle and two defective stages |
| `ingestion_stages` | RecordImpliesFile, CacheNeverAhead, SuccessIsDurable, ReplayKeepsRecords | the composed pipeline with processors that return any files, faults of every call, a restart, an instrument writing at any moment |
| `app` | AppTypeOK, SessionEnded, HandedOnce, LifecycleInOrder, ResultAgrees, ExitCodeHonest, RunEnds, StopsWhenAsked | polling and oneshot runs, with and without Ctrl-C and a clock that is set back, every collaborator raising |
| `startup` | NoForgottenPlugin, ActiveAreUp, NothingLeftOpen, PcScopeHolds, CacheStaleInRootOnly, BootEnds | a process that uses a plugin host and bootstraps twice with one settings cache, dry runs, failures at every phase, in every factory, hook and event, and builds of processors that fail at any time |
| `wd_records` | UploadedIsCurrent, NoBlockedUpload, PassIsComplete | registration and upload with lost answers, failing saves, a torn ledger, deleted files, deaths |
| `watchdog` | NothingDropped, QuietBeforeUse, NoFalseRejection, ItemEnds | the application with instruments that write, replace and remove a file and a folder at any moment, a device that gathers, another effective path, masked moves; nothing but a dialog holds up the UI thread |
| `staging` | SentinelExclusive, TrackedOnce, BatchIsWhole, NativesLeave, FiledTogether, PairLeaves | six staging processors with files in every order, retries, purges, failing moves, missing folders, cancelled renames, restarts; exports are filed with a raw file |
| `staging_ttl` | violates FallbackComes | a `.zs2` whose export never comes is retried and refreshed for ever |

Each module also defines a type invariant, written as the first part of an inductive
invariant. They hold in the instances above; only `AppTypeOK`, whose record of
timestamps and log entries is the least obvious, is part of a configuration.

### Bounds and why they are enough

* `session`: five instants with idle timeout 1 and hard timeout 3 put every
  comparison below, at and above its boundary; two ids are needed for the mismatch
  check. The theorems hold for every value.
* records: the races need two connections, one record and three tags (a create and
  two competing mutations); `MaxRev = 2` lets a revision be passed once. Connections,
  records and tags are symmetric.
* `engine`: twelve steps let the cycle be entered repeatedly before the guard fires
  (the code's default is larger, and only its finiteness matters).
* `ingestion_stages`: two names, one of which a processor may write or return as well,
  one override folder, two writes of the instrument, three instants, one restart. A
  second write is what replays and rewrites in flight need; a restart clears all
  memory, so a second one adds nothing new. About 3.4 million states.
* `app`: two events suffice for order, duplicates and a failure in front of a rest of
  the batch; instants 0..2 reach idle and hard timeouts and leave room for setting
  the clock back. About 716 000 states.
* `startup`: twenty requests, each different from a plain start in what one part of
  the sequence reacts to, in every pair (the second bootstrap meets the cache of the
  first), and every subset of five plugin modules being importable: a device for
  every profile, a device and a PC for some, a second module with an id already used,
  and one that breaks the contract. About 20 000 states.
* `wd_records`: two records (a pass that stops at one of them leaves the other), one
  with two files that can be rewritten, two faults. About 300 000 states.
* `watchdog`: a file with two versions that two devices match, one of them with a
  reappear window, the other one a collector that masks failing moves; a folder that
  is empty, then recognised, then complete with its sentinel; and the collector's
  staging folder, which is deferred by its name. Two stable cycles within at most two
  waits make each poll matter. About 700 000 states. A path no selector matches is
  rejected in the same step as one whose probes are all mismatches, which is the case
  the instance has.
* `staging`: two natives and two exports make two pairs, one pair beside a sentinel,
  and a name that is written again; two staging folders make a free name and a taken
  one. A TTL of 0 ticks means stale after the first tick, which any action can
  precede (for the series too). Two stems, two types of raw files and three writes for the series, so that
  a raw file can come behind its series. About 110 000 states.

Deadlock is not checked where the system may stop: a program that has exited, a
store all of whose tags are used, a world whose bounds are exhausted.

### Fairness

All of it is weak fairness.

* `EngineSpec`: the steps of a started run. `process()` runs synchronously on the
  caller's thread and each handler returns or raises. None for beginning a run.
* `DPostApp!Spec`: the loop's thread, under the same assumption, and the clock. None
  for files, signals or interrupts. `StopsWhenAsked` is also checked with a clock
  that may be set back for ever, so that no timeout can help.
* `Startup!Spec`: the steps of the bootstrap and of the shutdown, straight-line code
  on one thread, including that a running program or a dry run ends, which is what
  `app` is about.
* `Watchdog!Spec`: only the steps that the UI thread takes by itself (`UiStep`).
  Nothing is owed by the user, the instruments or the observer thread; a dialog may
  stay open for ever.
* staging (`Fairness` of MCStaging): events are taken up, an item in the pipeline ends,
  time passes. This includes that the user answers the dialogs of the pipeline. That
  every waiting file gets its turn is not a fairness condition but the round of
  retries in the model.
* `RecordStore`, `Ingestion`, `WatchdogRecords`: none; their properties are safety.

A handler that blocks for ever (a processor in an endless loop, a network call
without a timeout) would break these; the code has no watchdog for it.

## 4. Findings and divergences

Shown by a run:

1. `record_store.py:167` (`records_lost_update`): `update` does not look at how many
   rows its conditional UPDATE matched; the revision it reads back was produced by the
   competitor. The losing mutation is acknowledged and lost. It needs two connections
   to one database, which two dpost processes on one machine have; `records_single`
   shows that one connection is safe.
2. `ipat_watchdog/device_plugins/utm_zwick/file_processor.py:89` (`staging_ttl`): each
   retry of a waiting `.zs2` sets `last_update` to now, and the TTL is measured from
   it. The retry delay is seconds, the TTL half an hour, so the fallback the module's
   docstring promises never comes.

Met while modelling, visible in the models, without a run of their own. The
properties named are stated so that they hold, with these cases as their exceptions:

* `record_store.py:96` and `:102`: `save` compares revisions outside the transaction
  it writes in; with two connections it takes a revision back, against
  `docs/pseudocode/infrastructure/storage/record_store.md:39` (`MonotonicRevisions`
  fails for two connections with `save`).
* `application/ingestion/stages/persist.py`: `persist.md:49` speaks of a compensating
  outcome when the file was moved and the save failed; the stage has none
  (`RecordImpliesFile` claims only the other direction).
* `application/runtime/dpost_app.py:132`: `dpost_app.md:40` promises a terminal event
  whenever the loop exits. Ctrl-C bypasses it, and so does a clock that is set back,
  where `abort_session` raises inside the handler (`LifecycleInOrder` allows a log
  without an end).
* `runtime/composition.py:347`: the first shutdown hook that raises keeps the hooks
  behind it from running, and `has_run` makes this final (`NothingLeftOpen` excepts
  it; `ExitCodeHonest` shows that it is reported).
* `runtime/composition.py:237`: adapters made before `compose_runtime` fails are never
  released, since `shutdown_all` does not exist yet; `bootstrap.md:40` says that any
  partial startup has a matching cleanup path (`NothingLeftOpen` is about later
  failures).
* `application/startup/settings_service.py:410`: the fingerprint of the cache does not
  cover the directory relative paths are resolved against (`CacheStaleInRootOnly`
  says that nothing else is stale).
* `runtime/composition.py:1313`, `plugins/host.py:195`: when the processor of a plugin
  within the PC's scope cannot be built, its id is served by the catch-all default
  processor without notice, against
  `docs/checklists/20260305-v2-architecture-handshake-first-checklist.md:93` ("disallow
  silent fallback to default plugin/device"). `PcScopeHolds` says that the default
  stands in for plugins of the scope only and gives way to a build that succeeds.
* `__main__.py:74`: a dry run returns 0 without a shutdown of what it composed, and a
  `startup_succeeded` that raises leaves the composition open (`NothingLeftOpen` is about
  the other ends).
* `psa_horiba/file_processor.py`: a stale staging folder is not purged while the
  folder state is idle, which is what it normally is behind a flush; two exports in a
  row replace each other as sentinel, and the first one then waits with nothing that
  purges it (`NativesLeave` is about natives).
* `utm_zwick/file_processor.py:76`: the TTL fallback answers the event of one file with
  the series of another, and the event's own file stays behind unqueued; moves that
  fail are masked at `:258` and in `sem_phenomxl2` and `dsv_horiba`, where the source
  stays behind in the same way (`NothingDropped` excepts both).
* `core/ui/ui_tkinter.py:60`: error, warning and info boxes are modal on the thread that
  polls the queue, so that one nobody closes stops the processing of all files
  (`ItemEnds` ends at a dialog).
* `dsv_horiba/file_processor.py`: a raw file that comes behind its series opens a series
  of its own, and each retry refreshes the time its age is measured from, so that the
  orphan purge does not reach it while it is retried (`PairLeaves` is about complete
  pairs).
* the legacy staging of PSA and Kinexus: with 999 folders of one name the next batch goes into the
  folder without an index, on top of what may lie there (`BatchIsWhole` excepts it as
  a mishap).

## 5. Proofs

Every safety property of section 3 is also a theorem, for every value of the
constants that the named assumptions admit: any number of files, records, plugins,
connections, instants, faults and restarts. The bounds of the runs (`MaxTime`,
`MaxRev`, `MaxFaults`, ...) are constants of the models, so that the theorems hold
for each of them and the bounds do not restrict what is proved. Each argument has the
same shape: an inductive invariant, one lemma per action (or per group of actions
with the same effect) saying that the action preserves it, and the property as a
consequence. Action properties are steps from a state that satisfies the invariant.
The invariants below were checked with TLC on the instances of section 3 before they
were proved.

### SessionManagerProofs

From `TimesAssumption` (timestamps are integers), `PolicyAssumption` (timeouts are
naturals or absent) and `NoneAssumption`.

* `SessionConsistent`: `SessionTypeOK /\ LifecycleConsistent` is inductive as it
  stands: consistency of an ended session needs the type of the active one it came
  from.
* `SessionMovesForward` and `HardTimeoutStays`: action properties. For the second the
  point is that the hard deadline is measured from the start, which no operation on
  an active session changes, so a later activity cannot take back an expired
  deadline.

### RecordStoreProofs

From `StoreAssumption`. Two pairs of theorems, each under a hypothesis that section 4
shows to be necessary:

* if no caller uses `save` (`"save" \notin Operations`), any number of connections:
  `UpdatesMergeCurrentContent` and the refinement `AdaptersImplementVersionedRecords`.
  The invariant is `TypeOK /\ NoSave /\ MergeBaseIsCurrent`: a connection between its
  read and its write holds the content of the row as long as the row still has the
  expected revision. It needs that every write changes the revision, so that stale
  bases lose their right to match, which is where `NoSave` enters;
* if there is one connection (`Single`), all four operations: `SingleAdapterIsHonest`
  (`AckedWereApplied`) and `SingleAdapterIsMonotonic`. `SingleInv` adds that what is
  stored was applied (`RowsApplied`), and for the call in progress that its check
  still holds at its transaction and that its mutation has been written when it reads
  back (`CallSound`).

### IngestionProofs

* `EngineSuccess`, from `EngineAssumption` and `TableAssumption`. The latter says what
  of the transition table matters: a run starts at `resolve`, a required stage is
  entered only from the stage in front of it or from a later one, and a stage that
  has a handler completes only as `post_persist`. The table of the code satisfies it,
  and so does the table with a cycle and two defective stages of the run `engine`; TLC
  evaluates it there. Handlers and policies may return or raise anything.
  `EngineInv` says that a running stage has its predecessor in the log.
* `RecordsHaveFiles`, `CacheIsBehind`, `SuccessSurvives`, `ReplaysKeepRecords`, from
  `IngestionAssumption`. `IngestInv` follows the event in flight (`ProgressInv`): up to
  its move the final file is as the processor returned it, or has been taken away,
  unless the instrument touched it (`Waiting`); the rest of the move plan covers every
  file of the result that is not at its target yet (`PlanCovers`); behind the move the
  final file is at the target with its content (`Delivered`); behind the save the
  record is stored with that target and cached, behind the bookkeeping it is booked
  (`Recorded`). `RecordImpliesFile` needs `Delivered` at the save, `SuccessIsDurable` is
  the last line of `ProgressInv`. A restart throws away
  everything `ProgressInv` speaks about, while `RecordImpliesFile` and
  `CacheNeverAhead` survive because the files stay and the cache becomes empty.

### DPostAppProofs

From the assumptions of SessionManager and `AppAssumption`.

* `AppWellTyped`, `EventsHandedOnce`, `LifecycleWellFormed`, `ResultsAreHonest`,
  `SessionsAreEnded`, `ExitCodesAreHonest`. `AppInv` says for each step of `run()` what
  the session is (`ControlInv`), that the event on its way has been marked as seen and
  not been handed on (`HandedInv`), that the log is open until the terminal event
  (`LogInv`), and how the run is left (`ExitInv`). It contains the invariant of the
  session manager, whose lemmas it uses. That the session never lies in the future
  unless the clock is set back is what keeps the exception handler from raising.
* `AppRefinesSession`: `Spec => SessionSpec`. The loop changes its session only by
  operations of the manager, so that what is proved of the manager holds in the
  application too.

### StartupProofs

From `ManifestAssumption` and `BootsAssumption`, for every set of plugin modules and
every request.

* `HostForgetsNoPlugin` for the host alone; `StartupForgetsNoPlugin` and
  `StartupActiveAreUp` for the host of a bootstrap. `HostInv` says of a call in progress
  that the started plugins are within `call.cur` during an activation and within
  `call.down`, itself within `active`, during a shutdown.
* `StartupReleases` (`NothingLeftOpen`): `PortsInv` and `ReleaseInv` say that what is
  open has a hook, that started plugins belong to the plugins adapter, and that during
  the shutdown what is open is still to be closed. The ends that take nothing down are
  outside `TakenDown`.
* `StartupScopesProcessors` (`PcScopeHolds`): `PolicyInv`, the policy of a running
  program is the one its settings and its active plugins give, what is chosen is one of
  the policy's candidates, and it is the plugin's own processor exactly if that has been
  built. Builds may fail in any order.
* `StartupCacheFresh` (`CacheStaleInRootOnly`): `CacheInv`, cached settings are those of
  their fingerprint but for the root directory. The fingerprint is the sources
  themselves, that is, hashes are taken to be free of collisions.

### WatchdogRecordsProofs

From `RecordsAssumption` (records have disjoint files).

* `UploadsAreCurrent`, `UploadsNotBlocked`: `TruthInv` says the same of the books in
  memory and of the ledger, the ledger with the unsaved entries as further
  exceptions, so that a restart takes the truth over; `ItemInv` says that a file
  written for the item in work is still to be registered.
* `PassesAreComplete`: `PassInv`, behind the position of a pass nothing is pending.

### WatchdogProofs

From `WatchdogAssumption`.

* `NothingIsDropped`: `KeptInv`, stronger than the property in that a modification in
  the observer's queue does not count, as the gate may refuse it, and neither does the
  item in work once it only reports how it ended. `TypeInv` adds that whatever is
  queued, awaited or in work has been written once, `DueInv` that what is due is there.
* `OnlyQuietPathsAreUsed`: `QuietInv`, the tracker has counted no more unchanged polls
  than passed without a write, as long as the version it compares with is there. It
  rests on versions never being reused, as size and mtime together are not.
* `NoProcessedPathIsRejected`: `TakenInv`, a processed path that is in work again and
  gone is awaited by its device.

### StagingProofs

From `BatchAssumption` and `SeriesAssumption`. `BatchSpec` and `SeriesSpec` are the two
modules on their own; `MCStaging` runs one or the other.

* `SentinelNeverCrowded`, `FilesPairedOnce`, `BatchesAreWhole`. `BatchInv`: a native that
  waits excludes a sentinel, in the legacy processors every file is tracked in one
  place, lies in the watch folder and is not an alias (`LegacyInv`), and a batch whose
  folder is there lies complete in it (`Whole`), unless a legacy processor met a
  mishap, which includes that all folders are taken. Most of the proof is about what
  purging leaves of a sequence (`Picked`).
* `ExportsFiledWithRaw`: `SeriesInv`, the item in the pipeline belongs to a complete
  series, what a series has seen is in the watch folder, and a file that is both filed
  and there belongs to a name with a failure; for `dpost_v2` what is queued is there.

### Only model-checked

* Liveness: `EveryRunEnds`, `RunEnds`, `StopsWhenAsked`, `BootEnds`, `ItemEnds`,
  `NativesLeave`, `PairLeaves`. Liveness under fairness and `ENABLED` are out of the
  prover's reach.
* The two violations of section 4, which are counterexamples.

Induction over data is out of reach as well (what a recursive definition computes for
every input). The modules contain no RECURSIVE operator, and where an order or a
selection is needed they say what the result is: `Sorted` is a set of enumerations,
`Picked` a function, `NextHook` a maximum.

The assumptions named above are about the constants only. Besides types they say that
the values that stand for "nothing" (`None`, `Missing`, `"none"`) are not among the
values they are compared with, that the clock's first instant 0 is a timestamp, and
that the shutdown hooks and the devices' candidates are sequences. TLC evaluates each
of them in the run of its module.

## 6. Not modelled, and why

* Schema creation and migration of the database, payload normalization, the error
  taxonomy of `RecordsService`.
* The cross-device fallback of `move` (copy, then unlink) and path resolution.
* Ingestion policies, runtime services and the processor factory of `dpost_v2`: the
  composed runtime uses closures of its own in their place, which are modelled.
* Sync adapters: what they can do to a stage (accept, refuse, lose the answer) is
  in `Ingestion` and `WatchdogRecords`; the rest is normalization of responses.
* Collections, groups and roles in Kadi: one call that succeeds or raises.
* Device processors without staging: they keep no state between files. In
  `Ingestion` a processor takes away and writes any files of the watch directory but
  its own source, returns any final path and forced paths among them, defers, fails or
  raises; results outside the watch directory are left out. In `WatchdogRecords` they
  write any files, among them the Hioki aggregate that replaces its predecessor.
* `refresh_catalog`, `remove_item_from_record` and the manual `flush_*` of Zwick: nothing
  calls them.
* Custom app factories and healthcheck overrides of the composition root.
* The legacy session timer, plugin loader, configuration, widgets and metrics;
  contracts, observability, UI output, build helpers, string handling of `domain`: no
  state worth a model.

Two hazards have no property: a file of the same name is replaced at the target
(`file_ops.py:62`; unique names are deferred in the repository's checklists) and the
last modification within the gate's cooldown is dropped (`modified_event_gate.py:63`,
by design).

## 7. Plan

Done: all modules of section 2, and every safety property of section 3 as a theorem.

Next:

1. Records of `WatchdogRecords`: from `TruthInv`, that a restart after a completed save
   finds the flags it had (an action property over `ledger` and `mem`).
2. DPostApp with Ingestion in place of its free engine, so that deferred events meet
   the loop's seen ids, and the refinement that makes the free engine an abstraction
   of the composed stages.
3. An abstract specification of the plugin host (a set of started plugins), and of the
   staging processors (files that wait, are batched or have left), with the refinement
   proved from the invariants that exist.

Further modelling, of less weight: the cross-device move as two steps in
`Ingestion`; schema migration.
