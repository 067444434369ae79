---------------------------- MODULE WatchdogRecords ----------------------------
(***************************************************************************)
(* Records of the legacy watchdog and their upload: LocalRecord,           *)
(* RecordManager with its JSON ledger, add_item_to_record of the file      *)
(* process manager and the Kadi sync manager                               *)
(* (ipat_watchdog/core/records, core/storage/filesystem_utils.py,          *)
(* core/processing/file_process_manager.py, core/sync/sync_kadi.py).       *)
(*                                                                         *)
(* One thread processes items and uploads them, so what can come between   *)
(* two of its steps is a failing call, the death of the process, or        *)
(* somebody deleting a file in the record folder.  A file is a name inside *)
(* one record; its versions are numbered, 0 is "not there".                *)
(***************************************************************************)
EXTENDS Integers, FiniteSets

CONSTANTS
    Records,       \* record identifiers
    FilesOf,       \* [Records -> SUBSET Files]: names a record may hold
    Ipat,          \* the records whose institute is ipat
    MaxVersion,    \* bound on the versions of each file
    MaxFaults,     \* bound on the calls that fail, deaths and deletions
    None           \* no record, no readable ledger

Files == UNION {FilesOf[r] : r \in Records}

ASSUME RecordsAssumption ==
    /\ IsFiniteSet(Files) /\ Ipat \subseteq Records
    /\ MaxVersion \in [Files -> Nat] /\ MaxFaults \in Nat
    /\ \A r, s \in Records : r # s => FilesOf[r] \cap FilesOf[s] = {}
    /\ None \notin Records
    /\ None \notin [files : SUBSET Files, done : SUBSET Files, force : SUBSET Files,
                    inDb : BOOLEAN]

VARIABLES
    ver,           \* version of each file in its record folder
    last,          \* the last version written
    server,        \* version of each file in Kadi
    mem,           \* _persist_records_dict
    ledger,        \* the JSON file; None when cut off
    at,            \* where the program is
    item,          \* the item being added: its record and paths to register
    todo,          \* records a sync pass has not come to
    cur,           \* the record it uploads
    left,          \* files of that record it has not come to
    missing,       \* missing_files
    faults,        \* faults so far
    unsaved,       \* history: files whose entry changed since the last save
    doubt          \* history: files the ledger or the program lost track of

fileVars == <<ver, last>>
itemVars == <<fileVars, item>>
syncVars == <<todo, cur, left, missing>>
vars == <<itemVars, server, mem, ledger, at, syncVars, faults, unsaved, doubt>>

(***************************************************************************)
(* LocalRecord.                                                            *)
(***************************************************************************)

\* A record: tracked files, those marked uploaded, those that need force.
NewRecord == [files |-> {}, done |-> {}, force |-> {}, inDb |-> FALSE]
NoItem == [rec |-> None, wrote |-> {}, final |-> {}, force |-> {}]

Pending(rec) == rec.files \ rec.done
Tracked(r) == IF mem[r] = None THEN {} ELSE mem[r].files

\* Mutant: a file that is registered again is not forced.
RegisterUnforced(rec, S) == [rec EXCEPT !.files = @ \cup S, !.done = @ \ S]

\* add_item, _register_file
Register(rec, S) ==
    [rec EXCEPT !.files = @ \cup S, !.done = @ \ S,
                !.force = (@ \ (S \ rec.files)) \cup (S \cap rec.done)]

\* mark_file_as_unsynced
MarkUnsynced(rec, S) ==
    [rec EXCEPT !.done = @ \ S, !.force = @ \cup (S \cap rec.files), !.inDb = FALSE]

\* _upload_record_files after a successful upload_file.
MarkUploaded(rec, f) == [rec EXCEPT !.done = @ \cup {f}, !.force = @ \ {f}]

\* _upload_record_files at its end: vanished files are forgotten.
DropMissing(rec, S) ==
    [rec EXCEPT !.files = @ \ S, !.done = @ \ S, !.force = @ \ S]

\* all_records_uploaded
AllUploaded(m) == \A r \in Records : m[r] # None => Pending(m[r]) = {}

(***************************************************************************)
(* The ledger.                                                             *)
(***************************************************************************)

\* A fault happens in this step.
Fault == faults < MaxFaults /\ faults' = faults + 1

\* save_persisted_records swallows its errors: the file is written, not
\* touched, or cut off in the middle.  S are the entries this save adds to
\* the ones still unsaved.
Save(m, S) ==
    \/ ledger' = m /\ unsaved' = {} /\ UNCHANGED faults
    \/ ledger' \in {ledger, None} /\ unsaved' = unsaved \cup S /\ Fault

\* load_persisted_records: a file that does not parse is an empty ledger.
Loaded == IF ledger = None THEN [r \in Records |-> None] ELSE ledger

(***************************************************************************)
(* Sync passes.                                                            *)
(***************************************************************************)

Eligible == {r \in todo : r \in Ipat /\ Pending(mem[r]) # {}}

\* sync_records_to_database is entered by the caller "startup" or "item",
\* unless everything is uploaded.
BeginPass(caller, m) ==
    IF AllUploaded(m) THEN at' = "idle" /\ todo' = {}
    ELSE at' = caller /\ todo' = {r \in Records : m[r] # None}

\* An exception leaves the pass: startup ends the program, the immediate sync
\* behind an item is best effort.
RaiseInPass ==
    /\ at' = IF at = "startup" THEN "down" ELSE "idle"
    /\ mem' = IF at = "startup" THEN [r \in Records |-> None] ELSE mem
    /\ todo' = {} /\ cur' = None /\ left' = {} /\ missing' = {}

\* What a death of the process leaves behind: entries that were not saved, and
\* files written but not registered.  A torn ledger loses everything.
LostTrack ==
    doubt \cup unsaved \cup item.wrote \cup (IF ledger = None THEN Files ELSE {})

Init ==
    /\ ver = [f \in Files |-> 0] /\ last = ver /\ server = ver
    /\ mem = [r \in Records |-> None] /\ ledger = mem /\ at = "down"
    /\ item = NoItem /\ todo = {} /\ cur = None /\ left = {} /\ missing = {}
    /\ faults = 0 /\ unsaved = {} /\ doubt = {}

\* FileProcessManager.__init__: load, and sync what is pending.
Start ==
    /\ at = "down" /\ mem' = Loaded /\ BeginPass("startup", Loaded)
    /\ unsaved' = {} /\ doubt' = LostTrack /\ item' = NoItem
    /\ UNCHANGED <<fileVars, server, ledger, cur, left, missing, faults>>

\* The process dies.
Crash ==
    /\ at # "down" /\ at' = "down"
    /\ mem' = [r \in Records |-> None] /\ doubt' = LostTrack
    /\ item' = NoItem /\ unsaved' = {}
    /\ todo' = {} /\ cur' = None /\ left' = {} /\ missing' = {}
    /\ Fault /\ UNCHANGED <<fileVars, server, ledger>>

\* Somebody deletes a file from its record folder.
Delete(f) ==
    /\ ver[f] > 0 /\ ver' = [ver EXCEPT ![f] = 0]
    /\ Fault /\ UNCHANGED <<last, item, server, mem, ledger, at, syncVars, unsaved, doubt>>

(***************************************************************************)
(* add_item_to_record.                                                     *)
(***************************************************************************)

\* The processor writes the files W of a record; a file that was deleted comes
\* back as something new.
Write(r, W) ==
    /\ W \subseteq FilesOf[r] /\ \A f \in W : last[f] < MaxVersion[f]
    /\ last' = [f \in Files |-> IF f \in W THEN last[f] + 1 ELSE last[f]]
    /\ ver' = [f \in Files |-> IF f \in W THEN last[f] + 1 ELSE ver[f]]

\* get_or_create_record
GetOrCreate(r) == IF mem[r] = None THEN [mem EXCEPT ![r] = NewRecord] ELSE mem

\* device_specific_processing returns: it has written W (new names, or an
\* aggregate copied over its predecessor) and names the paths to register, the
\* final one a file or the whole record folder (only the Hioki processor has
\* force paths, and it returns a file).
ProcessItem(r, W, F, folder) ==
    /\ at = "idle" /\ W # {} /\ F \subseteq W /\ Write(r, W)
    /\ folder => F = {}
    /\ mem' = GetOrCreate(r)
    /\ item' = [rec |-> r, wrote |-> W, force |-> F,
                final |-> IF folder THEN {f \in FilesOf[r] : ver'[f] > 0} ELSE W \ F]
    /\ at' = "register"
    /\ UNCHANGED <<server, ledger, syncVars, unsaved, doubt, faults>>

\* It raises on the way: the caller moves the source to the exceptions folder,
\* what was copied before stays.
ProcessFails(r, W) ==
    /\ at = "idle" /\ Write(r, W)
    /\ mem' = GetOrCreate(r) /\ doubt' = doubt \cup W
    /\ Fault /\ UNCHANGED <<item, server, ledger, at, syncVars, unsaved>>

\* update_record for the final path: registered files exist.
RegisterFinal ==
    /\ at = "register"
    /\ LET S == {f \in item.final : ver[f] > 0}
           m == [mem EXCEPT ![item.rec] = Register(@, S)]
       IN mem' = m /\ Save(m, S)
    /\ item' = [item EXCEPT !.final = {}, !.wrote = @ \ item.final] /\ at' = "forced"
    /\ UNCHANGED <<fileVars, server, syncVars, doubt>>

\* One force path: registered and saved, then marked unsynced in memory only.
RegisterForce(f) ==
    /\ at = "forced" /\ f \in item.force
    /\ IF ver[f] = 0 THEN UNCHANGED <<mem, ledger, unsaved, faults>>
       ELSE LET m == [mem EXCEPT ![item.rec] = Register(@, {f})]
            IN /\ Save(m, {f})
               /\ mem' = [m EXCEPT ![item.rec] = MarkUnsynced(@, {f})]
    /\ item' = [item EXCEPT !.force = @ \ {f}, !.wrote = @ \ {f}]
    /\ UNCHANGED <<fileVars, server, at, syncVars, doubt>>

\* The immediate sync.
ItemAdded ==
    /\ at = "forced" /\ item.force = {} /\ BeginPass("item", mem) /\ item' = NoItem
    /\ UNCHANGED <<fileVars, server, mem, ledger, cur, left, missing, unsaved, doubt, faults>>

(***************************************************************************)
(* sync_record_to_database.                                                *)
(***************************************************************************)

InPass == at \in {"startup", "item"}

\* The next record that is due; _prepare_resources and
\* _initialize_new_db_record succeed.
OpenRecord(r) ==
    /\ InPass /\ cur = None /\ r \in Eligible
    /\ cur' = r /\ left' = Pending(mem[r]) /\ missing' = {} /\ todo' = todo \ {r}
    /\ UNCHANGED <<itemVars, server, mem, ledger, at, unsaved, doubt, faults>>

\* Or one of their calls raises.
OpenFails ==
    /\ InPass /\ cur = None /\ Eligible # {} /\ RaiseInPass
    /\ Fault /\ UNCHANGED <<itemVars, server, ledger, unsaved, doubt>>

Refused(f) == server[f] > 0 /\ f \notin mem[cur].force

Took(f) ==
    /\ mem' = [mem EXCEPT ![cur] = MarkUploaded(@, f)] /\ left' = left \ {f}
    /\ unsaved' = unsaved \cup {f}

\* upload_file stores the file; a stored name is replaced only with force.
Upload(f) ==
    /\ f \in left /\ ver[f] > 0 /\ ~Refused(f)
    /\ server' = [server EXCEPT ![f] = ver[f]] /\ Took(f)
    /\ UNCHANGED <<itemVars, ledger, at, todo, cur, missing, doubt, faults>>

\* Kadi refuses a name it holds.  Whether the client raises or only answers
\* with an error, which nothing looks at, is not the repository's code.
UploadRefused(f) ==
    /\ f \in left /\ ver[f] > 0 /\ Refused(f)
    /\ \/ Took(f) /\ UNCHANGED <<at, todo, cur, missing>>
       \/ RaiseInPass /\ UNCHANGED unsaved
    /\ UNCHANGED <<itemVars, server, ledger, doubt, faults>>

\* Mutant: an upload that raised is marked all the same.
UploadFailsMarked(f) ==
    /\ f \in left /\ ver[f] > 0 /\ Took(f)
    /\ UNCHANGED <<itemVars, server, ledger, at, todo, cur, missing, doubt, faults>>

\* upload_file raises: Kadi has not stored the file, or has and the answer got
\* lost.
UploadFails(f) ==
    /\ f \in left /\ ver[f] > 0 /\ RaiseInPass
    /\ \/ UNCHANGED <<server, doubt>>
       \/ /\ ~Refused(f) /\ server' = [server EXCEPT ![f] = ver[f]]
          /\ doubt' = doubt \cup {f}
    /\ Fault /\ UNCHANGED <<itemVars, ledger, unsaved>>

\* FileNotFoundError
UploadMissing(f) ==
    /\ f \in left /\ ver[f] = 0
    /\ missing' = missing \cup {f} /\ left' = left \ {f}
    /\ UNCHANGED <<itemVars, server, mem, ledger, at, todo, cur, unsaved, doubt, faults>>

\* Mutant: a pass ends behind the first record.
RecordSyncedEndsPass ==
    /\ InPass /\ cur # None /\ left = {}
    /\ LET m == [mem EXCEPT ![cur] = [DropMissing(@, missing) EXCEPT !.inDb = TRUE]]
       IN mem' = m /\ Save(m, missing)
    /\ doubt' = doubt \cup {f \in missing : server[f] > 0}
    /\ cur' = None /\ missing' = {} /\ todo' = {}
    /\ UNCHANGED <<itemVars, server, at, left>>

\* The end of _upload_record_files, is_in_db, and the save behind it.  The
\* entry of a vanished file that Kadi holds is forgotten with it.
RecordSynced ==
    /\ InPass /\ cur # None /\ left = {}
    /\ LET m == [mem EXCEPT ![cur] = [DropMissing(@, missing) EXCEPT !.inDb = TRUE]]
       IN mem' = m /\ Save(m, missing)
    /\ doubt' = doubt \cup {f \in missing : server[f] > 0}
    /\ cur' = None /\ missing' = {}
    /\ UNCHANGED <<itemVars, server, at, todo, left>>

PassEnds ==
    /\ InPass /\ cur = None /\ Eligible = {}
    /\ at' = "idle" /\ todo' = {}
    /\ UNCHANGED <<itemVars, server, mem, ledger, cur, left, missing, unsaved, doubt, faults>>

Progress ==
    \/ RegisterFinal \/ ItemAdded \/ OpenFails \/ RecordSynced \/ PassEnds
    \/ \E r \in Records : OpenRecord(r)
    \/ \E f \in Files : \/ RegisterForce(f) \/ Upload(f) \/ UploadRefused(f)
                        \/ UploadFails(f) \/ UploadMissing(f)

Next ==
    \/ Progress \/ Start \/ Crash
    \/ \E f \in Files : Delete(f)
    \/ \E r \in Records : \E W \in SUBSET FilesOf[r] :
          \/ ProcessFails(r, W)
          \/ \E F \in SUBSET W, folder \in BOOLEAN : ProcessItem(r, W, F, folder)

Spec == Init /\ [][Next]_vars

(***************************************************************************)
(* Properties.                                                             *)
(***************************************************************************)

IsLedger(m) ==
    \A r \in Records : m[r] # None =>
        /\ m[r].files \subseteq FilesOf[r]
        /\ m[r].done \cup m[r].force \subseteq m[r].files
        /\ m[r].done \cap m[r].force = {}

\* Types, with what LocalRecord keeps true of its three collections: only
\* tracked files are flagged, and no uploaded file asks for force.
LegacyTypeOK ==
    /\ \A f \in Files : last[f] \in 0..MaxVersion[f] /\ ver[f] \in {0, last[f]}
                       /\ server[f] \in 0..last[f]
    /\ IsLedger(mem) /\ (ledger = None \/ IsLedger(ledger))
    /\ at \in {"down", "idle", "register", "forced", "startup", "item"}
    /\ todo \subseteq Records /\ cur \in Records \cup {None}
    /\ left \cup missing \cup unsaved \cup doubt \subseteq Files

\* A file flagged as uploaded is in Kadi with the content it has in the record
\* folder, over any rewrites, uploads and restarts, unless the program lost
\* track of it: a death or a failed save or processing between a change and
\* its entry, or an answer that got lost (add_item_to_record, _register_file,
\* _upload_record_files).
UploadedIsCurrent ==
    \A r \in Records : mem[r] # None =>
        \A f \in mem[r].done \ (doubt \cup item.wrote) :
            ver[f] > 0 => server[f] = ver[f]

\* A pending file that Kadi already holds carries its force flag, with the
\* same exceptions: without the flag its upload is refused, which ends every
\* later pass at its record and keeps the program from starting
\* (_register_file, from_dict/to_dict, FileProcessManager.__init__).
NoBlockedUpload ==
    \A r \in Records : mem[r] # None =>
        \A f \in Pending(mem[r]) \ doubt : server[f] > 0 => f \in mem[r].force

\* A pass that ends without an exception has left no file of an ipat record
\* pending (sync_records_to_database).
PassIsComplete ==
    [][PassEnds => \A r \in Ipat : mem[r] # None => Pending(mem[r]) = {}]_vars
=============================================================================
