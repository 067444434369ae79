----------------------------- MODULE RecordStore -----------------------------
(* SqliteRecordStoreAdapter and the RecordsService above it. Several
   connections (one adapter each, one per process) share one SQLite database.
   Every SELECT and every BEGIN..COMMIT block is one atomic step, because
   SQLite serializes them; what lies between two of them is not protected, so
   save, update and mark_unsynced interleave at the reads in front of and
   behind their write transactions. *)
EXTENDS Naturals

CONSTANTS
    Conns,       \* adapters, each with its own connection
    RecordIds,   \* record keys
    Tags,        \* mutation payloads, one fresh tag per call
    Unsynced,    \* the payload entry sync_status = "unsynced"
    Missing,     \* no row: get() returns None
    Operations,  \* the operations callers use
    MaxRev       \* bound: revisions a caller may reach

Mutations == Tags \cup {Unsynced}
Row == [rev : Nat, payload : SUBSET Mutations]

ASSUME StoreAssumption ==
    /\ Operations \subseteq {"create", "save", "update", "mark_unsynced"}
    /\ MaxRev \in Nat
    /\ Unsynced \notin Tags
    /\ Missing \notin [rev : Nat, payload : SUBSET (Tags \cup {Unsynced})]

VARIABLES
    table,    \* the records table: one row or Missing per key
    conn,     \* where each connection is in its current call
    used,     \* tags handed out so far
    applied,  \* <<record, tag>> of every write that changed a row
    acked,    \* <<record, tag>> of every call that returned normally
    refused   \* <<record, tag>> of every call that raised a conflict

vars == <<table, conn, used, applied, acked, refused>>

Idle == [pc |-> "idle"]

PCs == {"create_write", "save_write", "save_return", "update_read",
        "update_write", "update_verify"}

Call == [pc    : PCs,
         rid   : RecordIds,
         rev   : Nat,               \* incoming or expected revision
         tag   : Mutations,
         patch : SUBSET Mutations,  \* what the caller writes
         base  : SUBSET Mutations]  \* content of the row read by update

Init == /\ table = [r \in RecordIds |-> Missing]
        /\ conn = [c \in Conns |-> Idle]
        /\ used = {}
        /\ applied = {} /\ acked = {} /\ refused = {}

-----------------------------------------------------------------------------
Enter(c, pc, r, rev, tag, patch, base) ==
    conn' = [conn EXCEPT ![c] = [pc |-> pc, rid |-> r, rev |-> rev, tag |-> tag,
                                 patch |-> patch, base |-> base]]

Leave(c) == conn' = [conn EXCEPT ![c] = Idle]

\* The call raised RecordStoreConflictError.
Conflict(c, r, tag) == /\ Leave(c)
                       /\ refused' = refused \cup {<<r, tag>>}
                       /\ UNCHANGED acked

\* The call returned a snapshot.
Return(c, r, tag) == /\ Leave(c)
                     /\ acked' = acked \cup {<<r, tag>>}
                     /\ UNCHANGED refused

Write(r, tag, row) == /\ table' = [table EXCEPT ![r] = row]
                      /\ applied' = applied \cup {<<r, tag>>}

At(c, pc) == conn[c].pc = pc

Fresh(tag) == /\ tag \in Tags \ used
              /\ used' = used \cup {tag}

-----------------------------------------------------------------------------
\* create: straight into the INSERT transaction.
BeginCreate(c, r, rev, tag) ==
    /\ At(c, "idle") /\ "create" \in Operations /\ Fresh(tag)
    /\ Enter(c, "create_write", r, rev, tag, {tag}, {})
    /\ UNCHANGED <<table, applied, acked, refused>>

\* INSERT fails with IntegrityError on an existing key. The snapshot read
\* back cannot be missing: rows are never deleted.
CreateWrite(c) ==
    /\ At(c, "create_write")
    /\ LET k == conn[c] IN
       \/ /\ table[k.rid] = Missing
          /\ Write(k.rid, k.tag, [rev |-> k.rev, payload |-> k.patch])
          /\ Return(c, k.rid, k.tag)
       \/ /\ table[k.rid] # Missing
          /\ Conflict(c, k.rid, k.tag)
          /\ UNCHANGED <<table, applied>>
    /\ UNCHANGED used

\* Mutant: a save that is not newer counts as done already.
BeginSaveIdempotent(c, r, rev, tag) ==
    /\ At(c, "idle") /\ "save" \in Operations /\ Fresh(tag)
    /\ \/ table[r] # Missing /\ rev <= table[r].rev /\ Return(c, r, tag)
       \/ /\ table[r] = Missing
          /\ Enter(c, "create_write", r, rev, tag, {tag}, {})
          /\ UNCHANGED <<acked, refused>>
    /\ UNCHANGED <<table, applied>>

\* Mutant: the revisions are not compared.
BeginSaveUnchecked(c, r, rev, tag) ==
    /\ At(c, "idle") /\ "save" \in Operations /\ Fresh(tag)
    /\ Enter(c, IF table[r] = Missing THEN "create_write" ELSE "save_write",
             r, rev, tag, {tag}, {})
    /\ UNCHANGED <<table, applied, acked, refused>>

\* save: the existing row is read, and the revisions compared, outside the
\* transaction.
BeginSave(c, r, rev, tag) ==
    /\ At(c, "idle") /\ "save" \in Operations /\ Fresh(tag)
    /\ \/ /\ table[r] = Missing
          /\ Enter(c, "create_write", r, rev, tag, {tag}, {})
          /\ UNCHANGED <<acked, refused>>
       \/ /\ table[r] # Missing /\ rev <= table[r].rev
          /\ Conflict(c, r, tag)
       \/ /\ table[r] # Missing /\ rev > table[r].rev
          /\ Enter(c, "save_write", r, rev, tag, {tag}, {})
          /\ UNCHANGED <<acked, refused>>
    /\ UNCHANGED <<table, applied>>

\* UPDATE ... WHERE record_id = ?
SaveWrite(c) ==
    /\ At(c, "save_write")
    /\ LET k == conn[c] IN
       /\ Write(k.rid, k.tag, [rev |-> k.rev, payload |-> k.patch])
       /\ Enter(c, "save_return", k.rid, k.rev, k.tag, k.patch, {})
    /\ UNCHANGED <<used, acked, refused>>

\* get_or_raise: save returns whatever row is there by now.
SaveReturn(c) ==
    /\ At(c, "save_return")
    /\ Return(c, conn[c].rid, conn[c].tag)
    /\ UNCHANGED <<table, used, applied>>

\* Mutant: the patch is not merged into the stored payload.
UpdateReadDropsContent(c, r, expected, tag, patch) ==
    \/ /\ table[r] # Missing => expected # table[r].rev
       /\ Conflict(c, r, tag)
    \/ /\ table[r] # Missing /\ expected = table[r].rev
       /\ Enter(c, "update_write", r, expected, tag, patch, {})
       /\ UNCHANGED <<acked, refused>>

\* The reading half of update(): the expected revision is checked against the
\* row as it is now; the merged payload is computed from that row.
UpdateRead(c, r, expected, tag, patch) ==
    \/ /\ table[r] # Missing => expected # table[r].rev
       /\ Conflict(c, r, tag)
    \/ /\ table[r] # Missing /\ expected = table[r].rev
       /\ Enter(c, "update_write", r, expected, tag, patch, table[r].payload)
       /\ UNCHANGED <<acked, refused>>

BeginUpdate(c, r, expected, tag) ==
    /\ At(c, "idle") /\ "update" \in Operations /\ Fresh(tag)
    /\ UpdateRead(c, r, expected, tag, {tag})
    /\ UNCHANGED <<table, applied>>

\* mark_unsynced: the adapter reads the row (raising when there is none) and
\* calls update with the revision it saw, which reads the row again. Through
\* RecordsService a record that is read as unsynced already returns early.
BeginMarkUnsynced(c, r) ==
    /\ At(c, "idle") /\ "mark_unsynced" \in Operations
    /\ \/ /\ table[r] = Missing
          /\ Conflict(c, r, Unsynced)
       \/ /\ table[r] # Missing /\ table[r].rev < MaxRev
          /\ Enter(c, "update_read", r, table[r].rev, Unsynced,
                   table[r].payload \cup {Unsynced}, {})
          /\ UNCHANGED <<acked, refused>>
       \/ /\ table[r] # Missing /\ Unsynced \in table[r].payload
          /\ Return(c, r, Unsynced)
    /\ UNCHANGED <<table, used, applied>>

MarkUpdate(c) ==
    /\ At(c, "update_read")
    /\ LET k == conn[c] IN UpdateRead(c, k.rid, k.rev, k.tag, k.patch)
    /\ UNCHANGED <<table, used, applied>>

\* Mutant: the WHERE clause does not name the revision.
UpdateWriteBlind(c) ==
    /\ At(c, "update_write")
    /\ LET k == conn[c] IN
       /\ Write(k.rid, k.tag, [rev |-> k.rev + 1, payload |-> k.base \cup k.patch])
       /\ Enter(c, "update_verify", k.rid, k.rev, k.tag, k.patch, k.base)
    /\ UNCHANGED <<used, acked, refused>>

\* UPDATE ... WHERE record_id = ? AND revision = expected: no row matches when
\* another connection has written in between, and nobody asks how many did.
UpdateWrite(c) ==
    /\ At(c, "update_write")
    /\ LET k == conn[c] IN
       /\ IF table[k.rid].rev = k.rev
          THEN Write(k.rid, k.tag, [rev     |-> k.rev + 1,
                                    payload |-> k.base \cup k.patch])
          ELSE UNCHANGED <<table, applied>>
       /\ Enter(c, "update_verify", k.rid, k.rev, k.tag, k.patch, k.base)
    /\ UNCHANGED <<used, acked, refused>>

\* The row is read back; its revision alone decides between return and
\* "concurrent write detected".
UpdateVerify(c) ==
    /\ At(c, "update_verify")
    /\ LET k == conn[c] IN
       IF table[k.rid].rev = k.rev + 1 THEN Return(c, k.rid, k.tag)
                                       ELSE Conflict(c, k.rid, k.tag)
    /\ UNCHANGED <<table, used, applied>>

\* A locked database (OperationalError, mapped to RecordStoreTimeoutError) or
\* the death of the process ends a call wherever it is; a committed write stays.
Abandon(c) == /\ ~At(c, "idle")
              /\ Leave(c)
              /\ UNCHANGED <<table, used, applied, acked, refused>>

Next ==
    \E c \in Conns :
        \/ \E r \in RecordIds, tag \in Tags :
              \/ \E rev \in 0..MaxRev : BeginCreate(c, r, rev, tag)
              \/ \E rev \in 0..MaxRev : BeginSave(c, r, rev, tag)
              \/ \E rev \in 0..MaxRev : BeginUpdate(c, r, rev, tag)
        \/ \E r \in RecordIds : BeginMarkUnsynced(c, r)
        \/ CreateWrite(c) \/ SaveWrite(c) \/ SaveReturn(c)
        \/ MarkUpdate(c) \/ UpdateWrite(c) \/ UpdateVerify(c)
        \/ Abandon(c)

Spec == Init /\ [][Next]_vars

-----------------------------------------------------------------------------
\* Type invariant of the table, the calls in progress and their bookkeeping.
TypeOK == /\ table \in [RecordIds -> Row \cup {Missing}]
          /\ conn \in [Conns -> Call \cup {Idle}]
          /\ used \subseteq Tags
          /\ applied \subseteq RecordIds \X Mutations
          /\ acked \subseteq RecordIds \X Mutations
          /\ refused \subseteq RecordIds \X Mutations

\* An update call that will still match its WHERE clause computed its merged
\* payload from the row it is about to replace: the revision it read is never
\* ahead of the row's, and while the two agree the content does too. (With
\* save among the operations two saves may publish one revision twice.)
MergeBaseIsCurrent ==
    \A c \in Conns :
        At(c, "update_write") =>
            LET row == table[conn[c].rid] IN
            /\ row # Missing
            /\ conn[c].rev <= row.rev
            /\ conn[c].rev = row.rev => conn[c].base = row.payload

Versioned == INSTANCE VersionedRecords WITH store <- table

\* create, update and mark_unsynced of any number of connections, however
\* their reads and transactions interleave, change the table only as a store
\* with optimistic concurrency may: no write clobbers another's content.
ImplementsVersionedRecords == Versioned!Spec

\* The revision of a stored record never decreases.
MonotonicRevisions ==
    [][\A r \in RecordIds : table[r] # Missing =>
          table'[r] # Missing /\ table'[r].rev >= table[r].rev]_vars

\* A call that returned a snapshot did write its mutation to the table.
AckedWereApplied == acked \subseteq applied
=============================================================================
