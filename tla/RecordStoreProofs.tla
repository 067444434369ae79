-------------------------- MODULE RecordStoreProofs --------------------------
(* For any number of connections, records and mutations: as long as no caller
   uses save, the interleaved reads and transactions of create, update and
   mark_unsynced implement VersionedRecords. MergeBaseIsCurrent carries the
   argument: revisions only grow, so a revision an update call read earlier
   and finds again in its WHERE clause still names the content it merged.

   For a single connection, save included: what callers were told was written
   was written, and revisions are monotonic. *)
EXTENDS RecordStore, TLAPS

\* No connection is inside save's UPDATE.
NoSave == \A c \in Conns : ~At(c, "save_write") /\ ~At(c, "save_return")

\* The inductive invariant.
StoreInv == TypeOK /\ NoSave /\ MergeBaseIsCurrent

\* A connection that is inside a call has a well-typed call record.
LEMMA CallType ==
    ASSUME TypeOK, NEW c \in Conns, conn[c].pc # "idle"
    PROVE  conn[c] \in Call
BY DEF TypeOK, Idle

\* A row that is present has a revision and a payload.
LEMMA RowType ==
    ASSUME TypeOK, NEW r \in RecordIds, table[r] # Missing
    PROVE  /\ table[r] \in Row
           /\ table[r].rev \in Nat
           /\ table[r].payload \in SUBSET Mutations
BY DEF TypeOK, Row

\* The empty database with idle connections satisfies the invariant.
LEMMA StoreInit == Init => StoreInv
BY DEF Init, StoreInv, TypeOK, NoSave, MergeBaseIsCurrent, At, Idle

\* Entering a call keeps the call records well typed.
LEMMA EnterType ==
    ASSUME TypeOK, NEW c \in Conns, NEW pc \in PCs, NEW r \in RecordIds,
           NEW rev \in Nat, NEW tag \in Mutations,
           NEW patch \in SUBSET Mutations, NEW base \in SUBSET Mutations,
           Enter(c, pc, r, rev, tag, patch, base)
    PROVE  /\ conn' \in [Conns -> Call \cup {Idle}]
           /\ conn'[c] = [pc |-> pc, rid |-> r, rev |-> rev, tag |-> tag,
                          patch |-> patch, base |-> base]
           /\ \A d \in Conns \ {c} : conn'[d] = conn[d]
<1>1. [pc |-> pc, rid |-> r, rev |-> rev, tag |-> tag, patch |-> patch,
       base |-> base] \in Call
  BY DEF Call
<1> QED BY <1>1 DEF Enter, TypeOK

\* Leaving a call keeps the call records well typed.
LEMMA LeaveType ==
    ASSUME TypeOK, NEW c \in Conns, Leave(c)
    PROVE  /\ conn' \in [Conns -> Call \cup {Idle}]
           /\ conn'[c] = Idle
           /\ \A d \in Conns \ {c} : conn'[d] = conn[d]
BY DEF Leave, TypeOK

\* Steps that leave the table alone keep the invariant when the only call
\* they change is not in its write transaction afterwards.
LEMMA QuietStep ==
    ASSUME StoreInv, NEW c \in Conns, UNCHANGED table, TypeOK',
           conn'[c].pc \notin {"save_write", "save_return", "update_write"},
           \A d \in Conns \ {c} : conn'[d] = conn[d]
    PROVE  StoreInv'
<1>1. NoSave'
  BY DEF StoreInv, NoSave, At
<1>2. MergeBaseIsCurrent'
  BY DEF StoreInv, MergeBaseIsCurrent, At
<1> QED BY <1>1, <1>2 DEF StoreInv

\* create: BEGIN..COMMIT is still to come.
LEMMA BeginCreateInv ==
    ASSUME StoreInv, NEW c \in Conns, NEW r \in RecordIds, NEW rev \in 0..MaxRev,
           NEW tag \in Tags, BeginCreate(c, r, rev, tag)
    PROVE  StoreInv'
<1>1. Enter(c, "create_write", r, rev, tag, {tag}, {})
  BY DEF BeginCreate
<1>2. /\ conn' \in [Conns -> Call \cup {Idle}]
      /\ conn'[c].pc = "create_write"
      /\ \A d \in Conns \ {c} : conn'[d] = conn[d]
  <2>1. /\ tag \in Mutations /\ {tag} \in SUBSET Mutations
        /\ {} \in SUBSET Mutations /\ rev \in Nat /\ "create_write" \in PCs
    BY StoreAssumption DEF Mutations, PCs
  <2>2. /\ conn' \in [Conns -> Call \cup {Idle}]
        /\ conn'[c] = [pc |-> "create_write", rid |-> r, rev |-> rev, tag |-> tag,
                       patch |-> {tag}, base |-> {}]
        /\ \A d \in Conns \ {c} : conn'[d] = conn[d]
    BY <1>1, <2>1, EnterType DEF StoreInv
  <2> QED BY <2>2
<1>3. TypeOK'
  BY <1>2 DEF BeginCreate, Fresh, StoreInv, TypeOK
<1> QED BY <1>2, <1>3, QuietStep DEF BeginCreate

\* The table after one committed write, and what it does to the other calls.
LEMMA WriteStep ==
    ASSUME StoreInv, NEW c \in Conns, NEW r \in RecordIds, NEW row \in Row,
           table' = [table EXCEPT ![r] = row], TypeOK',
           table[r] # Missing => row.rev > table[r].rev,
           conn'[c].pc \notin {"save_write", "save_return", "update_write"},
           \A d \in Conns \ {c} : conn'[d] = conn[d]
    PROVE  StoreInv'
<1>1. NoSave'
  BY DEF StoreInv, NoSave, At
<1>2. MergeBaseIsCurrent'
  <2> SUFFICES ASSUME NEW d \in Conns, conn'[d].pc = "update_write"
               PROVE  LET now == table'[conn'[d].rid] IN
                      /\ now # Missing
                      /\ conn'[d].rev <= now.rev
                      /\ conn'[d].rev = now.rev => conn'[d].base = now.payload
    BY DEF MergeBaseIsCurrent, At
  <2>1. d # c /\ conn'[d] = conn[d] /\ conn[d].pc = "update_write"
    OBVIOUS
  <2>2. conn[d] \in Call
    BY <2>1, CallType DEF StoreInv
  <2>3. /\ table[conn[d].rid] # Missing
        /\ conn[d].rev <= table[conn[d].rid].rev
        /\ conn[d].rev = table[conn[d].rid].rev
             => conn[d].base = table[conn[d].rid].payload
    BY <2>1 DEF StoreInv, MergeBaseIsCurrent, At
  <2>4. CASE conn[d].rid # r
    <3>1. table'[conn[d].rid] = table[conn[d].rid]
      BY <2>2, <2>4 DEF StoreInv, TypeOK, Call
    <3> QED BY <2>1, <2>3, <3>1
  <2>5. CASE conn[d].rid = r
    <3>1. table'[r] = row
      BY DEF StoreInv, TypeOK
    <3>2. /\ conn[d].rev \in Nat /\ table[r].rev \in Nat /\ row.rev \in Nat
          /\ row # Missing
      BY <2>2, <2>3, <2>5, RowType, StoreAssumption
         DEF StoreInv, Call, Row, Mutations
    <3>3. conn[d].rev <= row.rev /\ conn[d].rev # row.rev
      BY <2>3, <2>5, <3>2
    <3> QED BY <2>1, <2>5, <3>1, <3>2, <3>3
  <2> QED BY <2>4, <2>5
<1> QED BY <1>1, <1>2 DEF StoreInv

\* create's transaction: INSERT of a new key, or a conflict.
LEMMA CreateWriteInv ==
    ASSUME StoreInv, NEW c \in Conns, CreateWrite(c)
    PROVE  StoreInv'
<1> DEFINE k == conn[c]
<1>1. k \in Call
  BY CallType DEF StoreInv, CreateWrite, At
<1>2. Leave(c)
  BY DEF CreateWrite, Return, Conflict
<1>3. /\ conn' \in [Conns -> Call \cup {Idle}] /\ conn'[c] = Idle
      /\ \A d \in Conns \ {c} : conn'[d] = conn[d]
  BY <1>2, LeaveType DEF StoreInv
<1>4. conn'[c].pc \notin {"save_write", "save_return", "update_write"}
  BY <1>3 DEF Idle
<1>5. k.rid \in RecordIds /\ k.tag \in Mutations /\ <<k.rid, k.tag>> \in RecordIds \X Mutations
  BY <1>1 DEF Call
<1>6. CASE table[k.rid] = Missing /\ Write(k.rid, k.tag, [rev |-> k.rev, payload |-> k.patch])
           /\ Return(c, k.rid, k.tag)
  <2>1. [rev |-> k.rev, payload |-> k.patch] \in Row
    BY <1>1 DEF Call, Row
  <2>2. TypeOK'
    BY <1>3, <1>5, <1>6, <2>1 DEF Write, Return, CreateWrite, StoreInv, TypeOK
  <2> QED BY <1>3, <1>4, <1>5, <1>6, <2>1, <2>2, WriteStep DEF Write
<1>7. CASE Conflict(c, k.rid, k.tag) /\ UNCHANGED <<table, applied>>
  <2>1. TypeOK'
    BY <1>3, <1>5, <1>7 DEF Conflict, CreateWrite, StoreInv, TypeOK
  <2> QED BY <1>3, <1>4, <1>7, <2>1, QuietStep
<1> QED BY <1>6, <1>7 DEF CreateWrite

\* update's first half: the call enters its transaction holding the row it read.
LEMMA UpdateReadInv ==
    ASSUME StoreInv, NEW c \in Conns, NEW r \in RecordIds, NEW expected \in Nat,
           NEW tag \in Mutations, NEW patch \in SUBSET Mutations,
           UpdateRead(c, r, expected, tag, patch),
           UNCHANGED <<table, applied>>, used' \subseteq Tags
    PROVE  StoreInv'
<1>0. <<r, tag>> \in RecordIds \X Mutations
  OBVIOUS
<1>1. CASE Conflict(c, r, tag)
  <2>1. /\ conn' \in [Conns -> Call \cup {Idle}] /\ conn'[c] = Idle
        /\ \A d \in Conns \ {c} : conn'[d] = conn[d]
    BY <1>1, LeaveType DEF StoreInv, Conflict
  <2>2. TypeOK'
    BY <1>0, <1>1, <2>1 DEF Conflict, StoreInv, TypeOK
  <2> QED BY <2>1, <2>2, QuietStep DEF Idle
<1>2. CASE /\ table[r] # Missing /\ expected = table[r].rev
           /\ Enter(c, "update_write", r, expected, tag, patch, table[r].payload)
           /\ UNCHANGED <<acked, refused>>
  <2>1. table[r].payload \in SUBSET Mutations /\ "update_write" \in PCs
    BY <1>2, RowType DEF StoreInv, PCs
  <2>2. /\ conn' \in [Conns -> Call \cup {Idle}]
        /\ conn'[c] = [pc |-> "update_write", rid |-> r, rev |-> expected,
                       tag |-> tag, patch |-> patch, base |-> table[r].payload]
        /\ \A d \in Conns \ {c} : conn'[d] = conn[d]
    BY <1>2, <2>1, EnterType DEF StoreInv
  <2>3. TypeOK'
    BY <1>2, <2>2 DEF StoreInv, TypeOK
  <2>4. NoSave'
    BY <2>2 DEF StoreInv, NoSave, At
  <2>5. ASSUME NEW d \in Conns, conn'[d].pc = "update_write"
        PROVE  LET now == table'[conn'[d].rid] IN
               /\ now # Missing
               /\ conn'[d].rev <= now.rev
               /\ conn'[d].rev = now.rev => conn'[d].base = now.payload
    <3>1. CASE d = c
      BY <1>2, <2>2, <3>1
    <3>2. CASE d # c
      BY <2>2, <2>5, <3>2 DEF StoreInv, MergeBaseIsCurrent, At
    <3> QED BY <3>1, <3>2
  <2>6. MergeBaseIsCurrent'
    BY <2>5 DEF MergeBaseIsCurrent, At
  <2> QED BY <2>3, <2>4, <2>6 DEF StoreInv
<1> QED BY <1>1, <1>2 DEF UpdateRead

\* update's entry, with the caller's expected revision.
LEMMA BeginUpdateInv ==
    ASSUME StoreInv, NEW c \in Conns, NEW r \in RecordIds, NEW rev \in 0..MaxRev,
           NEW tag \in Tags, BeginUpdate(c, r, rev, tag)
    PROVE  StoreInv'
<1>1. /\ tag \in Mutations /\ {tag} \in SUBSET Mutations /\ rev \in Nat
  BY StoreAssumption DEF Mutations
<1>2. used' \subseteq Tags
  BY DEF BeginUpdate, Fresh, StoreInv, TypeOK
<1> QED BY <1>1, <1>2, UpdateReadInv DEF BeginUpdate

\* mark_unsynced's own read in front of update.
LEMMA BeginMarkInv ==
    ASSUME StoreInv, NEW c \in Conns, NEW r \in RecordIds, BeginMarkUnsynced(c, r)
    PROVE  StoreInv'
<1>0. <<r, Unsynced>> \in RecordIds \X Mutations /\ Unsynced \in Mutations
  BY DEF Mutations
<1>1. CASE Leave(c)
  <2>1. /\ conn' \in [Conns -> Call \cup {Idle}] /\ conn'[c] = Idle
        /\ \A d \in Conns \ {c} : conn'[d] = conn[d]
    BY <1>1, LeaveType DEF StoreInv
  <2>2. conn'[c].pc = "idle"
    BY <2>1 DEF Idle
  <2>3. acked' \subseteq RecordIds \X Mutations /\ refused' \subseteq RecordIds \X Mutations
    <3>1. CASE Conflict(c, r, Unsynced)
      BY <1>0, <3>1 DEF Conflict, StoreInv, TypeOK
    <3>2. CASE Return(c, r, Unsynced)
      BY <1>0, <3>2 DEF Return, StoreInv, TypeOK
    <3>3. CASE UNCHANGED <<acked, refused>>
      BY <3>3 DEF StoreInv, TypeOK
    <3> QED BY <3>1, <3>2, <3>3 DEF BeginMarkUnsynced
  <2>4. TypeOK'
    BY <2>1, <2>3 DEF BeginMarkUnsynced, StoreInv, TypeOK
  <2> QED BY <2>1, <2>2, <2>4, QuietStep DEF BeginMarkUnsynced
<1>2. CASE /\ table[r] # Missing
           /\ Enter(c, "update_read", r, table[r].rev, Unsynced,
                    table[r].payload \cup {Unsynced}, {})
           /\ UNCHANGED <<acked, refused>>
  <2>1. /\ table[r].rev \in Nat /\ table[r].payload \cup {Unsynced} \in SUBSET Mutations
        /\ {} \in SUBSET Mutations /\ "update_read" \in PCs
    BY <1>0, <1>2, RowType DEF StoreInv, PCs
  <2>2. /\ conn' \in [Conns -> Call \cup {Idle}]
        /\ conn'[c] = [pc |-> "update_read", rid |-> r, rev |-> table[r].rev,
                       tag |-> Unsynced, patch |-> table[r].payload \cup {Unsynced},
                       base |-> {}]
        /\ \A d \in Conns \ {c} : conn'[d] = conn[d]
    BY <1>0, <1>2, <2>1, EnterType DEF StoreInv
  <2>3. conn'[c].pc = "update_read"
    BY <2>2
  <2>4. TypeOK'
    BY <1>2, <2>2 DEF BeginMarkUnsynced, StoreInv, TypeOK
  <2> QED BY <2>2, <2>3, <2>4, QuietStep DEF BeginMarkUnsynced
<1> QED BY <1>1, <1>2 DEF BeginMarkUnsynced, Conflict, Return

\* mark_unsynced's call of update.
LEMMA MarkUpdateInv ==
    ASSUME StoreInv, NEW c \in Conns, MarkUpdate(c)
    PROVE  StoreInv'
<1>1. conn[c] \in Call
  BY CallType DEF StoreInv, MarkUpdate, At
<1>2. /\ conn[c].rid \in RecordIds /\ conn[c].rev \in Nat
      /\ conn[c].tag \in Mutations /\ conn[c].patch \in SUBSET Mutations
  BY <1>1 DEF Call
<1>3. used' \subseteq Tags
  BY DEF MarkUpdate, StoreInv, TypeOK
<1> QED BY <1>2, <1>3, UpdateReadInv DEF MarkUpdate

\* update's transaction: it writes exactly when its revision still matches.
LEMMA UpdateWriteInv ==
    ASSUME StoreInv, NEW c \in Conns, UpdateWrite(c)
    PROVE  StoreInv'
<1> DEFINE k == conn[c]
           row == [rev |-> k.rev + 1, payload |-> k.base \cup k.patch]
<1>1. k \in Call
  BY CallType DEF StoreInv, UpdateWrite, At
<1>2. /\ k.rid \in RecordIds /\ k.rev \in Nat /\ k.tag \in Mutations
      /\ k.patch \in SUBSET Mutations /\ k.base \in SUBSET Mutations
      /\ <<k.rid, k.tag>> \in RecordIds \X Mutations
  BY <1>1 DEF Call
<1>3. row \in Row
  BY <1>2 DEF Row
<1>4. /\ conn' \in [Conns -> Call \cup {Idle}]
      /\ conn'[c] = [pc |-> "update_verify", rid |-> k.rid, rev |-> k.rev,
                     tag |-> k.tag, patch |-> k.patch, base |-> k.base]
      /\ \A d \in Conns \ {c} : conn'[d] = conn[d]
  <2>1. "update_verify" \in PCs
    BY DEF PCs
  <2> QED BY <1>2, <2>1, EnterType DEF StoreInv, UpdateWrite
<1>5. conn'[c].pc = "update_verify"
  BY <1>4
<1>6. CASE table[k.rid].rev = k.rev /\ Write(k.rid, k.tag, row)
  <2>1. TypeOK'
    BY <1>2, <1>3, <1>4, <1>6 DEF Write, UpdateWrite, StoreInv, TypeOK
  <2>2. row.rev > table[k.rid].rev
    BY <1>2, <1>6
  <2> QED BY <1>2, <1>3, <1>4, <1>5, <1>6, <2>1, <2>2, WriteStep DEF Write
<1>7. CASE UNCHANGED <<table, applied>>
  <2>1. TypeOK'
    BY <1>4, <1>7 DEF UpdateWrite, StoreInv, TypeOK
  <2> QED BY <1>4, <1>5, <1>7, <2>1, QuietStep
<1> QED BY <1>6, <1>7 DEF UpdateWrite

\* update's verdict.
LEMMA UpdateVerifyInv ==
    ASSUME StoreInv, NEW c \in Conns, UpdateVerify(c)
    PROVE  StoreInv'
<1> DEFINE k == conn[c]
<1>1. k \in Call
  BY CallType DEF StoreInv, UpdateVerify, At
<1>2. <<k.rid, k.tag>> \in RecordIds \X Mutations
  BY <1>1 DEF Call
<1>3. Leave(c)
  BY DEF UpdateVerify, Return, Conflict
<1>4. /\ conn' \in [Conns -> Call \cup {Idle}] /\ conn'[c] = Idle
      /\ \A d \in Conns \ {c} : conn'[d] = conn[d]
  BY <1>3, LeaveType DEF StoreInv
<1>5. conn'[c].pc = "idle"
  BY <1>4 DEF Idle
<1>6. TypeOK'
  <2>1. CASE Return(c, k.rid, k.tag)
    BY <1>2, <1>4, <2>1 DEF Return, UpdateVerify, StoreInv, TypeOK
  <2>2. CASE Conflict(c, k.rid, k.tag)
    BY <1>2, <1>4, <2>2 DEF Conflict, UpdateVerify, StoreInv, TypeOK
  <2> QED BY <2>1, <2>2 DEF UpdateVerify
<1> QED BY <1>4, <1>5, <1>6, QuietStep DEF UpdateVerify

\* A timeout or a crash.
LEMMA AbandonInv ==
    ASSUME StoreInv, NEW c \in Conns, Abandon(c)
    PROVE  StoreInv'
<1>1. /\ conn' \in [Conns -> Call \cup {Idle}] /\ conn'[c] = Idle
      /\ \A d \in Conns \ {c} : conn'[d] = conn[d]
  BY LeaveType DEF StoreInv, Abandon
<1>2. conn'[c].pc = "idle"
  BY <1>1 DEF Idle
<1>3. TypeOK'
  BY <1>1 DEF Abandon, StoreInv, TypeOK
<1> QED BY <1>1, <1>2, <1>3, QuietStep DEF Abandon

\* Every step but those of save preserves the invariant.
LEMMA StoreNext ==
    ASSUME "save" \notin Operations, StoreInv, [Next]_vars
    PROVE  StoreInv'
<1>1. CASE UNCHANGED vars
  BY <1>1 DEF vars, StoreInv, TypeOK, NoSave, MergeBaseIsCurrent, At
<1>2. CASE Next
  <2>1. PICK c \in Conns :
            \/ \E r \in RecordIds, tag \in Tags :
                  \/ \E rev \in 0..MaxRev : BeginCreate(c, r, rev, tag)
                  \/ \E rev \in 0..MaxRev : BeginSave(c, r, rev, tag)
                  \/ \E rev \in 0..MaxRev : BeginUpdate(c, r, rev, tag)
            \/ \E r \in RecordIds : BeginMarkUnsynced(c, r)
            \/ CreateWrite(c) \/ SaveWrite(c) \/ SaveReturn(c)
            \/ MarkUpdate(c) \/ UpdateWrite(c) \/ UpdateVerify(c)
            \/ Abandon(c)
    BY <1>2 DEF Next
  <2>2. ~SaveWrite(c) /\ ~SaveReturn(c)
    BY DEF SaveWrite, SaveReturn, StoreInv, NoSave
  <2>3. \A r \in RecordIds, tag \in Tags, rev \in 0..MaxRev : ~BeginSave(c, r, rev, tag)
    BY DEF BeginSave
  <2> QED BY <2>1, <2>2, <2>3, BeginCreateInv, BeginUpdateInv, BeginMarkInv,
             CreateWriteInv, MarkUpdateInv, UpdateWriteInv, UpdateVerifyInv,
             AbandonInv
<1> QED BY <1>1, <1>2

\* Without save, the table and the calls are well typed and an update that
\* still matches its revision merges into the content that is stored, whatever
\* the other connections do.
THEOREM UpdatesMergeCurrentContent ==
    ASSUME "save" \notin Operations
    PROVE  Spec => [](TypeOK /\ MergeBaseIsCurrent)
<1>1. Spec => []StoreInv
  BY StoreInit, StoreNext, PTL DEF Spec
<1> QED BY <1>1, PTL DEF StoreInv

\* One step of the adapters is a step of the abstract store or leaves it alone.
LEMMA StepRefines ==
    ASSUME "save" \notin Operations, StoreInv, [Next]_vars
    PROVE  [Versioned!Next]_table
<1>1. CASE UNCHANGED table
  BY <1>1
<1>2. ASSUME NEW c \in Conns, CreateWrite(c), table' # table
      PROVE  Versioned!Next
  <2> DEFINE k == conn[c]
  <2>1. k \in Call
    BY <1>2, CallType DEF StoreInv, CreateWrite, At
  <2>2. /\ table[k.rid] = Missing
        /\ table' = [table EXCEPT ![k.rid] = [rev |-> k.rev, payload |-> k.patch]]
    BY <1>2 DEF CreateWrite, Write
  <2>3. k.rid \in RecordIds /\ [rev |-> k.rev, payload |-> k.patch] \in Row
    BY <2>1 DEF Call, Row
  <2>4. table'[k.rid] = [rev |-> k.rev, payload |-> k.patch]
    BY <2>2, <2>3 DEF StoreInv, TypeOK
  <2>5. Versioned!Create(k.rid)
    BY <2>2, <2>3, <2>4 DEF Versioned!Create, Versioned!Row, Row
  <2> QED BY <2>3, <2>5 DEF Versioned!Next
<1>3. ASSUME NEW c \in Conns, UpdateWrite(c), table' # table
      PROVE  Versioned!Next
  <2> DEFINE k == conn[c]
  <2>1. k \in Call
    BY <1>3, CallType DEF StoreInv, UpdateWrite, At
  <2>2. /\ table[k.rid].rev = k.rev
        /\ table' = [table EXCEPT ![k.rid] = [rev |-> k.rev + 1,
                                              payload |-> k.base \cup k.patch]]
    BY <1>3 DEF UpdateWrite, Write
  <2>3. k.rid \in RecordIds /\ k.patch \in SUBSET Mutations
    BY <2>1 DEF Call
  <2>4. table[k.rid] # Missing /\ k.base = table[k.rid].payload
    BY <1>3, <2>2 DEF StoreInv, MergeBaseIsCurrent, UpdateWrite, At
  <2>5. Versioned!Mutate(k.rid, k.patch)
    BY <2>2, <2>4 DEF Versioned!Mutate
  <2> QED BY <2>3, <2>5 DEF Versioned!Next
<1>4. ASSUME NEW c \in Conns, SaveWrite(c) PROVE FALSE
  BY <1>4 DEF SaveWrite, StoreInv, NoSave
<1>5. CASE Next /\ table' # table
  <2>1. PICK c \in Conns : CreateWrite(c) \/ UpdateWrite(c) \/ SaveWrite(c)
    <3>1. \A c \in Conns :
             /\ \A r \in RecordIds, tag \in Tags, rev \in 0..MaxRev :
                   ~BeginCreate(c, r, rev, tag) /\ ~BeginSave(c, r, rev, tag)
             /\ ~SaveReturn(c) /\ ~UpdateVerify(c) /\ ~Abandon(c)
      BY <1>5 DEF BeginCreate, BeginSave, SaveReturn, UpdateVerify, Abandon
    <3>2. \A c \in Conns :
             /\ \A r \in RecordIds, tag \in Tags, rev \in 0..MaxRev :
                   ~BeginUpdate(c, r, rev, tag)
             /\ \A r \in RecordIds : ~BeginMarkUnsynced(c, r)
             /\ ~MarkUpdate(c)
      BY <1>5 DEF BeginUpdate, BeginMarkUnsynced, MarkUpdate
    <3> QED BY <1>5, <3>1, <3>2 DEF Next
  <2> QED BY <1>2, <1>3, <1>4, <1>5, <2>1
<1> QED BY <1>1, <1>5 DEF vars

\* Any number of adapters on one database implement the abstract versioned
\* store, as long as none of them calls save.
THEOREM AdaptersImplementVersionedRecords ==
    ASSUME "save" \notin Operations
    PROVE  Spec => ImplementsVersionedRecords
<1>1. Init => Versioned!Init
  BY DEF Init, Versioned!Init
<1>2. Spec => []StoreInv
  BY StoreInit, StoreNext, PTL DEF Spec
<1> QED BY <1>1, <1>2, StepRefines, PTL
        DEF Spec, ImplementsVersionedRecords, Versioned!Spec

(***************************************************************************)
(* One connection.  With a single adapter nobody writes between a call's   *)
(* read and its transaction, so that all four operations, save included,   *)
(* do what their callers are told they did.                                *)
(***************************************************************************)

\* There is one connection at most.
Single == \A c, d \in Conns : c = d

\* What is stored was written by some call.
RowsApplied ==
    \A r \in RecordIds : table[r] # Missing =>
        \A t \in table[r].payload : <<r, t>> \in applied

\* A call in progress carries over only what was written before, its check of
\* the revision still holds at its transaction, and behind it its mutation is
\* written.
CallSound(c) ==
    LET k == conn[c] IN
    /\ \A t \in (k.patch \ {k.tag}) \cup k.base : <<k.rid, t>> \in applied
    /\ k.pc = "save_write" => table[k.rid] # Missing /\ table[k.rid].rev < k.rev
    /\ k.pc = "update_write" => table[k.rid] # Missing /\ table[k.rid].rev = k.rev
    /\ k.pc \in {"save_return", "update_verify"} => <<k.rid, k.tag>> \in applied

\* The inductive invariant of a single connection.
SingleInv ==
    /\ TypeOK /\ AckedWereApplied /\ RowsApplied
    /\ \A c \in Conns : conn[c] # Idle => CallSound(c)

\* A call begins or goes on, and nothing is written.
LEMMA SingleEnter ==
    ASSUME Single, SingleInv, NEW c \in Conns, NEW pc \in PCs, NEW r \in RecordIds,
           NEW rev \in Nat, NEW tag \in Mutations,
           NEW patch \in SUBSET Mutations, NEW base \in SUBSET Mutations,
           Enter(c, pc, r, rev, tag, patch, base),
           UNCHANGED <<table, applied, acked, refused>>, used' \subseteq Tags,
           \A t \in (patch \ {tag}) \cup base : <<r, t>> \in applied,
           pc = "save_write" => table[r] # Missing /\ table[r].rev < rev,
           pc = "update_write" => table[r] # Missing /\ table[r].rev = rev,
           pc \notin {"save_return", "update_verify"}
    PROVE  SingleInv'
<1> DEFINE k == [pc |-> pc, rid |-> r, rev |-> rev, tag |-> tag, patch |-> patch, base |-> base]
<1>1. conn' \in [Conns -> Call \cup {Idle}] /\ conn'[c] = k
  BY EnterType DEF SingleInv
<1>2. CallSound(c)'
  BY <1>1 DEF CallSound
<1> HIDE DEF k
<1>3. TypeOK' /\ AckedWereApplied' /\ RowsApplied'
  BY <1>1 DEF SingleInv, TypeOK, AckedWereApplied, RowsApplied
<1>4. \A d \in Conns : CallSound(d)'
  BY <1>1, <1>2 DEF Single
<1> QED BY <1>3, <1>4 DEF SingleInv

\* A call ends; if it returns, its mutation was written.
LEMMA SingleLeave ==
    ASSUME Single, SingleInv, NEW c \in Conns, NEW r \in RecordIds, NEW tag \in Mutations,
           Leave(c), UNCHANGED <<table, applied>>, used' \subseteq Tags,
           refused' \subseteq refused \cup {<<r, tag>>},
           acked' = acked \/ (acked' = acked \cup {<<r, tag>>} /\ <<r, tag>> \in applied)
    PROVE  SingleInv'
<1>1. conn' \in [Conns -> Call \cup {Idle}] /\ conn'[c] = Idle
  BY LeaveType DEF SingleInv
<1>2. TypeOK' /\ AckedWereApplied' /\ RowsApplied'
  BY <1>1 DEF SingleInv, TypeOK, AckedWereApplied, RowsApplied
<1> QED BY <1>1, <1>2 DEF SingleInv, Single

\* A transaction commits a row, and the call returns or goes on behind it.
LEMMA SingleWrite ==
    ASSUME Single, SingleInv, NEW c \in Conns, NEW r \in RecordIds, NEW tag \in Mutations,
           NEW row \in Row, Write(r, tag, row), UNCHANGED <<used, refused>>,
           \A t \in row.payload \ {tag} : <<r, t>> \in applied,
           \/ Leave(c) /\ acked' = acked \cup {<<r, tag>>}
           \/ /\ \E pc \in {"save_return", "update_verify"}, rev \in Nat,
                     patch \in SUBSET Mutations, base \in SUBSET Mutations :
                    /\ Enter(c, pc, r, rev, tag, patch, base)
                    /\ \A t \in (patch \ {tag}) \cup base : <<r, t>> \in applied
              /\ acked' = acked
    PROVE  SingleInv'
<1>1. /\ table' = [table EXCEPT ![r] = row] /\ applied' = applied \cup {<<r, tag>>}
      /\ row # Missing
  BY StoreAssumption DEF Write, Row, Mutations
<1>2. /\ table' \in [RecordIds -> Row \cup {Missing}]
      /\ table'[r] = row /\ \A x \in RecordIds : x # r => table'[x] = table[x]
  BY <1>1 DEF SingleInv, TypeOK
<1>3. RowsApplied'
  BY <1>1, <1>2 DEF SingleInv, RowsApplied
<1>4. CASE Leave(c) /\ acked' = acked \cup {<<r, tag>>}
  <2>1. conn' \in [Conns -> Call \cup {Idle}] /\ conn'[c] = Idle
    BY <1>4, LeaveType DEF SingleInv
  <2>2. TypeOK' /\ AckedWereApplied'
    BY <1>1, <1>2, <1>4, <2>1 DEF SingleInv, TypeOK, AckedWereApplied
  <2> QED BY <1>3, <2>1, <2>2 DEF SingleInv, Single
<1>5. ASSUME NEW pc \in {"save_return", "update_verify"}, NEW rev \in Nat,
             NEW patch \in SUBSET Mutations, NEW base \in SUBSET Mutations,
             Enter(c, pc, r, rev, tag, patch, base), acked' = acked,
             \A t \in (patch \ {tag}) \cup base : <<r, t>> \in applied
      PROVE  SingleInv'
  <2> DEFINE k == [pc |-> pc, rid |-> r, rev |-> rev, tag |-> tag, patch |-> patch,
                   base |-> base]
  <2>1. conn' \in [Conns -> Call \cup {Idle}] /\ conn'[c] = k
    BY <1>5, EnterType DEF SingleInv, PCs
  <2>2. CallSound(c)'
    BY <1>1, <1>5, <2>1 DEF CallSound
  <2> HIDE DEF k
  <2>3. TypeOK' /\ AckedWereApplied'
    BY <1>1, <1>2, <1>5, <2>1 DEF SingleInv, TypeOK, AckedWereApplied
  <2>4. \A d \in Conns : CallSound(d)'
    BY <2>1, <2>2 DEF Single
  <2> QED BY <1>3, <2>3, <2>4 DEF SingleInv
<1> QED BY <1>4, <1>5

\* Calls begin.
LEMMA SingleBegins ==
    ASSUME Single, SingleInv, NEW c \in Conns, NEW r \in RecordIds, NEW tag \in Tags,
           NEW rev \in 0..MaxRev,
           BeginCreate(c, r, rev, tag) \/ BeginSave(c, r, rev, tag) \/ BeginUpdate(c, r, rev, tag)
    PROVE  SingleInv'
<1>1. /\ tag \in Mutations /\ {tag} \in SUBSET Mutations /\ {} \in SUBSET Mutations
      /\ rev \in Nat /\ PCs = {"create_write", "save_write", "save_return", "update_read",
                                "update_write", "update_verify"}
  BY StoreAssumption DEF Mutations, PCs
<1>2. used' \subseteq Tags /\ UNCHANGED <<table, applied>>
  BY DEF BeginCreate, BeginSave, BeginUpdate, Fresh, SingleInv, TypeOK
<1>3. CASE Conflict(c, r, tag)
  BY <1>1, <1>2, <1>3, SingleLeave DEF Conflict
<1>4. CASE Enter(c, "create_write", r, rev, tag, {tag}, {}) /\ UNCHANGED <<acked, refused>>
  BY <1>1, <1>2, <1>4, SingleEnter
<1>5. CASE /\ Enter(c, "save_write", r, rev, tag, {tag}, {}) /\ UNCHANGED <<acked, refused>>
           /\ table[r] # Missing /\ rev > table[r].rev
  <2>1. table[r].rev < rev
    BY <1>1, <1>5, RowType DEF SingleInv
  <2> QED BY <1>1, <1>2, <1>5, <2>1, SingleEnter
<1>6. CASE /\ Enter(c, "update_write", r, rev, tag, {tag}, table[r].payload)
           /\ UNCHANGED <<acked, refused>> /\ table[r] # Missing /\ rev = table[r].rev
  <2>1. table[r].payload \in SUBSET Mutations /\ \A t \in table[r].payload : <<r, t>> \in applied
    BY <1>6, RowType DEF SingleInv, RowsApplied
  <2> QED BY <1>1, <1>2, <1>6, <2>1, SingleEnter
<1> QED BY <1>3, <1>4, <1>5, <1>6 DEF BeginCreate, BeginSave, BeginUpdate, UpdateRead

\* mark_unsynced begins.
LEMMA SingleMark ==
    ASSUME Single, SingleInv, NEW c \in Conns, NEW r \in RecordIds, BeginMarkUnsynced(c, r)
    PROVE  SingleInv'
<1>1. /\ Unsynced \in Mutations /\ {} \in SUBSET Mutations /\ "update_read" \in PCs
      /\ used' \subseteq Tags /\ UNCHANGED <<table, used, applied>>
  BY DEF BeginMarkUnsynced, Mutations, PCs, SingleInv, TypeOK
<1>2. CASE Conflict(c, r, Unsynced)
  BY <1>1, <1>2, SingleLeave DEF Conflict
<1>3. ASSUME table[r] # Missing
      PROVE  /\ table[r].payload \in SUBSET Mutations /\ table[r].rev \in Nat
             /\ \A t \in table[r].payload : <<r, t>> \in applied
  BY <1>3, RowType DEF SingleInv, RowsApplied
<1>4. CASE /\ table[r] # Missing /\ UNCHANGED <<acked, refused>>
           /\ Enter(c, "update_read", r, table[r].rev, Unsynced,
                    table[r].payload \cup {Unsynced}, {})
  <2>1. /\ table[r].payload \cup {Unsynced} \in SUBSET Mutations
        /\ \A t \in ((table[r].payload \cup {Unsynced}) \ {Unsynced}) \cup {} :
              <<r, t>> \in applied
    BY <1>1, <1>3, <1>4
  <2> QED BY <1>1, <1>3, <1>4, <2>1, SingleEnter
<1>5. CASE table[r] # Missing /\ Unsynced \in table[r].payload /\ Return(c, r, Unsynced)
  BY <1>1, <1>3, <1>5, SingleLeave DEF Return
<1> QED BY <1>2, <1>4, <1>5 DEF BeginMarkUnsynced

\* Calls go on and end.
LEMMA SingleGoesOn ==
    ASSUME Single, SingleInv, NEW c \in Conns,
           \/ CreateWrite(c) \/ SaveWrite(c) \/ SaveReturn(c)
           \/ MarkUpdate(c) \/ UpdateWrite(c) \/ UpdateVerify(c) \/ Abandon(c)
    PROVE  SingleInv'
<1> DEFINE k == conn[c]
<1>1. k \in Call /\ k # Idle /\ CallSound(c)
  <2>1. conn[c].pc # "idle"
    BY DEF CreateWrite, SaveWrite, SaveReturn, MarkUpdate, UpdateWrite, UpdateVerify, Abandon, At
  <2> QED BY <2>1, CallType DEF SingleInv, Idle
<1> HIDE DEF k
<1>2. /\ k.rid \in RecordIds /\ k.rev \in Nat /\ k.tag \in Mutations
      /\ k.patch \in SUBSET Mutations /\ k.base \in SUBSET Mutations
      /\ {} \in SUBSET Mutations /\ used \subseteq Tags
      /\ k.base \cup k.patch \in SUBSET Mutations
  BY <1>1 DEF Call, SingleInv, TypeOK
<1>3. /\ \A t \in (k.patch \ {k.tag}) \cup k.base : <<k.rid, t>> \in applied
      /\ \A t \in (k.patch \ {k.tag}) \cup {} : <<k.rid, t>> \in applied
  BY <1>1 DEF CallSound, k
<1>4. CASE CreateWrite(c)
  <2>1. CASE Conflict(c, k.rid, k.tag) /\ UNCHANGED <<table, applied, used>>
    BY <1>2, <2>1, SingleLeave DEF Conflict
  <2>2. CASE /\ Write(k.rid, k.tag, [rev |-> k.rev, payload |-> k.patch])
             /\ Return(c, k.rid, k.tag) /\ UNCHANGED used
    <3> DEFINE row == [rev |-> k.rev, payload |-> k.patch]
    <3>1. row \in Row /\ row.payload = k.patch
      BY <1>2 DEF Row
    <3>2. Write(k.rid, k.tag, row) /\ Leave(c) /\ acked' = acked \cup {<<k.rid, k.tag>>}
          /\ UNCHANGED <<used, refused>>
      BY <2>2 DEF Return
    <3> HIDE DEF row
    <3> QED BY <1>2, <1>3, <3>1, <3>2, SingleWrite
  <2> QED BY <1>4, <2>1, <2>2 DEF CreateWrite, k
<1>5. CASE SaveWrite(c)
  <2> DEFINE row == [rev |-> k.rev, payload |-> k.patch]
  <2>1. row \in Row /\ row.payload = k.patch
    BY <1>2 DEF Row
  <2>2. /\ Write(k.rid, k.tag, row) /\ UNCHANGED <<used, acked, refused>>
        /\ Enter(c, "save_return", k.rid, k.rev, k.tag, k.patch, {})
    BY <1>5 DEF SaveWrite, k
  <2> HIDE DEF row
  <2> QED BY <1>2, <1>3, <2>1, <2>2, SingleWrite
<1>6. CASE SaveReturn(c)
  <2>1. <<k.rid, k.tag>> \in applied
    BY <1>1, <1>6 DEF CallSound, SaveReturn, At, k
  <2>2. Return(c, k.rid, k.tag) /\ UNCHANGED <<table, used, applied>>
    BY <1>6 DEF SaveReturn, k
  <2> QED BY <1>2, <2>1, <2>2, SingleLeave DEF Return
<1>7. CASE MarkUpdate(c)
  <2>1. UpdateRead(c, k.rid, k.rev, k.tag, k.patch) /\ UNCHANGED <<table, used, applied>>
    BY <1>7 DEF MarkUpdate, k
  <2>2. CASE Conflict(c, k.rid, k.tag)
    BY <1>2, <2>1, <2>2, SingleLeave DEF Conflict
  <2>3. CASE /\ table[k.rid] # Missing /\ k.rev = table[k.rid].rev
             /\ Enter(c, "update_write", k.rid, k.rev, k.tag, k.patch, table[k.rid].payload)
             /\ UNCHANGED <<acked, refused>>
    <3>1. /\ table[k.rid].payload \in SUBSET Mutations
          /\ \A t \in table[k.rid].payload : <<k.rid, t>> \in applied
      BY <1>2, <2>3, RowType DEF SingleInv, RowsApplied
    <3>2. \A t \in (k.patch \ {k.tag}) \cup table[k.rid].payload : <<k.rid, t>> \in applied
      BY <1>3, <3>1
    <3>3. "update_write" \in PCs
      BY DEF PCs
    <3> QED BY <1>2, <2>1, <2>3, <3>1, <3>2, <3>3, SingleEnter
  <2> QED BY <2>1, <2>2, <2>3 DEF UpdateRead
<1>8. CASE UpdateWrite(c)
  <2> DEFINE row == [rev |-> k.rev + 1, payload |-> k.base \cup k.patch]
  <2>1. row \in Row /\ row.payload = k.base \cup k.patch
    BY <1>2 DEF Row
  <2>2. table[k.rid].rev = k.rev
    BY <1>1, <1>8 DEF CallSound, UpdateWrite, At, k
  <2>3. /\ Write(k.rid, k.tag, row) /\ UNCHANGED <<used, acked, refused>>
        /\ Enter(c, "update_verify", k.rid, k.rev, k.tag, k.patch, k.base)
    BY <1>8, <2>2 DEF UpdateWrite, k
  <2> HIDE DEF row
  <2> QED BY <1>2, <1>3, <2>1, <2>3, SingleWrite
<1>9. CASE UpdateVerify(c)
  <2>1. <<k.rid, k.tag>> \in applied
    BY <1>1, <1>9 DEF CallSound, UpdateVerify, At, k
  <2>2. /\ Return(c, k.rid, k.tag) \/ Conflict(c, k.rid, k.tag)
        /\ UNCHANGED <<table, used, applied>>
    BY <1>9 DEF UpdateVerify, k
  <2> QED BY <1>2, <2>1, <2>2, SingleLeave DEF Return, Conflict
<1>10. CASE Abandon(c)
  BY <1>2, <1>10, SingleLeave DEF Abandon
<1> QED BY <1>4, <1>5, <1>6, <1>7, <1>8, <1>9, <1>10

\* The invariant of a single connection holds throughout.
LEMMA SingleInvariant == ASSUME Single PROVE Spec => []SingleInv
<1>1. Init => SingleInv
  BY DEF Init, SingleInv, TypeOK, AckedWereApplied, RowsApplied, Idle
<1>2. SingleInv /\ [Next]_vars => SingleInv'
  <2> SUFFICES ASSUME SingleInv, [Next]_vars PROVE SingleInv'
    OBVIOUS
  <2>1. CASE UNCHANGED vars
    BY <2>1 DEF vars, SingleInv, TypeOK, AckedWereApplied, RowsApplied, CallSound
  <2>2. CASE Next
    BY <2>2, SingleBegins, SingleMark, SingleGoesOn DEF Next
  <2> QED BY <2>1, <2>2
<1> QED BY <1>1, <1>2, PTL DEF Spec

\* With one connection, every call of create, save, update and mark_unsynced that
\* returned a snapshot has written its mutation.
THEOREM SingleAdapterIsHonest ==
    ASSUME Single
    PROVE  Spec => []AckedWereApplied
<1>1. SingleInv => AckedWereApplied
  BY DEF SingleInv
<1> QED BY <1>1, SingleInvariant, PTL

\* With one connection, no operation takes a record to an older revision: save
\* compares before it writes, and nobody writes in between.
THEOREM SingleAdapterIsMonotonic ==
    ASSUME Single
    PROVE  Spec => MonotonicRevisions
<1> DEFINE Grows == \A r \in RecordIds : table[r] # Missing =>
                       table'[r] # Missing /\ table'[r].rev >= table[r].rev
<1>1. ASSUME SingleInv, [Next]_vars PROVE [Grows]_vars
  <2>1. ASSUME table' = table PROVE Grows
    BY <1>1, <2>1, RowType DEF SingleInv
  <2>2. ASSUME NEW r \in RecordIds, NEW row \in Row, table' = [table EXCEPT ![r] = row],
               table[r] = Missing \/ row.rev >= table[r].rev
        PROVE  Grows
    <3>1. row # Missing
      BY StoreAssumption DEF Row, Mutations
    <3>2. table'[r] = row /\ \A x \in RecordIds : x # r => table'[x] = table[x]
      BY <1>1, <2>2 DEF SingleInv, TypeOK
    <3> QED BY <1>1, <2>2, <3>1, <3>2, RowType DEF SingleInv
  <2> HIDE DEF Grows
  <2>3. ASSUME NEW c \in Conns, CreateWrite(c) \/ SaveWrite(c) \/ UpdateWrite(c)
        PROVE  Grows
    <3> DEFINE k == conn[c]
    <3>1. k \in Call /\ CallSound(c)
      <4>1. conn[c].pc # "idle"
        BY <2>3 DEF CreateWrite, SaveWrite, UpdateWrite, At
      <4> QED BY <1>1, <4>1, CallType DEF SingleInv, Idle
    <3> HIDE DEF k
    <3>2. k.rid \in RecordIds /\ k.rev \in Nat /\ k.base \cup k.patch \in SUBSET Mutations
      BY <3>1 DEF Call
    <3>3. CASE CreateWrite(c) /\ table[k.rid] = Missing
      <4> DEFINE row == [rev |-> k.rev, payload |-> k.patch]
      <4>1. row \in Row /\ table' = [table EXCEPT ![k.rid] = row]
        BY <3>2, <3>3 DEF Row, CreateWrite, Write, k
      <4> HIDE DEF row
      <4> QED BY <2>2, <3>2, <3>3, <4>1
    <3>4. CASE CreateWrite(c) /\ table[k.rid] # Missing
      <4>1. table' = table
        BY <3>4 DEF CreateWrite, k
      <4> QED BY <2>1, <4>1
    <3>5. CASE SaveWrite(c)
      <4> DEFINE row == [rev |-> k.rev, payload |-> k.patch]
      <4>1. row \in Row /\ row.rev = k.rev
        BY <3>2 DEF Row
      <4>2. table' = [table EXCEPT ![k.rid] = row]
        BY <3>5 DEF SaveWrite, Write, k
      <4>3. table[k.rid] # Missing /\ table[k.rid].rev < k.rev
        BY <3>1, <3>5 DEF CallSound, SaveWrite, At, k
      <4>4. table[k.rid].rev \in Nat
        BY <1>1, <3>2, <4>3, RowType DEF SingleInv
      <4> HIDE DEF row
      <4>5. row.rev >= table[k.rid].rev
        BY <3>2, <4>1, <4>3, <4>4
      <4> QED BY <2>2, <3>2, <4>1, <4>2, <4>5
    <3>6. CASE UpdateWrite(c)
      <4> DEFINE row == [rev |-> k.rev + 1, payload |-> k.base \cup k.patch]
      <4>1. row \in Row /\ row.rev = k.rev + 1
        BY <3>2 DEF Row
      <4>2. table[k.rid] # Missing /\ table[k.rid].rev = k.rev
        BY <3>1, <3>6 DEF CallSound, UpdateWrite, At, k
      <4>3. table' = [table EXCEPT ![k.rid] = row]
        BY <3>6, <4>2 DEF UpdateWrite, Write, k
      <4> HIDE DEF row
      <4>4. row.rev >= table[k.rid].rev
        BY <3>2, <4>1, <4>2
      <4> QED BY <2>2, <3>2, <4>1, <4>3, <4>4
    <3> QED BY <2>3, <3>3, <3>4, <3>5, <3>6
  <2>4. CASE Next
    <3>1. PICK c \in Conns :
              \/ \E r \in RecordIds, tag \in Tags :
                    \E rev \in 0..MaxRev :
                       \/ BeginCreate(c, r, rev, tag) \/ BeginSave(c, r, rev, tag)
                       \/ BeginUpdate(c, r, rev, tag)
              \/ \E r \in RecordIds : BeginMarkUnsynced(c, r)
              \/ SaveReturn(c) \/ MarkUpdate(c) \/ UpdateVerify(c) \/ Abandon(c)
              \/ CreateWrite(c) \/ SaveWrite(c) \/ UpdateWrite(c)
      BY <2>4 DEF Next
    <3>2. \A r, tag, rev : BeginCreate(c, r, rev, tag) \/ BeginSave(c, r, rev, tag)
                             \/ BeginUpdate(c, r, rev, tag) => table' = table
      BY DEF BeginCreate, BeginSave, BeginUpdate
    <3>3. \A r : BeginMarkUnsynced(c, r) => table' = table
      BY DEF BeginMarkUnsynced
    <3>4. SaveReturn(c) \/ MarkUpdate(c) \/ UpdateVerify(c) \/ Abandon(c) => table' = table
      BY DEF SaveReturn, MarkUpdate, UpdateVerify, Abandon
    <3> QED BY <2>1, <2>3, <3>1, <3>2, <3>3, <3>4
  <2> QED BY <1>1, <2>4, <2>1 DEF vars
<1> QED BY <1>1, SingleInvariant, PTL DEF Spec, MonotonicRevisions
=============================================================================
