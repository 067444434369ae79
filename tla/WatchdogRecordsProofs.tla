------------------------- MODULE WatchdogRecordsProofs -------------------------
(* Proofs about WatchdogRecords for every set of records and files and any
   number of faults. *)
EXTENDS WatchdogRecords, TLAPS

(***************************************************************************)
(* The inductive invariant.                                                *)
(***************************************************************************)

\* A record with the flags of its files.
RecordType ==
    [files : SUBSET Files, done : SUBSET Files, force : SUBSET Files, inDb : BOOLEAN]

\* The records in memory, or in the ledger.
Books == [Records -> RecordType \cup {None}]

\* The item in work.
ItemType ==
    [rec : Records \cup {None}, wrote : SUBSET Files, final : SUBSET Files,
     force : SUBSET Files]

\* The types of the records and of the item, which the flags below speak about.
TypeInv ==
    /\ ver \in [Files -> Nat] /\ last \in [Files -> Nat] /\ server \in [Files -> Nat]
    /\ mem \in Books /\ IsLedger(mem)
    /\ ledger # None => ledger \in Books /\ IsLedger(ledger)
    /\ item \in ItemType
    /\ at \in {"down", "idle", "register", "forced", "startup", "item"}
    /\ doubt \subseteq Files /\ unsaved \subseteq Files

\* What has been written for the present item is still to be registered.
ItemInv ==
    /\ at = "register" => /\ item.wrote \subseteq item.final \cup item.force
                          /\ item.rec \in Records /\ mem[item.rec] # None
                          /\ item.final \cup item.force \subseteq FilesOf[item.rec]
    /\ at = "forced" => /\ item.wrote \subseteq item.force
                        /\ item.rec \in Records /\ mem[item.rec] # None
                        /\ item.force \subseteq FilesOf[item.rec]
    /\ at \notin {"register", "forced"} => item.wrote = {}

\* A sync pass: records ahead of it exist, behind it nothing is pending, and of
\* the record at hand only what it has yet to try or has found missing.
PassInv ==
    /\ todo \subseteq {r \in Records : mem[r] # None}
    /\ cur = None => left = {}
    /\ cur # None => /\ InPass /\ cur \in Records /\ mem[cur] # None
                     /\ left \subseteq Pending(mem[cur])
                     /\ Pending(mem[cur]) \subseteq left \cup missing
                     /\ missing \subseteq mem[cur].files
    /\ InPass => \A r \in Ipat \ todo : r # cur /\ mem[r] # None => Pending(mem[r]) = {}

\* The entry rec tells the truth about a file with version v in the record
\* folder and version s in Kadi: uploaded means current, unless the file is one
\* of those just written; pending and stored means forced; not tracked means
\* not stored.
Truth(rec, f, wrote, v, s) ==
    /\ rec # None /\ f \in rec.done \ wrote /\ v > 0 => s = v
    /\ rec # None /\ f \in Pending(rec) /\ s > 0 => f \in rec.force
    /\ rec = None \/ f \notin rec.files => s = 0

\* The books m tell the truth about every file outside X.
Truthful(m, X, wrote, v, s) ==
    \A r \in Records : \A f \in FilesOf[r] \ X : Truth(m[r], f, wrote, v[f], s[f])

\* The books in memory are true but for the files in doubt, the ledger is true
\* but for these and the entries not saved.
TruthInv ==
    /\ at # "down" => Truthful(mem, doubt, item.wrote, ver, server)
    /\ ledger # None => Truthful(ledger, doubt \cup unsaved, item.wrote, ver, server)

\* The inductive invariant.
RecordsInv == TypeInv /\ ItemInv /\ PassInv /\ TruthInv

\* A program that is not running keeps nothing in memory.
DownInv == at = "down" => \A r \in Records : mem[r] = None

(***************************************************************************)
(* The operations on an entry and on the books.                            *)
(***************************************************************************)

\* What LocalRecord keeps true of an entry of record r.
EntryOK(rec, r) ==
    /\ rec \in RecordType /\ rec.files \subseteq FilesOf[r]
    /\ rec.done \cup rec.force \subseteq rec.files /\ rec.done \cap rec.force = {}

\* A record's files are files.
LEMMA FilesOfRecord == \A r \in Records : FilesOf[r] \subseteq Files
BY DEF Files

\* An entry of the books that is there is in order.
LEMMA EntryOfBooks ==
    ASSUME NEW m \in Books, IsLedger(m), NEW r \in Records, m[r] # None
    PROVE  EntryOK(m[r], r)
BY DEF Books, IsLedger, EntryOK

\* Replacing one entry by one in order keeps the books in order.
LEMMA UpdateBooks ==
    ASSUME NEW m, IsLedger(m), NEW r \in Records, NEW n, EntryOK(n[r], r),
           \A q \in Records : q # r => n[q] = m[q]
    PROVE  IsLedger(n) /\ n[r] # None
BY RecordsAssumption DEF IsLedger, EntryOK, RecordType

\* add_item on an entry: the files become pending, with force where they had been
\* uploaded.
LEMMA RegisterEntry ==
    ASSUME NEW r \in Records, NEW rec, EntryOK(rec, r), NEW S \in SUBSET FilesOf[r]
    PROVE  /\ EntryOK(Register(rec, S), r)
           /\ Register(rec, S).files = rec.files \cup S
           /\ Register(rec, S).done = rec.done \ S
           /\ Register(rec, S).force = (rec.force \ (S \ rec.files)) \cup (S \cap rec.done)
<1>1. /\ Register(rec, S) \in RecordType
      /\ Register(rec, S).files = rec.files \cup S
      /\ Register(rec, S).done = rec.done \ S
      /\ Register(rec, S).force = (rec.force \ (S \ rec.files)) \cup (S \cap rec.done)
  BY FilesOfRecord DEF Register, EntryOK, RecordType
<1> QED BY <1>1 DEF EntryOK

\* mark_file_as_unsynced on an entry.
LEMMA MarkUnsyncedEntry ==
    ASSUME NEW r \in Records, NEW rec, EntryOK(rec, r), NEW S \in SUBSET FilesOf[r]
    PROVE  /\ EntryOK(MarkUnsynced(rec, S), r)
           /\ MarkUnsynced(rec, S).files = rec.files
           /\ MarkUnsynced(rec, S).done = rec.done \ S
           /\ MarkUnsynced(rec, S).force = rec.force \cup (S \cap rec.files)
<1>1. /\ MarkUnsynced(rec, S) \in RecordType
      /\ MarkUnsynced(rec, S).files = rec.files
      /\ MarkUnsynced(rec, S).done = rec.done \ S
      /\ MarkUnsynced(rec, S).force = rec.force \cup (S \cap rec.files)
  BY FilesOfRecord DEF MarkUnsynced, EntryOK, RecordType
<1> QED BY <1>1 DEF EntryOK

\* An entry after a successful upload of one of its files.
LEMMA MarkUploadedEntry ==
    ASSUME NEW r \in Records, NEW rec, EntryOK(rec, r), NEW f \in rec.files
    PROVE  /\ EntryOK(MarkUploaded(rec, f), r)
           /\ MarkUploaded(rec, f).files = rec.files
           /\ MarkUploaded(rec, f).done = rec.done \cup {f}
           /\ MarkUploaded(rec, f).force = rec.force \ {f}
<1>1. /\ MarkUploaded(rec, f) \in RecordType
      /\ MarkUploaded(rec, f).files = rec.files
      /\ MarkUploaded(rec, f).done = rec.done \cup {f}
      /\ MarkUploaded(rec, f).force = rec.force \ {f}
  BY DEF MarkUploaded, EntryOK, RecordType
<1> QED BY <1>1 DEF EntryOK

\* An entry at the end of its upload, without the files that were missing.
Synced(rec, S) == [DropMissing(rec, S) EXCEPT !.inDb = TRUE]

\* Such an entry is well formed and has lost exactly the missing files.
LEMMA SyncedEntry ==
    ASSUME NEW r \in Records, NEW rec, EntryOK(rec, r), NEW S
    PROVE  /\ EntryOK(Synced(rec, S), r)
           /\ Synced(rec, S).files = rec.files \ S
           /\ Synced(rec, S).done = rec.done \ S
           /\ Synced(rec, S).force = rec.force \ S
<1>1. /\ Synced(rec, S) \in RecordType
      /\ Synced(rec, S).files = rec.files \ S
      /\ Synced(rec, S).done = rec.done \ S
      /\ Synced(rec, S).force = rec.force \ S
  BY DEF Synced, DropMissing, EntryOK, RecordType
<1> QED BY <1>1 DEF EntryOK

\* An entry that get_or_create_record makes.
LEMMA NewEntry ==
    ASSUME NEW r \in Records
    PROVE  EntryOK(NewRecord, r) /\ NewRecord.files = {}
BY DEF NewRecord, EntryOK, RecordType

\* get_or_create_record: the entry is there afterwards, the others are as before.
LEMMA GetOrCreateBooks ==
    ASSUME TypeInv, NEW r \in Records
    PROVE  /\ GetOrCreate(r) \in Books /\ IsLedger(GetOrCreate(r)) /\ GetOrCreate(r)[r] # None
           /\ \A q \in Records : mem[q] # None => GetOrCreate(r)[q] = mem[q]
           /\ \A q \in Records : mem[q] = None =>
                GetOrCreate(r)[q] = None \/ GetOrCreate(r)[q].files = {}
<1>1. CASE mem[r] = None
  <2>1. GetOrCreate(r) = [mem EXCEPT ![r] = NewRecord]
    BY <1>1 DEF GetOrCreate
  <2>2. mem \in Books /\ IsLedger(mem) /\ EntryOK(NewRecord, r) /\ NewRecord.files = {}
    BY NewEntry DEF TypeInv
  <2>3. /\ GetOrCreate(r) \in Books /\ GetOrCreate(r)[r] = NewRecord
        /\ \A q \in Records : q # r => GetOrCreate(r)[q] = mem[q]
    BY <2>1, <2>2 DEF Books, EntryOK
  <2>4. IsLedger(GetOrCreate(r)) /\ GetOrCreate(r)[r] # None
    BY <2>2, <2>3, UpdateBooks
  <2> QED BY <1>1, <2>2, <2>3, <2>4
<1>2. CASE mem[r] # None
  BY <1>2 DEF GetOrCreate, TypeInv
<1> QED BY <1>1, <1>2

\* The empty books.
LEMMA EmptyBooks ==
    LET m == [r \in Records |-> None] IN m \in Books /\ IsLedger(m)
BY DEF Books, IsLedger

\* Books stay true when files are taken out of consideration, deleted, or written
\* and held against the item that wrote them.
LEMMA TruthMonotone ==
    ASSUME NEW m, NEW X, NEW X2, NEW w, NEW w2, NEW v, NEW v2, NEW s, NEW s2,
           Truthful(m, X, w, v, s), X \subseteq X2,
           \A f \in Files \ X2 :
              /\ s2[f] = s[f]
              /\ v2[f] = 0 \/ f \in w2 \/ (v2[f] = v[f] /\ f \notin w)
    PROVE  Truthful(m, X2, w2, v2, s2)
<1>1. ASSUME NEW r \in Records, NEW f \in FilesOf[r] \ X2
      PROVE  Truth(m[r], f, w2, v2[f], s2[f])
  <2>1. Truth(m[r], f, w, v[f], s[f])
    BY <1>1 DEF Truthful
  <2>2. f \in Files \ X2
    BY <1>1, FilesOfRecord
  <2> QED BY <2>1, <2>2 DEF Truth
<1> QED BY <1>1 DEF Truthful

\* Books stay true when one entry is replaced by a true one.
LEMMA TruthUpdate ==
    ASSUME NEW m, NEW n, NEW r \in Records, NEW X, NEW w, NEW v, NEW s,
           \A q \in Records : q # r => n[q] = m[q],
           \A q \in Records : q # r =>
              \A f \in FilesOf[q] \ X : Truth(m[q], f, w, v[f], s[f]),
           \A f \in FilesOf[r] \ X : Truth(n[r], f, w, v[f], s[f])
    PROVE  Truthful(n, X, w, v, s)
BY DEF Truthful

\* Memory and ledger after a save, successful or not, of books that are true.
LEMMA SavedTruth ==
    ASSUME NEW m \in Books, NEW S \in SUBSET Files, TypeInv, Save(m, S),
           IsLedger(m),
           NEW X, NEW w, NEW v, NEW s, Truthful(m, X, w, v, s),
           ledger # None => Truthful(ledger, X \cup (unsaved \cup S), w, v, s)
    PROVE  /\ ledger' # None => Truthful(ledger', X \cup unsaved', w, v, s)
           /\ ledger' # None => ledger' \in Books /\ IsLedger(ledger')
           /\ unsaved' \subseteq Files
<1>1. CASE ledger' = m /\ unsaved' = {}
  BY <1>1
<1>2. CASE ledger' \in {ledger, None} /\ unsaved' = unsaved \cup S
  BY <1>2 DEF TypeInv
<1> QED BY <1>1, <1>2 DEF Save

\* The start satisfies the invariant.
LEMMA RecordsInitInv == Init => RecordsInv
<1> SUFFICES ASSUME Init PROVE RecordsInv
  OBVIOUS
<1>1. TypeInv
  BY EmptyBooks DEF Init, TypeInv, NoItem, ItemType
<1>2. ItemInv /\ PassInv
  BY RecordsAssumption DEF Init, ItemInv, PassInv, NoItem, InPass
<1>3. TruthInv
  <2>1. \A r \in Records : \A f \in FilesOf[r] : ledger[r] = None /\ server[f] = 0
    BY FilesOfRecord DEF Init
  <2> QED BY <2>1 DEF Init, TruthInv, Truthful, Truth
<1> QED BY <1>1, <1>2, <1>3 DEF RecordsInv

(***************************************************************************)
(* Preservation, one lemma per kind of step.                               *)
(***************************************************************************)

\* An exception that leaves a pass, with Kadi changed at most in doubtful files.
LEMMA RaiseStep ==
    ASSUME RecordsInv, InPass, RaiseInPass, UNCHANGED <<ver, last, item, ledger, unsaved>>,
           doubt \subseteq doubt', doubt' \subseteq Files, server' \in [Files -> Nat],
           \A f \in Files \ doubt' : server'[f] = server[f]
    PROVE  RecordsInv'
<1> USE DEF RecordsInv
<1>1. TypeInv'
  BY EmptyBooks DEF TypeInv, RaiseInPass, InPass
<1>2. ItemInv'
  BY DEF ItemInv, RaiseInPass, InPass
<1>3. PassInv'
  BY DEF RaiseInPass, PassInv, InPass
<1>4. item.wrote = {}
  BY DEF ItemInv, InPass
<1>5. ASSUME at' # "down" PROVE Truthful(mem', doubt', item'.wrote, ver', server')
  <2>1. mem' = mem /\ Truthful(mem, doubt, item.wrote, ver, server)
    BY <1>5 DEF RaiseInPass, InPass, TruthInv
  <2> QED BY <1>4, <2>1, TruthMonotone
<1>6. ASSUME ledger' # None
      PROVE  Truthful(ledger', doubt' \cup unsaved', item'.wrote, ver', server')
  <2>1. Truthful(ledger, doubt \cup unsaved, item.wrote, ver, server)
    BY <1>6 DEF TruthInv
  <2> QED BY <1>4, <2>1, TruthMonotone
<1> QED BY <1>1, <1>2, <1>3, <1>5, <1>6 DEF TruthInv

\* OpenFails and UploadFails, and a refusal the client raises.
LEMMA FailingUpload ==
    ASSUME RecordsInv,
           OpenFails \/ \E f \in Files : UploadFails(f) \/ (UploadRefused(f) /\ RaiseInPass)
    PROVE  RecordsInv'
<1>0. TypeInv /\ PassInv
  BY DEF RecordsInv
<1>1. CASE OpenFails
  BY <1>0, <1>1, RaiseStep DEF OpenFails, itemVars, fileVars, TypeInv
<1>2. ASSUME NEW f \in Files, UploadFails(f) PROVE RecordsInv'
  <2>1. InPass
    BY <1>0, <1>2 DEF UploadFails, PassInv
  <2>2. /\ doubt \subseteq doubt' /\ doubt' \subseteq Files /\ server' \in [Files -> Nat]
        /\ \A g \in Files \ doubt' : server'[g] = server[g]
    BY <1>0, <1>2 DEF UploadFails, TypeInv
  <2> QED BY <1>2, <2>1, <2>2, RaiseStep DEF UploadFails, itemVars, fileVars
<1>3. ASSUME NEW f \in Files, UploadRefused(f), RaiseInPass PROVE RecordsInv'
  <2>1. InPass
    BY <1>0, <1>3 DEF UploadRefused, PassInv
  <2>2. unsaved' = unsaved
    <3>1. CASE Took(f) /\ UNCHANGED <<at, todo, cur, missing>>
      BY <1>0, <1>3, <3>1 DEF UploadRefused, RaiseInPass, PassInv
    <3> QED BY <1>3, <3>1 DEF UploadRefused
  <2> QED BY <1>0, <1>3, <2>1, <2>2, RaiseStep DEF UploadRefused, itemVars, fileVars, TypeInv
<1> QED BY <1>1, <1>2, <1>3

\* A file of the record at hand is taken as uploaded: it is in Kadi as it is in
\* the folder, or the program had lost track of it.
LEMMA TookStep ==
    ASSUME RecordsInv, NEW f \in left, Took(f), ver[f] > 0,
           UNCHANGED <<itemVars, ledger, at, todo, cur, missing, doubt, faults>>,
           \/ server' = [server EXCEPT ![f] = ver[f]]
           \/ server' = server /\ f \in doubt
    PROVE  RecordsInv'
<1> USE DEF RecordsInv
<1>0. /\ cur \in Records /\ mem[cur] # None /\ InPass /\ item.wrote = {}
      /\ f \in Pending(mem[cur]) /\ mem \in Books /\ IsLedger(mem)
  BY DEF PassInv, ItemInv, InPass, TypeInv
<1>1. EntryOK(mem[cur], cur) /\ f \in mem[cur].files /\ f \in FilesOf[cur] /\ f \in Files
  BY <1>0, EntryOfBooks, FilesOfRecord DEF Pending, EntryOK
<1>2. /\ EntryOK(MarkUploaded(mem[cur], f), cur)
      /\ MarkUploaded(mem[cur], f).files = mem[cur].files
      /\ MarkUploaded(mem[cur], f).done = mem[cur].done \cup {f}
      /\ MarkUploaded(mem[cur], f).force = mem[cur].force \ {f}
  BY <1>0, <1>1, MarkUploadedEntry
<1>3. mem' = [mem EXCEPT ![cur] = MarkUploaded(mem[cur], f)]
  BY <1>0 DEF Took, Books
<1>4. /\ mem' \in Books /\ IsLedger(mem') /\ mem'[cur] = MarkUploaded(mem[cur], f)
      /\ mem'[cur] # None /\ \A q \in Records : q # cur => mem'[q] = mem[q]
  <2>1. /\ mem' \in Books /\ mem'[cur] = MarkUploaded(mem[cur], f)
        /\ \A q \in Records : q # cur => mem'[q] = mem[q]
    BY <1>0, <1>2, <1>3 DEF Books, EntryOK
  <2> QED BY <1>0, <1>2, <2>1, UpdateBooks
<1>5. TypeInv'
  BY <1>1, <1>4 DEF TypeInv, Took, itemVars, fileVars
<1>6. ItemInv'
  BY <1>0 DEF ItemInv, InPass, itemVars, fileVars
<1>7. PassInv'
  <2>1. left' = left \ {f} /\ UNCHANGED <<at, todo, cur, missing>>
    BY DEF Took
  <2>2. Pending(mem'[cur]) = Pending(mem[cur]) \ {f}
    BY <1>2, <1>4 DEF Pending
  <2>3. \A q \in Records : mem'[q] # None <=> mem[q] # None
    BY <1>0, <1>4
  <2> QED BY <1>0, <1>2, <1>4, <2>1, <2>2, <2>3, RecordsAssumption DEF PassInv, InPass
<1>8. TruthInv'
  <2>1. at # "down" /\ Truthful(mem, doubt, item.wrote, ver, server)
    BY <1>0 DEF TruthInv, InPass
  <2>2. \A g \in Files : g # f => server'[g] = server[g]
    BY DEF TypeInv
  <2>3. \A q \in Records : q # cur => \A g \in FilesOf[q] : g # f /\ g \in Files
    BY <1>0, <1>1, RecordsAssumption, FilesOfRecord
  <2>4. ASSUME NEW g \in FilesOf[cur] \ doubt
        PROVE Truth(mem'[cur], g, item.wrote, ver[g], server'[g])
    <3>1. CASE g = f
      BY <1>1, <1>2, <1>4, <2>4, <3>1 DEF Truth, Pending, TypeInv
    <3>2. CASE g # f
      <4>1. server'[g] = server[g] /\ Truth(mem[cur], g, item.wrote, ver[g], server[g])
        BY <1>0, <2>1, <2>2, <2>4, <3>2, FilesOfRecord DEF Truthful
      <4> QED BY <1>0, <1>2, <1>4, <3>2, <4>1 DEF Truth, Pending
    <3> QED BY <3>1, <3>2
  <2>5. Truthful(mem', doubt, item.wrote, ver, server')
    <3>1. ASSUME NEW q \in Records, q # cur, NEW g \in FilesOf[q] \ doubt
          PROVE Truth(mem[q], g, item.wrote, ver[g], server'[g])
      BY <2>1, <2>2, <2>3, <3>1 DEF Truthful
    <3> QED BY <1>0, <1>4, <2>4, <3>1, TruthUpdate
  <2>6. ASSUME ledger # None
        PROVE  Truthful(ledger, doubt \cup unsaved', item.wrote, ver, server')
    <3>1. Truthful(ledger, doubt \cup unsaved, item.wrote, ver, server)
      BY <2>6 DEF TruthInv
    <3> QED BY <1>0, <2>2, <3>1, TruthMonotone DEF Took
  <2> QED BY <2>5, <2>6 DEF TruthInv, itemVars, fileVars
<1> QED BY <1>5, <1>6, <1>7, <1>8

\* Registering files, with or without marking them unsynced, leaves true books
\* and settles what the item wrote to them.
LEMMA RegisterTruth ==
    ASSUME TypeInv, NEW r \in Records, mem[r] # None, NEW S \in SUBSET FilesOf[r],
           NEW w \in SUBSET FilesOf[r], NEW w2, \A f \in w \ w2 : f \in S \/ ver[f] = 0,
           Truthful(mem, doubt, w, ver, server),
           NEW n, \A q \in Records : q # r => n[q] = mem[q],
           n[r] \in {Register(mem[r], S), MarkUnsynced(Register(mem[r], S), S)}
    PROVE  Truthful(n, doubt, w2, ver, server) /\ EntryOK(n[r], r)
<1>0. EntryOK(mem[r], r)
  BY EntryOfBooks DEF TypeInv
<1> DEFINE reg == Register(mem[r], S)
<1>1. /\ EntryOK(reg, r) /\ reg.files = mem[r].files \cup S /\ reg.done = mem[r].done \ S
      /\ reg.force = (mem[r].force \ (S \ mem[r].files)) \cup (S \cap mem[r].done)
  BY <1>0, RegisterEntry
<1> HIDE DEF reg
<1>2. /\ EntryOK(MarkUnsynced(reg, S), r) /\ MarkUnsynced(reg, S).files = reg.files
      /\ MarkUnsynced(reg, S).done = reg.done \ S
      /\ MarkUnsynced(reg, S).force = reg.force \cup (S \cap reg.files)
  BY <1>1, MarkUnsyncedEntry
<1>3. n[r] = reg \/ n[r] = MarkUnsynced(reg, S)
  BY DEF reg
<1>4. /\ EntryOK(n[r], r) /\ n[r].files = mem[r].files \cup S /\ n[r].done = mem[r].done \ S
      /\ (mem[r].force \ (S \ mem[r].files)) \cup (S \cap mem[r].done) \subseteq n[r].force
  BY <1>1, <1>2, <1>3
<1>5. ASSUME NEW f \in FilesOf[r] \ doubt PROVE Truth(n[r], f, w2, ver[f], server[f])
  <2>1. Truth(mem[r], f, w, ver[f], server[f])
    BY DEF Truthful
  <2>2. ver[f] \in Nat /\ server[f] \in Nat
    BY FilesOfRecord DEF TypeInv
  <2>3. n[r] # None
    BY <1>4, RecordsAssumption DEF EntryOK, RecordType
  <2> QED BY <1>4, <2>1, <2>2, <2>3 DEF Truth, Pending
<1>6. ASSUME NEW q \in Records, q # r, NEW f \in FilesOf[q] \ doubt
      PROVE  Truth(mem[q], f, w2, ver[f], server[f])
  <2>1. Truth(mem[q], f, w, ver[f], server[f]) /\ f \notin w
    BY <1>6, RecordsAssumption DEF Truthful
  <2> QED BY <2>1 DEF Truth
<1>7. Truthful(n, doubt, w2, ver, server)
  BY <1>5, <1>6, TruthUpdate
<1> QED BY <1>4, <1>7

\* update_record for the final path.
LEMMA FinalStep == ASSUME RecordsInv, RegisterFinal PROVE RecordsInv'
<1> USE DEF RecordsInv
<1> DEFINE r == item.rec
           S == {f \in item.final : ver[f] > 0}
           w == item.wrote
           w2 == item.wrote \ item.final
<1>1. /\ r \in Records /\ mem[r] # None /\ S \subseteq FilesOf[r]
      /\ w \subseteq FilesOf[r] /\ w \subseteq item.final \cup item.force
      /\ item.force \subseteq FilesOf[r]
  BY DEF ItemInv, RegisterFinal
<1>2. /\ mem' = [mem EXCEPT ![r] = Register(mem[r], S)] /\ Save(mem', S)
      /\ item' = [item EXCEPT !.final = {}, !.wrote = @ \ item.final] /\ at' = "forced"
      /\ UNCHANGED <<ver, last, server, syncVars, doubt>>
  BY DEF fileVars, RegisterFinal
<1>3. item' \in ItemType /\ item'.wrote = w2 /\ item'.force = item.force /\ item'.rec = r
  BY <1>2 DEF TypeInv, ItemType
<1>4. S \in SUBSET FilesOf[r] /\ S \in SUBSET Files
  BY <1>1, FilesOfRecord
<1>5. at = "register" /\ Truthful(mem, doubt, w, ver, server)
  BY DEF RegisterFinal, TruthInv
<1>6. \A f \in w \ w2 : f \in S \/ ver[f] = 0
  BY <1>1, <1>4 DEF TypeInv, ItemType
<1>7. EntryOK(Register(mem[r], S), r)
  BY <1>1, <1>4, EntryOfBooks, RegisterEntry DEF TypeInv
<1> HIDE DEF r, S, w, w2
<1>8. /\ mem' \in Books /\ mem'[r] = Register(mem[r], S)
      /\ \A q \in Records : q # r => mem'[q] = mem[q]
  BY <1>1, <1>2, <1>7 DEF Books, EntryOK, TypeInv
<1>9. IsLedger(mem') /\ mem'[r] # None
  BY <1>1, <1>7, <1>8, UpdateBooks DEF TypeInv
<1>10. Truthful(mem', doubt, w2, ver, server)
  BY <1>1, <1>4, <1>5, <1>6, <1>8, RegisterTruth
<1>11. ledger # None => Truthful(ledger, doubt \cup (unsaved \cup S), w2, ver, server)
  <2>1. ASSUME ledger # None
        PROVE  Truthful(ledger, doubt \cup (unsaved \cup S), w2, ver, server)
    <3>1. Truthful(ledger, doubt \cup unsaved, w, ver, server)
      BY <2>1 DEF TruthInv, w
    <3> QED BY <1>6, <3>1, TruthMonotone
  <2> QED BY <2>1
<1>12. /\ ledger' # None => Truthful(ledger', doubt \cup unsaved', w2, ver, server)
       /\ ledger' # None => ledger' \in Books /\ IsLedger(ledger')
       /\ unsaved' \subseteq Files
  BY <1>2, <1>4, <1>8, <1>9, <1>10, <1>11, SavedTruth
<1>13. TypeInv'
  BY <1>2, <1>3, <1>8, <1>9, <1>12 DEF TypeInv
<1>14. ItemInv'
  BY <1>1, <1>2, <1>3, <1>9 DEF ItemInv, w, w2
<1>15. PassInv'
  <2>1. cur = None
    BY <1>5 DEF PassInv, InPass
  <2>2. UNCHANGED <<todo, cur, left, missing>>
    BY <1>2 DEF syncVars
  <2>3. todo \subseteq {q \in Records : mem'[q] # None}
    BY <1>1, <1>8, <1>9 DEF PassInv
  <2> QED BY <1>2, <2>1, <2>2, <2>3 DEF PassInv, InPass
<1>16. TruthInv'
  BY <1>2, <1>3, <1>10, <1>12 DEF TruthInv
<1> QED BY <1>13, <1>14, <1>15, <1>16

\* One force path.
LEMMA ForceStep ==
    ASSUME RecordsInv, NEW f \in Files, RegisterForce(f) PROVE RecordsInv'
<1> USE DEF RecordsInv
<1> DEFINE r == item.rec
           S == {g \in {f} : ver[g] > 0}
           w == item.wrote
           w2 == item.wrote \ {f}
<1>1. /\ r \in Records /\ mem[r] # None /\ f \in FilesOf[r] /\ S \in SUBSET FilesOf[r]
      /\ w \subseteq item.force /\ item.force \subseteq FilesOf[r] /\ S \in SUBSET Files
  BY DEF ItemInv, RegisterForce
<1>2. /\ item' = [item EXCEPT !.force = @ \ {f}, !.wrote = @ \ {f}] /\ at' = "forced"
      /\ at = "forced" /\ UNCHANGED <<ver, last, server, syncVars, doubt>>
  BY DEF fileVars, RegisterForce
<1>3. item' \in ItemType /\ item'.wrote = w2 /\ item'.force = item.force \ {f} /\ item'.rec = r
  BY <1>2 DEF TypeInv, ItemType
<1>4. Truthful(mem, doubt, w, ver, server)
  BY <1>2 DEF TruthInv
<1>5. \A g \in w \ w2 : g \in S \/ ver[g] = 0
  BY DEF TypeInv
<1>6. ASSUME mem' \in Books, IsLedger(mem'), mem'[r] # None,
             \A q \in Records : q # r => mem'[q] = mem[q],
             Truthful(mem', doubt, w2, ver, server),
             ledger' # None => Truthful(ledger', doubt \cup unsaved', w2, ver, server),
             ledger' # None => ledger' \in Books /\ IsLedger(ledger'),
             unsaved' \subseteq Files
      PROVE  RecordsInv'
  <2>1. TypeInv'
    BY <1>2, <1>3, <1>6 DEF TypeInv
  <2>2. ItemInv'
    BY <1>1, <1>2, <1>3, <1>6 DEF ItemInv
  <2>3. PassInv'
    <3>1. cur = None
      BY <1>2 DEF PassInv, InPass
    <3>2. UNCHANGED <<todo, cur, left, missing>>
      BY <1>2 DEF syncVars
    <3>3. todo \subseteq {q \in Records : mem'[q] # None}
      BY <1>1, <1>6 DEF PassInv
    <3> QED BY <1>2, <3>1, <3>2, <3>3 DEF PassInv, InPass
  <2>4. TruthInv'
    BY <1>2, <1>3, <1>6 DEF TruthInv
  <2> QED BY <2>1, <2>2, <2>3, <2>4
<1>7. ledger # None => Truthful(ledger, doubt \cup (unsaved \cup S), w2, ver, server)
  <2>1. ASSUME ledger # None
        PROVE  Truthful(ledger, doubt \cup (unsaved \cup S), w2, ver, server)
    <3>1. Truthful(ledger, doubt \cup unsaved, w, ver, server)
      BY <2>1 DEF TruthInv
    <3> QED BY <1>5, <3>1, TruthMonotone
  <2> QED BY <2>1
<1>8. CASE ver[f] = 0
  <2>1. S = {} /\ UNCHANGED <<mem, ledger, unsaved>>
    BY <1>8 DEF RegisterForce
  <2>2. Truthful(mem', doubt, w2, ver, server)
    BY <1>4, <1>5, <2>1, TruthMonotone
  <2>3. doubt \cup (unsaved \cup S) = doubt \cup unsaved'
    BY <2>1
  <2> QED BY <1>1, <1>6, <1>7, <2>1, <2>2, <2>3 DEF TypeInv
<1>9. CASE ver[f] # 0
  <2> DEFINE reg == Register(mem[r], S)
             m == [mem EXCEPT ![r] = reg]
  <2>0. S = {f}
    BY <1>9 DEF TypeInv
  <2>1. Save(m, S) /\ mem' = [m EXCEPT ![r] = MarkUnsynced(@, S)]
    BY <1>9, <2>0 DEF RegisterForce
  <2>2. EntryOK(reg, r)
    BY <1>1, EntryOfBooks, RegisterEntry DEF TypeInv
  <2>3. EntryOK(MarkUnsynced(reg, S), r)
    BY <1>1, <2>2, MarkUnsyncedEntry
  <2> HIDE DEF r, S, w, w2
  <2>4. m \in Books /\ m[r] = reg /\ \A q \in Records : q # r => m[q] = mem[q]
    BY <1>1, <2>2 DEF Books, EntryOK, TypeInv
  <2>5. /\ mem' \in Books /\ mem'[r] = MarkUnsynced(reg, S)
        /\ \A q \in Records : q # r => mem'[q] = mem[q]
    <3> HIDE DEF m
    <3> QED BY <1>1, <2>1, <2>3, <2>4 DEF Books, EntryOK
  <2>6. IsLedger(m) /\ m[r] # None
    BY <1>1, <2>2, <2>4, UpdateBooks DEF TypeInv
  <2>7. IsLedger(mem') /\ mem'[r] # None
    BY <1>1, <2>3, <2>5, UpdateBooks DEF TypeInv
  <2> HIDE DEF m
  <2>8. Truthful(m, doubt, w2, ver, server) /\ Truthful(mem', doubt, w2, ver, server)
    <3>1. w \in SUBSET FilesOf[r]
      BY <1>1
    <3>2. Truthful(m, doubt, w2, ver, server)
      BY <1>1, <1>4, <1>5, <2>4, <3>1, RegisterTruth
    <3>3. Truthful(mem', doubt, w2, ver, server)
      BY <1>1, <1>4, <1>5, <2>5, <3>1, RegisterTruth
    <3> QED BY <3>2, <3>3
  <2>9. /\ ledger' # None => Truthful(ledger', doubt \cup unsaved', w2, ver, server)
        /\ ledger' # None => ledger' \in Books /\ IsLedger(ledger')
        /\ unsaved' \subseteq Files
    BY <1>1, <1>7, <2>1, <2>4, <2>6, <2>8, SavedTruth
  <2> QED BY <1>6, <2>5, <2>7, <2>8, <2>9
<1> QED BY <1>8, <1>9

\* The end of a record's upload: missing files leave the books, and those Kadi
\* holds come into doubt.
LEMMA SyncedStep == ASSUME RecordsInv, RecordSynced PROVE RecordsInv'
<1> USE DEF RecordsInv
<1>0. /\ cur \in Records /\ mem[cur] # None /\ InPass /\ item.wrote = {} /\ left = {}
      /\ mem \in Books /\ IsLedger(mem) /\ Pending(mem[cur]) \subseteq missing
      /\ missing \subseteq mem[cur].files
  BY DEF RecordSynced, PassInv, ItemInv, InPass, TypeInv
<1>1. EntryOK(mem[cur], cur)
  BY <1>0, EntryOfBooks
<1>2. /\ EntryOK(Synced(mem[cur], missing), cur)
      /\ Synced(mem[cur], missing).files = mem[cur].files \ missing
      /\ Synced(mem[cur], missing).done = mem[cur].done \ missing
      /\ Synced(mem[cur], missing).force = mem[cur].force \ missing
  BY <1>0, <1>1, SyncedEntry
<1>3. mem' = [mem EXCEPT ![cur] = Synced(mem[cur], missing)] /\ Save(mem', missing)
  BY <1>0 DEF RecordSynced, Synced
<1>4. /\ mem' \in Books /\ mem'[cur] = Synced(mem[cur], missing)
      /\ \A q \in Records : q # cur => mem'[q] = mem[q]
  BY <1>0, <1>2, <1>3 DEF Books, EntryOK
<1>5. IsLedger(mem') /\ mem'[cur] # None
  BY <1>0, <1>2, <1>4, UpdateBooks
<1>6. /\ doubt' = doubt \cup {f \in missing : server[f] > 0}
      /\ cur' = None /\ missing' = {} /\ UNCHANGED <<ver, last, item, server, at, todo, left>>
  BY DEF RecordSynced, itemVars, fileVars
<1>7. missing \in SUBSET Files
  BY <1>0, <1>1, FilesOfRecord DEF EntryOK
<1>8. at # "down" /\ Truthful(mem, doubt, item.wrote, ver, server)
  BY <1>0 DEF TruthInv, InPass
<1>9. Truthful(mem', doubt', item.wrote, ver, server)
  <2>1. ASSUME NEW f \in FilesOf[cur] \ doubt'
        PROVE  Truth(mem'[cur], f, item.wrote, ver[f], server[f])
    <3>1. Truth(mem[cur], f, item.wrote, ver[f], server[f]) /\ server[f] \in Nat
      BY <1>0, <1>6, <1>8, FilesOfRecord DEF Truthful, TypeInv
    <3>2. f \in missing => server[f] = 0
      BY <1>6, <2>1, <3>1
    <3> QED BY <1>0, <1>2, <1>4, <1>5, <3>1, <3>2 DEF Truth, Pending
  <2>2. ASSUME NEW q \in Records, q # cur, NEW f \in FilesOf[q] \ doubt'
        PROVE  Truth(mem[q], f, item.wrote, ver[f], server[f])
    BY <1>6, <1>8 DEF Truthful
  <2> QED BY <1>0, <1>4, <2>1, <2>2, TruthUpdate
<1>10. ASSUME ledger # None
       PROVE  Truthful(ledger, doubt' \cup (unsaved \cup missing), item.wrote, ver, server)
  <2>1. Truthful(ledger, doubt \cup unsaved, item.wrote, ver, server)
    BY <1>10 DEF TruthInv
  <2>2. doubt \cup unsaved \subseteq doubt' \cup (unsaved \cup missing)
    BY <1>6
  <2> QED BY <1>0, <2>1, <2>2, TruthMonotone
<1>11. /\ ledger' # None => Truthful(ledger', doubt' \cup unsaved', item.wrote, ver, server)
       /\ ledger' # None => ledger' \in Books /\ IsLedger(ledger')
       /\ unsaved' \subseteq Files
  BY <1>3, <1>4, <1>5, <1>7, <1>9, <1>10, SavedTruth
<1>12. TypeInv'
  BY <1>4, <1>5, <1>6, <1>7, <1>11 DEF TypeInv
<1>13. ItemInv'
  BY <1>0, <1>6 DEF ItemInv, InPass
<1>14. PassInv'
  <2>1. Pending(mem'[cur]) = {}
    BY <1>0, <1>2, <1>4 DEF Pending
  <2>2. todo \subseteq {q \in Records : mem'[q] # None}
    BY <1>0, <1>4, <1>5 DEF PassInv
  <2> QED BY <1>0, <1>4, <1>6, <2>1, <2>2, RecordsAssumption DEF PassInv, InPass
<1>15. TruthInv'
  BY <1>6, <1>9, <1>11 DEF TruthInv
<1> QED BY <1>12, <1>13, <1>14, <1>15

\* An item is processed, or its processing raises half way.
LEMMA ProcessStep ==
    ASSUME RecordsInv, NEW r \in Records, NEW W \in SUBSET FilesOf[r],
           \/ ProcessFails(r, W)
           \/ \E F \in SUBSET W, folder \in BOOLEAN : ProcessItem(r, W, F, folder)
    PROVE  RecordsInv'
<1> USE DEF RecordsInv
<1>1. /\ at = "idle" /\ Write(r, W) /\ mem' = GetOrCreate(r)
      /\ UNCHANGED <<server, ledger, syncVars, unsaved>>
  BY DEF ProcessFails, ProcessItem
<1>2. /\ mem' \in Books /\ IsLedger(mem') /\ mem'[r] # None
      /\ \A q \in Records : mem[q] # None => mem'[q] = mem[q]
      /\ \A q \in Records : mem[q] = None => mem'[q] = None \/ mem'[q].files = {}
  BY <1>1, GetOrCreateBooks
<1>3. /\ ver' \in [Files -> Nat] /\ last' \in [Files -> Nat] /\ W \subseteq Files
      /\ \A f \in Files : f \notin W => ver'[f] = ver[f]
  BY <1>1, FilesOfRecord DEF Write, TypeInv
<1>4. item.wrote = {} /\ cur = None /\ Truthful(mem, doubt, item.wrote, ver, server)
  BY <1>1 DEF ItemInv, PassInv, InPass, TruthInv
<1>5. Truthful(mem', doubt, item.wrote, ver, server)
  <2>1. ASSUME NEW q \in Records, NEW f \in FilesOf[q] \ doubt
        PROVE  Truth(mem'[q], f, item.wrote, ver[f], server[f])
    <3>1. Truth(mem[q], f, item.wrote, ver[f], server[f])
      BY <1>4 DEF Truthful
    <3>2. CASE mem[q] # None
      BY <1>2, <3>1, <3>2
    <3>3. CASE mem[q] = None
      <4>1. server[f] = 0
        BY <3>1, <3>3 DEF Truth
      <4>2. CASE mem'[q] = None
        BY <4>1, <4>2 DEF Truth
      <4>3. CASE mem'[q] # None
        <5>1. mem'[q].files = {} /\ EntryOK(mem'[q], q)
          BY <1>2, <3>3, <4>3, EntryOfBooks
        <5> QED BY <4>1, <5>1 DEF Truth, EntryOK
      <4> QED BY <4>2, <4>3
    <3> QED BY <3>2, <3>3
  <2> QED BY <2>1 DEF Truthful
<1>6. PassInv' \/ at' \notin {"idle", "register"}
  <2>1. UNCHANGED <<todo, cur, left, missing>>
    BY <1>1 DEF syncVars
  <2>2. todo \subseteq {q \in Records : mem'[q] # None}
    BY <1>2 DEF PassInv
  <2> QED BY <1>4, <2>1, <2>2 DEF PassInv, InPass
<1>7. CASE ProcessFails(r, W)
  <2>1. doubt' = doubt \cup W /\ UNCHANGED <<item, at>>
    BY <1>7 DEF ProcessFails
  <2>2. TypeInv' /\ ItemInv' /\ PassInv'
    BY <1>1, <1>2, <1>3, <1>6, <2>1 DEF TypeInv, ItemInv
  <2>3. Truthful(mem', doubt', item'.wrote, ver', server')
    BY <1>1, <1>3, <1>4, <1>5, <2>1, TruthMonotone
  <2>4. ASSUME ledger' # None
        PROVE  Truthful(ledger', doubt' \cup unsaved', item'.wrote, ver', server')
    <3>1. Truthful(ledger, doubt \cup unsaved, item.wrote, ver, server)
      BY <1>1, <2>4 DEF TruthInv
    <3> QED BY <1>1, <1>3, <1>4, <2>1, <3>1, TruthMonotone
  <2> QED BY <2>2, <2>3, <2>4 DEF TruthInv
<1>8. ASSUME NEW F \in SUBSET W, NEW folder \in BOOLEAN, ProcessItem(r, W, F, folder)
      PROVE  RecordsInv'
  <2> DEFINE final == IF folder THEN {f \in FilesOf[r] : ver'[f] > 0} ELSE W \ F
  <2>1. /\ item' = [rec |-> r, wrote |-> W, force |-> F, final |-> final]
        /\ at' = "register" /\ doubt' = doubt
    BY <1>8 DEF ProcessItem
  <2>2. final \subseteq FilesOf[r] /\ W \subseteq final \cup F
    <3>1. CASE folder
      <4>1. \A f \in W : ver'[f] = last[f] + 1 /\ last[f] \in Nat /\ f \in FilesOf[r]
        BY <1>1, <1>3 DEF Write, TypeInv
      <4>2. \A f \in W : ver'[f] > 0
        BY <4>1
      <4> QED BY <3>1, <4>1, <4>2
    <3> QED BY <3>1
  <2> HIDE DEF final
  <2>3. /\ item' \in ItemType /\ item'.wrote = W /\ item'.rec = r
        /\ item'.final = final /\ item'.force = F
    BY <1>3, <2>1, <2>2, FilesOfRecord DEF ItemType
  <2>4. TypeInv' /\ PassInv'
    BY <1>1, <1>2, <1>3, <1>6, <2>1, <2>3 DEF TypeInv
  <2>5. ItemInv'
    BY <1>2, <2>1, <2>2, <2>3 DEF ItemInv
  <2>6. Truthful(mem', doubt', item'.wrote, ver', server')
    BY <1>1, <1>3, <1>4, <1>5, <2>1, <2>3, TruthMonotone
  <2>7. ASSUME ledger' # None
        PROVE  Truthful(ledger', doubt' \cup unsaved', item'.wrote, ver', server')
    <3>1. Truthful(ledger, doubt \cup unsaved, item.wrote, ver, server)
      BY <1>1, <2>7 DEF TruthInv
    <3> QED BY <1>1, <1>3, <1>4, <2>1, <2>3, <3>1, TruthMonotone
  <2> QED BY <2>4, <2>5, <2>6, <2>7 DEF TruthInv
<1> QED BY <1>7, <1>8

\* The program dies, or starts from what the ledger holds: what was not saved or
\* not registered comes into doubt.
LEMMA RestartStep == ASSUME RecordsInv, Start \/ Crash PROVE RecordsInv'
<1> USE DEF RecordsInv
<1>1. /\ doubt' = LostTrack /\ item' = NoItem /\ unsaved' = {}
      /\ UNCHANGED <<ver, last, server, ledger>>
  BY DEF fileVars, Start, Crash
<1>2. /\ doubt \cup unsaved \cup item.wrote \subseteq doubt' /\ doubt' \subseteq Files
      /\ ledger = None => doubt' = Files
  BY <1>1 DEF LostTrack, TypeInv, ItemType
<1>3. item' \in ItemType /\ item'.wrote = {}
  BY <1>1 DEF NoItem, ItemType
<1>4. ASSUME ledger # None
      PROVE  Truthful(ledger, doubt', item'.wrote, ver, server)
  <2>1. Truthful(ledger, doubt \cup unsaved, item.wrote, ver, server)
    BY <1>4 DEF TruthInv
  <2> QED BY <1>2, <1>3, <2>1, TruthMonotone
<1>5. CASE Crash
  <2>1. /\ at' = "down" /\ mem' = [r \in Records |-> None]
        /\ todo' = {} /\ cur' = None /\ left' = {} /\ missing' = {}
    BY <1>5 DEF Crash
  <2>2. TypeInv'
    BY <1>1, <1>2, <1>3, <2>1, EmptyBooks DEF TypeInv
  <2>3. ItemInv' /\ PassInv'
    BY <1>3, <2>1 DEF ItemInv, PassInv, InPass
  <2>4. TruthInv'
    <3>1. doubt' \cup unsaved' = doubt'
      BY <1>1
    <3> QED BY <1>1, <1>4, <2>1, <3>1 DEF TruthInv
  <2> QED BY <2>2, <2>3, <2>4
<1>6. CASE Start
  <2>1. at = "down" /\ mem' = Loaded /\ BeginPass("startup", Loaded) /\ cur' = cur /\ left' = left
    BY <1>6 DEF Start
  <2>2. cur = None
    BY <2>1 DEF PassInv, InPass
  <2>3. Loaded \in Books /\ IsLedger(Loaded)
    BY EmptyBooks DEF Loaded, TypeInv
  <2>4. /\ at' \in {"idle", "startup"}
        /\ at' = "startup" => todo' = {r \in Records : mem'[r] # None}
        /\ at' = "idle" => todo' = {}
    BY <2>1 DEF BeginPass
  <2>5. TypeInv'
    BY <1>1, <1>2, <1>3, <2>1, <2>3, <2>4 DEF TypeInv
  <2>6. ItemInv' /\ PassInv'
    BY <1>3, <2>1, <2>2, <2>4, RecordsAssumption DEF ItemInv, PassInv, InPass
  <2>7. Truthful(mem', doubt', item'.wrote, ver, server)
    <3>1. CASE ledger = None
      BY <1>2, <3>1, FilesOfRecord DEF Truthful
    <3>2. CASE ledger # None
      BY <1>4, <2>1, <3>2 DEF Loaded
    <3> QED BY <3>1, <3>2
  <2>8. TruthInv'
    <3>1. doubt' \cup unsaved' = doubt'
      BY <1>1
    <3> QED BY <1>1, <1>4, <2>7, <3>1 DEF TruthInv
  <2> QED BY <2>5, <2>6, <2>8
<1> QED BY <1>5, <1>6

\* A file is deleted under the program's feet.
LEMMA DeleteStep == ASSUME RecordsInv, NEW f \in Files, Delete(f) PROVE RecordsInv'
<1> USE DEF RecordsInv
<1>1. /\ UNCHANGED <<last, item, server, mem, ledger, at, todo, cur, left, missing, unsaved, doubt>>
      /\ ver' \in [Files -> Nat]
      /\ \A g \in Files : ver'[g] = 0 \/ ver'[g] = ver[g]
  BY DEF Delete, syncVars, TypeInv
<1>2. TypeInv' /\ ItemInv' /\ PassInv'
  BY <1>1 DEF TypeInv, ItemInv, PassInv, InPass
<1>3. ASSUME NEW m, NEW X, Truthful(m, X, item.wrote, ver, server)
      PROVE  Truthful(m, X, item.wrote, ver', server)
  BY <1>1, <1>3, TruthMonotone
<1>4. TruthInv'
  BY <1>1, <1>3 DEF TruthInv
<1> QED BY <1>2, <1>4

\* Steps of a pass that change no book.
LEMMA PassStep ==
    ASSUME RecordsInv,
           \/ ItemAdded \/ PassEnds \/ \E r \in Records : OpenRecord(r)
           \/ \E f \in Files : UploadMissing(f)
    PROVE  RecordsInv'
<1> USE DEF RecordsInv
<1>1. UNCHANGED <<ver, last, server, mem, ledger, unsaved, doubt>>
  BY DEF ItemAdded, PassEnds, OpenRecord, UploadMissing, itemVars, fileVars
<1>2. CASE ItemAdded
  <2>1. /\ at = "forced" /\ item.wrote = {} /\ item' = NoItem /\ cur = None
        /\ BeginPass("item", mem) /\ UNCHANGED <<cur, left, missing>>
    BY <1>2 DEF ItemAdded, ItemInv, PassInv, InPass
  <2>2. item' \in ItemType /\ item'.wrote = {}
    BY <2>1 DEF NoItem, ItemType
  <2>3. /\ at' \in {"idle", "item"} /\ (at' = "idle" => todo' = {})
        /\ (at' = "item" => todo' = {r \in Records : mem[r] # None})
    BY <2>1 DEF BeginPass
  <2>4. TypeInv' /\ ItemInv' /\ PassInv'
    BY <1>1, <2>1, <2>2, <2>3, RecordsAssumption DEF TypeInv, ItemInv, PassInv, InPass
  <2>5. TruthInv'
    BY <1>1, <2>1, <2>2, <2>3 DEF TruthInv
  <2> QED BY <2>4, <2>5
<1>3. CASE PassEnds
  <2>1. /\ InPass /\ cur = None /\ at' = "idle" /\ todo' = {} /\ UNCHANGED <<item, cur, left, missing>>
    BY <1>3 DEF PassEnds, itemVars, fileVars
  <2>2. TypeInv' /\ ItemInv' /\ PassInv' /\ TruthInv'
    BY <1>1, <2>1 DEF TypeInv, ItemInv, PassInv, InPass, TruthInv
  <2> QED BY <2>2
<1>4. ASSUME NEW r \in Records, OpenRecord(r) PROVE RecordsInv'
  <2>1. /\ InPass /\ cur = None /\ r \in todo /\ cur' = r /\ left' = Pending(mem[r])
        /\ missing' = {} /\ todo' = todo \ {r} /\ UNCHANGED <<item, at>>
    BY <1>4 DEF OpenRecord, itemVars, fileVars, Eligible
  <2>2. TypeInv' /\ ItemInv' /\ TruthInv'
    BY <1>1, <2>1 DEF TypeInv, ItemInv, InPass, TruthInv
  <2>3. PassInv'
    <3>1. r # None /\ mem[r] # None
      BY <2>1, RecordsAssumption DEF PassInv
    <3>2. \A q \in Ipat \ todo' : q # r /\ mem[q] # None => Pending(mem[q]) = {}
      BY <2>1, RecordsAssumption DEF PassInv
    <3> QED BY <1>1, <2>1, <3>1, <3>2 DEF PassInv, InPass
  <2> QED BY <2>2, <2>3
<1>5. ASSUME NEW f \in Files, UploadMissing(f) PROVE RecordsInv'
  <2>1. /\ cur # None /\ f \in left /\ missing' = missing \cup {f} /\ left' = left \ {f}
        /\ UNCHANGED <<item, at, todo, cur>>
    BY <1>5 DEF UploadMissing, PassInv, itemVars, fileVars
  <2>2. TypeInv' /\ ItemInv' /\ TruthInv'
    BY <1>1, <2>1 DEF TypeInv, ItemInv, InPass, TruthInv
  <2>3. PassInv'
    BY <1>1, <2>1 DEF PassInv, InPass, Pending
  <2> QED BY <2>2, <2>3
<1> QED BY <1>2, <1>3, <1>4, <1>5

\* upload_file stores a file, or is refused and nothing looks at the answer.
LEMMA UploadStep ==
    ASSUME RecordsInv, NEW f \in Files,
           Upload(f) \/ (UploadRefused(f) /\ ~RaiseInPass)
    PROVE  RecordsInv'
<1>1. CASE Upload(f)
  BY <1>1, TookStep DEF Upload
<1>2. CASE UploadRefused(f) /\ ~RaiseInPass
  <2>1. /\ f \in left /\ ver[f] > 0 /\ Refused(f) /\ Took(f)
        /\ UNCHANGED <<itemVars, server, ledger, at, todo, cur, missing, doubt, faults>>
    BY <1>2 DEF UploadRefused
  <2>2. /\ cur \in Records /\ mem[cur] # None /\ at # "down" /\ f \in Pending(mem[cur])
        /\ Truthful(mem, doubt, item.wrote, ver, server)
    BY <2>1 DEF RecordsInv, PassInv, InPass, TruthInv
  <2>3. f \in FilesOf[cur]
    BY <2>2 DEF RecordsInv, TypeInv, IsLedger, Pending
  <2>4. f \in doubt
    BY <2>1, <2>2, <2>3 DEF Truthful, Truth, Refused
  <2> QED BY <2>1, <2>4, TookStep
<1> QED BY <1>1, <1>2

\* A program that ends takes its books with it.
LEMMA DownStep == ASSUME RecordsInv, DownInv, [Next]_vars PROVE DownInv'
<1> USE DEF DownInv
<1>1. \A f \in left : at # "down"
  BY DEF RecordsInv, PassInv, InPass
<1>2. ASSUME NEW f \in Files,
             \/ RegisterForce(f) \/ Upload(f) \/ UploadRefused(f) \/ UploadFails(f)
             \/ UploadMissing(f) \/ Delete(f)
      PROVE  DownInv'
  BY <1>1, <1>2 DEF RegisterForce, Upload, UploadRefused, UploadFails, UploadMissing,
       Delete, RaiseInPass
<1>3. ASSUME RegisterFinal \/ ItemAdded \/ OpenFails \/ RecordSynced \/ PassEnds
             \/ \E r \in Records : OpenRecord(r)
      PROVE  DownInv'
  BY <1>3 DEF RegisterFinal, ItemAdded, OpenFails, RecordSynced, PassEnds, OpenRecord,
       RaiseInPass, BeginPass, InPass
<1>4. ASSUME Start \/ Crash \/ UNCHANGED vars PROVE DownInv'
  BY <1>4 DEF Start, Crash, BeginPass, vars
<1>5. ASSUME NEW r \in Records, NEW W \in SUBSET FilesOf[r],
             \/ ProcessFails(r, W)
             \/ \E F \in SUBSET W, folder \in BOOLEAN : ProcessItem(r, W, F, folder)
      PROVE  DownInv'
  BY <1>5 DEF ProcessFails, ProcessItem
<1> QED BY <1>2, <1>3, <1>4, <1>5 DEF Next, Progress

\* The invariant holds in every state.
LEMMA RecordsInvariance == Spec => [](RecordsInv /\ DownInv)
<1>1. ASSUME RecordsInv, [Next]_vars PROVE RecordsInv'
  <2>1. CASE Progress
    BY <1>1, <2>1, FinalStep, ForceStep, FailingUpload, SyncedStep, PassStep, UploadStep
       DEF Progress
  <2>2. CASE Start \/ Crash
    BY <1>1, <2>2, RestartStep
  <2>3. CASE \E f \in Files : Delete(f)
    BY <1>1, <2>3, DeleteStep
  <2>4. CASE \E r \in Records : \E W \in SUBSET FilesOf[r] :
               \/ ProcessFails(r, W)
               \/ \E F \in SUBSET W, folder \in BOOLEAN : ProcessItem(r, W, F, folder)
    BY <1>1, <2>4, ProcessStep
  <2>5. CASE UNCHANGED vars
    <3>1. UNCHANGED <<ver, last, item, server, mem, ledger, at, todo, cur, left, missing, unsaved,
                      doubt>>
      BY <2>5 DEF vars, itemVars, fileVars, syncVars
    <3>2. TypeInv' /\ ItemInv' /\ TruthInv'
      BY <1>1, <3>1 DEF RecordsInv, TypeInv, ItemInv, TruthInv
    <3>3. PassInv'
      BY <1>1, <3>1 DEF RecordsInv, PassInv, InPass
    <3> QED BY <3>2, <3>3 DEF RecordsInv
  <2> QED BY <1>1, <2>1, <2>2, <2>3, <2>4, <2>5 DEF Next
<1>2. Init => DownInv
  BY DEF Init, DownInv
<1> QED BY <1>1, <1>2, RecordsInitInv, DownStep, PTL DEF Spec

(***************************************************************************)
(* The theorems.                                                           *)
(***************************************************************************)

\* Whatever fails, dies or is deleted, a file flagged as uploaded is in Kadi with
\* its present content, unless the program lost track of it.
THEOREM UploadsAreCurrent == Spec => []UploadedIsCurrent
<1>1. RecordsInv /\ DownInv => UploadedIsCurrent
  <2> SUFFICES ASSUME RecordsInv, DownInv, NEW r \in Records, mem[r] # None,
                      NEW f \in mem[r].done \ (doubt \cup item.wrote), ver[f] > 0
               PROVE  server[f] = ver[f]
    BY DEF UploadedIsCurrent
  <2>1. at # "down" /\ f \in FilesOf[r]
    <3>1. f \in FilesOf[r]
      BY DEF RecordsInv, TypeInv, IsLedger
    <3> QED BY <3>1 DEF DownInv
  <2> QED BY <2>1 DEF RecordsInv, TruthInv, Truthful, Truth
<1> QED BY <1>1, RecordsInvariance, PTL

\* No pending file that Kadi holds lacks its force flag, with the same exceptions:
\* no later pass is refused at it.
THEOREM UploadsNotBlocked == Spec => []NoBlockedUpload
<1>1. RecordsInv /\ DownInv => NoBlockedUpload
  <2> SUFFICES ASSUME RecordsInv, DownInv, NEW r \in Records, mem[r] # None,
                      NEW f \in Pending(mem[r]) \ doubt, server[f] > 0
               PROVE  f \in mem[r].force
    BY DEF NoBlockedUpload
  <2>1. at # "down" /\ f \in FilesOf[r]
    <3>1. f \in FilesOf[r]
      BY DEF RecordsInv, TypeInv, IsLedger, Pending
    <3> QED BY <3>1 DEF DownInv
  <2> QED BY <2>1 DEF RecordsInv, TruthInv, Truthful, Truth
<1> QED BY <1>1, RecordsInvariance, PTL

\* A pass that comes to its end leaves nothing of an ipat record pending.
THEOREM PassesAreComplete == Spec => PassIsComplete
<1>1. RecordsInv /\ [Next]_vars =>
        [PassEnds => \A r \in Ipat : mem[r] # None => Pending(mem[r]) = {}]_vars
  <2> SUFFICES ASSUME RecordsInv, PassEnds, NEW r \in Ipat, mem[r] # None
               PROVE  Pending(mem[r]) = {}
    OBVIOUS
  <2>1. r \notin todo => Pending(mem[r]) = {}
    BY RecordsAssumption DEF RecordsInv, PassInv, PassEnds
  <2>2. r \in todo => Pending(mem[r]) = {}
    BY DEF PassEnds, Eligible
  <2> QED BY <2>1, <2>2
<1> QED BY <1>1, RecordsInvariance, PTL DEF Spec, PassIsComplete
=============================================================================
