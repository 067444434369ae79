---------------------------- MODULE StagingProofs ----------------------------
(* Proofs about SentinelBatch and Series, for every set of files, staging folders
   and names, every TTL and any number of events. *)
EXTENDS SentinelBatch, Series, FiniteSetTheorems, TLAPS

\* The processors on their own, without the fairness of the surroundings.
BatchSpec == BatchInit /\ [][BatchNext]_batchVars

(***************************************************************************)
(* The invariant.                                                          *)
(***************************************************************************)

\* A native that waits for its export.
Waiting == [n : Natives, age : Nat]

\* An export and its native.
Pairs == [c : Exports, n : Natives, age : Nat]

\* What a processor knows.
Memories == [pending : Seq(Waiting), bucket : Seq(Pairs),
             sentinel : [c : Exports, age : Nat] \cup {NoSentinel},
             batches : [Stages -> Seq(Pairs)], alias : [Natives -> Stages \cup {0}]]

\* A staging folder.
Folders == [files : SUBSET Files, age : Nat] \cup {NoStage}

\* Types.
BatchType ==
    /\ mem \in Memories
    /\ stage \in [Stages -> Folders]
    /\ watch \subseteq Files
    /\ work = NoWork \/ work \in [src : Natives, to : Stages \cup {0}]

\* A sentinel waits only if no native does.
Exclusive(m) == m.sentinel # NoSentinel => m.pending = <<>>

\* Every file is tracked in one place.
Distinct(m) ==
    /\ \A i, j \in DOMAIN m.pending : m.pending[i].n = m.pending[j].n => i = j
    /\ \A i, j \in DOMAIN m.bucket :
          m.bucket[i].n = m.bucket[j].n \/ m.bucket[i].c = m.bucket[j].c => i = j
    /\ \A i \in DOMAIN m.bucket :
          /\ m.bucket[i].c # m.sentinel.c
          /\ \A k \in DOMAIN m.pending : m.pending[k].n # m.bucket[i].n

\* The files that m tracks lie in w.
Inside(m, w) == \A f \in Files : Tracked(m, f) => f \in w

\* No staged batch has the name of a tracked native.
Unaliased(m) == \A n \in Natives : Tracked(m, n) => m.alias[n] = 0

\* A batch that is known lies complete in its folder as long as that is there.
Whole ==
    \A s \in Stages : stage[s] # NoStage /\ mem.batches[s] # <<>> =>
        Listed(mem.batches[s]) = stage[s].files

\* What is in the pipeline came by its alias, and its folder is there.
WorkInv ==
    work # NoWork =>
        /\ mem.alias[work.src] # 0
        /\ work.to # 0 => stage[work.to] # NoStage

\* What is tracked by ipat_watchdog.
LegacyInv ==
    Legacy => Distinct(mem) /\ Unaliased(mem) /\ (~mishap => Inside(mem, watch))

\* The inductive invariant.
BatchInv ==
    /\ BatchType /\ Exclusive(mem) /\ WorkInv /\ LegacyInv
    /\ (Legacy => ~mishap) => Whole

(***************************************************************************)
(* Sequences that keep some of their entries.                              *)
(***************************************************************************)

\* A set of natural numbers that is not empty has a least member.
LEMMA LeastNatural ==
    ASSUME NEW T, T \subseteq Nat, T # {}
    PROVE  \E x \in T : \A y \in T : x <= y
<1>1. IsWellFoundedOn(OpToRel(<, Nat), Nat)
  BY NatLessThanWellFounded
<1>2. PICK x \in T : \A y \in T : ~(<<y, x>> \in OpToRel(<, Nat))
  BY <1>1, WFMin
<1>3. \A y \in T : ~(y < x)
  BY <1>2 DEF OpToRel
<1> QED BY <1>3

\* h leads from the entries of t to different entries of s.
Leads(h, t, s) ==
    /\ h \in [DOMAIN t -> DOMAIN s]
    /\ \A k, l \in DOMAIN t : h[k] = h[l] => k = l

\* The entries that Picked keeps come from different positions of I.
LEMMA PickedLeads ==
    ASSUME NEW S, NEW s \in Seq(S), NEW I \in SUBSET DOMAIN s
    PROVE  /\ Picked(s, I) \in Seq(S)
           /\ \E h : /\ Leads(h, Picked(s, I), s)
                     /\ \A k \in DOMAIN Picked(s, I) :
                           h[k] \in I /\ Picked(s, I)[k] = s[h[k]]
<1> DEFINE Upto(i) == {j \in I : j <= i}
           rank == [i \in I |-> Cardinality(Upto(i))]
           n == Cardinality(I)
           pos(k) == CHOOSE i \in I : Cardinality(Upto(i)) = k
           h == [k \in 1..n |-> pos(k)]
<1>1. Len(s) \in Nat /\ DOMAIN s = 1..Len(s) /\ IsFiniteSet(I) /\ n \in Nat
  <2>1. Len(s) \in Nat /\ DOMAIN s = 1..Len(s)
    OBVIOUS
  <2>2. IsFiniteSet(1..Len(s))
    BY <2>1, FS_Interval
  <2>3. IsFiniteSet(I)
    BY <2>1, <2>2, FS_Subset
  <2> QED BY <2>1, <2>3, FS_CardinalityType
<1>2. \A i \in I : i \in Nat
  BY <1>1
<1>3. ASSUME NEW i \in I
      PROVE  IsFiniteSet(Upto(i)) /\ Cardinality(Upto(i)) \in 1..n
  <2>1. Upto(i) \in SUBSET I /\ i \in Upto(i)
    BY <1>2
  <2>2. IsFiniteSet(Upto(i)) /\ Cardinality(Upto(i)) <= n
    BY <1>1, <2>1, FS_Subset
  <2>3. Cardinality(Upto(i)) \in Nat /\ Cardinality(Upto(i)) # 0
    BY <2>1, <2>2, FS_CardinalityType, FS_EmptySet
  <2> QED BY <1>1, <2>2, <2>3
<1>4. ASSUME NEW i \in I, NEW j \in I, i < j
      PROVE  Cardinality(Upto(i)) # Cardinality(Upto(j))
  <2>1. Upto(i) \in SUBSET Upto(j) /\ j \in Upto(j) /\ j \notin Upto(i)
    BY <1>2, <1>4
  <2>2. IsFiniteSet(Upto(j))
    BY <1>3
  <2> QED BY <2>1, <2>2, FS_Subset
<1>5. \A i, j \in I : rank[i] = rank[j] => i = j
  <2> HIDE DEF Upto
  <2>1. \A i, j \in I : i < j => rank[i] # rank[j]
    BY <1>4
  <2> HIDE DEF rank
  <2> QED BY <1>2, <2>1
<1>6. rank \in Injection(I, 1..n)
  <2>1. rank \in [I -> 1..n]
    BY <1>3
  <2> QED BY <1>5, <2>1 DEF Injection, IsInjective
<1>7. IsFiniteSet(1..n) /\ Cardinality(1..n) = n
  BY <1>1, FS_Interval
<1>8. rank \in Surjection(I, 1..n)
  BY <1>6, <1>7, FS_Injection
<1>9. ASSUME NEW k \in 1..n PROVE pos(k) \in I /\ Cardinality(Upto(pos(k))) = k
  <2>1. \E i \in I : Cardinality(Upto(i)) = k
    BY <1>8 DEF Surjection
  <2> HIDE DEF Upto
  <2> QED BY <2>1
<1>10. Picked(s, I) = [k \in 1..n |-> s[pos(k)]]
  BY DEF Picked
<1> HIDE DEF Upto, n, pos, rank
<1>11. Picked(s, I) \in Seq(S) /\ DOMAIN Picked(s, I) = 1..n
  <2>1. \A i \in I : s[i] \in S
    OBVIOUS
  <2>2. Picked(s, I) \in [1..n -> S]
    BY <1>9, <1>10, <2>1
  <2> QED BY <1>1, <2>2
<1>12. Leads(h, Picked(s, I), s)
  BY <1>9, <1>11 DEF Leads
<1>13. \A k \in DOMAIN Picked(s, I) : h[k] \in I /\ Picked(s, I)[k] = s[h[k]]
  BY <1>9, <1>10, <1>11
<1> QED BY <1>11, <1>12, <1>13

(***************************************************************************)
(* What the processor's memory keeps and forgets.                          *)
(***************************************************************************)

\* m2 tracks some of what m tracks, where m tracks it, and knows no new alias.
Thinner(m2, m) ==
    /\ m2 \in Memories
    /\ \E h : /\ Leads(h, m2.pending, m.pending)
              /\ \A k \in DOMAIN m2.pending : m2.pending[k].n = m.pending[h[k]].n
    /\ \E h : /\ Leads(h, m2.bucket, m.bucket)
              /\ \A k \in DOMAIN m2.bucket : /\ m2.bucket[k].n = m.bucket[h[k]].n
                                             /\ m2.bucket[k].c = m.bucket[h[k]].c
    /\ m2.sentinel = NoSentinel
       \/ (m.sentinel # NoSentinel /\ m2.sentinel.c = m.sentinel.c)
    /\ \A n \in Natives : m2.alias[n] \in {m.alias[n], 0}

\* The types of what a memory is made of.
LEMMA MemoryParts ==
    ASSUME NEW m \in Memories
    PROVE  /\ m.pending \in Seq(Waiting) /\ m.bucket \in Seq(Pairs)
           /\ Len(m.pending) \in Nat /\ DOMAIN m.pending = 1..Len(m.pending)
           /\ Len(m.bucket) \in Nat /\ DOMAIN m.bucket = 1..Len(m.bucket)
           /\ \A i \in DOMAIN m.pending :
                 m.pending[i] \in Waiting /\ m.pending[i].n \in Natives
           /\ \A i \in DOMAIN m.bucket : /\ m.bucket[i] \in Pairs
                                         /\ m.bucket[i].n \in Natives
                                         /\ m.bucket[i].c \in Exports
           /\ m.sentinel \in [c : Exports, age : Nat] \cup {NoSentinel}
           /\ m.sentinel # NoSentinel => m.sentinel.c \in Exports
           /\ NoSentinel.c = NoFile /\ NoFile \notin Files
           /\ m.batches \in [Stages -> Seq(Pairs)] /\ m.alias \in [Natives -> Stages \cup {0}]
<1>1. /\ m.pending \in Seq(Waiting) /\ m.bucket \in Seq(Pairs)
      /\ m.sentinel \in [c : Exports, age : Nat] \cup {NoSentinel}
      /\ m.batches \in [Stages -> Seq(Pairs)] /\ m.alias \in [Natives -> Stages \cup {0}]
  BY DEF Memories
<1>2. /\ Len(m.pending) \in Nat /\ DOMAIN m.pending = 1..Len(m.pending)
      /\ Len(m.bucket) \in Nat /\ DOMAIN m.bucket = 1..Len(m.bucket)
      /\ \A i \in DOMAIN m.pending : m.pending[i] \in Waiting
      /\ \A i \in DOMAIN m.bucket : m.bucket[i] \in Pairs
  BY <1>1
<1>3. NoSentinel.c = NoFile /\ NoFile \notin Files
  BY BatchAssumption DEF NoSentinel, NoFile, Files
<1>4. m.sentinel # NoSentinel => m.sentinel.c \in Exports
  BY <1>1
<1> QED BY <1>1, <1>2, <1>3, <1>4 DEF Waiting, Pairs

\* A thinner memory keeps what is said of the tracked files.
LEMMA ThinnerKeeps ==
    ASSUME NEW m \in Memories, NEW m2, Thinner(m2, m)
    PROVE  /\ Exclusive(m) => Exclusive(m2)
           /\ Distinct(m) => Distinct(m2)
           /\ \A f \in Files : Tracked(m2, f) => Tracked(m, f)
           /\ Unaliased(m) => Unaliased(m2)
<1>0. m2 \in Memories
  BY DEF Thinner
<1>1. PICK h : /\ Leads(h, m2.pending, m.pending)
               /\ \A k \in DOMAIN m2.pending : m2.pending[k].n = m.pending[h[k]].n
  BY DEF Thinner
<1>2. PICK g : /\ Leads(g, m2.bucket, m.bucket)
               /\ \A k \in DOMAIN m2.bucket : /\ m2.bucket[k].n = m.bucket[g[k]].n
                                              /\ m2.bucket[k].c = m.bucket[g[k]].c
  BY DEF Thinner
<1>3. m2.sentinel = NoSentinel \/ (m.sentinel # NoSentinel /\ m2.sentinel.c = m.sentinel.c)
  BY DEF Thinner
<1>4. /\ \A k \in DOMAIN m2.pending : h[k] \in DOMAIN m.pending
      /\ \A k, l \in DOMAIN m2.pending : h[k] = h[l] => k = l
      /\ \A k \in DOMAIN m2.bucket : g[k] \in DOMAIN m.bucket
      /\ \A k, l \in DOMAIN m2.bucket : g[k] = g[l] => k = l
  BY <1>1, <1>2 DEF Leads
<1>5. Exclusive(m) => Exclusive(m2)
  <2> SUFFICES ASSUME Exclusive(m), m2.sentinel # NoSentinel PROVE m2.pending = <<>>
    BY DEF Exclusive
  <2>1. m.pending = <<>>
    BY <1>3 DEF Exclusive
  <2>2. DOMAIN m2.pending = {}
    BY <1>4, <2>1
  <2>3. /\ m2.pending \in Seq(Waiting) /\ Len(m2.pending) \in Nat
        /\ DOMAIN m2.pending = 1..Len(m2.pending)
    BY <1>0, MemoryParts
  <2>4. 1 \notin 1..Len(m2.pending)
    BY <2>2, <2>3
  <2>5. Len(m2.pending) = 0
    BY <2>3, <2>4
  <2> QED BY <2>3, <2>5
<1>6. Distinct(m) => Distinct(m2)
  <2> SUFFICES ASSUME Distinct(m) PROVE Distinct(m2)
    OBVIOUS
  <2>1. \A i, j \in DOMAIN m2.pending : m2.pending[i].n = m2.pending[j].n => i = j
    BY <1>1, <1>4 DEF Distinct
  <2>2. \A i, j \in DOMAIN m2.bucket :
           m2.bucket[i].n = m2.bucket[j].n \/ m2.bucket[i].c = m2.bucket[j].c => i = j
    BY <1>2, <1>4 DEF Distinct
  <2>3. \A i \in DOMAIN m2.bucket : m2.bucket[i].c # m2.sentinel.c
    <3>1. \A i \in DOMAIN m2.bucket : m2.bucket[i].c \in Files
      BY <1>0, MemoryParts DEF Files
    <3>2. NoSentinel.c \notin Files
      BY MemoryParts
    <3> QED BY <1>2, <1>3, <1>4, <3>1, <3>2 DEF Distinct
  <2>4. \A i \in DOMAIN m2.bucket, k \in DOMAIN m2.pending : m2.pending[k].n # m2.bucket[i].n
    BY <1>1, <1>2, <1>4 DEF Distinct
  <2> QED BY <2>1, <2>2, <2>3, <2>4 DEF Distinct
<1>7. ASSUME NEW f \in Files, Tracked(m2, f) PROVE Tracked(m, f)
  <2>1. NoSentinel.c \notin Files
    BY MemoryParts
  <2>2. CASE f = m2.sentinel.c
    BY <1>3, <2>1, <2>2 DEF Tracked
  <2>3. CASE f \in Listed(m2.bucket)
    <3>1. f \in Listed(m.bucket)
      BY <1>2, <1>4, <2>3 DEF Listed
    <3> QED BY <3>1 DEF Tracked
  <2>4. CASE \E i \in DOMAIN m2.pending : m2.pending[i].n = f
    BY <1>1, <1>4, <2>4 DEF Tracked
  <2> QED BY <1>7, <2>2, <2>3, <2>4 DEF Tracked
<1>8. Unaliased(m) => Unaliased(m2)
  BY <1>7 DEF Unaliased, Thinner, Files
<1> QED BY <1>5, <1>6, <1>7, <1>8

\* A sequence leads to itself.
LEMMA LeadsSame ==
    ASSUME NEW t, NEW s, DOMAIN t = DOMAIN s
    PROVE  \E h : Leads(h, t, s) /\ \A k \in DOMAIN t : h[k] = k
<1> DEFINE h == [k \in DOMAIN t |-> k]
<1>1. Leads(h, t, s) /\ \A k \in DOMAIN t : h[k] = k
  BY DEF Leads
<1> QED BY <1>1

\* A purge keeps some of the entries.
LEMMA YoungLeads ==
    ASSUME NEW S, NEW s \in Seq(S)
    PROVE  /\ Young(s) \in Seq(S)
           /\ \E h : Leads(h, Young(s), s) /\ \A k \in DOMAIN Young(s) : Young(s)[k] = s[h[k]]
<1> DEFINE I == {i \in DOMAIN s : s[i].age <= TTL}
<1>1. Young(s) = Picked(s, I) /\ I \in SUBSET DOMAIN s
  BY DEF Young
<1> HIDE DEF I
<1> QED BY <1>1, PickedLeads

\* _purge_stale thins the memory and leaves batches and aliases alone.
LEMMA FreshThins ==
    ASSUME NEW m \in Memories
    PROVE  /\ Thinner(Fresh(m), m)
           /\ Fresh(m).batches = m.batches /\ Fresh(m).alias = m.alias
<1>1. Young(m.pending) \in Seq(Waiting) /\ Young(m.bucket) \in Seq(Pairs)
  BY MemoryParts, YoungLeads
<1> DEFINE s == IF m.sentinel.age > TTL THEN NoSentinel ELSE m.sentinel
<1>2. s \in [c : Exports, age : Nat] \cup {NoSentinel}
  BY MemoryParts
<1>3. /\ Fresh(m) \in Memories
      /\ Fresh(m).pending = Young(m.pending) /\ Fresh(m).bucket = Young(m.bucket)
      /\ Fresh(m).sentinel = s
      /\ Fresh(m).batches = m.batches /\ Fresh(m).alias = m.alias
  <2>1. Fresh(m) = [m EXCEPT !.pending = Young(m.pending), !.bucket = Young(m.bucket),
                             !.sentinel = s]
    BY DEF Fresh
  <2> HIDE DEF s
  <2>2. Fresh(m) \in Memories
    BY <1>1, <1>2, <2>1 DEF Memories
  <2>3. /\ Fresh(m).pending = Young(m.pending) /\ Fresh(m).bucket = Young(m.bucket)
        /\ Fresh(m).sentinel = s
        /\ Fresh(m).batches = m.batches /\ Fresh(m).alias = m.alias
    BY <2>1 DEF Memories
  <2> QED BY <2>2, <2>3
<1>4. PICK h : /\ Leads(h, Young(m.pending), m.pending)
               /\ \A k \in DOMAIN Young(m.pending) : Young(m.pending)[k] = m.pending[h[k]]
  BY MemoryParts, YoungLeads
<1>5. PICK g : /\ Leads(g, Young(m.bucket), m.bucket)
               /\ \A k \in DOMAIN Young(m.bucket) : Young(m.bucket)[k] = m.bucket[g[k]]
  BY MemoryParts, YoungLeads
<1>6. Fresh(m).sentinel = NoSentinel
      \/ (m.sentinel # NoSentinel /\ Fresh(m).sentinel.c = m.sentinel.c)
  BY <1>3
<1> QED BY <1>3, <1>4, <1>5, <1>6 DEF Thinner

\* Thinning twice is thinning.
LEMMA ThinnerTwice ==
    ASSUME NEW m, NEW m2, NEW m3, Thinner(m3, m2), Thinner(m2, m)
    PROVE  Thinner(m3, m)
<1>1. ASSUME NEW t, NEW s, NEW r, NEW h, NEW g, Leads(h, t, s), Leads(g, s, r)
      PROVE  /\ Leads([k \in DOMAIN t |-> g[h[k]]], t, r)
             /\ \A k \in DOMAIN t : h[k] \in DOMAIN s
  BY <1>1 DEF Leads
<1>2. PICK h : /\ Leads(h, m3.pending, m2.pending)
               /\ \A k \in DOMAIN m3.pending : m3.pending[k].n = m2.pending[h[k]].n
  BY DEF Thinner
<1>3. PICK g : /\ Leads(g, m2.pending, m.pending)
               /\ \A k \in DOMAIN m2.pending : m2.pending[k].n = m.pending[g[k]].n
  BY DEF Thinner
<1>4. PICK hb : /\ Leads(hb, m3.bucket, m2.bucket)
                /\ \A k \in DOMAIN m3.bucket : /\ m3.bucket[k].n = m2.bucket[hb[k]].n
                                               /\ m3.bucket[k].c = m2.bucket[hb[k]].c
  BY DEF Thinner
<1>5. PICK gb : /\ Leads(gb, m2.bucket, m.bucket)
                /\ \A k \in DOMAIN m2.bucket : /\ m2.bucket[k].n = m.bucket[gb[k]].n
                                               /\ m2.bucket[k].c = m.bucket[gb[k]].c
  BY DEF Thinner
<1> DEFINE p == [k \in DOMAIN m3.pending |-> g[h[k]]]
           b == [k \in DOMAIN m3.bucket |-> gb[hb[k]]]
<1>6. Leads(p, m3.pending, m.pending) /\ \A k \in DOMAIN m3.pending : h[k] \in DOMAIN m2.pending
  BY <1>1, <1>2, <1>3
<1>7. Leads(b, m3.bucket, m.bucket) /\ \A k \in DOMAIN m3.bucket : hb[k] \in DOMAIN m2.bucket
  BY <1>1, <1>4, <1>5
<1>8. \A k \in DOMAIN m3.pending : m3.pending[k].n = m.pending[p[k]].n
  BY <1>2, <1>3, <1>6
<1>9. \A k \in DOMAIN m3.bucket : /\ m3.bucket[k].n = m.bucket[b[k]].n
                                  /\ m3.bucket[k].c = m.bucket[b[k]].c
  BY <1>4, <1>5, <1>7
<1>10. m3.sentinel = NoSentinel \/ (m.sentinel # NoSentinel /\ m3.sentinel.c = m.sentinel.c)
  BY DEF Thinner
<1>11. m3 \in Memories /\ \A n \in Natives : m3.alias[n] \in {m.alias[n], 0}
  BY DEF Thinner
<1> HIDE DEF p, b
<1> QED BY <1>6, <1>7, <1>8, <1>9, <1>10, <1>11 DEF Thinner

\* What dpost_v2 keeps of the memory: less than is fresh, with some batches gone.
LEMMA UsableThins ==
    ASSUME NEW m \in Memories, watch \subseteq Files
    PROVE  /\ Thinner(Usable(m), m)
           /\ \A s \in Stages : /\ Usable(m).batches[s] \in {m.batches[s], <<>>}
                                /\ s \notin Existing => Usable(m).batches[s] = <<>>
<1> DEFINE dead == {s \in Stages : m.batches[s] # <<>> /\
                       (s \notin Existing \/ stage[s].age > TTL)}
           left == Fresh(m)
           P == {i \in DOMAIN left.pending : left.pending[i].n \in watch}
           B == {i \in DOMAIN left.bucket : {left.bucket[i].c, left.bucket[i].n} \subseteq watch}
           sen == IF left.sentinel.c \in watch THEN left.sentinel ELSE NoSentinel
           bat == [s \in Stages |-> IF s \in dead THEN <<>> ELSE m.batches[s]]
           ali == [n \in Natives |-> IF m.alias[n] \in dead THEN 0 ELSE m.alias[n]]
           u == Usable(m)
<1>1. u = [pending |-> Picked(left.pending, P), bucket |-> Picked(left.bucket, B),
           sentinel |-> sen, batches |-> bat, alias |-> ali]
  BY DEF Usable
<1>2. Thinner(left, m) /\ left.alias = m.alias /\ left \in Memories
  BY FreshThins DEF Thinner
<1>3. P \in SUBSET DOMAIN left.pending /\ B \in SUBSET DOMAIN left.bucket
  OBVIOUS
<1>4. /\ bat \in [Stages -> Seq(Pairs)]
      /\ \A s \in Stages : /\ bat[s] \in {m.batches[s], <<>>}
                           /\ s \notin Existing => bat[s] = <<>>
  <2>1. <<>> \in Seq(Pairs)
    OBVIOUS
  <2>2. \A s \in Stages : s \notin Existing /\ m.batches[s] # <<>> => s \in dead
    OBVIOUS
  <2> HIDE DEF dead
  <2> QED BY <2>1, <2>2, MemoryParts
<1>5. /\ ali \in [Natives -> Stages \cup {0}]
      /\ \A n \in Natives : ali[n] \in {left.alias[n], 0}
  <2> HIDE DEF dead
  <2> QED BY <1>2, MemoryParts
<1>6. /\ sen \in [c : Exports, age : Nat] \cup {NoSentinel}
      /\ sen = NoSentinel \/ (left.sentinel # NoSentinel /\ sen.c = left.sentinel.c)
  <2>1. left.sentinel \in [c : Exports, age : Nat] \cup {NoSentinel}
    BY <1>2, MemoryParts
  <2>2. left.sentinel.c \in watch => left.sentinel # NoSentinel
    BY MemoryParts
  <2> QED BY <2>1, <2>2
<1> HIDE DEF left, P, B, sen, bat, ali, u
<1>7. left.pending \in Seq(Waiting) /\ left.bucket \in Seq(Pairs)
  BY <1>2, MemoryParts
<1>8. PICK h : /\ Leads(h, Picked(left.pending, P), left.pending)
               /\ \A k \in DOMAIN Picked(left.pending, P) :
                     Picked(left.pending, P)[k] = left.pending[h[k]]
  BY <1>3, <1>7, PickedLeads
<1>9. PICK g : /\ Leads(g, Picked(left.bucket, B), left.bucket)
               /\ \A k \in DOMAIN Picked(left.bucket, B) :
                     Picked(left.bucket, B)[k] = left.bucket[g[k]]
  BY <1>3, <1>7, PickedLeads
<1>10. Picked(left.pending, P) \in Seq(Waiting) /\ Picked(left.bucket, B) \in Seq(Pairs)
  BY <1>3, <1>7, PickedLeads
<1>11. u \in Memories
  BY <1>1, <1>4, <1>5, <1>6, <1>10 DEF Memories
<1>12. /\ u.pending = Picked(left.pending, P) /\ u.bucket = Picked(left.bucket, B)
       /\ u.sentinel = sen /\ u.batches = bat /\ u.alias = ali
  BY <1>1
<1>13. Thinner(u, left)
  BY <1>5, <1>6, <1>8, <1>9, <1>11, <1>12 DEF Thinner
<1>14. Thinner(u, m)
  BY <1>2, <1>13, ThinnerTwice
<1> QED BY <1>4, <1>12, <1>14 DEF u

\* Everything that waits gets older.
Aged(m) == [m EXCEPT !.pending = [i \in DOMAIN @ |-> Older(@[i])],
                     !.bucket = [i \in DOMAIN @ |-> Older(@[i])],
                     !.sentinel = IF @ = NoSentinel THEN @ ELSE Older(@)]

\* Time takes nothing from the memory.
LEMMA AgedThins ==
    ASSUME NEW m \in Memories
    PROVE  Thinner(Aged(m), m) /\ Aged(m).batches = m.batches /\ Aged(m).alias = m.alias
<1> DEFINE p == [i \in DOMAIN m.pending |-> Older(m.pending[i])]
           b == [i \in DOMAIN m.bucket |-> Older(m.bucket[i])]
           s == IF m.sentinel = NoSentinel THEN m.sentinel ELSE Older(m.sentinel)
<1>1. ASSUME NEW x \in Waiting PROVE Older(x) \in Waiting /\ Older(x).n = x.n
  BY BatchAssumption DEF Waiting, Older
<1>2. ASSUME NEW x \in Pairs PROVE Older(x) \in Pairs /\ Older(x).n = x.n /\ Older(x).c = x.c
  BY BatchAssumption DEF Pairs, Older
<1>3. ASSUME NEW x \in [c : Exports, age : Nat]
      PROVE  Older(x) \in [c : Exports, age : Nat] /\ Older(x).c = x.c
  BY BatchAssumption DEF Older
<1>4. p \in Seq(Waiting) /\ DOMAIN p = DOMAIN m.pending
      /\ \A i \in DOMAIN p : p[i].n = m.pending[i].n
  <2>1. p \in [1..Len(m.pending) -> Waiting] /\ Len(m.pending) \in Nat
    BY <1>1, MemoryParts
  <2>2. DOMAIN p = DOMAIN m.pending /\ \A i \in DOMAIN p : p[i].n = m.pending[i].n
    BY <1>1, MemoryParts
  <2> HIDE DEF p
  <2> QED BY <2>1, <2>2
<1>5. b \in Seq(Pairs) /\ DOMAIN b = DOMAIN m.bucket
      /\ \A i \in DOMAIN b : b[i].n = m.bucket[i].n /\ b[i].c = m.bucket[i].c
  <2>1. b \in [1..Len(m.bucket) -> Pairs] /\ Len(m.bucket) \in Nat
    BY <1>2, MemoryParts
  <2>2. /\ DOMAIN b = DOMAIN m.bucket
        /\ \A i \in DOMAIN b : b[i].n = m.bucket[i].n /\ b[i].c = m.bucket[i].c
    BY <1>2, MemoryParts
  <2> HIDE DEF b
  <2> QED BY <2>1, <2>2
<1>6. /\ s \in [c : Exports, age : Nat] \cup {NoSentinel}
      /\ s = NoSentinel \/ (m.sentinel # NoSentinel /\ s.c = m.sentinel.c)
  BY <1>3, MemoryParts
<1>7. Aged(m) = [m EXCEPT !.pending = p, !.bucket = b, !.sentinel = s]
  BY DEF Aged
<1> HIDE DEF p, b, s
<1>8. Aged(m) \in Memories
  BY <1>4, <1>5, <1>6, <1>7 DEF Memories
<1>9. /\ Aged(m).pending = p /\ Aged(m).bucket = b /\ Aged(m).sentinel = s
      /\ Aged(m).batches = m.batches /\ Aged(m).alias = m.alias
  BY <1>7 DEF Memories
<1>10. PICK h : Leads(h, p, m.pending) /\ \A k \in DOMAIN p : h[k] = k
  BY <1>4, LeadsSame
<1>11. PICK g : Leads(g, b, m.bucket) /\ \A k \in DOMAIN b : g[k] = k
  BY <1>5, LeadsSame
<1> QED BY <1>4, <1>5, <1>6, <1>8, <1>9, <1>10, <1>11 DEF Thinner

\* What the memory tracks, by its parts.
LEMMA TrackedParts ==
    ASSUME NEW m, NEW f
    PROVE  Tracked(m, f) <=>
              \/ f = m.sentinel.c
              \/ \E i \in DOMAIN m.bucket : m.bucket[i].c = f \/ m.bucket[i].n = f
              \/ \E i \in DOMAIN m.pending : m.pending[i].n = f
BY DEF Tracked, Listed

\* Noting a file tracks that file and no other, once if it was not tracked before.
LEMMA HandleAdds ==
    ASSUME NEW m \in Memories, NEW f \in Files, Exclusive(m),
           f \in Natives => m.sentinel = NoSentinel
    PROVE  /\ Handle(m, f) \in Memories /\ Exclusive(Handle(m, f))
           /\ Handle(m, f).batches = m.batches /\ Handle(m, f).alias = m.alias
           /\ \A g \in Files : Tracked(Handle(m, f), g) => Tracked(m, g) \/ g = f
           /\ Distinct(m) /\ ~Tracked(m, f) => Distinct(Handle(m, f))
<1> DEFINE m2 == Handle(m, f)
           L == Len(m.pending)
           K == Len(m.bucket)
<1>0. /\ m.pending \in Seq(Waiting) /\ m.bucket \in Seq(Pairs) /\ L \in Nat /\ K \in Nat
      /\ DOMAIN m.pending = 1..L /\ DOMAIN m.bucket = 1..K
      /\ \A i \in 1..L : m.pending[i].n \in Natives
      /\ \A i \in 1..K : m.bucket[i].n \in Natives /\ m.bucket[i].c \in Exports
      /\ NoSentinel.c \notin Files
      /\ m.sentinel # NoSentinel => m.sentinel.c \in Exports
      /\ Natives \cap Exports = {} /\ 0 \in Nat
  BY MemoryParts, BatchAssumption
<1>1. CASE f \in Natives
  <2> DEFINE x == [n |-> f, age |-> 0]
             p == Append(m.pending, x)
  <2>1. m2 = [m EXCEPT !.pending = p]
    BY <1>0, <1>1 DEF Handle, HandleNative
  <2>2. x \in Waiting /\ x.n = f
    BY <1>1 DEF Waiting
  <2> HIDE DEF x
  <2>3. /\ p \in Seq(Waiting) /\ DOMAIN p = 1..L + 1 /\ p[L + 1] = x
        /\ \A i \in 1..L : p[i] = m.pending[i]
    BY <1>0, <2>2
  <2> HIDE DEF p
  <2>4. /\ m2 \in Memories /\ m2.pending = p /\ m2.bucket = m.bucket
        /\ m2.sentinel = m.sentinel /\ m2.batches = m.batches /\ m2.alias = m.alias
    BY <2>1, <2>3 DEF Memories
  <2> HIDE DEF m2
  <2>5. Exclusive(m2)
    BY <1>1, <2>4 DEF Exclusive
  <2>6. ASSUME NEW g \in Files, Tracked(m2, g), g # f PROVE Tracked(m, g)
    <3>1. (\E i \in DOMAIN p : p[i].n = g) => \E i \in DOMAIN m.pending : m.pending[i].n = g
      <4> SUFFICES ASSUME NEW i \in DOMAIN p, p[i].n = g
                   PROVE  \E j \in DOMAIN m.pending : m.pending[j].n = g
        OBVIOUS
      <4>1. i \in 1..L
        BY <1>0, <2>2, <2>3, <2>6
      <4> QED BY <1>0, <2>3, <4>1
    <3> QED BY <2>4, <2>6, <3>1, TrackedParts
  <2>7. ASSUME Distinct(m), ~Tracked(m, f) PROVE Distinct(m2)
    <3>1. /\ \A i \in 1..L : m.pending[i].n # f
          /\ \A i \in 1..K : m.bucket[i].n # f
      BY <1>0, <2>7, TrackedParts
    <3>2. \A i, j \in DOMAIN p : p[i].n = p[j].n => i = j
      <4> SUFFICES ASSUME NEW i \in DOMAIN p, NEW j \in DOMAIN p, p[i].n = p[j].n PROVE i = j
        OBVIOUS
      <4>1. i \in 1..L \/ i = L + 1
        BY <1>0, <2>3
      <4>2. j \in 1..L \/ j = L + 1
        BY <1>0, <2>3
      <4> QED BY <4>2, <1>0, <2>2, <2>3, <2>7, <3>1, <4>1 DEF Distinct
    <3>3. \A i \in 1..K, k \in DOMAIN p : p[k].n # m.bucket[i].n
      <4> SUFFICES ASSUME NEW i \in 1..K, NEW k \in DOMAIN p PROVE p[k].n # m.bucket[i].n
        OBVIOUS
      <4>1. k \in 1..L \/ k = L + 1
        BY <1>0, <2>3
      <4> QED BY <1>0, <2>2, <2>3, <2>7, <3>1, <4>1 DEF Distinct
    <3> QED BY <1>0, <2>4, <2>7, <3>2, <3>3 DEF Distinct
  <2> QED BY <2>4, <2>5, <2>6, <2>7 DEF m2
<1>2. CASE f \in Exports /\ m.pending = <<>>
  <2> DEFINE s == [c |-> f, age |-> 0]
  <2>1. m2 = [m EXCEPT !.sentinel = s]
    BY <1>2 DEF Handle, HandleExport
  <2>2. s \in [c : Exports, age : Nat] /\ s.c = f
    BY <1>2
  <2> HIDE DEF s
  <2>3. /\ m2 \in Memories /\ m2.pending = m.pending /\ m2.bucket = m.bucket
        /\ m2.sentinel = s /\ m2.batches = m.batches /\ m2.alias = m.alias
    BY <2>1, <2>2 DEF Memories
  <2> HIDE DEF m2
  <2>4. Exclusive(m2)
    BY <1>2, <2>3 DEF Exclusive
  <2>5. \A g \in Files : Tracked(m2, g) => Tracked(m, g) \/ g = f
    BY <2>2, <2>3, TrackedParts
  <2>6. ASSUME Distinct(m), ~Tracked(m, f) PROVE Distinct(m2)
    <3>1. \A i \in DOMAIN m.bucket : m.bucket[i].c # f
      BY <2>6, TrackedParts
    <3> QED BY <2>2, <2>3, <2>6, <3>1 DEF Distinct
  <2> QED BY <2>3, <2>4, <2>5, <2>6 DEF m2
<1>3. CASE f \in Exports /\ m.pending # <<>>
  <2> DEFINE x == [c |-> f, n |-> Head(m.pending).n, age |-> 0]
             p == Tail(m.pending)
             b == Append(m.bucket, x)
  <2>1. m2 = [m EXCEPT !.pending = p, !.bucket = b]
    BY <1>3 DEF Handle, HandleExport
  <2>2. /\ L > 0 /\ Head(m.pending) = m.pending[1] /\ 1 \in 1..L
        /\ p \in Seq(Waiting) /\ DOMAIN p = 1..L - 1
        /\ \A i \in 1..L - 1 : p[i] = m.pending[i + 1] /\ i + 1 \in 1..L
    BY <1>0, <1>3
  <2>3. x \in Pairs /\ x.n = m.pending[1].n /\ x.c = f /\ m.pending[1].n \in Natives
    BY <1>0, <1>3, <2>2 DEF Pairs
  <2> HIDE DEF x, p
  <2>4. /\ b \in Seq(Pairs) /\ DOMAIN b = 1..K + 1 /\ b[K + 1] = x
        /\ \A i \in 1..K : b[i] = m.bucket[i]
    BY <1>0, <2>3
  <2> HIDE DEF b
  <2>5. /\ m2 \in Memories /\ m2.pending = p /\ m2.bucket = b
        /\ m2.sentinel = m.sentinel /\ m2.batches = m.batches /\ m2.alias = m.alias
    BY <2>1, <2>2, <2>4 DEF Memories
  <2> HIDE DEF m2
  <2>6. m.sentinel = NoSentinel
    BY <1>3 DEF Exclusive
  <2>7. Exclusive(m2)
    BY <2>5, <2>6 DEF Exclusive
  <2>8. ASSUME NEW g \in Files, Tracked(m2, g), g # f PROVE Tracked(m, g)
    <3>1. ASSUME NEW i \in DOMAIN b, b[i].c = g \/ b[i].n = g PROVE Tracked(m, g)
      <4>1. i \in 1..K \/ i = K + 1
        BY <1>0, <2>4
      <4> QED BY <1>0, <2>2, <2>3, <2>4, <2>8, <3>1, <4>1, TrackedParts
    <3>2. ASSUME NEW i \in DOMAIN p, p[i].n = g PROVE Tracked(m, g)
      BY <1>0, <2>2, <3>2, TrackedParts
    <3> QED BY <2>5, <2>8, <3>1, <3>2, TrackedParts
  <2>9. ASSUME Distinct(m), ~Tracked(m, f) PROVE Distinct(m2)
    <3>1. \A i \in 1..K : m.bucket[i].c # f /\ m.bucket[i].n # m.pending[1].n
      BY <1>0, <2>2, <2>9, TrackedParts DEF Distinct
    <3>2. \A i, j \in DOMAIN p : p[i].n = p[j].n => i = j
      <4> SUFFICES ASSUME NEW i \in DOMAIN p, NEW j \in DOMAIN p, p[i].n = p[j].n PROVE i = j
        OBVIOUS
      <4>1. /\ p[i] = m.pending[i + 1] /\ i + 1 \in DOMAIN m.pending /\ i \in Int
            /\ p[j] = m.pending[j + 1] /\ j + 1 \in DOMAIN m.pending /\ j \in Int
        BY <1>0, <2>2
      <4>2. i + 1 = j + 1
        BY <2>9, <4>1 DEF Distinct
      <4> QED BY <4>1, <4>2
    <3>3. \A i, j \in DOMAIN b : b[i].n = b[j].n \/ b[i].c = b[j].c => i = j
      <4> SUFFICES ASSUME NEW i \in DOMAIN b, NEW j \in DOMAIN b,
                          b[i].n = b[j].n \/ b[i].c = b[j].c
                   PROVE  i = j
        OBVIOUS
      <4>1. (i \in 1..K \/ i = K + 1) /\ (j \in 1..K \/ j = K + 1)
        BY <1>0, <2>4
      <4> QED BY <1>0, <2>3, <2>4, <2>9, <3>1, <4>1 DEF Distinct
    <3>4. \A i \in DOMAIN b : b[i].c # m2.sentinel.c
      <4>1. \A i \in DOMAIN b : b[i] \in Pairs
        BY <2>4
      <4> QED BY <1>0, <2>5, <2>6, <4>1 DEF Pairs, Files
    <3>5. \A k \in 1..L - 1 : p[k].n # m.pending[1].n
      <4> SUFFICES ASSUME NEW k \in 1..L - 1, p[k].n = m.pending[1].n PROVE FALSE
        OBVIOUS
      <4>1. k + 1 \in 1..L /\ m.pending[k + 1].n = m.pending[1].n
        BY <2>2
      <4>2. k + 1 = 1
        BY <1>0, <2>2, <2>9, <4>1 DEF Distinct
      <4> QED BY <1>0, <4>2
    <3>6. \A i \in DOMAIN b, k \in DOMAIN p : p[k].n # b[i].n
      <4> SUFFICES ASSUME NEW i \in DOMAIN b, NEW k \in DOMAIN p PROVE p[k].n # b[i].n
        OBVIOUS
      <4>1. p[k] = m.pending[k + 1] /\ k + 1 \in DOMAIN m.pending /\ k \in 1..L - 1
        BY <1>0, <2>2
      <4>2. CASE i \in 1..K
        <5>1. b[i] = m.bucket[i] /\ i \in DOMAIN m.bucket
          BY <1>0, <2>4, <4>2
        <5> QED BY <2>9, <4>1, <5>1 DEF Distinct
      <4>3. CASE i = K + 1
        BY <2>3, <2>4, <3>5, <4>1, <4>3
      <4> QED BY <1>0, <2>4, <4>2, <4>3
    <3> QED BY <2>5, <3>2, <3>3, <3>4, <3>6 DEF Distinct
  <2> QED BY <2>5, <2>7, <2>8, <2>9 DEF m2
<1> QED BY <1>1, <1>2, <1>3 DEF Files

\* A memory that tracks nothing.
LEMMA NothingTracked ==
    ASSUME NEW m, m.pending = <<>>, m.bucket = <<>>, m.sentinel = NoSentinel
    PROVE  /\ Exclusive(m) /\ Distinct(m) /\ Unaliased(m)
           /\ \A f \in Files : ~Tracked(m, f)
<1>1. DOMAIN m.pending = {} /\ DOMAIN m.bucket = {}
  OBVIOUS
<1>2. NoSentinel.c \notin Files
  BY BatchAssumption DEF NoSentinel, NoFile, Files
<1>3. \A f \in Files : ~Tracked(m, f)
  BY <1>1, <1>2, TrackedParts
<1> QED BY <1>1, <1>3 DEF Exclusive, Distinct, Unaliased, Files

\* Batches and aliases may change while the tracked files stay.
LEMMA SameTracked ==
    ASSUME NEW m \in Memories, NEW m2 \in Memories,
           m2.pending = m.pending, m2.bucket = m.bucket, m2.sentinel = m.sentinel,
           \A n \in Natives : m2.alias[n] \in {m.alias[n], 0}
    PROVE  Thinner(m2, m)
<1>1. PICK h : Leads(h, m2.pending, m.pending) /\ \A k \in DOMAIN m2.pending : h[k] = k
  BY LeadsSame
<1>2. PICK g : Leads(g, m2.bucket, m.bucket) /\ \A k \in DOMAIN m2.bucket : g[k] = k
  BY LeadsSame
<1> QED BY <1>1, <1>2 DEF Thinner

(***************************************************************************)
(* The steps.                                                              *)
(***************************************************************************)

\* The start satisfies the invariant.
LEMMA BatchStart == BatchInit => BatchInv
<1> SUFFICES ASSUME BatchInit PROVE BatchInv
  OBVIOUS
<1>1. /\ mem = NoMemory /\ watch = {} /\ stage = [s \in Stages |-> NoStage]
      /\ work = NoWork
  BY DEF BatchInit, Start
<1>2. /\ mem.pending = <<>> /\ mem.bucket = <<>> /\ mem.sentinel = NoSentinel
      /\ mem.batches = [s \in Stages |-> <<>>] /\ mem.alias = [n \in Natives |-> 0]
  BY <1>1 DEF NoMemory
<1>3. mem \in Memories
  <2>1. <<>> \in Seq(Waiting) /\ <<>> \in Seq(Pairs)
    OBVIOUS
  <2> QED BY <1>1, <2>1 DEF NoMemory, Memories
<1>4. BatchType /\ Whole
  BY <1>1, <1>3 DEF BatchType, Whole, Folders
<1>5. Exclusive(mem) /\ LegacyInv
  BY <1>2, NothingTracked DEF LegacyInv, Inside
<1> QED BY <1>1, <1>4, <1>5 DEF BatchInv, WorkInv

\* Files come and go, and the memory is lost by a restart.
LEMMA SurroundingsStep ==
    ASSUME BatchInv,
           Restart \/ \E f \in Files : CreateFile(f) \/ Touch(f) \/ RemoveFile(f) \/ PrepareGone(f)
    PROVE  BatchInv'
<1>0. BatchType /\ Exclusive(mem) /\ WorkInv /\ LegacyInv /\ ((Legacy => ~mishap) => Whole)
  BY DEF BatchInv
<1>1. CASE Restart
  <2>1. /\ mem' = NoMemory /\ work' = NoWork /\ mishap' = TRUE /\ ~mishap
        /\ UNCHANGED <<kind, watch, stage>>
    BY <1>1 DEF Restart
  <2>2. /\ mem'.pending = <<>> /\ mem'.bucket = <<>> /\ mem'.sentinel = NoSentinel
        /\ mem'.batches = [s \in Stages |-> <<>>] /\ mem'.alias = [n \in Natives |-> 0]
    BY <2>1 DEF NoMemory
  <2>3. mem' \in Memories
    <3>1. <<>> \in Seq(Waiting) /\ <<>> \in Seq(Pairs)
      OBVIOUS
    <3> QED BY <2>1, <3>1 DEF NoMemory, Memories
  <2>4. BatchType' /\ Whole'
    BY <1>0, <2>1, <2>2, <2>3 DEF BatchType, Whole
  <2>5. Exclusive(mem') /\ Distinct(mem') /\ Unaliased(mem') /\ Inside(mem', watch')
    BY <2>2, NothingTracked DEF Inside
  <2> QED BY <2>1, <2>4, <2>5 DEF BatchInv, WorkInv, LegacyInv
<1>2. ASSUME NEW f \in Files, CreateFile(f) \/ Touch(f) \/ RemoveFile(f) \/ PrepareGone(f)
      PROVE  BatchInv'
  <2>1. /\ UNCHANGED <<kind, mem, stage, work>> /\ watch' \subseteq Files
        /\ (mishap' = mishap /\ watch \subseteq watch') \/ mishap'
        /\ mishap => mishap'
    BY <1>0, <1>2 DEF BatchType, CreateFile, Touch, RemoveFile, PrepareGone
  <2>2. BatchType' /\ WorkInv' /\ Exclusive(mem') /\ (Whole => Whole')
    BY <1>0, <2>1 DEF BatchType, WorkInv, Whole
  <2>3. LegacyInv'
    BY <1>0, <2>1 DEF LegacyInv, Inside, Legacy
  <2> QED BY <1>0, <2>1, <2>2, <2>3 DEF BatchInv, Legacy
<1> QED BY <1>1, <1>2

\* Everything gets older, nothing goes.
LEMMA TimeStep == ASSUME BatchInv, TimePasses PROVE BatchInv'
<1>0. BatchType /\ Exclusive(mem) /\ WorkInv /\ LegacyInv /\ ((Legacy => ~mishap) => Whole)
  BY DEF BatchInv
<1>1. /\ mem' = Aged(mem) /\ UNCHANGED <<kind, watch, work, mishap>>
      /\ stage' = [s \in Stages |-> IF s \in Existing THEN Older(stage[s]) ELSE NoStage]
  BY DEF TimePasses, Aged
<1>2. /\ mem \in Memories /\ Thinner(mem', mem)
      /\ mem'.batches = mem.batches /\ mem'.alias = mem.alias
  BY <1>0, <1>1, AgedThins DEF BatchType
<1>3. /\ Exclusive(mem') /\ (Distinct(mem) => Distinct(mem'))
      /\ (\A f \in Files : Tracked(mem', f) => Tracked(mem, f))
      /\ (Unaliased(mem) => Unaliased(mem'))
  BY <1>0, <1>2, ThinnerKeeps
<1>4. ASSUME NEW s \in Stages
      PROVE  /\ stage'[s] \in Folders
             /\ stage[s] # NoStage <=> stage'[s] # NoStage
             /\ stage[s] # NoStage => stage'[s].files = stage[s].files
  <2>1. CASE s \notin Existing
    BY <1>1, <2>1 DEF Existing, Folders
  <2>2. CASE s \in Existing
    <3>1. stage[s] \in [files : SUBSET Files, age : Nat] /\ stage'[s] = Older(stage[s])
      BY <1>0, <1>1, <2>2 DEF BatchType, Folders, Existing
    <3>2. /\ stage'[s] \in [files : SUBSET Files, age : Nat]
          /\ stage'[s].files = stage[s].files
      BY <3>1, BatchAssumption DEF Older
    <3>3. \A x \in [files : SUBSET Files, age : Nat] : x # NoStage
      BY DEF NoStage
    <3> QED BY <3>1, <3>2, <3>3 DEF Folders
  <2> QED BY <2>1, <2>2
<1>5. BatchType'
  <2>1. stage' \in [Stages -> Folders]
    BY <1>1, <1>4
  <2> QED BY <1>0, <1>1, <1>2, <2>1 DEF BatchType, Thinner
<1>6. WorkInv' /\ (Whole => Whole')
  BY <1>0, <1>1, <1>2, <1>4 DEF BatchType, WorkInv, Whole
<1>7. LegacyInv'
  BY <1>0, <1>1, <1>3 DEF LegacyInv, Inside, Legacy
<1> QED BY <1>0, <1>1, <1>3, <1>5, <1>6, <1>7 DEF BatchInv, Legacy

\* Where a folder is free, the one that is taken is.
LEMMA FreeStageIsFree ==
    /\ FreeStage \in Stages /\ FreeStage # 0
    /\ Existing # Stages => stage[FreeStage] = NoStage
<1>1. CASE Existing # Stages
  <2> DEFINE T == Stages \ Existing
  <2>1. T \subseteq Nat /\ T # {}
    BY <1>1, BatchAssumption DEF Existing
  <2>2. \E s \in T : \A t \in T : s <= t
    <3> HIDE DEF T
    <3> QED BY <2>1, LeastNatural
  <2>3. FreeStage \in T
    BY <1>1, <2>2 DEF FreeStage
  <2> QED BY <2>3, BatchAssumption DEF Existing
<1>2. CASE Existing = Stages
  <2>1. \E s \in Stages : \A t \in Stages : t <= s
    BY BatchAssumption
  <2>2. FreeStage \in Stages
    BY <1>2, <2>1 DEF FreeStage
  <2> QED BY <1>2, <2>2, BatchAssumption
<1> QED BY <1>1, <1>2

\* Preprocessing notes the file of the event, purges what is stale and moves it
\* out of the watch folder.
LEMMA PrepareStep == ASSUME BatchInv, NEW f \in Files, Prepare(f) PROVE BatchInv'
<1>0. BatchType /\ Exclusive(mem) /\ WorkInv /\ LegacyInv /\ ((Legacy => ~mishap) => Whole)
  BY DEF BatchInv
<1> DEFINE m == Note(mem, f)
           S == StaleStages(m)
           r == Fresh(m)
<1>1. /\ Legacy /\ work = NoWork /\ NotAliased(f) /\ f \in watch /\ ~Completes(mem, f)
      /\ mem' = Forget(r, S)
      /\ stage' = [s \in Stages |-> IF s \in S THEN NoStage ELSE stage[s]]
      /\ kind' = kind /\ work' = work
  BY DEF Prepare, Event
<1>2. PICK stay \in Stuck(Purged(m) \cap watch) :
         watch' = watch \ (Purged(m) \ stay) /\ mishap' = (mishap \/ stay # {})
  BY DEF Prepare
<1>3. mem \in Memories /\ Distinct(mem) /\ Unaliased(mem) /\ (~mishap => Inside(mem, watch))
  BY <1>0, <1>1 DEF BatchType, LegacyInv
<1>4. /\ m \in Memories /\ Exclusive(m) /\ Distinct(m)
      /\ m.batches = mem.batches /\ m.alias = mem.alias
      /\ \A g \in Files : Tracked(m, g) => Tracked(mem, g) \/ g = f
  <2>1. CASE Tracked(mem, f)
    BY <1>0, <1>3, <2>1 DEF Note
  <2>2. CASE ~Tracked(mem, f)
    <3>1. f \in Natives => mem.sentinel = NoSentinel
      BY <1>1, <2>2 DEF Completes
    <3>2. m = Handle(mem, f)
      BY <2>2 DEF Note
    <3> QED BY <1>0, <1>3, <2>2, <3>1, <3>2, HandleAdds
  <2> QED BY <2>1, <2>2
<1>5. Unaliased(m)
  BY <1>1, <1>3, <1>4 DEF Unaliased, NotAliased, Files
<1> HIDE DEF m, S
<1>6. Thinner(r, m) /\ r.batches = m.batches /\ r.alias = m.alias /\ r \in Memories
  BY <1>4, FreshThins DEF Thinner
<1> HIDE DEF r
<1>7. mem' \in Memories /\ Thinner(mem', r) /\ mem'.batches = mem.batches
  <2> DEFINE a == [n \in Natives |-> IF kind # "psa" /\ r.alias[n] \in S THEN 0 ELSE r.alias[n]]
  <2>1. mem' = [r EXCEPT !.alias = a]
    BY <1>1 DEF Forget
  <2>2. a \in [Natives -> Stages \cup {0}] /\ \A n \in Natives : a[n] \in {r.alias[n], 0}
    BY <1>6, MemoryParts
  <2> HIDE DEF a
  <2>3. mem' \in Memories
    BY <1>6, <2>1, <2>2 DEF Memories
  <2>4. /\ mem'.pending = r.pending /\ mem'.bucket = r.bucket /\ mem'.sentinel = r.sentinel
        /\ mem'.batches = r.batches /\ mem'.alias = a
    BY <1>6, <2>1 DEF Memories
  <2>5. Thinner(mem', r)
    BY <1>6, <2>2, <2>3, <2>4, SameTracked
  <2> QED BY <1>4, <1>6, <2>3, <2>4, <2>5
<1>8. /\ Exclusive(mem') /\ Distinct(mem') /\ Unaliased(mem')
      /\ \A g \in Files : Tracked(mem', g) => Tracked(r, g) /\ Tracked(m, g)
  <2>1. /\ Exclusive(r) /\ Distinct(r) /\ Unaliased(r)
        /\ \A g \in Files : Tracked(r, g) => Tracked(m, g)
    BY <1>4, <1>5, <1>6, ThinnerKeeps
  <2>2. /\ Exclusive(mem') /\ Distinct(mem') /\ Unaliased(mem')
        /\ \A g \in Files : Tracked(mem', g) => Tracked(r, g)
    BY <1>6, <1>7, <2>1, ThinnerKeeps
  <2> QED BY <2>1, <2>2
<1>9. ~mishap' => Inside(mem', watch')
  <2> SUFFICES ASSUME ~mishap', NEW g \in Files, Tracked(mem', g) PROVE g \in watch'
    BY DEF Inside
  <2>1. ~mishap /\ watch' = watch \ Purged(m)
    BY <1>2
  <2>2. g \in watch
    BY <1>1, <1>3, <1>4, <1>8, <2>1 DEF Inside
  <2>3. g \notin Purged(m)
    BY <1>8 DEF Purged, r
  <2> QED BY <2>1, <2>2, <2>3
<1>10. /\ stage' \in [Stages -> Folders]
       /\ \A s \in Stages : stage'[s] # NoStage => stage'[s] = stage[s]
  BY <1>0, <1>1 DEF BatchType, Folders
<1>11. BatchType'
  BY <1>0, <1>1, <1>2, <1>7, <1>10 DEF BatchType
<1>12. WorkInv'
  BY <1>1 DEF WorkInv
<1>13. (mishap => mishap') /\ (Whole => Whole')
  BY <1>2, <1>7, <1>10 DEF Whole
<1>14. LegacyInv'
  BY <1>8, <1>9 DEF LegacyInv
<1> QED BY <1>0, <1>1, <1>8, <1>11, <1>12, <1>13, <1>14 DEF BatchInv, Legacy

\* A native that completes its pair closes a batch of files that are tracked, and
\* itself.
LEMMA BatchParts ==
    ASSUME NEW m \in Memories, m.sentinel # NoSentinel, NEW n \in Natives
    PROVE  /\ Batch(m, n) \in Seq(Pairs) /\ Batch(m, n) # <<>>
           /\ Listed(Batch(m, n)) \subseteq Files
           /\ \A g \in Listed(Batch(m, n)) : Tracked(m, g) \/ g = n
<1> DEFINE x == [c |-> m.sentinel.c, n |-> n, age |-> 0]
           b == Batch(m, n)
           K == Len(m.bucket)
<1>1. x \in Pairs /\ x.c = m.sentinel.c /\ x.n = n
  BY MemoryParts DEF Pairs
<1>2. b = Append(m.bucket, x)
  BY DEF Batch
<1> HIDE DEF x, b
<1>3. /\ b \in Seq(Pairs) /\ DOMAIN b = 1..K + 1 /\ b[K + 1] = x /\ K \in Nat
      /\ \A i \in 1..K : b[i] = m.bucket[i] /\ i \in DOMAIN m.bucket
  BY <1>1, <1>2, MemoryParts
<1>4. b # <<>>
  BY <1>3
<1>5. ASSUME NEW i \in DOMAIN b
      PROVE  /\ b[i].c \in Files /\ b[i].n \in Files
             /\ Tracked(m, b[i].c) /\ (Tracked(m, b[i].n) \/ b[i].n = n)
  <2>0. b[i] \in Pairs
    BY <1>3
  <2>1. b[i].c \in Files /\ b[i].n \in Files
    BY <2>0 DEF Pairs, Files
  <2>2. CASE i \in 1..K
    BY <1>3, <2>1, <2>2, TrackedParts
  <2>3. CASE i = K + 1
    BY <1>1, <1>3, <2>1, <2>3, TrackedParts
  <2> QED BY <1>3, <2>2, <2>3, <2>1
<1>6. Listed(b) \subseteq Files /\ \A g \in Listed(b) : Tracked(m, g) \/ g = n
  BY <1>5 DEF Listed
<1> QED BY <1>3, <1>4, <1>6 DEF b

\* The memory behind a flush: nothing is tracked, the batch is known.
LEMMA FlushedParts ==
    ASSUME NEW m \in Memories, NEW s \in Stages, NEW pairs \in Seq(Pairs), NEW n \in Natives
    PROVE  LET m2 == Flushed(m, s, pairs, n)
           IN /\ m2 \in Memories /\ Exclusive(m2) /\ Distinct(m2) /\ Unaliased(m2)
              /\ \A f \in Files : ~Tracked(m2, f)
              /\ m2.batches[s] = pairs /\ m2.alias[n] = s
              /\ \A t \in Stages : t # s => m2.batches[t] = m.batches[t]
<1> DEFINE m2 == Flushed(m, s, pairs, n)
           b == [m.batches EXCEPT ![s] = pairs]
           a == [x \in Natives |->
                   IF x = n \/ (kind = "kinexus" /\ x \in Listed(pairs)) THEN s ELSE m.alias[x]]
<1>1. m2 = [pending |-> <<>>, bucket |-> <<>>, sentinel |-> NoSentinel, batches |-> b, alias |-> a]
  BY DEF Flushed
<1>2. /\ b \in [Stages -> Seq(Pairs)] /\ b[s] = pairs
      /\ \A t \in Stages : t # s => b[t] = m.batches[t]
  BY MemoryParts
<1>3. a \in [Natives -> Stages \cup {0}] /\ a[n] = s
  BY MemoryParts
<1>4. <<>> \in Seq(Waiting) /\ <<>> \in Seq(Pairs)
  OBVIOUS
<1> HIDE DEF a, b, m2
<1>5. m2 \in Memories
  BY <1>1, <1>2, <1>3, <1>4 DEF Memories
<1>6. /\ m2.pending = <<>> /\ m2.bucket = <<>> /\ m2.sentinel = NoSentinel
      /\ m2.batches = b /\ m2.alias = a
  BY <1>1
<1>7. /\ Exclusive(m2) /\ Distinct(m2) /\ Unaliased(m2) /\ \A f \in Files : ~Tracked(m2, f)
  BY <1>6, NothingTracked
<1> QED BY <1>2, <1>3, <1>5, <1>6, <1>7 DEF m2

\* A batch is staged by ipat_watchdog.
LEMMA FlushStep == ASSUME BatchInv, NEW f \in Files, Flush(f) PROVE BatchInv'
<1>0. BatchType /\ Exclusive(mem) /\ WorkInv /\ LegacyInv /\ ((Legacy => ~mishap) => Whole)
  BY DEF BatchInv
<1> DEFINE pairs == Batch(mem, f)
           s == FreeStage
           behind(stay) == {x \in Natives : \E i \in DOMAIN pairs :
                              pairs[i].n = x /\ pairs[i].c \in stay}
           moved(stay) == (Listed(pairs) \cap watch) \ (stay \cup behind(stay))
<1>1. /\ Legacy /\ f \in watch /\ Completes(mem, f) /\ kind' = kind
  BY DEF Flush
<1>2. PICK stay \in Stuck(Listed(pairs) \cap watch) :
         /\ stage' = [stage EXCEPT ![s] = [files |-> @.files \cup moved(stay), age |-> 0]]
         /\ watch' = watch \ moved(stay)
         /\ mishap' = (mishap \/ stay # {} \/ Existing = Stages)
         /\ mem' = Flushed(mem, s, pairs, f)
         /\ Advertise(f, s)
  BY DEF Flush
<1>3. f \in Natives /\ mem.sentinel # NoSentinel /\ mem \in Memories /\ (~mishap => Inside(mem, watch))
  BY <1>0, <1>1 DEF Completes, BatchType, LegacyInv
<1>4. /\ s \in Stages /\ s # 0 /\ stage[s].files \subseteq Files
      /\ Existing # Stages => stage[s].files = {}
  BY <1>0, FreeStageIsFree DEF BatchType, Folders, NoStage
<1>5. /\ pairs \in Seq(Pairs) /\ Listed(pairs) \subseteq Files
      /\ \A g \in Listed(pairs) : Tracked(mem, g) \/ g = f
  BY <1>3, BatchParts
<1>6. moved(stay) \subseteq Files /\ (stay = {} => moved(stay) = Listed(pairs) \cap watch)
  BY <1>5
<1> HIDE DEF pairs, s, moved, behind
<1>7. /\ mem' \in Memories /\ Exclusive(mem') /\ Distinct(mem') /\ Unaliased(mem')
      /\ \A g \in Files : ~Tracked(mem', g)
      /\ mem'.batches[s] = pairs /\ mem'.alias[f] = s
      /\ \A t \in Stages : t # s => mem'.batches[t] = mem.batches[t]
  BY <1>2, <1>3, <1>4, <1>5, FlushedParts
<1>8. /\ stage' \in [Stages -> Folders] /\ stage'[s] # NoStage
      /\ Existing # Stages => stage'[s].files = moved(stay)
      /\ \A t \in Stages : t # s => stage'[t] = stage[t]
  <2> DEFINE x == [files |-> stage[s].files \cup moved(stay), age |-> 0]
  <2>1. stage' = [stage EXCEPT ![s] = x]
    BY <1>2
  <2>2. x \in Folders /\ x # NoStage /\ (Existing # Stages => x.files = moved(stay))
    BY <1>4, <1>6 DEF Folders, NoStage
  <2> HIDE DEF x
  <2> QED BY <1>0, <1>4, <2>1, <2>2 DEF BatchType
<1>9. work' = [src |-> f, to |-> s]
  BY <1>2, <1>8 DEF Advertise
<1>10. BatchType'
  <2>1. work' \in [src : Natives, to : Stages \cup {0}]
    BY <1>3, <1>4, <1>9
  <2>2. watch' \subseteq Files
    BY <1>0, <1>2 DEF BatchType
  <2> QED BY <1>7, <1>8, <2>1, <2>2 DEF BatchType
<1>11. WorkInv'
  BY <1>4, <1>7, <1>8, <1>9 DEF WorkInv
<1>12. LegacyInv'
  BY <1>7 DEF LegacyInv, Inside
<1>13. ASSUME ~mishap' PROVE Whole'
  <2>1. ~mishap /\ stay = {} /\ Existing # Stages /\ Whole
    BY <1>0, <1>2, <1>13
  <2>2. Listed(pairs) \subseteq watch
    BY <1>1, <1>3, <1>5, <2>1 DEF Inside
  <2>3. stage'[s].files = Listed(pairs)
    BY <1>6, <1>8, <2>1, <2>2
  <2> QED BY <1>7, <1>8, <2>1, <2>3 DEF Whole
<1> QED BY <1>1, <1>7, <1>10, <1>11, <1>12, <1>13 DEF BatchInv, Legacy

\* dpost_v2 notes the file of the event.
LEMMA PrepareV2Step == ASSUME BatchInv, NEW f \in Files, PrepareV2(f) PROVE BatchInv'
<1>0. BatchType /\ Exclusive(mem) /\ WorkInv /\ LegacyInv /\ ((Legacy => ~mishap) => Whole)
  BY DEF BatchInv
<1> DEFINE m == Usable(mem)
<1>1. /\ ~Legacy /\ work = NoWork /\ mem' = Handle(m, f)
      /\ f \in Exports \/ m.sentinel = NoSentinel
      /\ UNCHANGED <<kind, watch, stage, work, mishap>>
  BY DEF PrepareV2, Event
<1>2. /\ mem \in Memories /\ Thinner(m, mem)
      /\ \A s \in Stages : /\ m.batches[s] \in {mem.batches[s], <<>>}
                           /\ s \notin Existing => m.batches[s] = <<>>
  BY <1>0, UsableThins DEF BatchType
<1> HIDE DEF m
<1>3. m \in Memories /\ Exclusive(m)
  BY <1>0, <1>2, ThinnerKeeps DEF Thinner
<1>4. f \in Natives => m.sentinel = NoSentinel
  BY <1>1, BatchAssumption
<1>5. mem' \in Memories /\ Exclusive(mem') /\ mem'.batches = m.batches
  BY <1>1, <1>3, <1>4, HandleAdds
<1>6. BatchType' /\ WorkInv'
  BY <1>0, <1>1, <1>5 DEF BatchType, WorkInv
<1>7. Whole'
  BY <1>0, <1>1, <1>2, <1>5 DEF Whole
<1> QED BY <1>1, <1>5, <1>6, <1>7 DEF BatchInv, LegacyInv, Legacy

\* The order of the moves runs through all files of the batch.
LEMMA MoveOrderListed ==
    ASSUME NEW pairs \in Seq(Pairs)
    PROVE  {MoveOrder(pairs)[j] : j \in DOMAIN MoveOrder(pairs)} = Listed(pairs)
<1> DEFINE K == Len(pairs)
           o == MoveOrder(pairs)
<1>1. K \in Nat /\ DOMAIN pairs = 1..K /\ DOMAIN o = 1..2 * K
  BY DEF MoveOrder
<1>2. ASSUME NEW j \in 1..2 * K PROVE o[j] \in Listed(pairs)
  <2>1. CASE j % 2 = 1
    <3>1. o[j] = pairs[(j + 1) \div 2].c
      BY <2>1 DEF MoveOrder
    <3>2. (j + 1) \div 2 \in 1..K
      BY <1>1, <2>1
    <3> QED BY <1>1, <3>1, <3>2 DEF Listed
  <2>2. CASE j % 2 # 1
    <3>1. o[j] = pairs[j \div 2].n
      BY <2>2 DEF MoveOrder
    <3>2. j \div 2 \in 1..K
      BY <1>1, <2>2
    <3> QED BY <1>1, <3>1, <3>2 DEF Listed
  <2> QED BY <2>1, <2>2
<1>3. ASSUME NEW i \in 1..K PROVE o[2 * i - 1] = pairs[i].c /\ o[2 * i] = pairs[i].n
  <2>1. /\ 2 * i - 1 \in 1..2 * K /\ (2 * i - 1) % 2 = 1 /\ (2 * i - 1 + 1) \div 2 = i
        /\ 2 * i \in 1..2 * K /\ (2 * i) % 2 # 1 /\ (2 * i) \div 2 = i
    BY <1>1
  <2> QED BY <2>1 DEF MoveOrder
<1>4. \A i \in 1..K : 2 * i - 1 \in 1..2 * K /\ 2 * i \in 1..2 * K
  BY <1>1
<1> HIDE DEF o
<1>5. {o[j] : j \in 1..2 * K} \subseteq Listed(pairs)
  BY <1>2
<1>6. Listed(pairs) \subseteq {o[j] : j \in 1..2 * K}
  BY <1>1, <1>3, <1>4 DEF Listed
<1> QED BY <1>1, <1>5, <1>6 DEF o

\* A batch is staged by dpost_v2, or a move raises.
LEMMA FlushV2Step == ASSUME BatchInv, NEW f \in Files, FlushV2(f) PROVE BatchInv'
<1>0. BatchType /\ Exclusive(mem) /\ WorkInv /\ LegacyInv /\ ((Legacy => ~mishap) => Whole)
  BY DEF BatchInv
<1> DEFINE m == Usable(mem)
           pairs == Batch(m, f)
           order == MoveOrder(pairs)
           Raising(stay) == {i \in DOMAIN order : order[i] \in stay \cup
                                                    {order[j] : j \in 1..i - 1}}
           Done(R) == {order[j] : j \in {j \in DOMAIN order : \A i \in R : j < i}}
           s == FreeStage
<1>1. /\ ~Legacy /\ work = NoWork /\ f \in Natives /\ m.sentinel # NoSentinel
      /\ Existing # Stages /\ kind' = kind
  BY DEF FlushV2, Event
<1>2. PICK stay \in Stuck(Listed(pairs)) :
         /\ stage' = [stage EXCEPT ![s] =
                        [files |-> @.files \cup Done(Raising(stay)), age |-> 0]]
         /\ watch' = watch \ Done(Raising(stay))
         /\ IF Raising(stay) = {} THEN mem' = Flushed(m, s, pairs, f) /\ Advertise(f, s)
            ELSE mem' = m /\ UNCHANGED work
  BY DEF FlushV2
<1> DEFINE raises == Raising(stay)
           done == Done(raises)
<1> HIDE DEF Raising
<1>3. /\ mem \in Memories /\ Thinner(m, mem)
      /\ \A t \in Stages : /\ m.batches[t] \in {mem.batches[t], <<>>}
                           /\ t \notin Existing => m.batches[t] = <<>>
  BY <1>0, UsableThins DEF BatchType
<1>4. s \in Stages /\ stage[s] = NoStage /\ s # 0
  BY <1>1, FreeStageIsFree
<1> HIDE DEF m, s
<1>5. m \in Memories /\ Exclusive(m) /\ m.batches[s] = <<>>
  <2>1. m \in Memories /\ Exclusive(m)
    BY <1>0, <1>3, ThinnerKeeps DEF Thinner
  <2>2. s \notin Existing
    BY <1>4 DEF Existing
  <2> QED BY <1>3, <1>4, <2>1, <2>2
<1>6. pairs \in Seq(Pairs) /\ Listed(pairs) \subseteq Files
  BY <1>1, <1>5, BatchParts
<1> HIDE DEF pairs
<1>7. {order[j] : j \in DOMAIN order} = Listed(pairs)
  BY <1>6, MoveOrderListed
<1> HIDE DEF order
<1>8. done \subseteq Files /\ (raises = {} => done = Listed(pairs))
  <2>1. done \subseteq Files
    BY <1>6, <1>7
  <2>2. ASSUME raises = {} PROVE done = Listed(pairs)
    <3> HIDE DEF raises
    <3>1. {j \in DOMAIN order : \A i \in raises : j < i} = DOMAIN order
      BY <2>2
    <3> QED BY <1>7, <3>1
  <2> QED BY <2>1, <2>2
<1> HIDE DEF raises, done
<1>9. /\ stage' \in [Stages -> Folders] /\ stage'[s] # NoStage
      /\ stage'[s].files = done
      /\ \A t \in Stages : t # s => stage'[t] = stage[t]
  <2> DEFINE x == [files |-> stage[s].files \cup done, age |-> 0]
  <2>1. stage' = [stage EXCEPT ![s] = x]
    BY <1>2 DEF done, raises
  <2>2. x \in Folders /\ x # NoStage /\ x.files = done
    BY <1>4, <1>8 DEF Folders, NoStage
  <2> HIDE DEF x
  <2> QED BY <1>0, <1>4, <2>1, <2>2 DEF BatchType
<1>10. watch' \subseteq Files /\ Whole
  BY <1>0, <1>1, <1>2 DEF BatchType
<1>11. CASE raises = {}
  <2>1. mem' = Flushed(m, s, pairs, f) /\ work' = [src |-> f, to |-> s]
    BY <1>2, <1>9, <1>11 DEF Advertise, raises
  <2>2. /\ mem' \in Memories /\ Exclusive(mem') /\ mem'.batches[s] = pairs /\ mem'.alias[f] = s
        /\ \A t \in Stages : t # s => mem'.batches[t] = m.batches[t]
    BY <1>1, <1>4, <1>5, <1>6, <2>1, FlushedParts
  <2>3. work' \in [src : Natives, to : Stages \cup {0}]
    BY <1>1, <1>4, <2>1
  <2>4. BatchType'
    BY <1>9, <1>10, <2>2, <2>3 DEF BatchType
  <2>5. WorkInv'
    BY <1>4, <1>9, <2>1, <2>2 DEF WorkInv
  <2>6. Whole'
    <3> SUFFICES ASSUME NEW t \in Stages, stage'[t] # NoStage, mem'.batches[t] # <<>>
                 PROVE  Listed(mem'.batches[t]) = stage'[t].files
      BY DEF Whole
    <3>1. CASE t = s
      BY <1>8, <1>9, <1>11, <2>2, <3>1
    <3>2. CASE t # s
      <4>1. stage'[t] = stage[t] /\ mem'.batches[t] = mem.batches[t]
        BY <1>3, <1>9, <2>2, <3>2
      <4> QED BY <1>10, <4>1 DEF Whole
    <3> QED BY <3>1, <3>2
  <2> QED BY <1>1, <2>2, <2>4, <2>5, <2>6 DEF BatchInv, LegacyInv, Legacy
<1>12. CASE raises # {}
  <2>1. mem' = m /\ work' = NoWork
    BY <1>1, <1>2, <1>12 DEF raises
  <2>2. BatchType' /\ WorkInv'
    BY <1>5, <1>9, <1>10, <2>1 DEF BatchType, WorkInv
  <2>3. Whole'
    <3> SUFFICES ASSUME NEW t \in Stages, stage'[t] # NoStage, mem'.batches[t] # <<>>
                 PROVE  Listed(mem'.batches[t]) = stage'[t].files
      BY DEF Whole
    <3>1. t # s /\ stage'[t] = stage[t] /\ mem'.batches[t] = mem.batches[t]
      BY <1>3, <1>5, <1>9, <2>1
    <3> QED BY <1>10, <3>1 DEF Whole
  <2> QED BY <1>1, <1>5, <2>1, <2>2, <2>3 DEF BatchInv, LegacyInv, Legacy
<1> QED BY <1>11, <1>12

\* No staging folder can be made: the memory stays, or keeps what is usable.
LEMMA StageFailsStep == ASSUME BatchInv, NEW f \in Files, StageFails(f) PROVE BatchInv'
<1>0. BatchType /\ Exclusive(mem) /\ WorkInv /\ LegacyInv /\ ((Legacy => ~mishap) => Whole)
  BY DEF BatchInv
<1>1. /\ work = NoWork /\ mishap' = TRUE /\ UNCHANGED <<kind, stage, work>>
      /\ watch' \subseteq watch
      /\ (Legacy /\ mem' = mem) \/ (~Legacy /\ mem' = Usable(mem))
  BY DEF StageFails, Event
<1>2. CASE Legacy /\ mem' = mem
  <2>1. BatchType' /\ WorkInv' /\ LegacyInv'
    BY <1>0, <1>1, <1>2 DEF BatchType, WorkInv, LegacyInv, Legacy
  <2> QED BY <1>0, <1>1, <1>2, <2>1 DEF BatchInv, Legacy
<1>3. CASE ~Legacy /\ mem' = Usable(mem)
  <2>1. /\ mem \in Memories /\ Thinner(mem', mem)
        /\ \A s \in Stages : mem'.batches[s] \in {mem.batches[s], <<>>}
    BY <1>0, <1>3, UsableThins DEF BatchType
  <2>2. mem' \in Memories /\ Exclusive(mem')
    BY <1>0, <2>1, ThinnerKeeps DEF Thinner
  <2>3. BatchType' /\ WorkInv' /\ Whole'
    BY <1>0, <1>1, <1>3, <2>1, <2>2 DEF BatchType, WorkInv, Whole
  <2> QED BY <1>1, <1>3, <2>2, <2>3 DEF BatchInv, LegacyInv, Legacy
<1> QED BY <1>1, <1>2, <1>3

\* A native follows its alias into the pipeline.
LEMMA FollowAliasStep == ASSUME BatchInv, NEW f \in Files, FollowAlias(f) PROVE BatchInv'
<1>0. BatchType /\ Exclusive(mem) /\ WorkInv /\ LegacyInv /\ ((Legacy => ~mishap) => Whole)
  BY DEF BatchInv
<1> DEFINE s == mem.alias[f]
<1>1. /\ f \in Natives /\ s # 0 /\ UNCHANGED <<kind, mem, watch, stage, mishap>>
      /\ work' = [src |-> f, to |-> IF stage'[s] # NoStage THEN s ELSE 0]
  BY DEF FollowAlias, Advertise
<1>2. s \in Stages
  BY <1>0, <1>1, MemoryParts DEF BatchType
<1> HIDE DEF s
<1>3. work' \in [src : Natives, to : Stages \cup {0}]
  BY <1>1, <1>2
<1>4. BatchType' /\ (Whole => Whole') /\ LegacyInv'
  BY <1>0, <1>1, <1>3 DEF BatchType, Whole, LegacyInv, Legacy
<1>5. WorkInv'
  BY <1>1 DEF WorkInv, s
<1> QED BY <1>0, <1>1, <1>4, <1>5 DEF BatchInv, Legacy

\* What processing or a failure leaves of the folder and of the memory.
LEMMA PipelineLeaves ==
    ASSUME BatchInv, work' = NoWork, kind' = kind, watch' = watch,
           mem' \in Memories, Thinner(mem', mem), NEW s \in Stages,
           \A t \in Stages : mem'.batches[t] \in {mem.batches[t], <<>>},
           stage' \in [Stages -> Folders],
           \A t \in Stages : t # s => stage'[t] = stage[t],
           mem'.batches[s] = <<>> \/ stage'[s] = NoStage \/ stage'[s] = stage[s],
           mishap => mishap'
    PROVE  BatchInv'
<1>0. BatchType /\ Exclusive(mem) /\ WorkInv /\ LegacyInv /\ ((Legacy => ~mishap) => Whole)
  BY DEF BatchInv
<1>1. /\ Exclusive(mem') /\ (Distinct(mem) => Distinct(mem'))
      /\ (\A f \in Files : Tracked(mem', f) => Tracked(mem, f))
      /\ (Unaliased(mem) => Unaliased(mem'))
  BY <1>0, ThinnerKeeps DEF BatchType
<1>2. BatchType' /\ WorkInv'
  BY <1>0 DEF BatchType, WorkInv
<1>3. ASSUME Whole PROVE Whole'
  <2> SUFFICES ASSUME NEW t \in Stages, stage'[t] # NoStage, mem'.batches[t] # <<>>
               PROVE  Listed(mem'.batches[t]) = stage'[t].files
    BY DEF Whole
  <2>1. stage'[t] = stage[t] /\ mem'.batches[t] = mem.batches[t]
    OBVIOUS
  <2> QED BY <1>3, <2>1 DEF Whole
<1>4. LegacyInv'
  BY <1>0, <1>1 DEF LegacyInv, Inside, Legacy
<1> QED BY <1>0, <1>1, <1>2, <1>3, <1>4 DEF BatchInv, Legacy

\* _finalizing.pop leaves what is tracked.
LEMMA ForgottenThins ==
    ASSUME mem \in Memories, NEW s \in Stages
    PROVE  /\ Forgotten(s) \in Memories /\ Thinner(Forgotten(s), mem)
           /\ Forgotten(s).batches[s] = <<>> /\ Forgotten(s).alias = mem.alias
           /\ \A t \in Stages : Forgotten(s).batches[t] \in {mem.batches[t], <<>>}
<1> DEFINE b == [mem.batches EXCEPT ![s] = <<>>]
<1>1. Forgotten(s) = [mem EXCEPT !.batches = b]
  BY DEF Forgotten
<1>2. <<>> \in Seq(Pairs)
  OBVIOUS
<1>3. /\ b \in [Stages -> Seq(Pairs)] /\ b[s] = <<>>
      /\ \A t \in Stages : b[t] \in {mem.batches[t], <<>>}
  BY <1>2, MemoryParts
<1> HIDE DEF b
<1>4. Forgotten(s) \in Memories
  BY <1>1, <1>3 DEF Memories
<1>5. /\ Forgotten(s).pending = mem.pending /\ Forgotten(s).bucket = mem.bucket
      /\ Forgotten(s).sentinel = mem.sentinel
      /\ Forgotten(s).batches = b /\ Forgotten(s).alias = mem.alias
  BY <1>1 DEF Memories
<1>6. Thinner(Forgotten(s), mem)
  BY <1>4, <1>5, SameTracked
<1> QED BY <1>3, <1>4, <1>5, <1>6

\* The item in the pipeline comes to its end.
LEMMA PipelineStep == ASSUME BatchInv, Pipeline PROVE BatchInv'
<1>0. BatchType /\ Exclusive(mem) /\ WorkInv /\ LegacyInv /\ ((Legacy => ~mishap) => Whole)
  BY DEF BatchInv
<1> DEFINE s == work.to
<1>1. s # 0 => s \in Stages /\ stage[s] \in Folders /\ stage[s] # NoStage
  BY <1>0 DEF BatchType, WorkInv, NoWork
<1>2. mem \in Memories /\ stage \in [Stages -> Folders]
  BY <1>0 DEF BatchType
<1>3. ASSUME NEW left \in [Stages -> Folders], s \in Stages, MoveStage(s, left)
      PROVE  /\ stage' \in [Stages -> Folders] /\ (mishap => mishap')
             /\ \A t \in Stages : t # s => stage'[t] = left[t]
             /\ stage'[s] = NoStage \/ stage'[s] = left[s]
  <2>1. stage' = left \/ stage' = [left EXCEPT ![s] = NoStage]
    BY <1>3 DEF MoveStage
  <2>2. NoStage \in Folders
    BY DEF Folders
  <2>3. mishap => mishap'
    BY <1>3 DEF MoveStage
  <2> HIDE DEF s
  <2> QED BY <1>3, <2>1, <2>2, <2>3
<1>4. CASE Processed
  <2>1. PICK T \in Takes(s) :
           stage' = [stage EXCEPT ![s] = IF stage[s].files \ T = {} THEN NoStage
                                         ELSE [files |-> stage[s].files \ T, age |-> 0]]
    BY <1>4 DEF Processed
  <2>2. /\ s \in Stages /\ work' = NoWork /\ UNCHANGED <<kind, watch, mishap>>
        /\ stage[s] \in [files : SUBSET Files, age : Nat]
    BY <1>1, <1>4 DEF Processed, Folders
  <2>3. /\ stage' \in [Stages -> Folders]
        /\ \A t \in Stages : t # s => stage'[t] = stage[t]
    <3> DEFINE x == IF stage[s].files \ T = {} THEN NoStage
                    ELSE [files |-> stage[s].files \ T, age |-> 0]
    <3>1. x \in Folders
      BY <2>2 DEF Folders
    <3>2. stage' = [stage EXCEPT ![s] = x]
      BY <2>1
    <3> HIDE DEF x, s
    <3> QED BY <1>2, <2>2, <3>1, <3>2
  <2> DEFINE m == Forgotten(s)
             a == [n \in Natives |-> IF m.alias[n] = s THEN 0 ELSE m.alias[n]]
  <2>4. mem' = [m EXCEPT !.alias = a]
    BY <1>4 DEF Processed
  <2>5. /\ m \in Memories /\ Thinner(m, mem) /\ m.batches[s] = <<>>
        /\ \A t \in Stages : m.batches[t] \in {mem.batches[t], <<>>}
    BY <1>2, <2>2, ForgottenThins
  <2> HIDE DEF m, s
  <2>6. a \in [Natives -> Stages \cup {0}] /\ \A n \in Natives : a[n] \in {m.alias[n], 0}
    BY <2>5, MemoryParts
  <2> HIDE DEF a
  <2>7. mem' \in Memories
    BY <2>4, <2>5, <2>6 DEF Memories
  <2>8. /\ mem'.pending = m.pending /\ mem'.bucket = m.bucket /\ mem'.sentinel = m.sentinel
        /\ mem'.batches = m.batches /\ mem'.alias = a
    BY <2>4, <2>5 DEF Memories
  <2>9. Thinner(mem', m)
    BY <2>5, <2>6, <2>7, <2>8, SameTracked
  <2>10. Thinner(mem', mem)
    BY <2>5, <2>9, ThinnerTwice
  <2> QED BY <2>2, <2>3, <2>5, <2>7, <2>8, <2>10, PipelineLeaves
<1>5. CASE ProcessingFails
  <2>1. /\ s # 0 /\ mem' = Forgotten(s) /\ work' = NoWork /\ UNCHANGED <<kind, watch>>
    BY <1>5 DEF ProcessingFails
  <2>2. PICK k \in 0..Len(mem.batches[s]) :
           MoveStage(s, [stage EXCEPT ![s].files = @ \ Listed(SubSeq(mem.batches[s], 1, k))])
    BY <1>5 DEF ProcessingFails
  <2> DEFINE D == Listed(SubSeq(mem.batches[s], 1, k))
             x == [stage[s] EXCEPT !.files = stage[s].files \ D]
             left == [stage EXCEPT ![s] = x]
  <2>3. MoveStage(s, left)
    BY <2>2
  <2>4. x \in Folders
    <3>1. stage[s] \in [files : SUBSET Files, age : Nat]
      BY <1>1, <2>1 DEF Folders
    <3> HIDE DEF D
    <3>2. x \in [files : SUBSET Files, age : Nat]
      BY <3>1
    <3> QED BY <3>2 DEF Folders
  <2> HIDE DEF x
  <2>5. left \in [Stages -> Folders] /\ \A t \in Stages : t # s => left[t] = stage[t]
    BY <1>1, <1>2, <2>1, <2>4
  <2> HIDE DEF left
  <2>6. /\ stage' \in [Stages -> Folders] /\ (mishap => mishap')
        /\ \A t \in Stages : t # s => stage'[t] = stage[t]
    BY <1>1, <1>3, <2>1, <2>3, <2>5
  <2>7. /\ mem' \in Memories /\ Thinner(mem', mem) /\ mem'.batches[s] = <<>>
        /\ \A t \in Stages : mem'.batches[t] \in {mem.batches[t], <<>>}
    BY <1>1, <1>2, <2>1, ForgottenThins
  <2> HIDE DEF s
  <2> QED BY <1>1, <2>1, <2>6, <2>7, PipelineLeaves
<1>6. CASE Cancelled
  <2>1. s # 0 /\ MoveStage(s, stage) /\ work' = NoWork /\ UNCHANGED <<kind, mem, watch>>
    BY <1>6 DEF Cancelled
  <2>2. /\ stage' \in [Stages -> Folders] /\ (mishap => mishap')
        /\ \A t \in Stages : t # s => stage'[t] = stage[t]
        /\ stage'[s] = NoStage \/ stage'[s] = stage[s]
    BY <1>1, <1>2, <1>3, <2>1
  <2>3. Thinner(mem, mem)
    BY <1>2, SameTracked
  <2>4. mem' \in Memories /\ Thinner(mem', mem)
    BY <1>2, <2>1, <2>3
  <2> HIDE DEF s
  <2> QED BY <1>1, <2>1, <2>2, <2>4, PipelineLeaves
<1>7. CASE RejectAliased
  <2>1. /\ work # NoWork /\ work' = NoWork /\ UNCHANGED <<kind, mem, stage>>
        /\ watch' \in {watch, watch \ {work.src}} /\ (mishap => mishap')
    BY <1>7 DEF RejectAliased
  <2>2. work.src \in Natives /\ mem.alias[work.src] # 0
    BY <1>0, <2>1 DEF BatchType, WorkInv
  <2>3. BatchType' /\ WorkInv' /\ (Whole => Whole')
    BY <1>0, <2>1 DEF BatchType, WorkInv, Whole
  <2>4. ASSUME Legacy, ~mishap' PROVE Inside(mem, watch')
    <3>1. Inside(mem, watch) /\ ~Tracked(mem, work.src)
      BY <1>0, <2>1, <2>2, <2>4 DEF LegacyInv, Unaliased
    <3> QED BY <2>1, <3>1 DEF Inside
  <2>5. LegacyInv'
    BY <1>0, <2>1, <2>4 DEF LegacyInv, Legacy
  <2> QED BY <1>0, <2>1, <2>3, <2>5 DEF BatchInv, Legacy
<1> QED BY <1>4, <1>5, <1>6, <1>7 DEF Pipeline

(***************************************************************************)
(* The theorems.                                                           *)
(***************************************************************************)

\* The invariant holds in every reachable state, for every kind of processor and
\* any number of files, events, mishaps and ticks.
LEMMA BatchInvariant == BatchSpec => []BatchInv
<1>1. BatchInv /\ [BatchNext]_batchVars => BatchInv'
  <2> SUFFICES ASSUME BatchInv, [BatchNext]_batchVars PROVE BatchInv'
    OBVIOUS
  <2>1. ASSUME NEW f \in Files, Preprocess(f) PROVE BatchInv'
    BY <2>1, FollowAliasStep, SurroundingsStep, PrepareStep, FlushStep, PrepareV2Step, FlushV2Step,
       StageFailsStep DEF Preprocess
  <2>2. CASE BatchNext
    BY <2>1, <2>2, PipelineStep, TimeStep, SurroundingsStep DEF BatchNext, BatchStep
  <2>3. CASE UNCHANGED batchVars
    BY <2>3 DEF batchVars, BatchInv, BatchType, WorkInv, LegacyInv, Legacy, Whole
  <2> QED BY <2>2, <2>3
<1> QED BY <1>1, BatchStart, PTL DEF BatchSpec

\* No sentinel waits together with natives, so that no flush of _handle_ngb,
\* _handle_native or _prepare_ngb clears a native that has no pair yet.
THEOREM SentinelNeverCrowded == BatchSpec => []SentinelExclusive
<1>1. BatchInv => SentinelExclusive
  BY DEF BatchInv, Exclusive, SentinelExclusive
<1> QED BY <1>1, BatchInvariant, PTL

\* ipat_watchdog pairs no file twice, however often a waiting file is presented.
THEOREM FilesPairedOnce == BatchSpec => []TrackedOnce
<1>1. BatchInv => TrackedOnce
  BY DEF BatchInv, LegacyInv, Distinct, TrackedOnce
<1> QED BY <1>1, BatchInvariant, PTL

\* A batch in the pipeline is complete in its folder: purge, rejection and the
\* reuse of folder names take nothing from it.
THEOREM BatchesAreWhole == BatchSpec => []BatchIsWhole
<1>1. BatchInv => BatchIsWhole
  <2> SUFFICES ASSUME BatchInv, work.to # 0, mem.batches[work.to] # <<>>, Legacy => ~mishap
               PROVE  Listed(mem.batches[work.to]) = stage[work.to].files
    BY DEF BatchIsWhole
  <2>1. work.to \in Stages /\ stage[work.to] # NoStage
    BY DEF BatchInv, BatchType, WorkInv, NoWork
  <2> QED BY <2>1 DEF BatchInv, Whole
<1> QED BY <1>1, BatchInvariant, PTL

(***************************************************************************)
(* Series.                                                                 *)
(***************************************************************************)

\* The processors of Series on their own.
SeriesSpec == SeriesInit /\ [][SeriesNext]_seriesVars

\* Types, and a file is in its record or in the watch folder, short of a failure.
SeriesType ==
    /\ series \in [Keys -> [open : BOOLEAN, has : SUBSET Types, ready : BOOLEAN, age : Nat]]
    /\ present \subseteq SeriesFiles
    /\ item # NoItem => item.eff \in SeriesFiles
    /\ \A f \in present \cap filed : Key(f) \in spoiled

\* A series is taken up when it is complete.
ItemComplete ==
    item # NoItem => Key(item.eff) \in spoiled \/ Complete(series[Key(item.eff)].has)

\* What was seen of a series is still there.
SeenIsThere ==
    \A f \in SeriesFiles : Key(f) \notin spoiled /\ f[2] \in series[Key(f)].has => f \in present

\* dpost_v2 prepares a file without looking for it: its event is queued only while
\* the file is there, and not behind the time the series has seen it.
QueuedIsThere ==
    device = "zwick_v2" =>
        \A f \in SeriesFiles : Key(f) \notin spoiled /\ f \in due =>
            f \in present /\ f[2] \notin series[Key(f)].has

\* The inductive invariant.
SeriesInv == SeriesType /\ ItemComplete /\ SeenIsThere /\ QueuedIsThere

\* Names and types of files.
LEMMA FileParts ==
    /\ \A f \in SeriesFiles : Key(f) \in Keys /\ f[2] \in Types /\ f = <<Key(f), f[2]>>
    /\ \A k \in Keys, t \in Types : /\ <<k, t>> \in SeriesFiles /\ Key(<<k, t>>) = k
                                     /\ <<k, t>>[2] = t
    /\ \A k \in Keys : FilesOf(k) \subseteq SeriesFiles /\ \A f \in FilesOf(k) : Key(f) = k
BY DEF SeriesFiles, Key, FilesOf

\* A series with one more file.
LEMMA JoinedParts ==
    ASSUME SeriesType, NEW k \in Keys, NEW t \in Types
    PROVE  /\ Joined(series[k], t) \in [open : BOOLEAN, has : SUBSET Types, ready : BOOLEAN, age : Nat]
           /\ Joined(series[k], t).has = series[k].has \cup {t}
           /\ Joined(series[k], t).ready = Complete(series[k].has \cup {t})
<1>1. series[k].has \in SUBSET Types
  BY DEF SeriesType
<1>2. Complete(series[k].has \cup {t}) \in BOOLEAN
  BY DEF Complete
<1> QED BY <1>1, <1>2 DEF Joined

\* The raw file and the export.
LEMMA TypeParts == "raw" \in Types /\ "raw" \in Raws /\ "exp" \in Types /\ "exp" \notin Raws
BY SeriesAssumption DEF Types

\* A closed series has seen nothing.
LEMMA ClosedParts ==
    /\ Closed \in [open : BOOLEAN, has : SUBSET Types, ready : BOOLEAN, age : Nat]
    /\ Closed.has = {}
BY DEF Closed

\* Files come and go.
LEMMA SeriesFilesStep ==
    ASSUME SeriesInv, \E f \in SeriesFiles : WriteFile(f) \/ LoseFile(f) \/ EventOfGone(f)
    PROVE  SeriesInv'
<1>0. SeriesType /\ ItemComplete /\ SeenIsThere /\ QueuedIsThere
  BY DEF SeriesInv
<1>1. ASSUME NEW f \in SeriesFiles, WriteFile(f) PROVE SeriesInv'
  <2>1. /\ f \notin present /\ present' = present \cup {f} /\ due' = due \cup {f}
        /\ filed' = filed \ {f} /\ UNCHANGED <<device, series, item, spoiled>>
    BY <1>1 DEF WriteFile
  <2>2. SeriesType' /\ ItemComplete' /\ SeenIsThere'
    BY <1>0, <2>1 DEF SeriesType, ItemComplete, SeenIsThere
  <2>3. QueuedIsThere'
    BY <1>0, <2>1 DEF QueuedIsThere, SeenIsThere
  <2> QED BY <2>2, <2>3 DEF SeriesInv
<1>2. ASSUME NEW f \in SeriesFiles, LoseFile(f) PROVE SeriesInv'
  <2>1. /\ present' = present \ {f} /\ spoiled' = spoiled \cup {Key(f)}
        /\ UNCHANGED <<device, series, due, item, filed>>
    BY <1>2 DEF LoseFile
  <2> QED BY <1>0, <2>1 DEF SeriesInv, SeriesType, ItemComplete, SeenIsThere, QueuedIsThere
<1>3. ASSUME NEW f \in SeriesFiles, EventOfGone(f) PROVE SeriesInv'
  <2>1. due' = due \ {f} /\ UNCHANGED <<device, series, present, item, filed, spoiled>>
    BY <1>3 DEF EventOfGone, Answered
  <2> QED BY <1>0, <2>1 DEF SeriesInv, SeriesType, ItemComplete, SeenIsThere, QueuedIsThere
<1> QED BY <1>1, <1>2, <1>3

\* A series sees one more file that is there, while nothing is in the pipeline.
LEMMA SeriesJoins ==
    ASSUME SeriesInv, NEW f \in SeriesFiles,
           series' = [series EXCEPT ![Key(f)] = Joined(series[Key(f)], f[2])],
           f \in present \/ Key(f) \in spoiled,
           due' \in SUBSET due, device = "zwick_v2" => f \notin due',
           UNCHANGED <<device, present, filed, spoiled>>,
           item' = NoItem \/ (item'.eff \in FilesOf(Key(f)) /\ Joined(series[Key(f)], f[2]).ready)
    PROVE  SeriesInv'
<1>0. SeriesType /\ ItemComplete /\ SeenIsThere /\ QueuedIsThere
  BY DEF SeriesInv
<1> DEFINE k == Key(f)
<1>1. k \in Keys /\ f[2] \in Types /\ f = <<k, f[2]>>
  BY FileParts
<1>2. /\ series' \in [Keys -> [open : BOOLEAN, has : SUBSET Types, ready : BOOLEAN, age : Nat]]
      /\ series'[k].has = series[k].has \cup {f[2]}
      /\ \A j \in Keys : j # k => series'[j] = series[j]
  BY <1>0, <1>1, JoinedParts DEF SeriesType
<1>3. SeriesType'
  BY <1>0, <1>2, <1>1, FileParts DEF SeriesType
<1>4. ItemComplete'
  <2> SUFFICES ASSUME item' # NoItem PROVE Complete(series'[Key(item'.eff)].has)
    BY DEF ItemComplete
  <2>1. Key(item'.eff) = k /\ Joined(series[k], f[2]).ready
    BY <1>1, FileParts
  <2> QED BY <1>0, <1>1, <1>2, <2>1, JoinedParts
<1>5. \A g \in SeriesFiles : g[2] \in series'[Key(g)].has => g = f \/ g[2] \in series[Key(g)].has
  <2> SUFFICES ASSUME NEW g \in SeriesFiles, g[2] \in series'[Key(g)].has, g[2] \notin series[Key(g)].has
               PROVE  g = f
    OBVIOUS
  <2>1. Key(g) \in Keys /\ g = <<Key(g), g[2]>>
    BY FileParts
  <2>2. Key(g) = k /\ g[2] = f[2]
    BY <1>2, <2>1
  <2> QED BY <1>1, <2>1, <2>2
<1> HIDE DEF k
<1>6. SeenIsThere'
  BY <1>0, <1>5 DEF SeenIsThere
<1>7. QueuedIsThere'
  BY <1>0, <1>5 DEF QueuedIsThere
<1> QED BY <1>3, <1>4, <1>6, <1>7 DEF SeriesInv

\* Zwick takes up a series over its TTL, or the event joins its series.
LEMMA ZwickStep ==
    ASSUME SeriesInv, NEW f \in SeriesFiles, ZwickFallback(f) \/ ZwickStage(f)
    PROVE  SeriesInv'
<1>0. SeriesType /\ ItemComplete /\ SeenIsThere /\ QueuedIsThere
  BY DEF SeriesInv
<1>1. /\ device = "zwick" /\ device' = device /\ f \in present /\ filed' = filed
      /\ Key(f) \in Keys /\ f[2] \in Types /\ f \in FilesOf(Key(f))
  BY FileParts DEF ZwickFallback, ZwickStage, SeriesFiles, FilesOf, Key
<1>2. CASE ZwickFallback(f)
  <2>1. PICK k \in TtlReady : TakeUp(f, <<k, "raw">>) /\ spoiled' = spoiled \cup {k, Key(f)}
    BY <1>2 DEF ZwickFallback
  <2>2. k \in Keys /\ <<k, "raw">> \in SeriesFiles /\ Key(<<k, "raw">>) = k
    BY FileParts, TypeParts DEF TtlReady
  <2>3. UNCHANGED <<series, present>> /\ item'.eff \in {<<k, "raw">>, f}
    BY <1>2, <2>1 DEF ZwickFallback, TakeUp
  <2>4. SeriesType' /\ ItemComplete'
    BY <1>0, <1>1, <2>1, <2>2, <2>3 DEF SeriesType, ItemComplete
  <2>5. SeenIsThere' /\ QueuedIsThere'
    BY <1>0, <1>1, <2>1, <2>3 DEF SeenIsThere, QueuedIsThere
  <2> QED BY <2>4, <2>5 DEF SeriesInv
<1>3. CASE ZwickStage(f)
  <2>1. UNCHANGED <<present, spoiled>>
    BY <1>3 DEF ZwickStage
  <2>2. CASE UNCHANGED series /\ PutOff(f)
    BY <1>0, <1>1, <2>1, <2>2
       DEF PutOff, SeriesInv, SeriesType, ItemComplete, SeenIsThere, QueuedIsThere
  <2>3. CASE /\ series' = [series EXCEPT ![Key(f)] = Joined(@, f[2])]
             /\ IF series'[Key(f)].ready THEN TakeUp(f, <<Key(f), "exp">>) ELSE PutOff(f)
    <3>1. series'[Key(f)] = Joined(series[Key(f)], f[2])
      BY <1>0, <1>1, <2>3 DEF SeriesType
    <3>2. due' \in SUBSET due
      BY <2>3 DEF TakeUp, PutOff, Answered
    <3>3. item' = NoItem \/ (item'.eff \in FilesOf(Key(f)) /\ Joined(series[Key(f)], f[2]).ready)
      <4>1. <<Key(f), "exp">> \in FilesOf(Key(f))
        BY TypeParts DEF FilesOf
      <4> QED BY <1>1, <2>3, <3>1, <4>1 DEF TakeUp, PutOff
    <3> QED BY <1>1, <2>1, <2>3, <3>2, <3>3, SeriesJoins
  <2> QED BY <1>3, <2>2, <2>3 DEF ZwickStage
<1> QED BY <1>2, <1>3

\* The dissolver purges orphans with their files, and the event joins its series.
LEMMA DissolverStep ==
    ASSUME SeriesInv, NEW f \in SeriesFiles, DissolverStage(f)
    PROVE  SeriesInv'
<1>0. SeriesType /\ ItemComplete /\ SeenIsThere
  BY DEF SeriesInv
<1> DEFINE k == Key(f)
           old == Orphans(k)
           gone == UNION {Belonging(j) : j \in old}
<1>1. /\ device = "dsv" /\ UNCHANGED <<device, filed>> /\ f \in present
      /\ series' = [j \in Keys |-> IF j \in old THEN Closed
                                   ELSE IF j = k THEN Joined(series[k], f[2]) ELSE series[j]]
      /\ IF series'[k].ready /\ ~series[k].ready THEN TakeUp(f, f) ELSE PutOff(f)
      /\ \E stay \in SUBSET gone : /\ present' = present \ (gone \ stay)
                                   /\ spoiled' = spoiled \cup {Key(g) : g \in stay}
  BY DEF DissolverStage
<1>2. k \in Keys /\ f[2] \in Types /\ k \notin old /\ f = <<k, f[2]>>
  BY FileParts DEF Orphans
<1>8. /\ \A g \in gone : Key(g) \in old
      /\ present' \subseteq present /\ present \ gone \subseteq present'
      /\ spoiled \subseteq spoiled'
  <2>1. \A j \in old : \A g \in Belonging(j) : Key(g) = j
    BY FileParts DEF Belonging, Orphans
  <2>2. \A g \in gone : Key(g) \in old
    <3> HIDE DEF old
    <3> QED BY <2>1
  <2> HIDE DEF gone
  <2> QED BY <1>1, <2>2
<1> HIDE DEF old, k, gone
<1>3. /\ series' \in [Keys -> [open : BOOLEAN, has : SUBSET Types, ready : BOOLEAN, age : Nat]]
      /\ series'[k] = Joined(series[k], f[2])
      /\ \A j \in Keys : j # k => series'[j] = series[j] \/ series'[j] = Closed
      /\ \A j \in old : j \in Keys => series'[j] = Closed
  BY <1>0, <1>1, <1>2, JoinedParts, ClosedParts DEF SeriesType
<1>4. SeriesType'
  BY <1>0, <1>1, <1>3, <1>8 DEF SeriesType, TakeUp, PutOff
<1>5. ItemComplete'
  <2>1. item' # NoItem => Key(item'.eff) = k /\ series'[k].ready
    BY <1>1 DEF TakeUp, PutOff, k
  <2>2. series'[k].ready => Complete(series'[k].has)
    <3>1. /\ Joined(series[k], f[2]).has = series[k].has \cup {f[2]}
          /\ Joined(series[k], f[2]).ready = Complete(series[k].has \cup {f[2]})
      BY <1>0, <1>2, JoinedParts
    <3>2. series'[k] = Joined(series[k], f[2])
      BY <1>3
    <3> QED BY <3>1, <3>2, Zenon
  <2> QED BY <2>1, <2>2 DEF ItemComplete
<1>6. SeenIsThere'
  <2> SUFFICES ASSUME NEW g \in SeriesFiles, Key(g) \notin spoiled, g[2] \in series'[Key(g)].has
               PROVE  g \in present'
    BY <1>8 DEF SeenIsThere
  <2>1. Key(g) \in Keys /\ g = <<Key(g), g[2]>>
    BY FileParts
  <2>2. Key(g) \notin old
    BY <1>3, <2>1, ClosedParts
  <2>3. g \in present
    <3>1. CASE Key(g) # k
      BY <1>0, <1>3, <2>1, <3>1, ClosedParts DEF SeenIsThere
    <3>2. CASE Key(g) = k
      <4>1. g[2] \in series[k].has \/ g[2] = f[2]
        <5>1. series'[k].has = series[k].has \cup {f[2]}
          <6>1. series'[k] = Joined(series[k], f[2])
            BY <1>3
          <6>2. Joined(series[k], f[2]).has = series[k].has \cup {f[2]}
            BY <1>0, <1>2, JoinedParts
          <6> QED BY <6>1, <6>2, Zenon
        <5> QED BY <3>2, <5>1
      <4>2. CASE g[2] = f[2]
        BY <1>1, <1>2, <2>1, <3>2, <4>2
      <4> QED BY <1>0, <3>2, <4>1, <4>2 DEF SeenIsThere
    <3> QED BY <3>1, <3>2
  <2> QED BY <1>8, <2>2, <2>3
<1>7. QueuedIsThere'
  BY <1>1 DEF QueuedIsThere
<1> QED BY <1>4, <1>5, <1>6, <1>7 DEF SeriesInv

\* prepare of dpost_v2.
LEMMA ZwickV2Step ==
    ASSUME SeriesInv, NEW f \in SeriesFiles, ZwickPrepareV2(f)
    PROVE  SeriesInv'
<1>0. SeriesType /\ ItemComplete /\ SeenIsThere /\ QueuedIsThere
  BY DEF SeriesInv
<1> DEFINE k == Key(f)
           counts == f[2] # "exp" \/ "raw" \in series[k].has
<1>1. /\ device = "zwick_v2" /\ UNCHANGED <<device, present, filed, spoiled>> /\ f \in due
      /\ series' = IF counts THEN [series EXCEPT ![k] = Joined(series[k], f[2])] ELSE series
      /\ IF f[2] = "exp" /\ counts THEN item' = [src |-> f, eff |-> f] ELSE item' = NoItem
      /\ due' = due \ {f}
  BY DEF ZwickPrepareV2, SeriesEvent, Answered
<1>2. k \in Keys /\ f[2] \in Types /\ f \in FilesOf(k)
  BY FileParts DEF SeriesFiles, FilesOf, Key
<1>3. CASE counts
  <2>1. series' = [series EXCEPT ![k] = Joined(series[k], f[2])]
    BY <1>1, <1>3
  <2>2. f \in present \/ k \in spoiled
    BY <1>0, <1>1 DEF QueuedIsThere
  <2>3. item' = NoItem \/ (item'.eff \in FilesOf(k) /\ Joined(series[k], f[2]).ready)
    <3>1. CASE f[2] = "exp"
      <4>1. item'.eff = f /\ "raw" \in series[k].has
        BY <1>1, <1>3, <3>1
      <4>2. Complete(series[k].has \cup {f[2]})
        BY <3>1, <4>1, TypeParts DEF Complete
      <4>3. Joined(series[k], f[2]).ready
        BY <1>0, <1>2, <4>2, JoinedParts
      <4> QED BY <1>2, <4>1, <4>3
    <3> QED BY <1>1, <3>1
  <2> HIDE DEF k, counts
  <2> QED BY <1>1, <2>1, <2>2, <2>3, SeriesJoins DEF k
<1>4. CASE ~counts
  <2>1. series' = series /\ item' = NoItem
    BY <1>1, <1>4
  <2> QED BY <1>0, <1>1, <2>1 DEF SeriesInv, SeriesType, ItemComplete, SeenIsThere, QueuedIsThere
<1> QED BY <1>3, <1>4

\* Time passes.
LEMMA SeriesTickStep == ASSUME SeriesInv, SeriesTick PROVE SeriesInv'
<1>0. SeriesType /\ ItemComplete /\ SeenIsThere /\ QueuedIsThere
  BY DEF SeriesInv
<1>1. UNCHANGED <<device, present, due, item, filed, spoiled>>
  BY DEF SeriesTick
<1>2. ASSUME NEW k \in Keys
      PROVE  /\ series'[k] \in [open : BOOLEAN, has : SUBSET Types, ready : BOOLEAN, age : Nat]
             /\ series'[k].has = series[k].has
  <2> DEFINE a == IF series[k].open /\ series[k].age <= SeriesTTL
                  THEN series[k].age + 1 ELSE series[k].age
  <2>1. series'[k] = [series[k] EXCEPT !.age = a]
    BY DEF SeriesTick
  <2>2. /\ series[k] \in [open : BOOLEAN, has : SUBSET Types, ready : BOOLEAN, age : Nat]
        /\ series[k].age \in Nat
    BY <1>0 DEF SeriesType
  <2>3. a \in Nat
    BY <2>2
  <2> HIDE DEF a
  <2> QED BY <2>1, <2>2, <2>3
<1>3. SeriesType'
  <2>1. series' = [k \in Keys |-> series'[k]]
    BY DEF SeriesTick
  <2> QED BY <1>0, <1>1, <1>2, <2>1 DEF SeriesType
<1>4. ItemComplete'
  BY <1>0, <1>1, <1>2, FileParts DEF ItemComplete, SeriesType
<1>5. SeenIsThere' /\ QueuedIsThere'
  BY <1>0, <1>1, <1>2, FileParts DEF SeenIsThere, QueuedIsThere
<1> QED BY <1>3, <1>4, <1>5 DEF SeriesInv

\* The item in the pipeline comes to its end.
LEMMA SeriesPipelineStep == ASSUME SeriesInv, SeriesPipeline PROVE SeriesInv'
<1>0. SeriesType /\ ItemComplete /\ SeenIsThere /\ QueuedIsThere
  BY DEF SeriesInv
<1> DEFINE k == Key(item.eff)
<1>1. /\ item # NoItem /\ item' = NoItem /\ UNCHANGED <<device, due>>
      /\ item.eff \in SeriesFiles /\ k \in Keys
  BY <1>0, FileParts DEF SeriesPipeline, SeriesProcessed, SeriesFails, SeriesCancelled, SeriesType
<1>2. /\ Popped(k) \in [Keys -> [open : BOOLEAN, has : SUBSET Types, ready : BOOLEAN, age : Nat]]
      /\ Popped(k)[k].has = {} /\ \A j \in Keys : j # k => Popped(k)[j] = series[j]
  BY <1>0, <1>1, ClosedParts DEF Popped, SeriesType
<1>3. ItemComplete'
  BY <1>1 DEF ItemComplete
<1>4. CASE SeriesProcessed
  <2>1. PICK stay \in SUBSET Belonging(k) :
           /\ present' = present \ (Belonging(k) \ stay)
           /\ filed' = filed \cup (Belonging(k) \ IF device = "dsv" THEN {} ELSE stay)
           /\ spoiled' = IF stay = {} THEN spoiled ELSE spoiled \cup {k}
    BY <1>4 DEF SeriesProcessed
  <2>2. series' = Popped(k) /\ spoiled \subseteq spoiled'
    BY <1>4, <2>1 DEF SeriesProcessed
  <2>3. \A f \in Belonging(k) : Key(f) = k /\ f[2] \in series[k].has
    BY <1>1, FileParts DEF Belonging
  <2> HIDE DEF k
  <2>4. SeriesType'
    <3>1. \A f \in present' \cap filed' : Key(f) \in spoiled'
      <4> SUFFICES ASSUME NEW f \in present' \cap filed' PROVE Key(f) \in spoiled'
        OBVIOUS
      <4>1. f \in present /\ (f \in filed \/ f \in stay)
        BY <2>1
      <4> QED BY <1>0, <2>1, <2>2, <2>3, <4>1 DEF SeriesType
    <3> QED BY <1>0, <1>1, <1>2, <2>1, <2>2, <3>1 DEF SeriesType
  <2>5. SeenIsThere'
    <3> SUFFICES ASSUME NEW g \in SeriesFiles, Key(g) \notin spoiled', g[2] \in series'[Key(g)].has
                 PROVE  g \in present'
      BY DEF SeenIsThere
    <3>1. Key(g) # k /\ series'[Key(g)] = series[Key(g)]
      BY <1>2, <2>2, FileParts
    <3>2. g \in present
      BY <1>0, <2>2, <3>1 DEF SeenIsThere
    <3> QED BY <2>1, <2>3, <3>1, <3>2
  <2>6. QueuedIsThere'
    <3> SUFFICES ASSUME device = "zwick_v2", NEW g \in SeriesFiles, Key(g) \notin spoiled', g \in due
                 PROVE  g \in present' /\ g[2] \notin series'[Key(g)].has
      BY <1>1 DEF QueuedIsThere
    <3>1. g \in present /\ g[2] \notin series[Key(g)].has
      BY <1>0, <2>2 DEF QueuedIsThere
    <3>2. g \notin Belonging(k)
      BY <2>3, <3>1
    <3>3. g[2] \notin series'[Key(g)].has
      BY <1>2, <2>2, <3>1, FileParts
    <3> QED BY <2>1, <3>1, <3>2, <3>3
  <2> QED BY <1>3, <2>4, <2>5, <2>6 DEF SeriesInv
<1>5. CASE SeriesFails
  <2>1. PICK zipped \in {{}, RawsOf(k)} : \E gone \in SUBSET zipped :
           /\ present' = IF Retried THEN present \ ({item.eff} \cup gone) ELSE present
           /\ filed' = filed \cup zipped
    BY <1>5 DEF SeriesFails
  <2>2. series' = Popped(k) /\ spoiled' = spoiled \cup {k}
    BY <1>5 DEF SeriesFails
  <2>3. \A f \in {item.eff} \cup zipped : Key(f) = k
    <3>1. \A f \in RawsOf(k) : Key(f) = k
      BY <1>1, FileParts DEF RawsOf
    <3> QED BY <3>1
  <2>4. present' \subseteq present
    BY <2>1
  <2>5. SeriesType'
    <3>1. \A f \in present' \cap filed' : Key(f) \in spoiled'
      <4> HIDE DEF k
      <4> QED BY <1>0, <2>1, <2>2, <2>3, <2>4 DEF SeriesType
    <3> QED BY <1>0, <1>1, <1>2, <2>2, <2>4, <3>1 DEF SeriesType
  <2> HIDE DEF k
  <2>6. \A g \in SeriesFiles : Key(g) \notin spoiled' =>
           /\ Key(g) \notin spoiled /\ series'[Key(g)] = series[Key(g)]
           /\ g \in present => g \in present'
    BY <1>2, <2>1, <2>2, <2>3, FileParts
  <2>7. SeenIsThere' /\ QueuedIsThere'
    BY <1>0, <1>1, <2>6 DEF SeenIsThere, QueuedIsThere
  <2> QED BY <1>3, <2>5, <2>7 DEF SeriesInv
<1>6. CASE SeriesCancelled
  <2>1. /\ present' = (IF Retried THEN present \ {item.eff} ELSE present)
        /\ spoiled' = spoiled \cup {k} /\ UNCHANGED <<series, filed>>
    BY <1>6 DEF SeriesCancelled
  <2>2. SeriesType'
    BY <1>0, <1>1, <2>1 DEF SeriesType
  <2>3. SeenIsThere' /\ QueuedIsThere'
    BY <1>0, <1>1, <2>1 DEF SeenIsThere, QueuedIsThere
  <2> QED BY <1>3, <2>2, <2>3 DEF SeriesInv
<1> QED BY <1>4, <1>5, <1>6 DEF SeriesPipeline

\* The invariant holds in every reachable state.
LEMMA SeriesInvariant == SeriesSpec => []SeriesInv
<1>1. SeriesInit => SeriesInv
  <2> SUFFICES ASSUME SeriesInit PROVE SeriesInv
    OBVIOUS
  <2>1. /\ series = [k \in Keys |-> Closed] /\ present = {} /\ due = {} /\ item = NoItem
        /\ filed = {}
    BY DEF SeriesInit, SeriesStart
  <2>2. SeriesType /\ ItemComplete
    BY <2>1, ClosedParts DEF SeriesType, ItemComplete
  <2>3. SeenIsThere /\ QueuedIsThere
    BY <2>1, ClosedParts, FileParts DEF SeenIsThere, QueuedIsThere
  <2> QED BY <2>2, <2>3 DEF SeriesInv
<1>2. SeriesInv /\ [SeriesNext]_seriesVars => SeriesInv'
  <2> SUFFICES ASSUME SeriesInv, [SeriesNext]_seriesVars PROVE SeriesInv'
    OBVIOUS
  <2>1. CASE UNCHANGED seriesVars
    BY <2>1 DEF seriesVars, SeriesInv, SeriesType, ItemComplete, SeenIsThere, QueuedIsThere
  <2>2. ASSUME NEW f \in SeriesFiles, Collect(f) PROVE SeriesInv'
    BY <2>2, SeriesFilesStep, ZwickStep, DissolverStep, ZwickV2Step DEF Collect
  <2>3. CASE SeriesNext
    BY <2>2, <2>3, SeriesFilesStep, SeriesTickStep, SeriesPipelineStep DEF SeriesNext, SeriesStep
  <2> QED BY <2>1, <2>3
<1> QED BY <1>1, <1>2, PTL DEF SeriesSpec

\* An export goes into a record only together with a raw file, for any names, any
\* types of raw files, orders of arrival and TTL, and all three processors, unless something failed,
\* was cancelled, was removed or fell back for that name.
THEOREM ExportsFiledWithRaw == SeriesSpec => FiledTogether
<1> DEFINE Together == \A k \in Keys : <<k, "exp">> \in filed' \ filed /\ k \notin spoiled' =>
                          \E t \in Raws : <<k, t>> \in filed' \ filed
<1>1. ASSUME SeriesInv, [SeriesNext]_seriesVars PROVE [Together]_seriesVars
  <2>0. SeriesType /\ ItemComplete /\ SeenIsThere
    BY <1>1 DEF SeriesInv
  <2>1. ASSUME filed' \subseteq filed PROVE Together
    BY <2>1
  <2>2. CASE SeriesProcessed
    <3> DEFINE k == Key(item.eff)
    <3>1. item # NoItem /\ k \in Keys
      BY <2>0, <2>2, FileParts DEF SeriesProcessed, SeriesType
    <3>2. PICK stay \in SUBSET Belonging(k) :
             /\ filed' = filed \cup (Belonging(k) \ IF device = "dsv" THEN {} ELSE stay)
             /\ spoiled' = IF stay = {} THEN spoiled ELSE spoiled \cup {k}
      BY <2>2 DEF SeriesProcessed
    <3>3. \A f \in Belonging(k) : Key(f) = k
      BY <3>1, FileParts DEF Belonging
    <3> SUFFICES ASSUME NEW j \in Keys, <<j, "exp">> \in filed' \ filed, j \notin spoiled'
                 PROVE  \E t \in Raws : <<j, t>> \in filed' \ filed
      OBVIOUS
    <3>4. j = k
      BY <3>2, <3>3 DEF Key
    <3>5. stay = {} /\ k \notin spoiled
      BY <3>2, <3>4
    <3>6. PICK t \in Raws : t \in series[k].has
      BY <2>0, <3>1, <3>5 DEF ItemComplete, Complete
    <3> DEFINE f == <<k, t>>
    <3>7. f \in present /\ f \in Belonging(k)
      <4>1. f \in SeriesFiles /\ f \in FilesOf(k) /\ Key(f) = k /\ f[2] = t
        BY <3>1, FileParts DEF Types, FilesOf
      <4>2. f \in present
        BY <2>0, <3>5, <3>6, <4>1 DEF SeenIsThere
      <4> QED BY <3>6, <4>1, <4>2 DEF Belonging
    <3>8. f \notin filed
      <4>1. Key(f) = k
        BY DEF Key
      <4> HIDE DEF f, k
      <4> QED BY <2>0, <3>5, <3>7, <4>1 DEF SeriesType
    <3> QED BY <3>2, <3>4, <3>5, <3>7, <3>8
  <2>3. CASE SeriesFails
    <3>1. \A x \in filed' \ filed : x[2] \in Raws
      BY <2>3 DEF SeriesFails, RawsOf
    <3>2. \A k \in Keys : <<k, "exp">>[2] \notin Raws
      BY TypeParts
    <3> QED BY <3>1, <3>2
  <2>4. CASE SeriesCancelled \/ SeriesTick \/ UNCHANGED seriesVars
    <3>1. filed' = filed
      BY <2>4 DEF SeriesCancelled, SeriesTick, seriesVars
    <3> QED BY <2>1, <3>1
  <2>5. ASSUME NEW f \in SeriesFiles, Collect(f) \/ WriteFile(f) \/ LoseFile(f) PROVE Together
    <3>1. filed' \subseteq filed
      BY <2>5 DEF Collect, EventOfGone, ZwickFallback, ZwickStage, DissolverStage,
                  ZwickPrepareV2, WriteFile, LoseFile
    <3> QED BY <2>1, <3>1
  <2> HIDE DEF Together
  <2> QED BY <1>1, <2>2, <2>3, <2>4, <2>5 DEF SeriesNext, SeriesStep, SeriesPipeline
<1> QED BY <1>1, SeriesInvariant, PTL DEF SeriesSpec, FiledTogether
=============================================================================
