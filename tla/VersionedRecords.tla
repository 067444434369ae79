-------------------------- MODULE VersionedRecords --------------------------
(* What a record store with optimistic concurrency promises its callers: a
   record is created once, and afterwards every write adds a mutation to
   exactly the content it was computed from and advances the revision by one.
   Nothing else ever happens to a stored record. *)
EXTENDS Naturals

CONSTANTS RecordIds, Mutations, Missing

VARIABLE store

Row == [rev : Nat, payload : SUBSET Mutations]

Init == store = [r \in RecordIds |-> Missing]

Create(r) == /\ store[r] = Missing
             /\ store'[r] \in Row
             /\ store' = [store EXCEPT ![r] = store'[r]]

\* A write is a patch on top of the current content, under the next revision.
Mutate(r, patch) ==
    /\ store[r] # Missing
    /\ store' = [store EXCEPT ![r] = [rev     |-> store[r].rev + 1,
                                      payload |-> store[r].payload \cup patch]]

Next == \E r \in RecordIds :
            \/ Create(r)
            \/ \E patch \in SUBSET Mutations : Mutate(r, patch)

Spec == Init /\ [][Next]_store
=============================================================================
