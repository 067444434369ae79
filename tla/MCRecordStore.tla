---------------------------- MODULE MCRecordStore ----------------------------
(* Instances of RecordStore for TLC. Connections and mutation tags are
   interchangeable. *)
EXTENDS RecordStore, TLC

Symmetry == Permutations(Conns) \cup Permutations(Tags)
=============================================================================
