------------------------- MODULE MCStoreRefinement --------------------------
(* Small instances of StoreRefinement for TLC. *)
EXTENDS StoreRefinement, TLC

CONSTANTS v1, v2

(* v1 makes records of one block, v2 of two. *)
MCKeyLen == [k \in Key |-> 4]
MCValueLen == [v \in Value |-> ((v1 :> 6) @@ (v2 :> 12))[v]]

Symmetry == Permutations(Inode) \cup Permutations(Proc)
=============================================================================
