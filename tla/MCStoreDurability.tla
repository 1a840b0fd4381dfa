------------------------- MODULE MCStoreDurability --------------------------
(* Small instances of StoreDurability for TLC. *)
EXTENDS StoreDurability, TLC

(* Records of one block. *)
MCKeyLen == [k \in Key |-> 4]
MCValueLen == [v \in Value |-> 6]

Symmetry == Permutations(Inode) \cup Permutations(Proc)
=============================================================================
