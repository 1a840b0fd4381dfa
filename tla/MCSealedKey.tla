----------------------------- MODULE MCSealedKey ----------------------------
(* Small instances of SealedKey for TLC. *)
EXTENDS SealedKey, TLC

Symmetry == Permutations(Proc) \cup Permutations(Secret)
=============================================================================
