---------------------------- MODULE MCPadlockCli ----------------------------
(* A small instance of PadlockCli for TLC. *)
EXTENDS PadlockCli, TLC

CONSTANTS pw1, pw2

(* Records of one block. *)
MCKeyLen == [k \in Key |-> 4]
MCValueLen == [v \in Value |-> 6]

(* Bound: nothing is promised once access has overlooked a file, and       *)
(* mistaken never becomes FALSE again, so such a state is not continued.   *)
NotMistaken == ~mistaken

Symmetry == Permutations(Proc) \cup Permutations(Secret) \cup Permutations({pw1, pw2})
=============================================================================
