--------------------------- MODULE MCPadlockGuard ---------------------------
(* A small instance of PadlockGuard for TLC: two processes. *)
EXTENDS PadlockGuard, TLC

CONSTANTS t1, t2

MCTgid == [t \in Thread |-> IF t = t2 THEN 20 ELSE 10]

Symmetry == Permutations(Inode) \cup Permutations(Token) \cup Permutations(Path)
=============================================================================
