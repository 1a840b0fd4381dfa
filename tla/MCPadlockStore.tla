--------------------------- MODULE MCPadlockStore ---------------------------
(* Small instances of PadlockStore for TLC. *)
EXTENDS PadlockStore, TLC

CONSTANTS k1, k2, v1, v2

(* k1 makes records of one block with v1 and of two with v2, k2 of two and *)
(* of three.                                                               *)
MCKeyLen == [k \in Key |-> ((k1 :> 4) @@ (k2 :> 20))[k]]
MCValueLen == [v \in Value |-> ((v1 :> 6) @@ (v2 :> 12))[v]]
=============================================================================
