--------------------------- MODULE AppendOnlyLog ----------------------------
(***************************************************************************)
(* What the store promises: "a hidden append-only key/value file" that     *)
(* "keeps older key/value pairs in place" (src/README.md, line 3).         *)
(* An allocation starts a new, empty generation of the store; a set adds   *)
(* one pair at the end of the generation it opened; nothing else changes   *)
(* the pairs a reader can find.  A generation that was replaced may still  *)
(* grow, by a set that had opened it before.                               *)
(***************************************************************************)
EXTENDS Sequences

CONSTANTS Generation, Pair, None

VARIABLES
  current,  \* the generation the path names, or None
  pairs     \* generation -> its key/value pairs in order, or None

Init ==
  /\ current = None
  /\ pairs = [g \in Generation |-> None]

Allocate(g) ==
  /\ pairs[g] = None
  /\ current' = g
  /\ pairs' = [pairs EXCEPT ![g] = <<>>]

Set(g, pair) ==
  /\ pairs[g] # None
  /\ pairs' = [pairs EXCEPT ![g] = Append(@, pair)]
  /\ UNCHANGED current

(* Every step changes pairs: the first conjunct only says so early. *)
Next == pairs' # pairs /\ \E g \in Generation : Allocate(g) \/ \E pair \in Pair : Set(g, pair)

Spec == Init /\ [][Next]_<<current, pairs>>
=============================================================================
