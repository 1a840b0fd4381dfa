-------------------------- MODULE StoreRefinement ---------------------------
(***************************************************************************)
(* PadlockStore implements AppendOnlyLog.  The abstract pairs are decoded  *)
(* from the bytes of the file, the way the loop of padlock_get walks them, *)
(* and not taken from the history variable: bytes on the file that no      *)
(* longer decrypt show up as a pair that was never set.                    *)
(***************************************************************************)
EXTENDS PadlockStore

(* Random bytes are not the encryption of a record, and a file that is not *)
(* published has no pairs, not even an empty sequence.                     *)
ASSUME DecodeAssumption ==
  /\ Random \notin [xts_key : Inode, unit : Nat, index : Nat, key : Key, value : Value]
  /\ None \notin Seq([key : Key, value : Value])

(* A whole record, the one its first block belongs to, decrypts at offset o. *)
RecordAt(i, o) ==
  LET first == data[i][o]
  IN  /\ first # Random
      /\ Sound(data[i], header[i].xts_key, o, first.key, first.value)
      /\ o + blocks_of(first.key, first.value) <= header[i].write_offset

(* The pairs of file i from the first record to write_offset. *)
Decoded(i) ==
  LET from[o \in HeaderBlocks .. MaxBlocks] ==
        IF o >= header[i].write_offset THEN <<>>
        ELSE IF ~RecordAt(i, o) THEN <<Random>>
        ELSE LET k == data[i][o].key
                 v == data[i][o].value
             IN  <<[key |-> k, value |-> v]>> \o from[o + blocks_of(k, v)]
  IN  from[HeaderBlocks]

Log == INSTANCE AppendOnlyLog WITH
  Generation <- Inode,
  Pair <- [key : Key, value : Value],
  current <- dir,
  pairs <- [i \in Inode |-> IF Published(i) THEN Decoded(i) ELSE None]

(* Every step of a process, a kill and a failed call included, either      *)
(* leaves the pairs found on every file alone, or publishes one new empty  *)
(* file under the path, or adds exactly one pair at the end of one file.   *)
ImplementsAppendOnlyLog == Log!Spec
=============================================================================
