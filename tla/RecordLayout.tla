---------------------------- MODULE RecordLayout ----------------------------
(***************************************************************************)
(* The byte arithmetic of the store format (src/src/padlock.c): the        *)
(* alignment of records to the 16-byte blocks of AES-XTS and the lengths   *)
(* that padlock_set and padlock_get compute for one record.                *)
(*                                                                         *)
(* Word is the number of values of a 32-bit unsigned int, 2^32.  It is a   *)
(* constant so that TLC, whose integers are smaller than 2^32, can check a *)
(* narrower machine; nothing below depends on its value.                   *)
(***************************************************************************)
EXTENDS Naturals

CONSTANT Word

ASSUME WordAssumption == Word \in Nat \ {0}

PADLOCK_BLOCK == 16

(* ~15u is a 32-bit mask that is zero-extended to 64 bits, so the mask     *)
(* clears the low four bits and every bit above the 32nd.                  *)
align16(value) ==
  LET sum == (value + 15) % Word
  IN  sum - (sum % PADLOCK_BLOCK)

(* One record is a key length byte, the key, a 4-byte value length and the *)
(* value.  padlock_set adds in 64 bits and padlock_get in 32; the sums are *)
(* the same once align16 has dropped the upper bits.                       *)
plain_length(key_length, value_length) == 1 + key_length + 4 + value_length

(* The bytes a record occupies.                                            *)
padded_length(key_length, value_length) == align16(plain_length(key_length, value_length))
=============================================================================
