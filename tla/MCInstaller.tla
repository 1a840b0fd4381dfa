---------------------------- MODULE MCInstaller -----------------------------
(* A small instance of Installer for TLC: Kilo is 2 and a word has 7 bits. *)
EXTENDS Installer

(* A small and a larger size, an octal one, one that is no octal number,   *)
(* and one that overflows.                                                 *)
MCDigits == {<<3>>, <<9>>, <<0, 1, 0>>, <<0, 9>>, <<9, 0>>}

MCOneDigit == {<<3>>}
=============================================================================
