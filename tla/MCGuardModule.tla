--------------------------- MODULE MCGuardModule ----------------------------
(* GuardModule for TLC: two processes open the device while the module is  *)
(* loaded and unloaded, on a kernel that lacks any of the hooks.           *)
EXTENDS GuardModule

CONSTANTS u1, u2

MCUser == {u1, u2}
=============================================================================
