------------------------- MODULE GuardModuleProofs --------------------------
(***************************************************************************)
(* Proofs about GuardModule: what a loaded guard has and what an absent    *)
(* one leaves, for any number of users, on every kernel.                   *)
(***************************************************************************)
EXTENDS GuardModule, TLAPS

USE Zenon

(* The list of probes begins with the one on writes. *)
LEMMA ProbeList ==
  /\ Len(Probes) \in Nat /\ Len(Probes) >= 1 /\ Probes[1] = "file_permission"
  /\ \A n \in 1 .. Len(Probes) : Probes[n] = "file_permission" <=> n = 1
BY SMTT(30) DEF Probes, FileProbes, PathProbes

(* Before the first insmod nothing is registered. *)
LEMMA LoadInit == Init => LoadInv
BY SMTT(30) DEF Init, LoadInv, LoadingInv, UndoingInv, Undoing, LiveIsGuarded, AbsentLeavesNothing

(* One more hook has been tried. *)
LEMMA RegisteredNext ==
  ASSUME NEW n \in Nat, n >= 1
  PROVE  Registered(n + 1) = Registered(n) \cup ({Probes[n]} \ missing)
<1>1. 1 .. ((n + 1) - 1) = (1 .. (n - 1)) \cup {n}
  BY SMTT(30)
<1> QED
  BY <1>1 DEF Registered

(* Every step of insmod, rmmod, init, exit and of the users keeps LoadInv. *)
LEMMA LoadStep == ASSUME LoadInv, [Next]_vars PROVE LoadInv'
<1> USE DEF LoadInv
<1>1. CASE Insmod
  <2>1. Registered(0) = {}
    BY SMTT(30) DEF Registered
  <2> QED
    BY SMTT(30), <1>1, <2>1, ProbeList
    DEF Insmod, LoadingInv, UndoingInv, Undoing, LiveIsGuarded, AbsentLeavesNothing, Registered
<1>2. CASE RegisterDevice
  <2>1. Registered(0) = {} /\ Registered(1) = {}
    BY SMTT(30) DEF Registered
  <2> QED
    BY SMTT(30), <1>2, <2>1, ProbeList
    DEF RegisterDevice, LoadingInv, UndoingInv, Undoing, LiveIsGuarded, AbsentLeavesNothing, Registered
<1>3. CASE register_probe \/ SkipProbe
  <2>1. /\ state = "loading" /\ state' = "loading" /\ step \in Nat /\ step >= 1 /\ step <= Len(Probes)
        /\ step' = step + 1 /\ missing' = missing /\ device' = device /\ pinned' = pinned
    BY SMTT(30), <1>3, ProbeList DEF register_probe, SkipProbe, Pending
  <2>2. probes' = probes \cup ({Probes[step]} \ missing)
    BY <1>3 DEF register_probe, SkipProbe
  <2>3. probes' = Registered(step + 1)
    BY <2>1, <2>2, RegisteredNext DEF LoadingInv
  <2>4. step = 1 => "file_permission" \notin missing
    BY <1>3, ProbeList DEF register_probe, SkipProbe, Required
  <2>5. "file_permission" \notin missing
    BY SMTT(30), <2>1, <2>4 DEF LoadingInv
  <2>6. LoadingInv'
    <3>1. probes' = Registered(step)'
      BY <2>1, <2>3 DEF Registered
    <3> QED
      BY SMTT(30), <2>1, <2>5, <3>1, ProbeList DEF LoadingInv
  <2>7. UndoingInv' /\ LiveIsGuarded' /\ AbsentLeavesNothing'
    BY <2>1 DEF UndoingInv, Undoing, LiveIsGuarded, AbsentLeavesNothing
  <2>8. step' \in Nat
    BY SMTT(30), <2>1
  <2> QED
    BY <2>1, <2>6, <2>7, <2>8
<1>4. CASE DeviceFails
  <2>1. Registered(0) = {}
    BY SMTT(30) DEF Registered
  <2> QED
    BY <1>4, <2>1 DEF DeviceFails, LoadingInv, UndoingInv, Undoing, LiveIsGuarded, AbsentLeavesNothing
<1>10. CASE ProbeFails
  <2>1. step \in 1 .. Len(Probes) /\ state = "loading" /\ state' = "failing" /\ step' = FailLabel(Probes[step])
        /\ UNCHANGED <<missing, device, probes, pinned>>
    BY <1>10 DEF ProbeFails, Pending
  <2>2. device /\ ~pinned /\ probes = Registered(step)
    BY SMTT(30), <2>1 DEF LoadingInv
  <2>3. step' = 1 \/ (step = 1 /\ step' = Len(Probes) + 1)
    BY <2>1, ProbeList DEF FailLabel, Required, fail_probes, fail_misc
  <2>4. probes \subseteq {Probes[m] : m \in 1 .. Len(Probes)} /\ (step = 1 => probes = {})
    <3>1. \A m \in 1 .. (step - 1) : m \in 1 .. Len(Probes)
      BY SMTT(30), <2>1, ProbeList
    <3>2. step = 1 => 1 .. (step - 1) = {}
      BY SMTT(30)
    <3> QED
      BY <2>2, <3>1, <3>2 DEF Registered
  <2>5. probes' \subseteq {Probes[m] : m \in step' .. Len(Probes)}
    BY <2>1, <2>3, <2>4
  <2>6. step' \in Nat /\ step' >= 1 /\ step' <= Len(Probes) + 1
    BY SMTT(30), <2>3, ProbeList
  <2>7. UndoingInv'
    BY <2>1, <2>2, <2>5, <2>6 DEF UndoingInv
  <2> QED
    BY <2>1, <2>6, <2>7 DEF LoadingInv, LiveIsGuarded, AbsentLeavesNothing
<1>5. CASE InitDone
  <2>1. step = Len(Probes) + 1 /\ step > 1 /\ step > 0
    BY SMTT(30), <1>5, ProbeList DEF InitDone, LoadingInv
  <2>2. 1 .. (step - 1) = 1 .. Len(Probes)
    BY SMTT(30), <2>1, ProbeList
  <2>3. probes = Probe \ missing
    BY <1>5, <2>2 DEF InitDone, LoadingInv, Registered, Probe
  <2>4. 1 \in 1 .. Len(Probes)
    BY SMTT(30), ProbeList
  <2>5. "file_permission" \in probes
    BY <1>5, <2>1, <2>3, <2>4, ProbeList DEF InitDone, LoadingInv, Probe
  <2> QED
    BY <1>5, <2>1, <2>3, <2>5 DEF InitDone, LoadingInv, UndoingInv, Undoing, LiveIsGuarded, AbsentLeavesNothing, Probe
<1>6. ASSUME NEW u \in User, Open(u) \/ Close(u) PROVE LoadInv'
  <2>1. UNCHANGED <<missing, state, step, device, probes, pinned>>
    BY <1>6 DEF Open, Close
  <2> QED
    BY <2>1 DEF LoadingInv, UndoingInv, Undoing, LiveIsGuarded, AbsentLeavesNothing, Registered
<1>7. CASE RmmodRefused
  BY <1>7 DEF RmmodRefused, LoadingInv, UndoingInv, Undoing, LiveIsGuarded, AbsentLeavesNothing, Registered
<1>8. ASSUME NEW force \in BOOLEAN, Rmmod(force) PROVE LoadInv'
  <2>1. /\ state = "live" /\ state' = "exiting" /\ step' = 1 /\ ~pinned'
        /\ UNCHANGED <<missing, device, probes>>
    BY <1>8 DEF Rmmod, padlock_guard_exit
  <2>2. device /\ probes \subseteq Probe
    BY <2>1 DEF LiveIsGuarded
  <2>3. 1 \in Nat /\ 1 >= 1 /\ 1 <= Len(Probes) + 1
    BY SMTT(30), ProbeList
  <2>4. UndoingInv'
    BY <2>1, <2>2, <2>3 DEF UndoingInv, Probe
  <2> QED
    BY <2>1, <2>3, <2>4 DEF LoadingInv, LiveIsGuarded, AbsentLeavesNothing
<1>11. CASE unregister_probe
  <2>1. /\ Undoing /\ state' = state /\ step <= Len(Probes) /\ step' = step + 1
        /\ probes' = probes \ {Probes[step]} /\ UNCHANGED <<missing, device, pinned>>
    BY <1>11 DEF unregister_probe
  <2>2. \A m \in step .. Len(Probes) : m = step \/ m \in (step + 1) .. Len(Probes)
    BY SMTT(30), ProbeList
  <2>3. probes' \subseteq {Probes[m] : m \in (step + 1) .. Len(Probes)}
    BY <2>1, <2>2 DEF UndoingInv
  <2>4. step' \in Nat /\ step' >= 1 /\ step' <= Len(Probes) + 1
    BY SMTT(30), <2>1, ProbeList DEF UndoingInv
  <2>5. UndoingInv'
    BY <2>1, <2>3, <2>4 DEF UndoingInv
  <2> QED
    BY <2>1, <2>4, <2>5 DEF Undoing, LoadingInv, LiveIsGuarded, AbsentLeavesNothing
<1>12. CASE deregister_device
  <2>1. Undoing /\ state' = "absent" /\ ~device' /\ step > Len(Probes) /\ UNCHANGED <<step, probes, pinned>>
    BY <1>12 DEF deregister_device
  <2>2. step .. Len(Probes) = {}
    BY SMTT(30), <2>1, ProbeList
  <2>3. probes = {} /\ ~pinned
    BY <2>1, <2>2 DEF UndoingInv
  <2> QED
    BY <2>1, <2>3 DEF UndoingInv, Undoing, LoadingInv, LiveIsGuarded, AbsentLeavesNothing
<1>9. CASE UNCHANGED vars
  BY <1>9 DEF vars, LoadingInv, UndoingInv, Undoing, LiveIsGuarded, AbsentLeavesNothing, Registered
<1> QED
  BY <1>1, <1>2, <1>3, <1>4, <1>5, <1>6, <1>7, <1>8, <1>9, <1>10, <1>11, <1>12 DEF Next

(* The inductive invariant of loading and unloading: while                 *)
(* padlock_guard_init runs, the registered probes are those it has tried   *)
(* and the kernel has; behind a label and in padlock_guard_exit, no probe  *)
(* is registered but those still to be unregistered.                       *)
THEOREM LoadInvariant == Spec => []LoadInv
<1>1. LoadInv /\ [Next]_vars => LoadInv'
  BY LoadStep
<1> QED
  BY <1>1, LoadInit, PTL DEF Spec

(* On every kernel and with every failure, padlock_guard_init returns 0    *)
(* only with the device, every hook the kernel offers and the write check. *)
THEOREM LiveGuarded == Spec => []LiveIsGuarded
<1>1. LoadInv => LiveIsGuarded
  BY DEF LoadInv
<1> QED
  BY <1>1, LoadInvariant, PTL

(* A padlock_guard_init that fails at any step, on any kernel, undoes all  *)
(* that it had registered, and so does padlock_guard_exit: when the module *)
(* is gone, no probe calls into it and there is no device.                 *)
THEOREM NothingLeft == Spec => []AbsentLeavesNothing
<1>1. LoadInv => AbsentLeavesNothing
  BY DEF LoadInv
<1> QED
  BY <1>1, LoadInvariant, PTL
=============================================================================
