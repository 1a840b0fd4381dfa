---------------------------- MODULE GuardModule -----------------------------
(***************************************************************************)
(* Loading and unloading of the kernel guard: padlock_guard_init registers *)
(* the device and then the probes one after the other and ends by taking a *)
(* reference on its own module.  When a step fails, it jumps to the label  *)
(* that undoes what was done; padlock_guard_exit undoes everything.  The   *)
(* users of the device run between any two of these steps.                 *)
(***************************************************************************)
EXTENDS Naturals, Sequences

CONSTANTS
  User,          \* processes that open /dev/hardcode_padlock_guard
  SecurityPath   \* TRUE: the kernel has CONFIG_SECURITY_PATH

FileProbes == <<"file_permission", "file_truncate">>
PathProbes == <<"path_unlink", "path_rename", "path_truncate">>
Probes == IF SecurityPath THEN FileProbes \o PathProbes ELSE FileProbes
Probe == {Probes[n] : n \in 1 .. Len(Probes)}

VARIABLES
  missing,  \* the hooks that this kernel has no symbol for, chosen once
  state,    \* of the module: "absent", "loading", "live", "failing" behind a label of init, "exiting"
  step,     \* what is registered or unregistered next: n the n-th probe, 0 or the last the device
  device,   \* the device node is there
  probes,   \* the probes that are registered
  pinned,   \* padlock_guard_pinned
  opened,   \* the users that have the device open, one module reference each
  stranded, \* the users whose open device outlived the module
  refused   \* history: rmmod failed although nobody had the device open

vars == <<missing, state, step, device, probes, pinned, opened, stranded,
          refused>>

Init ==
  /\ missing \in SUBSET Probe
  /\ state = "absent"
  /\ step = 0
  /\ device = FALSE
  /\ probes = {}
  /\ pinned = FALSE
  /\ opened = {}
  /\ stranded = {}
  /\ refused = FALSE

-----------------------------------------------------------------------------
(* padlock_guard_init                                                      *)

Insmod ==
  /\ state = "absent"
  /\ state' = "loading"
  /\ step' = 0
  /\ UNCHANGED <<missing, device, probes, pinned, opened, stranded, refused>>

RegisterDevice ==
  /\ state = "loading"
  /\ step = 0
  /\ device' = TRUE
  /\ step' = 1
  /\ UNCHANGED <<missing, state, probes, pinned, opened, stranded, refused>>

Pending == state = "loading" /\ step \in 1 .. Len(Probes)

register_probe ==
  /\ Pending
  /\ Probes[step] \notin missing
  /\ probes' = probes \cup {Probes[step]}
  /\ step' = step + 1
  /\ UNCHANGED <<missing, state, device, pinned, opened, stranded, refused>>

(* Mutant: every probe is optional. *)
RequiredNone(probe) == FALSE

(* Only the first probe is required. *)
Required(probe) == probe = "file_permission"

(* padlock_guard_register_optional_probe goes on without the hook. *)
SkipProbe ==
  /\ Pending
  /\ Probes[step] \in missing
  /\ ~Required(Probes[step])
  /\ step' = step + 1
  /\ UNCHANGED <<missing, state, device, probes, pinned, opened, stranded,
                 refused>>

(* misc_register fails: padlock_guard_init returns at once. *)
DeviceFails ==
  /\ state = "loading"
  /\ step = 0
  /\ state' = "absent"
  /\ UNCHANGED <<missing, step, device, probes, pinned, opened, stranded,
                 refused>>

(* The labels of padlock_guard_init, by what is unregistered first. *)
fail_probes == 1
fail_misc == Len(Probes) + 1

(* Mutant: every failure jumps to fail_misc. *)
FailLabelMisc(probe) == fail_misc

FailLabel(probe) == IF Required(probe) THEN fail_misc ELSE fail_probes

(* register_kprobe fails, for want of the symbol or for another reason. *)
ProbeFails ==
  /\ Pending
  /\ Probes[step] \in missing => Required(Probes[step])
  /\ state' = "failing"
  /\ step' = FailLabel(Probes[step])
  /\ UNCHANGED <<missing, device, probes, pinned, opened, stranded, refused>>

InitDone ==
  /\ state = "loading"
  /\ step > Len(Probes)
  /\ pinned' = TRUE
  /\ state' = "live"
  /\ UNCHANGED <<missing, step, device, probes, opened, stranded, refused>>

-----------------------------------------------------------------------------
(* The device, rmmod and padlock_guard_exit                                *)

(* The file operations' owner is the module: opening takes a reference,     *)
(* which the kernel gives while init runs or fails, but not once rmmod has  *)
(* started.                                                                 *)
Open(u) ==
  /\ device
  /\ state # "exiting"
  /\ u \notin opened \cup stranded
  /\ opened' = opened \cup {u}
  /\ UNCHANGED <<missing, state, step, device, probes, pinned, stranded,
                 refused>>

Close(u) ==
  /\ u \in opened
  /\ opened' = opened \ {u}
  /\ UNCHANGED <<missing, state, step, device, probes, pinned, stranded,
                 refused>>

(* delete_module refuses a module that anyone holds a reference on. *)
RmmodRefused ==
  /\ state = "live"
  /\ opened # {} \/ pinned
  /\ refused' = (refused \/ opened = {})
  /\ UNCHANGED <<missing, state, step, device, probes, pinned, opened,
                 stranded>>

(* The first step of padlock_guard_exit: module_put. *)
padlock_guard_exit ==
  /\ state' = "exiting"
  /\ step' = 1
  /\ pinned' = FALSE
  /\ UNCHANGED <<missing, device, probes, opened, stranded, refused>>

(* rmmod; a reference, the module's own or a user's, only yields to rmmod -f. *)
Rmmod(force) ==
  /\ state = "live"
  /\ opened # {} \/ pinned => force
  /\ padlock_guard_exit

Undoing == state \in {"failing", "exiting"}

(* padlock_guard_unregister_all_probes; nothing happens to a probe that was *)
(* never registered.                                                        *)
unregister_probe ==
  /\ Undoing
  /\ step <= Len(Probes)
  /\ probes' = probes \ {Probes[step]}
  /\ step' = step + 1
  /\ UNCHANGED <<missing, state, device, pinned, opened, stranded, refused>>

(* misc_deregister, and init or exit returns: the kernel frees the module,  *)
(* whoever still has the device open.                                       *)
deregister_device ==
  /\ Undoing
  /\ step > Len(Probes)
  /\ device' = FALSE
  /\ state' = "absent"
  /\ opened' = {}
  /\ stranded' = stranded \cup opened
  /\ UNCHANGED <<missing, step, probes, pinned, refused>>

Next ==
  \/ Insmod
  \/ RegisterDevice
  \/ register_probe
  \/ SkipProbe
  \/ DeviceFails
  \/ ProbeFails
  \/ InitDone
  \/ \E u \in User : Open(u) \/ Close(u)
  \/ RmmodRefused
  \/ \E force \in BOOLEAN : Rmmod(force)
  \/ unregister_probe
  \/ deregister_device

Spec == Init /\ [][Next]_vars

-----------------------------------------------------------------------------
(***************************************************************************)
(* A loaded guard has its device and every hook the kernel offers, always  *)
(* the one on security_file_permission: no path through                    *)
(* padlock_guard_init returns 0 with the write check missing.              *)
(***************************************************************************)
LiveIsGuarded ==
  state = "live" =>
    /\ device
    /\ probes = Probe \ missing
    /\ "file_permission" \in probes

(***************************************************************************)
(* When the module is gone, no probe calls into it and there is no device: *)
(* whatever step of padlock_guard_init failed, the label that it jumped to *)
(* undid everything that was registered before.  The same for              *)
(* padlock_guard_exit after a load that skipped any of the hooks.          *)
(***************************************************************************)
AbsentLeavesNothing ==
  state = "absent" => ~device /\ probes = {} /\ ~pinned

(***************************************************************************)
(* README: "To unload it: sudo rmmod hardcode_padlock_guard", with no      *)
(* condition but the usual one: rmmod is refused only while someone has    *)
(* the device open.                                                        *)
(***************************************************************************)
RmmodUnloads == ~refused

-----------------------------------------------------------------------------
(* The inductive invariant behind the first two. *)

(* The hooks among the first n - 1 that the kernel has. *)
Registered(n) == {Probes[m] : m \in 1 .. (n - 1)} \ missing

LoadingInv ==
  state = "loading" =>
    /\ ~pinned
    /\ step = 0 => ~device
    /\ step > 0 => device
    /\ step <= Len(Probes) + 1
    /\ probes = Registered(step)
    /\ step > 1 => "file_permission" \notin missing

(* A label leaves out only what was never registered. *)
UndoingInv ==
  Undoing =>
    /\ ~pinned
    /\ device
    /\ step >= 1
    /\ step <= Len(Probes) + 1
    /\ probes \subseteq {Probes[m] : m \in step .. Len(Probes)}

LoadInv ==
  /\ state \in {"absent", "loading", "live", "failing", "exiting"}
  /\ step \in Nat
  /\ LoadingInv
  /\ UndoingInv
  /\ LiveIsGuarded
  /\ AbsentLeavesNothing
=============================================================================
