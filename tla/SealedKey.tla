----------------------------- MODULE SealedKey ------------------------------
(***************************************************************************)
(* The TPM-sealed helper secret of src/src/padlock.c: the derivation of a  *)
(* header password, which creates the secret on first use and unseals it   *)
(* afterwards from the files header-hmac.pub and header-hmac.priv.         *)
(*                                                                         *)
(* A sealed object is named by the random key inside it, so a file holds   *)
(* the key whose blob was written to it, Absent when there is no file, or  *)
(* Broken when read_blob refuses its contents (empty after fopen "wb",     *)
(* or short).  A blob is smaller than the stdio buffer: fwrite only fills  *)
(* the buffer and fclose writes it.  The code takes no lock.               *)
(***************************************************************************)
EXTENDS Naturals

CONSTANTS
  Proc,         \* processes of one user
  Secret,       \* bound: the keys RAND_bytes can produce in a behaviour
  Login,        \* login passwords or user names; the empty one is ""
  SerialFirst,  \* TRUE: no derivation starts while another one creates the secret
  Faults,       \* a subset of {"io", "kill"}: the faults that a behaviour may meet
  Absent, Broken

ASSUME SealedKeyAssumption ==
  /\ SerialFirst \in BOOLEAN
  /\ Faults \subseteq {"io", "kill"}
  /\ Absent \notin Secret
  /\ Broken \notin Secret
  /\ Absent # Broken

VARIABLES
  faults,   \* the faults that this behaviour may meet; it never changes
  public,   \* contents of header-hmac.pub
  private,  \* contents of header-hmac.priv
  used,     \* keys that RAND_bytes has produced
  pc,       \* process -> where it is
  login,    \* process -> the argument of its call
  secret,   \* process -> the object it created, or the public blob it read
  derived,  \* history: the keys that calls which returned 0 derived from
  mistaken, \* history: access failed on files that were both there
  ret       \* process -> "none", "ok" or "fail"

files == <<public, private>>
vars == <<faults, public, private, used, pc, login, secret, derived, mistaken, ret>>

CreateStates == {"create", "open_public", "open_private", "private_only", "close_public", "close_private"}
UnsealStates == {"read_public", "read_private"}
States == {"idle", "done"} \cup CreateStates \cup UnsealStates

Init ==
  /\ faults \in SUBSET Faults
  /\ public = Absent
  /\ private = Absent
  /\ used = {}
  /\ pc = [p \in Proc |-> "idle"]
  /\ login = [p \in Proc |-> ""]
  /\ secret = [p \in Proc |-> Absent]
  /\ derived = {}
  /\ mistaken = FALSE
  /\ ret = [p \in Proc |-> "none"]

Goto(p, state) == pc' = [pc EXCEPT ![p] = state] /\ UNCHANGED <<login, ret>>

Finish(p, result) ==
  /\ pc' = [pc EXCEPT ![p] = "done"]
  /\ ret' = [ret EXCEPT ![p] = result]
  /\ UNCHANGED login

-----------------------------------------------------------------------------
(* padlock_derive_header_password, padlock_derive_user_header_password and *)
(* the test of padlock_tpm_ensure_sealed_key for the two files.  No call   *)
(* removes a file, so two access calls that succeed see what one would.    *)

(* Mutant: the test looks in the wrong directory. *)
MissingAlways == TRUE

Missing == public = Absent \/ private = Absent

Begin(p, l) ==
  /\ pc[p] = "idle"
  /\ SerialFirst => \A q \in Proc : pc[q] \notin CreateStates
  /\ login' = [login EXCEPT ![p] = l]
  /\ UNCHANGED faults

DeriveRefused(p, l) ==
  /\ Begin(p, l)
  /\ l = ""
  /\ pc' = [pc EXCEPT ![p] = "done"]
  /\ ret' = [ret EXCEPT ![p] = "fail"]
  /\ UNCHANGED <<files, used, secret, derived, mistaken>>

Derive(p, l) ==
  /\ Begin(p, l)
  /\ l # ""
  /\ pc' = [pc EXCEPT ![p] = IF Missing THEN "create" ELSE "read_public"]
  /\ UNCHANGED <<files, used, secret, derived, mistaken, ret>>

(* access can also fail on a file that is there (EACCES, EIO, ENOMEM); the  *)
(* call then goes on to create a secret over the one that it did not see.   *)
DeriveMistaken(p, l) ==
  /\ Begin(p, l)
  /\ l # ""
  /\ "io" \in faults
  /\ ~Missing
  /\ pc' = [pc EXCEPT ![p] = "create"]
  /\ mistaken' = TRUE
  /\ UNCHANGED <<files, used, secret, derived, ret>>

(* What a call that returns 0 puts in output: the HMAC of its argument     *)
(* under the key.                                                          *)
HMAC(key, l) == [key |-> key, login |-> l]

-----------------------------------------------------------------------------
(* padlock_tpm_create_sealed_secret                                        *)

(* RAND_bytes, padlock_tpm_connect, Esys_CreatePrimary and Esys_Create. *)
Create(p) ==
  /\ pc[p] = "create"
  /\ \E k \in Secret \ used :
       /\ used' = used \cup {k}
       /\ secret' = [secret EXCEPT ![p] = k]
  /\ Goto(p, "open_public")
  /\ UNCHANGED <<files, derived>>

(* Both files are opened, and so truncated, before the first test of       *)
(* either; a file that could not be opened is left alone.                  *)
OpenPublic(p) ==
  /\ pc[p] = "open_public"
  /\ public' = Broken
  /\ Goto(p, "open_private")
  /\ UNCHANGED <<private, used, secret, derived>>

OpenPublicFails(p) ==
  /\ pc[p] = "open_public"
  /\ "io" \in faults
  /\ Goto(p, "private_only")
  /\ UNCHANGED <<files, used, secret, derived>>

OpenPrivate(p) ==
  /\ pc[p] = "open_private"
  /\ private' = Broken
  /\ Goto(p, "close_public")
  /\ UNCHANGED <<public, used, secret, derived>>

OpenPrivateOnly(p) ==
  /\ pc[p] = "private_only"
  /\ private' \in {Broken, private}
  /\ Finish(p, "fail")
  /\ UNCHANGED <<public, used, secret, derived>>

(* fclose flushes the blob, or fails to, or writes part of it; the result  *)
(* is ignored.                                                             *)
Flushed(before, p) == {secret[p]} \cup IF "io" \in faults THEN {before, Broken} ELSE {}

ClosePublic(p) ==
  /\ pc[p] = "close_public"
  /\ public' \in Flushed(public, p)
  /\ Goto(p, "close_private")
  /\ UNCHANGED <<private, used, secret, derived>>

(* Mutant: the private blob is not written. *)
ClosePrivateUnwritten(p) ==
  /\ pc[p] = "close_private"
  /\ secret' = [secret EXCEPT ![p] = Absent]
  /\ Goto(p, "read_public")
  /\ UNCHANGED <<files, used, derived>>

(* Mutant: the call that created the secret gives up. *)
ClosePrivateStops(p) ==
  /\ pc[p] = "close_private"
  /\ private' \in Flushed(private, p)
  /\ Finish(p, "fail")
  /\ UNCHANGED <<public, used, secret, derived>>

(* Flushes the primary handle and disconnects as well. *)
ClosePrivate(p) ==
  /\ pc[p] = "close_private"
  /\ private' \in Flushed(private, p)
  /\ secret' = [secret EXCEPT ![p] = Absent]
  /\ Goto(p, "read_public")
  /\ UNCHANGED <<public, used, derived>>

(* The TPM or fopen fails, or a blob cannot be marshalled: the exit closes *)
(* what is open, with the public blob in it or not.                        *)
CreateFails(p) ==
  /\ "io" \in faults
  /\ pc[p] \in {"create", "open_private", "close_public"}
  /\ public' \in IF pc[p] = "close_public" THEN Flushed(public, p) ELSE {public}
  /\ Finish(p, "fail")
  /\ UNCHANGED <<private, used, secret, derived>>

-----------------------------------------------------------------------------
(* padlock_tpm_unseal_secret                                               *)

(* Mutant: an empty file is accepted. *)
ReadPublicUnchecked(p) ==
  /\ pc[p] = "read_public"
  /\ secret' = [secret EXCEPT ![p] = public]
  /\ Goto(p, "read_private")
  /\ UNCHANGED <<files, used, derived>>

ReadPublic(p) ==
  /\ pc[p] = "read_public"
  /\ public \in Secret
  /\ secret' = [secret EXCEPT ![p] = public]
  /\ Goto(p, "read_private")
  /\ UNCHANGED <<files, used, derived>>

ReadPublicFails(p) ==
  /\ pc[p] = "read_public"
  /\ public \notin Secret \/ "io" \in faults
  /\ Finish(p, "fail")
  /\ UNCHANGED <<files, used, secret, derived>>

(* Esys_Load accepts a private blob only with the public blob of the same  *)
(* object; Esys_Unseal then gives the key.                                 *)
Loads(p) == private \in Secret /\ private = secret[p]

(* Mutant: no result of the TPM is tested, the key is whatever was there. *)
ReadPrivateUnchecked(p) ==
  /\ pc[p] = "read_private"
  /\ \E k \in Secret :
       derived' = derived \cup {k}
  /\ Finish(p, "ok")
  /\ UNCHANGED <<files, used, secret>>

ReadPrivate(p) ==
  /\ pc[p] = "read_private"
  /\ Loads(p)
  /\ derived' = derived \cup {private}
  /\ Finish(p, "ok")
  /\ UNCHANGED <<files, used, secret>>

(* Mutant: when the secret cannot be unsealed, another one is created. *)
ReadPrivateRetries(p) ==
  /\ pc[p] = "read_private"
  /\ ~Loads(p) \/ "io" \in faults
  /\ Goto(p, "create")
  /\ UNCHANGED <<files, used, secret, derived>>

ReadPrivateFails(p) ==
  /\ pc[p] = "read_private"
  /\ ~Loads(p) \/ "io" \in faults
  /\ Finish(p, "fail")
  /\ UNCHANGED <<files, used, secret, derived>>

-----------------------------------------------------------------------------
Forget(p) ==
  /\ pc' = [pc EXCEPT ![p] = "idle"]
  /\ login' = [login EXCEPT ![p] = ""]
  /\ secret' = [secret EXCEPT ![p] = Absent]
  /\ ret' = [ret EXCEPT ![p] = "none"]
  /\ UNCHANGED <<faults, files, used, derived, mistaken>>

Return(p) ==
  /\ pc[p] = "done"
  /\ Forget(p)

(* The process dies inside a call; another one takes its place. *)
Kill(p) ==
  /\ "kill" \in faults
  /\ pc[p] \notin {"idle", "done"}
  /\ Forget(p)

(* A call that runs goes on: no step waits for another process. *)
Work(p) ==
  /\ UNCHANGED <<faults, mistaken>>
  /\ \/ Create(p) \/ OpenPublic(p) \/ OpenPublicFails(p) \/ OpenPrivate(p) \/ OpenPrivateOnly(p)
     \/ ClosePublic(p) \/ ClosePrivate(p) \/ CreateFails(p)
     \/ ReadPublic(p) \/ ReadPublicFails(p) \/ ReadPrivate(p) \/ ReadPrivateFails(p)

Next ==
  \E p \in Proc :
    \/ \E l \in Login : DeriveRefused(p, l) \/ Derive(p, l) \/ DeriveMistaken(p, l)
    \/ Work(p)
    \/ Return(p)
    \/ Kill(p)

Spec == Init /\ [][Next]_vars

FairSpec == Spec /\ \A p \in Proc : WF_vars(Work(p) \/ Return(p))

-----------------------------------------------------------------------------
(* Properties                                                              *)

Blob == Secret \cup {Absent, Broken}

Name == Login \cup {""}

TypeOK ==
  /\ faults \subseteq Faults
  /\ public \in Blob
  /\ private \in Blob
  /\ used \subseteq Secret
  /\ pc \in [Proc -> States]
  /\ login \in [Proc -> Name]
  /\ secret \in [Proc -> Secret \cup {Absent}]
  /\ derived \subseteq Secret
  /\ mistaken \in BOOLEAN
  /\ mistaken => "io" \in faults
  /\ ret \in [Proc -> {"none", "ok", "fail"}]

(* The header password of a login password never changes, whatever fails   *)
(* or is killed, as long as access sees the files that are there: all      *)
(* calls that succeed, the one that created the secret included, derive    *)
(* from the same key, so a store stays readable.                           *)
PasswordIsStable ==
  ~mistaken => \A d, e \in derived, l \in Login : HMAC(d, l) = HMAC(e, l)

(* Once any call has succeeded, no step of any later call touches the two  *)
(* files: of everything that can fail, only access failing on files that   *)
(* are there makes padlock_tpm_ensure_sealed_key create a second secret    *)
(* over one that was used.                                                 *)
UsedSecretIsKept == [][derived # {} /\ ~mistaken => UNCHANGED files]_vars

(* Without faults, the two files that are there when no call is running    *)
(* are the public and the private blob of one sealed secret.               *)
FilesMatch ==
  (faults = {} /\ \A p \in Proc : pc[p] = "idle") =>
    (public # Absent /\ private # Absent => public = private /\ public \in Secret)

(* Without faults every derivation for a login password succeeds, the      *)
(* first one, which creates the secret, like the later ones.               *)
DerivationsSucceed ==
  \A p \in Proc :
    (faults = {} /\ pc[p] \in CreateStates \cup UnsealStates) ~> (pc[p] = "done" /\ ret[p] = "ok")

-----------------------------------------------------------------------------
(* The inductive invariant, when the first derivation is not overlapped. *)

(* A call that creates the secret runs alone. *)
AloneWhileCreating ==
  \A p, q \in Proc : pc[p] \in CreateStates /\ q # p => pc[q] \in {"idle", "done"}

(* Nobody reads files that are missing. *)
ReadersFindFiles == (\E p \in Proc : pc[p] \in UnsealStates) => ~Missing

(* A file that was opened for writing exists. *)
OpenedFilesExist ==
  \A p \in Proc :
    /\ pc[p] \in {"open_public", "open_private", "close_public", "close_private"} => secret[p] \in Secret
    /\ pc[p] \in {"open_private", "close_public", "close_private"} => public # Absent
    /\ pc[p] \in {"close_public", "close_private"} => private # Absent

(* A secret that was used is on both files, and nobody is creating another. *)
UsedIsOnFile ==
  derived # {} =>
    /\ public \in Secret
    /\ private = public
    /\ derived = {public}
    /\ \A p \in Proc : pc[p] \notin CreateStates

(* A call that read the public file still sees what it read. *)
ReadIsCurrent == \A p \in Proc : pc[p] = "read_private" => secret[p] = public

(* Without faults the files are both absent or match, unless a call is     *)
(* between opening the first and closing the second.                       *)
FaultlessFiles ==
  faults = {} =>
    /\ \/ public = Absent /\ private = Absent
       \/ public = private /\ public \in Secret
       \/ \E p \in Proc : pc[p] \in CreateStates
    /\ \A p \in Proc :
         /\ pc[p] # "private_only"
         /\ pc[p] = "close_private" => public = secret[p]

Undisturbed ==
  /\ TypeOK
  /\ AloneWhileCreating
  /\ ReadersFindFiles
  /\ OpenedFilesExist
  /\ UsedIsOnFile
  /\ ReadIsCurrent

(* Nothing is promised once access has overlooked a file. *)
Inv == TypeOK /\ (~mistaken => Undisturbed)
=============================================================================
