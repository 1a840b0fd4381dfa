----------------------------- MODULE PadlockCli -----------------------------
(***************************************************************************)
(* The command line program of src/src/padlock_cli.c, run by one user in   *)
(* any number of processes: the PAM service file decides where the login   *)
(* comes from, SealedKey derives the header password from the login, and   *)
(* PadlockStore does the operation with it.                                *)
(*                                                                         *)
(* Outside the program, the installer rewrites the service file (tee       *)
(* truncates it first), the uninstaller removes it and the user changes    *)
(* the account's password, at any time.                                    *)
(***************************************************************************)
EXTENDS Naturals, FiniteSets

CONSTANTS
  Word, Proc, Inode, Key, Value, KeyLen, ValueLen, Size, HeaderBlocks, MinBlocks, MaxBlocks,
  SerialSets, HeaderBuffered, Faults, None, Random, EmptyPassword,  \* of PadlockStore
  Secret, SerialFirst, Absent, Broken,                              \* of SealedKey
  Username,  \* pw_name of the user
  Typed      \* what the user may type at the prompt or have as account password; "" is an empty line

VARIABLES
  dir, temps, created, header, data, log, pc, arg, fd, hdr, cur, found, since, ret,  \* of PadlockStore
  faults, public, private, used, kpc, login, secret, derived, mistaken, kret,        \* of SealedKey
  rule,     \* /etc/pam.d/padlock: "absent", "empty", "unix" or "trust" (the rule for this user)
  account,  \* the password of the account
  phase,    \* process -> where main and derive_header_password are
  command,  \* process -> the command it runs
  typed,    \* process -> login_password
  stale     \* history: commands and files that do not go by the rule and account of now: begun
            \* before their last change, or by a command that could not read the rule

Login == Typed \cup {Username}

S == INSTANCE PadlockStore WITH Password <- [key : Secret, login : Login] \cup {EmptyPassword}
K == INSTANCE SealedKey WITH pc <- kpc, ret <- kret

(* A header password is never empty, and processes are not files. *)
ASSUME CliAssumption ==
  /\ S!WordAssumption
  /\ S!StoreAssumption
  /\ S!LengthAssumption
  /\ K!SealedKeyAssumption
  /\ EmptyPassword \notin [key : Secret, login : Login]
  /\ Proc \cap Inode = {}

storeVars == <<dir, temps, created, header, data, log, pc, arg, fd, hdr, cur, found, since, ret>>
keyVars == <<faults, public, private, used, kpc, login, secret, derived, mistaken, kret>>
envVars == <<rule, account>>
cliVars == <<phase, command, typed>>
vars == <<storeVars, keyVars, envVars, cliVars, stale>>

Rules == {"absent", "empty", "unix", "trust"}

Commands ==
  [op : {"allocate"}, size : Size] \cup [op : {"set"}, key : Key, value : Value]
    \cup [op : {"get"}, key : Key]

NoCommand == [op |-> "none"]

Init ==
  /\ S!Init
  /\ K!Init
  /\ faults = Faults
  /\ rule \in {"absent", "unix", "trust"}
  /\ account \in Typed \ {""}
  /\ phase = [p \in Proc |-> "shell"]
  /\ command = [p \in Proc |-> NoCommand]
  /\ typed = [p \in Proc |-> ""]
  /\ stale = {}

-----------------------------------------------------------------------------
(* main up to derive_header_password                                       *)

(* The process ends, with a status that nothing in the system reads.  main *)
(* also ends here, before anything has changed, when its arguments, the    *)
(* size, the user name or the store path are no good.                      *)
Exit(p) ==
  /\ phase' = [phase EXCEPT ![p] = "shell"]
  /\ command' = [command EXCEPT ![p] = NoCommand]
  /\ typed' = [typed EXCEPT ![p] = ""]

(* Bound: no more allocations than there are inodes. *)
InodeLeft(c) ==
  c.op = "allocate" =>
    Cardinality(created) + Cardinality({p \in Proc : command[p].op = "allocate" /\ phase[p] # "store"})
      < Cardinality(Inode)

(* Every line of the file that is not blank or a comment is the rule for   *)
(* this user.  A file without such lines passes too.                       *)
Passwordless == rule \in {"empty", "trust"}

(* What the function may answer: no when fopen fails, and yes when fgets   *)
(* fails, which looks like the end of the file.                            *)
pam_service_is_passwordless_for_user ==
  IF "io" \in faults /\ rule # "absent" THEN BOOLEAN ELSE {Passwordless}

(* Bound: no more secrets are created than there are. *)
SecretLeft(p) == kpc'[p] = "create" => used # Secret

(* padlock_derive_user_header_password or padlock_derive_header_password;  *)
(* secure_zero clears login_password.                                      *)
DeriveBegin(p, l) ==
  /\ K!Derive(p, l) \/ K!DeriveMistaken(p, l)
  /\ SecretLeft(p)
  /\ phase' = [phase EXCEPT ![p] = "derive"]
  /\ typed' = [typed EXCEPT ![p] = ""]

(* main, and derive_header_password up to the prompt: it reads the service *)
(* file; without a prompt the login is the user name.                      *)
Start(p, c) ==
  /\ phase[p] = "shell"
  /\ InodeLeft(c)
  /\ command' = [command EXCEPT ![p] = c]
  /\ \E no_prompt \in pam_service_is_passwordless_for_user :
       /\ \/ /\ no_prompt
             /\ DeriveBegin(p, Username)
          \/ /\ ~no_prompt
             /\ phase' = [phase EXCEPT ![p] = "prompt"]
             /\ UNCHANGED <<keyVars, typed>>
       /\ stale' = IF no_prompt = Passwordless THEN stale \ {p} ELSE stale \cup {p}
  /\ UNCHANGED <<storeVars, envVars>>

(* prompt_password: a line, or an empty one or the end of the file. *)
Prompt(p, line) ==
  /\ phase[p] = "prompt"
  /\ IF line = ""
     THEN Exit(p)
     ELSE /\ phase' = [phase EXCEPT ![p] = "pam"]
          /\ typed' = [typed EXCEPT ![p] = line]
          /\ UNCHANGED command
  /\ UNCHANGED <<storeVars, keyVars, envVars, stale>>

(* Mutant: the result of pam_authenticate is not tested. *)
pam_authenticate_anything(line) == {TRUE}

(* What PAM may answer (external): the conversation hands it the typed     *)
(* line, and it can fail for want of memory or of a module.  Without a     *)
(* rule for the service libpam uses the service "other", which denies      *)
(* everything or checks the password.                                      *)
pam_authenticate(line) == {FALSE, rule = "trust" \/ line = account}

Authenticate(p) ==
  /\ phase[p] = "pam"
  /\ \/ /\ TRUE \in pam_authenticate(typed[p])
        /\ DeriveBegin(p, typed[p])
        /\ UNCHANGED command
     \/ /\ FALSE \in pam_authenticate(typed[p])
        /\ Exit(p)
        /\ UNCHANGED keyVars
  /\ UNCHANGED <<storeVars, envVars, stale>>

Derive(p) ==
  /\ K!Work(p)
  /\ UNCHANGED <<storeVars, envVars, cliVars, stale>>

DeriveFails(p) ==
  /\ kret[p] = "fail"
  /\ K!Return(p)
  /\ Exit(p)
  /\ UNCHANGED <<storeVars, envVars, stale>>
-----------------------------------------------------------------------------
(* The operation, with the header password that was derived                *)

header_password(p) == K!HMAC(secret[p], login[p])

Allocate(p, c, password) ==
  /\ c.op = "allocate"
  /\ S!AllocRefused(p, c.size, password) \/ S!AllocBegin(p, c.size, password)

Set(p, c, password) ==
  /\ c.op = "set"
  /\ S!SetRefused(p, c.key, c.value, password) \/ S!SetBegin(p, c.key, c.value, password)

Get(p, c, password) ==
  /\ c.op = "get"
  /\ S!GetRefused(p, c.key, password) \/ S!GetBegin(p, c.key, password)

(* The derivation returns 0 and main calls the library. *)
Call(p) ==
  /\ kret[p] = "ok"
  /\ LET c == command[p]
         password == header_password(p)
     IN  Allocate(p, c, password) \/ Set(p, c, password) \/ Get(p, c, password)
  /\ K!Return(p)
  /\ phase' = [phase EXCEPT ![p] = "store"]
  /\ stale' = IF p \in stale THEN stale \cup (created' \ created) ELSE stale
  /\ UNCHANGED <<envVars, command, typed>>

Operate(p) ==
  /\ S!Progress(p)
  /\ UNCHANGED <<keyVars, envVars, cliVars, stale>>

Finish(p) ==
  /\ S!Return(p)
  /\ Exit(p)
  /\ UNCHANGED <<keyVars, envVars, stale>>

(* The process dies at any point. *)
Kill(p) ==
  /\ "kill" \in faults
  /\ phase[p] # "shell"
  /\ S!Forget(p)
  /\ K!Forget(p)
  /\ Exit(p)
  /\ UNCHANGED <<envVars, stale>>

-----------------------------------------------------------------------------
(* What happens around the program (external) *)

(* Everything begun so far was begun before this change. *)
Overtake ==
  /\ stale' = created \cup {p \in Proc : phase[p] # "shell"}
  /\ UNCHANGED <<storeVars, keyVars, cliVars>>

(* write_pam_service of install.sh truncates the file, then writes it;     *)
(* uninstall.sh removes it.                                                *)
RewriteRule ==
  /\ rule' \in IF rule = "empty" THEN {"unix", "trust"} ELSE {"empty", "absent"} \ {rule}
  /\ Overtake
  /\ UNCHANGED account

ChangePassword ==
  /\ account' \in Typed \ {"", account}
  /\ Overtake
  /\ UNCHANGED rule

Next ==
  \/ \E p \in Proc :
       \/ \E c \in Commands : Start(p, c)
       \/ \E line \in Typed : Prompt(p, line)
       \/ Authenticate(p)
       \/ Derive(p)
       \/ DeriveFails(p)
       \/ Call(p)
       \/ Operate(p)
       \/ Finish(p)
       \/ Kill(p)
  \/ RewriteRule
  \/ ChangePassword

Spec == Init /\ [][Next]_vars

-----------------------------------------------------------------------------
(* Properties                                                              *)

(* p is about to open the header of the store. *)
AtHeader(p) == pc[p] \in {"set_header", "get_header"}

(* As long as neither the service file nor the account's password has      *)
(* changed since the store was allocated, every command that could read    *)
(* the service file and gets as far as the store opens it, whatever else   *)
(* fails, when the one that allocated it could read the file too: no       *)
(* mistyped password ever seals a store or is tried on one.  (Under the    *)
(* rule "trust" a command that cannot open the service file prompts, and   *)
(* PAM accepts whatever is typed.)                                         *)
StoreOpens ==
  \A p \in Proc : AtHeader(p) /\ {p, fd[p]} \cap stale = {} /\ ~mistaken => S!Opens(p)

(* A login that sealed a store opens it for ever, whatever fails or is     *)
(* killed in between and however often the configuration changes, as long  *)
(* as access sees the files of the helper secret: the secret behind a      *)
(* store in use is not replaced.                                           *)
LoginOpens ==
  \A p \in Proc :
    AtHeader(p) /\ arg[p].password.login = header[fd[p]].password.login /\ ~mistaken => S!Opens(p)

-----------------------------------------------------------------------------
(* The inductive invariant behind both, on top of S!Shape and K!Inv.       *)

CliTyped ==
  /\ phase \in [Proc -> {"shell", "prompt", "pam", "derive", "store"}]
  /\ command \in [Proc -> Commands \cup {NoCommand}]
  /\ typed \in [Proc -> Typed \cup {""}]

(* Nothing is left of a call that has returned or was killed. *)
FrameClean(p) ==
  /\ pc[p] = "idle" =>
       /\ arg[p] = S!NoCall
       /\ fd[p] = None
       /\ hdr[p] = None
       /\ cur[p] = 0
       /\ found[p] = None
       /\ since[p] = 0
       /\ ret[p] = "none"
  /\ kpc[p] = "idle" => login[p] = "" /\ secret[p] = Absent /\ kret[p] = "none"

(* The derivation or the library runs a call of p exactly while main waits *)
(* for it.                                                                 *)
PhaseAgrees(p) ==
  /\ phase[p] = "derive" <=> kpc[p] # "idle"
  /\ phase[p] = "store" <=> pc[p] # "idle"
  /\ phase[p] # "shell" => command[p] \in Commands
  /\ phase[p] = "derive" => login[p] \in Login

Derived == [key : derived, login : Login]

(* The header password of a call was derived. *)
HoldsDerived(p) ==
  /\ kret[p] = "ok" => kpc[p] = "done" /\ secret[p] \in derived
  /\ pc[p] # "idle" => arg[p].password \in Derived

(* The login of a user whom the service file and the account let in now. *)
CurrentLogin == IF Passwordless THEN Username ELSE account

(* A command that goes by the configuration of now uses that login; the    *)
(* file that another one allocates does not count either.                  *)
LoginIsCurrent(p) ==
  /\ p \notin stale =>
       /\ phase[p] \in {"prompt", "pam"} => ~Passwordless
       /\ phase[p] = "derive" => login[p] = CurrentLogin
       /\ phase[p] = "store" => arg[p].password.login = CurrentLogin
  /\ p \in stale /\ pc[p] \in S!AllocStates => fd[p] \in stale

ProcInv(p) == FrameClean(p) /\ PhaseAgrees(p) /\ HoldsDerived(p) /\ LoginIsCurrent(p)

(* The password in a file was derived, from that login if the file was     *)
(* created after the last change.                                          *)
FileInv(i) ==
  header[i] # None =>
    /\ header[i].password \in Derived
    /\ i \notin stale => header[i].password.login = CurrentLogin

CliInv ==
  /\ S!Shape
  /\ K!Inv
  /\ faults = Faults
  /\ CliTyped
  /\ \A p \in Proc : ProcInv(p)
  /\ \A i \in Inode : FileInv(i)
=============================================================================
