---------------------------- MODULE PadlockGuard ----------------------------
(***************************************************************************)
(* The table of the kernel guard (hardcode_padlock_guard.c): registered    *)
(* inodes, their write sessions, the ioctl calls that change them and the  *)
(* probes that ask it whether a write, truncation, unlink or rename may go *)
(* ahead.                                                                  *)
(*                                                                         *)
(* The bodies of begin_session, end_session, query and of a probe run      *)
(* under padlock_guard_lock, the path lookup included, so each is one      *)
(* step.  Register and unregister resolve the path before they take the    *)
(* lock, and a write goes on after its probe has let it pass, so each of   *)
(* those is two.  Paths, start and length are stored and reported only.    *)
(***************************************************************************)
EXTENDS Naturals, FiniteSets

CONSTANTS
  Thread,      \* threads that use the device and the files
  Tgid,        \* thread -> its thread group
  Path,        \* names of files
  Inode,       \* inode numbers; a number is used again once its file is gone
  MaxEntries,  \* PADLOCK_GUARD_MAX_ENTRIES
  Token,       \* bound: the random tokens
  None         \* no inode, thread group or token: zero in the code

ASSUME GuardAssumption ==
  /\ MaxEntries \in Nat
  /\ None \notin Inode
  /\ None \notin Token
  /\ \A t \in Thread : Tgid[t] # None

VARIABLES
  name,    \* path -> the inode it names
  entry,   \* slot -> padlock_guard_entry
  hashed,  \* the slots in padlock_guard_table
  pc,      \* thread -> "idle", "register", "unregister" or "write"
  held,    \* thread -> the inode that its running call resolved
  token,   \* thread -> the token in its request
  overtaken \* history: the threads in a write whose file was registered, or
           \* whose group ended its session, after the probe let the write pass

vars == <<name, entry, hashed, pc, held, token, overtaken>>

Slot == 1 .. MaxEntries

Groups == {Tgid[t] : t \in Thread}

NoEntry == [in_use |-> FALSE, ino |-> None, locked |-> FALSE, session_active |-> FALSE,
            session_dirty |-> FALSE, writer_tgid |-> None, token |-> None]

Init ==
  /\ name \in [Path -> Inode \cup {None}]
  /\ \A a, b \in Path : name[a] = name[b] => a = b \/ name[a] = None
  /\ entry = [s \in Slot |-> NoEntry]
  /\ hashed = {}
  /\ pc = [t \in Thread |-> "idle"]
  /\ held = [t \in Thread |-> None]
  /\ token = [t \in Thread |-> None]
  /\ overtaken = {}

-----------------------------------------------------------------------------
(* Lookups                                                                 *)

find_inode(i) == {s \in hashed : entry[s].ino = i}

(* kern_path fails for a name that is not there. *)
find_path(path) == IF name[path] = None THEN {} ELSE find_inode(name[path])

is_authorized(t, s) == entry[s].session_active /\ entry[s].writer_tgid = Tgid[t]

(* padlock_guard_deny_file and padlock_guard_deny_dentry. *)
deny(t, i) == \E s \in find_inode(i) : entry[s].locked /\ ~is_authorized(t, s)

Enter(t, state, i) ==
  /\ pc[t] = "idle"
  /\ pc' = [pc EXCEPT ![t] = state]
  /\ held' = [held EXCEPT ![t] = i]

Leave(t) ==
  /\ pc' = [pc EXCEPT ![t] = "idle"]
  /\ held' = [held EXCEPT ![t] = None]

(* The threads writing inode i. *)
Writers(i) == {t \in Thread : pc[t] = "write" /\ held[t] = i}

-----------------------------------------------------------------------------
(* padlock_guard_register_entry and padlock_guard_unregister_entry         *)

Resolve(t, path, state) ==
  /\ name[path] # None
  /\ Enter(t, state, name[path])
  /\ UNCHANGED <<name, entry, hashed, token, overtaken>>

Locked(i) == [in_use |-> TRUE, ino |-> i, locked |-> TRUE, session_active |-> FALSE,
              session_dirty |-> FALSE, writer_tgid |-> None, token |-> None]

(* The slot of the inode, or else the first free one. *)
SlotsFor(i) ==
  IF find_inode(i) # {} THEN find_inode(i)
  ELSE {s \in Slot : ~entry[s].in_use /\ \A r \in Slot : r < s => entry[r].in_use}

(* Also resets a session that is active. *)
Register(t) ==
  /\ pc[t] = "register"
  /\ \E s \in SlotsFor(held[t]) :
       /\ entry' = [entry EXCEPT ![s] = Locked(held[t])]
       /\ hashed' = hashed \cup {s}
  /\ overtaken' = overtaken \cup Writers(held[t])
  /\ Leave(t)
  /\ UNCHANGED <<name, token>>

(* -ENOSPC *)
RegisterFull(t) ==
  /\ pc[t] = "register"
  /\ SlotsFor(held[t]) = {}
  /\ Leave(t)
  /\ UNCHANGED <<name, entry, hashed, token, overtaken>>

(* Only in_use is cleared. *)
Freed(e) == [e EXCEPT !.in_use = FALSE]

(* Mutant: the slot is freed but stays in the hash table. *)
UnregisterHashed(t) ==
  /\ pc[t] = "unregister"
  /\ entry' = [s \in Slot |-> IF s \in find_inode(held[t]) THEN Freed(entry[s]) ELSE entry[s]]
  /\ Leave(t)
  /\ UNCHANGED <<name, hashed, token, overtaken>>

Unregister(t) ==
  /\ pc[t] = "unregister"
  /\ entry' = [s \in Slot |-> IF s \in find_inode(held[t]) THEN Freed(entry[s]) ELSE entry[s]]
  /\ hashed' = hashed \ find_inode(held[t])
  /\ Leave(t)
  /\ UNCHANGED <<name, token, overtaken>>

-----------------------------------------------------------------------------
(* padlock_guard_begin_session, padlock_guard_end_session, padlock_guard_query *)

(* Tokens that are nowhere: a random 64-bit number is a new one. *)
FreshToken == Token \ ({entry[s].token : s \in Slot} \cup {token[t] : t \in Thread})

(* The entry e with another session. *)
SetSession(e, active, group, k) ==
  [in_use |-> e.in_use, ino |-> e.ino, locked |-> e.locked, session_active |-> active,
   session_dirty |-> active, writer_tgid |-> group, token |-> k]

(* Mutant: the session goes to whoever asks. *)
BeginSessionSteals(t, path, copied) ==
  /\ pc[t] = "idle"
  /\ \E s \in find_path(path), k \in FreshToken :
       /\ entry' = [entry EXCEPT ![s] = SetSession(@, TRUE, Tgid[t], k)]
       /\ token' = IF copied THEN [token EXCEPT ![t] = k] ELSE token
  /\ UNCHANGED <<name, hashed, pc, held, overtaken>>

(* Mutant: the thread, not its group, becomes the writer. *)
BeginSessionByThread(t, path, copied) ==
  /\ pc[t] = "idle"
  /\ \E s \in find_path(path), k \in FreshToken :
       /\ ~(entry[s].session_active /\ entry[s].writer_tgid # t)
       /\ entry' = [entry EXCEPT ![s] = SetSession(@, TRUE, t, k)]
       /\ token' = IF copied THEN [token EXCEPT ![t] = k] ELSE token
  /\ UNCHANGED <<name, hashed, pc, held, overtaken>>

(* -EBUSY while another thread group has the session.  When copy_to_user   *)
(* fails, the session is on but the caller has no token.                   *)
BeginSession(t, path, copied) ==
  /\ pc[t] = "idle"
  /\ \E s \in find_path(path), k \in FreshToken :
       /\ ~(entry[s].session_active /\ entry[s].writer_tgid # Tgid[t])
       /\ entry' = [entry EXCEPT ![s] = SetSession(@, TRUE, Tgid[t], k)]
       /\ token' = IF copied THEN [token EXCEPT ![t] = k] ELSE token
  /\ UNCHANGED <<name, hashed, pc, held, overtaken>>

EndSession(t, path) ==
  /\ pc[t] = "idle"
  /\ \E s \in find_path(path) :
       /\ is_authorized(t, s)
       /\ entry[s].token = token[t]
       /\ entry' = [entry EXCEPT ![s] = SetSession(@, FALSE, None, None)]
       /\ overtaken' = overtaken \cup {u \in Writers(entry[s].ino) : Tgid[u] = Tgid[t]}
  /\ UNCHANGED <<name, hashed, pc, held, token>>

(* Reports the token of the session, whoever asks. *)
Query(t, path) ==
  /\ pc[t] = "idle"
  /\ \E s \in find_path(path) : token' = [token EXCEPT ![t] = entry[s].token]
  /\ UNCHANGED <<name, entry, hashed, pc, held, overtaken>>

-----------------------------------------------------------------------------
(* File operations and the probes on them.  The kernel holds the directory *)
(* locked from the probe of an unlink or rename to the operation itself.   *)

(* Mutant: the probe on write is not there. *)
WriteBeginUnprobed(t, path) ==
  /\ name[path] # None
  /\ Enter(t, "write", name[path])
  /\ UNCHANGED <<name, entry, hashed, token, overtaken>>

(* security_file_permission, security_file_truncate, security_path_truncate *)
WriteBegin(t, path) ==
  /\ name[path] # None
  /\ ~deny(t, name[path])
  /\ Enter(t, "write", name[path])
  /\ UNCHANGED <<name, entry, hashed, token, overtaken>>

WriteEnd(t) ==
  /\ pc[t] = "write"
  /\ overtaken' = overtaken \ {t}
  /\ Leave(t)
  /\ UNCHANGED <<name, entry, hashed, token>>

(* security_path_unlink *)
Unlink(t, path) ==
  /\ pc[t] = "idle"
  /\ name[path] # None
  /\ ~deny(t, name[path])
  /\ name' = [name EXCEPT ![path] = None]
  /\ UNCHANGED <<entry, hashed, pc, held, token, overtaken>>

(* security_path_rename looks at the file that moves. *)
Rename(t, from, to) ==
  /\ pc[t] = "idle"
  /\ from # to
  /\ name[from] # None
  /\ ~deny(t, name[from])
  /\ name' = [name EXCEPT ![from] = None, ![to] = name[from]]
  /\ UNCHANGED <<entry, hashed, pc, held, token, overtaken>>

(* A new file takes any inode number that no name and no call refers to. *)
Creat(t, path) ==
  /\ pc[t] = "idle"
  /\ name[path] = None
  /\ \E i \in Inode :
       /\ \A a \in Path : name[a] # i
       /\ \A u \in Thread : held[u] # i
       /\ name' = [name EXCEPT ![path] = i]
  /\ UNCHANGED <<entry, hashed, pc, held, token, overtaken>>

(* A thread group exits, its sessions stay; a new process gets its number. *)
Exit(g) ==
  /\ \E t \in Thread : Tgid[t] = g /\ (pc[t] # "idle" \/ token[t] # None)
  /\ pc' = [t \in Thread |-> IF Tgid[t] = g THEN "idle" ELSE pc[t]]
  /\ held' = [t \in Thread |-> IF Tgid[t] = g THEN None ELSE held[t]]
  /\ token' = [t \in Thread |-> IF Tgid[t] = g THEN None ELSE token[t]]
  /\ overtaken' = {t \in overtaken : Tgid[t] # g}
  /\ UNCHANGED <<name, entry, hashed>>

DeviceNext(t) ==
  \/ \E path \in Path :
       \/ Resolve(t, path, "register")
       \/ Resolve(t, path, "unregister")
       \/ \E copied \in BOOLEAN : BeginSession(t, path, copied)
       \/ EndSession(t, path)
       \/ Query(t, path)
  \/ Register(t)
  \/ RegisterFull(t)
  \/ Unregister(t)

FileNext(t) ==
  \/ \E path \in Path : WriteBegin(t, path) \/ Unlink(t, path) \/ Creat(t, path)
  \/ \E from, to \in Path : Rename(t, from, to)
  \/ WriteEnd(t)

Next ==
  \/ \E t \in Thread : DeviceNext(t) \/ FileNext(t)
  \/ \E g \in Groups : Exit(g)

Spec == Init /\ [][Next]_vars

-----------------------------------------------------------------------------
(* Properties                                                              *)

Entry == [in_use : BOOLEAN, ino : Inode \cup {None}, locked : BOOLEAN, session_active : BOOLEAN,
          session_dirty : BOOLEAN, writer_tgid : Groups \cup {None}, token : Token \cup {None}]

TypeOK ==
  /\ name \in [Path -> Inode \cup {None}]
  /\ entry \in [Slot -> Entry]
  /\ hashed \subseteq Slot
  /\ pc \in [Thread -> {"idle", "register", "unregister", "write"}]
  /\ held \in [Thread -> Inode \cup {None}]
  /\ token \in [Thread -> Token \cup {None}]
  /\ overtaken \subseteq Thread

(* The table is sound, although registrations of one file race: the slots  *)
(* in the hash table are those in use, no two of them are for one inode,   *)
(* each is locked, and a session has a writer and a token or neither.      *)
TableSound ==
  /\ hashed = {s \in Slot : entry[s].in_use}
  /\ \A r, s \in hashed : entry[r].ino = entry[s].ino => r = s
  /\ \A s \in hashed :
       /\ entry[s].ino # None
       /\ entry[s].locked
       /\ entry[s].session_active <=> entry[s].writer_tgid # None
       /\ entry[s].session_active <=> entry[s].token # None
       /\ entry[s].session_dirty <=> entry[s].session_active

(* A write that is under way on a registered inode belongs to the thread   *)
(* group that has the session, unless the file was registered or the       *)
(* session ended under it: neither a racing BEGIN_WRITE, nor an old token, *)
(* nor a queried one, nor an exit of another group takes it away, so two   *)
(* groups write one registered inode only across such a step.              *)
WritesInSession ==
  \A t \in Thread : pc[t] = "write" /\ t \notin overtaken => ~deny(t, held[t])

(* A session passes from one thread group to another only after it was     *)
(* ended, reset by a registration or dropped by an unregistration.         *)
SessionNotStolen ==
  [][\A s \in hashed \cap hashed' :
       (entry[s].session_active /\ entry'[s].session_active) =>
         entry'[s].writer_tgid = entry[s].writer_tgid]_vars

-----------------------------------------------------------------------------
(* The inductive invariants.                                               *)

(* A call that resolved its path holds an inode. *)
HoldsInode == \A t \in Thread : pc[t] # "idle" => held[t] \in Inode

Inv == TypeOK /\ HoldsInode /\ TableSound
=============================================================================
