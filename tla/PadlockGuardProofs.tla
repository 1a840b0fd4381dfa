------------------------- MODULE PadlockGuardProofs -------------------------
(***************************************************************************)
(* The guard's table stays sound for any number of threads, paths, inodes  *)
(* and slots, and every write belongs to a session unless it was overtaken *)
(* by a registration of its file or by the end of its session.             *)
(***************************************************************************)
EXTENDS PadlockGuard, TLAPS

(* Zenon proves most leaves; one that needs arithmetic or functions names SMT. *)
USE Zenon

(* The invariant holds initially. *)
LEMMA GuardInit == Init => Inv
<1> SUFFICES ASSUME Init PROVE Inv
  OBVIOUS
<1>1. TypeOK
  <2>1. NoEntry \in Entry
    BY DEF NoEntry, Entry
  <2> QED
    BY <2>1 DEF Init, TypeOK
<1>2. HoldsInode
  BY DEF Init, HoldsInode
<1>3. TableSound
  BY DEF Init, TableSound, NoEntry
<1> QED
  BY <1>1, <1>2, <1>3 DEF Inv

(* A step that leaves the table alone. *)
LEMMA TableKept ==
  ASSUME Inv, TypeOK', HoldsInode', UNCHANGED <<entry, hashed>>
  PROVE  Inv'
BY DEF Inv, TableSound

(* A thread that enters a call holds the inode it resolved. *)
LEMMA EnterTyped ==
  ASSUME Inv, NEW t \in Thread, NEW i \in Inode, NEW state \in {"register", "unregister", "write"},
         Enter(t, state, i)
  PROVE  HoldsInode' /\ pc' \in [Thread -> {"idle", "register", "unregister", "write"}]
                     /\ held' \in [Thread -> Inode \cup {None}]
BY DEF Inv, TypeOK, HoldsInode, Enter

(* A thread that leaves a call holds nothing. *)
LEMMA LeaveTyped ==
  ASSUME Inv, NEW t \in Thread, Leave(t)
  PROVE  HoldsInode' /\ pc' \in [Thread -> {"idle", "register", "unregister", "write"}]
                     /\ held' \in [Thread -> Inode \cup {None}]
BY DEF Inv, TypeOK, HoldsInode, Leave

(* Replacing the entry of one slot that is in the hash table, or is put    *)
(* there, by one for the same inode or for one that has no slot.           *)
LEMMA OneEntry ==
  ASSUME Inv, NEW s \in Slot, NEW e \in Entry,
         entry' = [entry EXCEPT ![s] = e], hashed' = hashed \cup {s},
         e.in_use, e.ino # None, e.locked,
         e.session_active <=> e.writer_tgid # None,
         e.session_active <=> e.token # None,
         e.session_dirty <=> e.session_active,
         \A r \in hashed : entry[r].ino = e.ino => r = s
  PROVE  TableSound'
<1>1. entry \in [Slot -> Entry] /\ hashed \subseteq Slot
  BY DEF Inv, TypeOK
<1>2. entry'[s] = e /\ \A r \in Slot : r # s => entry'[r] = entry[r]
  BY <1>1
<1>3. hashed' = {r \in Slot : entry'[r].in_use}
  BY SMTT(30), <1>1, <1>2 DEF Inv, TableSound
<1>4. \A r, q \in hashed' : entry'[r].ino = entry'[q].ino => r = q
  BY SMTT(30), <1>1, <1>2 DEF Inv, TableSound
<1>5. \A r \in hashed' :
       /\ entry'[r].ino # None
       /\ entry'[r].locked
       /\ entry'[r].session_active <=> entry'[r].writer_tgid # None
       /\ entry'[r].session_active <=> entry'[r].token # None
       /\ entry'[r].session_dirty <=> entry'[r].session_active
  BY SMTT(30), <1>1, <1>2 DEF Inv, TableSound
<1> QED
  BY <1>3, <1>4, <1>5 DEF TableSound

(* Register keeps the invariant. *)
LEMMA GuardRegister == ASSUME Inv, NEW t \in Thread, Register(t) PROVE Inv'
<1>1. PICK s \in SlotsFor(held[t]) :
        entry' = [entry EXCEPT ![s] = Locked(held[t])] /\ hashed' = hashed \cup {s}
  BY DEF Register
<1>2. held[t] \in Inode
  BY DEF Inv, HoldsInode, Register
<1>3. s \in Slot
  BY <1>1 DEF SlotsFor, find_inode, Inv, TypeOK
<1>4. Locked(held[t]) \in Entry
  BY <1>2 DEF Locked, Entry
<1>5. \A r \in hashed : entry[r].ino = held[t] => r = s
  BY <1>1, <1>3 DEF SlotsFor, find_inode, Inv, TableSound
<1>6. TableSound'
  BY ZenonT(60), <1>1, <1>2, <1>3, <1>4, <1>5, OneEntry, GuardAssumption DEF Locked
<1>7. overtaken' \subseteq Thread
  BY DEF Register, Writers, Inv, TypeOK
<1>8. TypeOK' /\ HoldsInode'
  BY <1>1, <1>3, <1>4, <1>7, LeaveTyped DEF Register, Inv, TypeOK
<1> QED
  BY <1>6, <1>8 DEF Inv

(* Unregister keeps the invariant. *)
LEMMA GuardUnregister == ASSUME Inv, NEW t \in Thread, Unregister(t) PROVE Inv'
<1> DEFINE gone == find_inode(held[t])
<1>1. /\ entry' = [s \in Slot |-> IF s \in gone THEN Freed(entry[s]) ELSE entry[s]]
      /\ hashed' = hashed \ gone
      /\ Leave(t) /\ UNCHANGED <<name, token, overtaken>>
  BY DEF Unregister
<1>2. gone \subseteq hashed /\ hashed \subseteq Slot /\ entry \in [Slot -> Entry]
  BY DEF find_inode, Inv, TypeOK
<1>3. \A s \in Slot : Freed(entry[s]) \in Entry /\ ~Freed(entry[s]).in_use
  BY <1>2 DEF Freed, Entry
<1> HIDE DEF gone
<1>4. entry' \in [Slot -> Entry]
  BY <1>1, <1>2, <1>3
<1>5. TypeOK' /\ HoldsInode'
  BY <1>1, <1>2, <1>4, LeaveTyped DEF Inv, TypeOK
<1>6. \A s \in Slot : (s \in gone => ~entry'[s].in_use) /\ (s \notin gone => entry'[s] = entry[s])
  BY <1>1, <1>3
<1>7. TableSound'
  BY SMTT(30), <1>1, <1>2, <1>6 DEF Inv, TableSound
<1> QED
  BY <1>5, <1>7 DEF Inv

(* BeginSession keeps the invariant. *)
LEMMA GuardBegin ==
  ASSUME Inv, NEW t \in Thread, NEW path \in Path, NEW copied \in BOOLEAN, BeginSession(t, path, copied)
  PROVE  Inv'
<1>1. PICK s \in find_path(path), k \in FreshToken :
        /\ entry' = [entry EXCEPT ![s] = SetSession(@, TRUE, Tgid[t], k)]
        /\ token' = IF copied THEN [token EXCEPT ![t] = k] ELSE token
  BY DEF BeginSession
<1>2. s \in hashed /\ s \in Slot /\ entry[s] \in Entry /\ k \in Token /\ hashed' = hashed \cup {s}
  BY SMTT(30), <1>1 DEF find_path, find_inode, FreshToken, BeginSession, Inv, TypeOK
<1>3. Tgid[t] \in Groups /\ Tgid[t] # None /\ k # None
  BY <1>2, GuardAssumption DEF Groups
<1>4. SetSession(entry[s], TRUE, Tgid[t], k) \in Entry
  BY <1>2, <1>3 DEF SetSession, Entry
<1>5. entry' = [entry EXCEPT ![s] = SetSession(entry[s], TRUE, Tgid[t], k)]
  BY <1>1, <1>2 DEF Inv, TypeOK
<1>6. TableSound'
  <2> DEFINE e == SetSession(entry[s], TRUE, Tgid[t], k)
  <2>1. /\ e.in_use = entry[s].in_use /\ e.ino = entry[s].ino /\ e.locked = entry[s].locked
        /\ e.session_active /\ e.session_dirty
        /\ e.writer_tgid = Tgid[t] /\ e.token = k
    BY DEF SetSession
  <2>2. entry[s].in_use /\ entry[s].ino # None /\ entry[s].locked
    BY <1>2 DEF Inv, TableSound
  <2>3. \A r \in hashed : entry[r].ino = entry[s].ino => r = s
    BY <1>2 DEF Inv, TableSound
  <2>4. e \in Entry /\ entry' = [entry EXCEPT ![s] = e]
    BY <1>4, <1>5
  <2> HIDE DEF e
  <2> QED
    <3>1. /\ e.in_use /\ e.ino # None /\ e.locked
          /\ e.session_active <=> e.writer_tgid # None
          /\ e.session_active <=> e.token # None
          /\ e.session_dirty <=> e.session_active
      BY <1>3, <2>1, <2>2
    <3>2. \A r \in hashed : entry[r].ino = e.ino => r = s
      BY <2>1, <2>3
    <3> QED
      BY <1>2, <2>4, <3>1, <3>2, OneEntry
<1>7. TypeOK' /\ HoldsInode'
  BY ZenonT(60), <1>1, <1>2, <1>4, <1>5 DEF BeginSession, Inv, TypeOK, HoldsInode
<1> QED
  BY <1>6, <1>7 DEF Inv

(* EndSession keeps the invariant. *)
LEMMA GuardEnd == ASSUME Inv, NEW t \in Thread, NEW path \in Path, EndSession(t, path) PROVE Inv'
<1>1. PICK s \in find_path(path) : entry' = [entry EXCEPT ![s] = SetSession(@, FALSE, None, None)]
  BY DEF EndSession
<1>2. s \in hashed /\ s \in Slot /\ entry[s] \in Entry /\ hashed' = hashed \cup {s}
  BY <1>1 DEF find_path, find_inode, EndSession, Inv, TypeOK
<1>3. SetSession(entry[s], FALSE, None, None) \in Entry
  BY <1>2 DEF SetSession, Entry
<1>4. entry' = [entry EXCEPT ![s] = SetSession(entry[s], FALSE, None, None)]
  BY <1>1, <1>2 DEF Inv, TypeOK
<1>5. TableSound'
  <2> DEFINE e == SetSession(entry[s], FALSE, None, None)
  <2>1. /\ e.in_use = entry[s].in_use /\ e.ino = entry[s].ino /\ e.locked = entry[s].locked
        /\ ~e.session_active /\ ~e.session_dirty
        /\ e.writer_tgid = None /\ e.token = None
    BY DEF SetSession
  <2>2. entry[s].in_use /\ entry[s].ino # None /\ entry[s].locked
    BY <1>2 DEF Inv, TableSound
  <2>3. \A r \in hashed : entry[r].ino = entry[s].ino => r = s
    BY <1>2 DEF Inv, TableSound
  <2>4. e \in Entry /\ entry' = [entry EXCEPT ![s] = e]
    BY <1>3, <1>4
  <2> HIDE DEF e
  <2> QED
    <3>1. /\ e.in_use /\ e.ino # None /\ e.locked
          /\ e.session_active <=> e.writer_tgid # None
          /\ e.session_active <=> e.token # None
          /\ e.session_dirty <=> e.session_active
      BY <2>1, <2>2
    <3>2. \A r \in hashed : entry[r].ino = e.ino => r = s
      BY <2>1, <2>3
    <3> QED
      BY <1>2, <2>4, <3>1, <3>2, OneEntry
<1>6. overtaken' \subseteq Thread
  BY DEF EndSession, Writers, Inv, TypeOK
<1>7. TypeOK' /\ HoldsInode'
  BY <1>2, <1>3, <1>4, <1>6 DEF EndSession, Inv, TypeOK, HoldsInode
<1> QED
  BY <1>5, <1>7 DEF Inv

(* Query keeps the invariant. *)
LEMMA GuardQuery == ASSUME Inv, NEW t \in Thread, NEW path \in Path, Query(t, path) PROVE Inv'
<1>1. PICK s \in find_path(path) : token' = [token EXCEPT ![t] = entry[s].token]
  BY DEF Query
<1>2. entry[s].token \in Token \cup {None}
  BY <1>1 DEF find_path, find_inode, Inv, TypeOK, Entry
<1>3. TypeOK' /\ HoldsInode'
  BY <1>1, <1>2 DEF Query, Inv, TypeOK, HoldsInode
<1> QED
  BY <1>3, TableKept DEF Query

(* The file operations and exits keep the invariant. *)
LEMMA GuardFile == ASSUME Inv, NEW t \in Thread, FileNext(t) PROVE Inv'
<1>1. ASSUME NEW path \in Path, WriteBegin(t, path) PROVE Inv'
  <2>1. name[path] \in Inode
    BY <1>1 DEF WriteBegin, Inv, TypeOK
  <2>2. TypeOK' /\ HoldsInode'
    BY <1>1, <2>1, EnterTyped DEF WriteBegin, Inv, TypeOK
  <2> QED
    BY <1>1, <2>2, TableKept DEF WriteBegin
<1>2. ASSUME NEW path \in Path, Unlink(t, path) \/ Creat(t, path) PROVE Inv'
  <2>1. TypeOK' /\ HoldsInode'
    BY <1>2 DEF Unlink, Creat, Inv, TypeOK, HoldsInode
  <2> QED
    BY <1>2, <2>1, TableKept DEF Unlink, Creat
<1>3. ASSUME NEW from \in Path, NEW to \in Path, Rename(t, from, to) PROVE Inv'
  <2>1. TypeOK' /\ HoldsInode'
    BY <1>3 DEF Rename, Inv, TypeOK, HoldsInode
  <2> QED
    BY <1>3, <2>1, TableKept DEF Rename
<1>4. ASSUME WriteEnd(t) PROVE Inv'
  <2>1. TypeOK' /\ HoldsInode'
    BY <1>4, LeaveTyped DEF WriteEnd, Inv, TypeOK
  <2> QED
    BY <1>4, <2>1, TableKept DEF WriteEnd
<1> QED
  BY <1>1, <1>2, <1>3, <1>4 DEF FileNext

(* Every step keeps the invariant. *)
LEMMA GuardNext == ASSUME Inv, [Next]_vars PROVE Inv'
<1>1. ASSUME NEW t \in Thread, NEW path \in Path, NEW state \in {"register", "unregister"}, Resolve(t, path, state)
      PROVE  Inv'
  <2>1. name[path] \in Inode
    BY <1>1 DEF Resolve, Inv, TypeOK
  <2>2. TypeOK' /\ HoldsInode'
    BY <1>1, <2>1, EnterTyped DEF Resolve, Inv, TypeOK
  <2> QED
    BY <1>1, <2>2, TableKept DEF Resolve
<1>2. ASSUME NEW t \in Thread, RegisterFull(t) PROVE Inv'
  <2>1. TypeOK' /\ HoldsInode'
    BY <1>2, LeaveTyped DEF RegisterFull, Inv, TypeOK
  <2> QED
    BY <1>2, <2>1, TableKept DEF RegisterFull
<1>3. ASSUME NEW t \in Thread, DeviceNext(t) PROVE Inv'
  BY <1>1, <1>2, <1>3, GuardRegister, GuardUnregister, GuardBegin, GuardEnd, GuardQuery DEF DeviceNext
<1>4. ASSUME NEW g \in Groups, Exit(g) PROVE Inv'
  <2>1. TypeOK' /\ HoldsInode'
    BY <1>4 DEF Exit, Inv, TypeOK, HoldsInode
  <2> QED
    BY <1>4, <2>1, TableKept DEF Exit
<1>5. CASE UNCHANGED vars
  BY <1>5 DEF vars, Inv, TypeOK, HoldsInode, TableSound
<1> QED
  BY <1>3, <1>4, <1>5, GuardFile DEF Next

(* The table is sound in every reachable state, however registrations race *)
(* and whatever the callers do.                                            *)
THEOREM SoundTable == Spec => []TableSound
<1>1. Inv /\ [Next]_vars => Inv'
  BY GuardNext
<1>2. Inv => TableSound
  BY DEF Inv
<1> QED
  BY <1>1, <1>2, GuardInit, PTL DEF Spec

-----------------------------------------------------------------------------
(* Writes and sessions.                                                    *)

(* A step that leaves the table alone and starts no write. *)
LEMMA WritesKept ==
  ASSUME WritesInSession, UNCHANGED <<entry, hashed>>,
         \A u \in Thread : pc'[u] = "write" /\ u \notin overtaken' =>
                             pc[u] = "write" /\ u \notin overtaken /\ held'[u] = held[u]
  PROVE  WritesInSession'
BY SMTT(30) DEF WritesInSession, deny, find_inode, is_authorized

(* A step that changes entries only of one inode, whose writers are overtaken. *)
LEMMA WritesElsewhere ==
  ASSUME WritesInSession, NEW i,
         \A u \in Thread : pc'[u] = "write" /\ u \notin overtaken' =>
                             /\ pc[u] = "write" /\ u \notin overtaken
                             /\ held'[u] = held[u] /\ held[u] # i,
         \A s \in hashed' : entry'[s].ino # i => s \in hashed /\ entry'[s] = entry[s]
  PROVE  WritesInSession'
BY SMTT(30) DEF WritesInSession, deny, find_inode, is_authorized

(* A step that only removes entries. *)
LEMMA WritesFreed ==
  ASSUME WritesInSession,
         \A u \in Thread : pc'[u] = "write" /\ u \notin overtaken' =>
                             pc[u] = "write" /\ u \notin overtaken /\ held'[u] = held[u],
         \A s \in hashed' : s \in hashed /\ entry'[s] = entry[s]
  PROVE  WritesInSession'
BY SMTT(30) DEF WritesInSession, deny, find_inode, is_authorized

(* Every step keeps the writes that were not overtaken inside sessions. *)
LEMMA WritesNext == ASSUME Inv, WritesInSession, [Next]_vars PROVE WritesInSession'
<1> USE DEF Inv, TypeOK
<1>1. ASSUME NEW t \in Thread, Register(t) PROVE WritesInSession'
  <2>1. \A u \in Thread : pc'[u] = "write" /\ u \notin overtaken' =>
          pc[u] = "write" /\ u \notin overtaken /\ held'[u] = held[u] /\ held[u] # held[t]
    BY <1>1 DEF Register, Leave, Writers
  <2>2. PICK s \in SlotsFor(held[t]) :
          entry' = [entry EXCEPT ![s] = Locked(held[t])] /\ hashed' = hashed \cup {s}
    BY <1>1 DEF Register
  <2>3. s \in Slot
    BY <2>2 DEF SlotsFor, find_inode
  <2>4. \A r \in hashed' : entry'[r].ino # held[t] => r \in hashed /\ entry'[r] = entry[r]
    BY <2>2, <2>3 DEF Locked
  <2> QED
    BY <2>1, <2>4, WritesElsewhere
<1>2. ASSUME NEW t \in Thread, Unregister(t) PROVE WritesInSession'
  <2>1. \A u \in Thread : pc'[u] = "write" /\ u \notin overtaken' =>
          pc[u] = "write" /\ u \notin overtaken /\ held'[u] = held[u]
    BY <1>2 DEF Unregister, Leave
  <2>2. \A r \in hashed' : r \in hashed /\ entry'[r] = entry[r]
    BY <1>2 DEF Unregister, find_inode
  <2> QED
    BY <2>1, <2>2, WritesFreed
<1>3. ASSUME NEW t \in Thread, NEW path \in Path, NEW copied \in BOOLEAN, BeginSession(t, path, copied)
      PROVE  WritesInSession'
  <2>1. PICK s \in find_path(path), k \in FreshToken :
          /\ ~(entry[s].session_active /\ entry[s].writer_tgid # Tgid[t])
          /\ entry' = [entry EXCEPT ![s] = SetSession(@, TRUE, Tgid[t], k)]
    BY <1>3 DEF BeginSession
  <2>2. s \in hashed /\ s \in Slot
    BY <2>1 DEF find_path, find_inode
  <2>3. /\ entry'[s].ino = entry[s].ino /\ entry'[s].session_active = TRUE /\ entry'[s].writer_tgid = Tgid[t]
        /\ \A r \in Slot : r # s => entry'[r] = entry[r]
        /\ UNCHANGED <<hashed, pc, held, overtaken>>
    BY <1>3, <2>1, <2>2 DEF SetSession, BeginSession
  <2>4. entry[s].locked
    BY <2>2 DEF TableSound
  <2>5. ASSUME NEW u \in Thread, pc[u] = "write", u \notin overtaken,
               NEW r \in hashed, entry'[r].ino = held[u], entry'[r].locked
        PROVE  is_authorized(u, r)'
    <3>1. entry[r].ino = held[u]
      BY <2>3, <2>5
    <3>2. is_authorized(u, r) \/ ~entry[r].locked
      BY <2>5, <3>1 DEF WritesInSession, deny, find_inode
    <3>3. CASE r = s
      BY <2>1, <2>3, <2>4, <3>2, <3>3 DEF is_authorized
    <3>4. CASE r # s
      BY <2>3, <2>5, <3>2, <3>4 DEF is_authorized
    <3> QED
      BY <3>3, <3>4
  <2> QED
    BY <2>3, <2>5 DEF WritesInSession, deny, find_inode
<1>4. ASSUME NEW t \in Thread, NEW path \in Path, EndSession(t, path) PROVE WritesInSession'
  <2>1. PICK s \in find_path(path) :
          /\ is_authorized(t, s)
          /\ entry' = [entry EXCEPT ![s] = SetSession(@, FALSE, None, None)]
          /\ overtaken' = overtaken \cup {u \in Writers(entry[s].ino) : Tgid[u] = Tgid[t]}
    BY <1>4 DEF EndSession
  <2>2. s \in hashed /\ s \in Slot
    BY <2>1 DEF find_path, find_inode
  <2>3. /\ entry'[s].ino = entry[s].ino
        /\ \A r \in Slot : r # s => entry'[r] = entry[r]
        /\ UNCHANGED <<hashed, pc, held>>
    BY <1>4, <2>1, <2>2 DEF SetSession, EndSession
  <2>4. ASSUME NEW u \in Thread, pc[u] = "write", u \notin overtaken'
        PROVE  u \notin overtaken /\ held[u] # entry[s].ino
    <3>1. u \notin overtaken
      BY <2>1, <2>4
    <3> SUFFICES ASSUME held[u] = entry[s].ino PROVE FALSE
      BY <3>1
    <3>2. is_authorized(u, s)
      BY <2>2, <2>4, <3>1 DEF WritesInSession, deny, find_inode, TableSound
    <3>3. Tgid[u] = Tgid[t]
      BY <2>1, <3>2 DEF is_authorized
    <3> QED
      BY <2>1, <2>4, <3>3 DEF Writers
  <2> QED
    BY <2>2, <2>3, <2>4, WritesElsewhere
<1>5. ASSUME NEW t \in Thread, NEW path \in Path, WriteBegin(t, path) PROVE WritesInSession'
  <2>1. /\ pc' = [pc EXCEPT ![t] = "write"] /\ held' = [held EXCEPT ![t] = name[path]]
        /\ ~deny(t, name[path]) /\ UNCHANGED <<entry, hashed, overtaken>>
    BY <1>5 DEF WriteBegin, Enter
  <2> QED
    BY SMTT(30), <2>1 DEF WritesInSession, deny, find_inode, is_authorized
<1>6. ASSUME NEW t \in Thread, NEW path \in Path,
             \/ Resolve(t, path, "register") \/ Resolve(t, path, "unregister") \/ Query(t, path)
             \/ Unlink(t, path) \/ Creat(t, path)
             \/ \E to \in Path : Rename(t, path, to)
      PROVE  WritesInSession'
  BY <1>6, WritesKept DEF Resolve, Query, Unlink, Creat, Rename, Enter
<1>7. ASSUME NEW t \in Thread, RegisterFull(t) \/ WriteEnd(t) PROVE WritesInSession'
  BY <1>7, WritesKept DEF RegisterFull, WriteEnd, Leave
<1>8. ASSUME NEW g \in Groups, Exit(g) PROVE WritesInSession'
  BY <1>8, WritesKept DEF Exit
<1>9. CASE UNCHANGED vars
  BY <1>9, WritesKept DEF vars
<1> QED
  BY <1>1, <1>2, <1>3, <1>4, <1>5, <1>6, <1>7, <1>8, <1>9 DEF Next, DeviceNext, FileNext

(* Every write under way on a registered inode belongs to the group that   *)
(* has the session, unless a registration of the file or the end of the    *)
(* session overtook it.                                                    *)
THEOREM SessionWrites == Spec => []WritesInSession
<1>1. Init => WritesInSession
  BY DEF Init, WritesInSession
<1>2. Inv /\ WritesInSession /\ [Next]_vars => Inv' /\ WritesInSession'
  BY GuardNext, WritesNext
<1> QED
  BY <1>1, <1>2, GuardInit, PTL DEF Spec

(* The variables of the guard keep their types. *)
THEOREM GuardTyped == Spec => []TypeOK
<1>1. Inv /\ [Next]_vars => Inv'
  BY GuardNext
<1>2. Inv => TypeOK
  BY DEF Inv
<1> QED
  BY <1>1, <1>2, GuardInit, PTL DEF Spec

(* A session that stays active in its slot stays with its thread group. *)
LEMMA SessionStep ==
  ASSUME Inv, [Next]_vars, NEW s \in hashed \cap hashed', entry[s].session_active, entry'[s].session_active
  PROVE  entry'[s].writer_tgid = entry[s].writer_tgid
<1> USE DEF Inv, TypeOK
<1>1. ASSUME NEW t \in Thread, Register(t) PROVE entry'[s].writer_tgid = entry[s].writer_tgid
  <2>1. PICK r \in SlotsFor(held[t]) : entry' = [entry EXCEPT ![r] = Locked(held[t])]
    BY <1>1 DEF Register
  <2>2. CASE r = s
    BY <2>1, <2>2 DEF Locked
  <2>3. CASE r # s
    BY <2>1, <2>3
  <2> QED
    BY <2>2, <2>3
<1>2. ASSUME NEW t \in Thread, Unregister(t) PROVE entry'[s].writer_tgid = entry[s].writer_tgid
  BY <1>2 DEF Unregister, find_inode
<1>3. ASSUME NEW t \in Thread, NEW path \in Path, NEW copied \in BOOLEAN, BeginSession(t, path, copied)
      PROVE  entry'[s].writer_tgid = entry[s].writer_tgid
  <2>1. PICK r \in find_path(path), k \in FreshToken :
          /\ ~(entry[r].session_active /\ entry[r].writer_tgid # Tgid[t])
          /\ entry' = [entry EXCEPT ![r] = SetSession(@, TRUE, Tgid[t], k)]
    BY <1>3 DEF BeginSession
  <2>2. CASE r = s
    BY <2>1, <2>2 DEF SetSession
  <2>3. CASE r # s
    BY <2>1, <2>3
  <2> QED
    BY <2>2, <2>3
<1>4. ASSUME NEW t \in Thread, NEW path \in Path, EndSession(t, path)
      PROVE  entry'[s].writer_tgid = entry[s].writer_tgid
  <2>1. PICK r \in find_path(path) : entry' = [entry EXCEPT ![r] = SetSession(@, FALSE, None, None)]
    BY <1>4 DEF EndSession
  <2>2. CASE r = s
    BY <2>1, <2>2 DEF SetSession
  <2>3. CASE r # s
    BY <2>1, <2>3
  <2> QED
    BY <2>2, <2>3
<1>5. CASE UNCHANGED entry
  BY <1>5
<1> QED
  BY <1>1, <1>2, <1>3, <1>4, <1>5
     DEF Next, DeviceNext, FileNext, vars, Resolve, RegisterFull, Query, WriteBegin, WriteEnd, Unlink, Creat, Rename, Exit

(* No step hands an active session of one thread group to another. *)
THEOREM SessionsKept == Spec => SessionNotStolen
<1>1. Inv /\ [Next]_vars => Inv'
  BY GuardNext
<1>2. Inv /\ [Next]_vars =>
        [\A s \in hashed \cap hashed' :
           (entry[s].session_active /\ entry'[s].session_active) =>
             entry'[s].writer_tgid = entry[s].writer_tgid]_vars
  BY SessionStep
<1> QED
  BY <1>1, <1>2, GuardInit, PTL DEF Spec, SessionNotStolen

=============================================================================
