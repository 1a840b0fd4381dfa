---------------------------- MODULE PadlockStore ----------------------------
(***************************************************************************)
(* The store of src/src/padlock.c: padlock_allocate, padlock_set and       *)
(* padlock_get, run by any number of processes against one store path.     *)
(*                                                                         *)
(* Offsets and sizes are counted in 16-byte blocks.  Nothing is lost by    *)
(* it: write_offset starts at PADLOCK_HEADER_SIZE, a multiple of 16, and   *)
(* moves by padded lengths, so every test on an offset gives the same      *)
(* answer on total_size rounded down to whole blocks.                      *)
(*                                                                         *)
(* A block of a file is the result of an encryption: crypt_xts encrypts a  *)
(* record as one data unit whose tweak is the unit's first block, so a     *)
(* block decrypts to the record only under the same XTS key, for the same  *)
(* unit start and at the same place in the unit.  Cipher records those.    *)
(*                                                                         *)
(* One system call is one step, so calls of different processes interleave *)
(* between system calls.  The code takes no lock.                          *)
(***************************************************************************)
EXTENDS Naturals, Sequences, RecordLayout

CONSTANTS
  Proc,           \* processes (or threads) calling the library
  Inode,          \* bound: the files mkstemp can create in a behaviour
  Key, Value,     \* the keys and values callers use
  KeyLen,         \* strlen of each key
  ValueLen,       \* value_length of each value
  Password,       \* header passwords
  EmptyPassword,  \* the empty one
  Size,           \* the sizes, in blocks, that padlock_allocate is asked for
  HeaderBlocks,   \* PADLOCK_HEADER_SIZE in blocks
  MinBlocks,      \* PADLOCK_MIN_SIZE in blocks
  MaxBlocks,      \* room on the device: a longer file fails with ENOSPC
  SerialSets,     \* TRUE: callers never overlap two padlock_set calls
  HeaderBuffered, \* TRUE: st_blksize > 4096, stdio holds the header until fclose
  Faults,         \* a subset of {"io", "kill"}
  None,           \* no inode, no header, no value
  Random          \* bytes that decrypt to no record

ASSUME StoreAssumption ==
  /\ KeyLen \in [Key -> Nat]
  /\ ValueLen \in [Value -> Nat]
  /\ Size \subseteq Nat
  /\ HeaderBlocks \in Nat
  /\ MinBlocks \in Nat
  /\ MaxBlocks \in Nat
  /\ HeaderBlocks < MinBlocks
  /\ SerialSets \in BOOLEAN
  /\ HeaderBuffered \in BOOLEAN
  /\ Faults \subseteq {"io", "kill"}
  /\ None \notin Inode
  /\ None \notin [total_size : Nat, write_offset : Nat, password : Password, xts_key : Inode]
  /\ None \notin Value
  /\ Random \notin Value

(* The lengths do not make align16 wrap: value_length is at least 275 below *)
(* 2^32.                                                                   *)
ASSUME LengthAssumption ==
  \A k \in Key, v \in Value : plain_length(KeyLen[k], ValueLen[v]) + 15 < Word

VARIABLES
  dir,      \* the inode that the store path names, or None
  temps,    \* inodes linked under a temporary name path.tmp.XXXXXX
  created,  \* inodes that have been created
  header,   \* inode -> the header block of the file, or None
  data,     \* inode -> block number -> contents
  log,      \* history: inode -> the records whose header was written, in order
  pc,       \* process -> where it is in the library
  arg,      \* process -> the call it is executing
  fd,       \* process -> the inode it has open
  hdr,      \* process -> its padlock_header local, None before decrypt_secret
  cur,      \* process -> set: blocks written, get: offset
  found,    \* process -> get: found
  since,    \* history: process -> get: records committed when the call began
  ret       \* process -> "none", "ok", "fail" (-1) or "error" (-1 after a failed system call)

fileVars == <<dir, temps, created, header, data, log>>
procVars == <<pc, arg, fd, hdr, cur, found, since, ret>>
vars == <<dir, temps, created, header, data, log, pc, arg, fd, hdr, cur, found, since, ret>>

Block == HeaderBlocks .. (MaxBlocks - 1)

Header == [total_size : Nat, write_offset : Nat, password : Password, xts_key : Inode]

(* The blocks of one record. *)
BlocksOf ==
  [k \in Key |-> [v \in Value |-> padded_length(KeyLen[k], ValueLen[v]) \div PADLOCK_BLOCK]]
blocks_of(k, v) == BlocksOf[k][v]

crypt_xts(xts, unit, index, k, v) ==
  [xts_key |-> xts, unit |-> unit, index |-> index, key |-> k, value |-> v]

Content ==
  [xts_key : Inode, unit : Nat, index : Nat, key : Key, value : Value] \cup {Random}

Call == [op : {"none", "allocate", "set", "get"}, key : Key \cup {None}, value : Value \cup {None},
         password : Password \cup {None}, size : Nat]

NoCall == [op |-> "none", key |-> None, value |-> None, password |-> None, size |-> 0]

AllocStates == {"alloc_fill", "alloc_sync", "alloc_rename"}
SetStates == {"set_header", "set_data", "set_close"}
GetStates == {"get_header", "get_scan"}
States == {"idle", "done"} \cup AllocStates \cup SetStates \cup GetStates

Init ==
  /\ dir = None
  /\ temps = {}
  /\ created = {}
  /\ header = [i \in Inode |-> None]
  /\ data = [i \in Inode |-> [b \in Block |-> Random]]
  /\ log = [i \in Inode |-> <<>>]
  /\ pc = [p \in Proc |-> "idle"]
  /\ arg = [p \in Proc |-> NoCall]
  /\ fd = [p \in Proc |-> None]
  /\ hdr = [p \in Proc |-> None]
  /\ cur = [p \in Proc |-> 0]
  /\ found = [p \in Proc |-> None]
  /\ since = [p \in Proc |-> 0]
  /\ ret = [p \in Proc |-> "none"]

-----------------------------------------------------------------------------
(* Helpers shared by the three operations.                                 *)

(* The call of p is over, with the given result. *)
Finish(p, result) ==
  /\ pc' = [pc EXCEPT ![p] = "done"]
  /\ ret' = [ret EXCEPT ![p] = result]

(* The argument checks at the top of an operation, and its open, fail. *)
Refuse(p, call) ==
  /\ pc[p] = "idle"
  /\ arg' = [arg EXCEPT ![p] = call]
  /\ Finish(p, "fail")
  /\ UNCHANGED <<fileVars, fd, hdr, cur, found, since>>

(* The range checks read_header makes on what it read. *)
read_header(h) ==
  /\ h.total_size >= MinBlocks
  /\ h.write_offset >= HeaderBlocks
  /\ h.write_offset <= h.total_size

(* derive_header_key refuses an empty password; with another one the       *)
(* secret's magic and padding match only for the password that sealed it.  *)
decrypt_secret(h, password) ==
  /\ password # EmptyPassword
  /\ h.password = password

(* p can open the header of the file it has open. *)
Opens(p) ==
  /\ read_header(header[fd[p]])
  /\ decrypt_secret(header[fd[p]], arg[p].password)

-----------------------------------------------------------------------------
(* padlock_allocate                                                        *)

AllocCall(size, password) ==
  [op |-> "allocate", key |-> None, value |-> None, password |-> password, size |-> size]

AllocRefused(p, size, password) ==
  /\ size < MinBlocks
  /\ Refuse(p, AllocCall(size, password))

(* ensure_parent_directory, then mkstemp links a new file next to the path. *)
AllocBegin(p, size, password) ==
  /\ pc[p] = "idle"
  /\ size >= MinBlocks
  /\ \E i \in Inode \ created :
       /\ created' = created \cup {i}
       /\ temps' = temps \cup {i}
       /\ fd' = [fd EXCEPT ![p] = i]
  /\ arg' = [arg EXCEPT ![p] = AllocCall(size, password)]
  /\ pc' = [pc EXCEPT ![p] = "alloc_fill"]
  /\ UNCHANGED <<dir, header, data, log, hdr, cur, found, since, ret>>

(* What write_urandom_bytes and encrypt_secret cannot do. *)
FillImpossible(call) == call.size > MaxBlocks \/ call.password = EmptyPassword

(* write_urandom_bytes, a header with a fresh salt, iv and XTS key,        *)
(* encrypt_secret and write_header.  XTS keys of two allocations differ,   *)
(* so the inode names the key.                                             *)
AllocFill(p) ==
  /\ pc[p] = "alloc_fill"
  /\ ~FillImpossible(arg[p])
  /\ data' = [data EXCEPT ![fd[p]] = [b \in Block |-> Random]]
  /\ header' = [header EXCEPT ![fd[p]] =
       [total_size |-> arg[p].size, write_offset |-> HeaderBlocks,
        password |-> arg[p].password, xts_key |-> fd[p]]]
  /\ pc' = [pc EXCEPT ![p] = "alloc_sync"]
  /\ UNCHANGED <<dir, temps, created, log, arg, fd, hdr, cur, found, since, ret>>

(* fflush, fsync and fclose. *)
AllocSync(p) ==
  /\ pc[p] = "alloc_sync"
  /\ pc' = [pc EXCEPT ![p] = "alloc_rename"]
  /\ UNCHANGED <<fileVars, arg, fd, hdr, cur, found, since, ret>>

Completed(p) == pc[p] = "alloc_rename"

(* Mutant: link instead of rename, which does not replace a store. *)
AllocRenameKeepsOld(p) ==
  /\ Completed(p)
  /\ dir' = IF dir = None THEN fd[p] ELSE dir
  /\ temps' = temps \ {fd[p]}
  /\ Finish(p, "ok")
  /\ UNCHANGED <<created, header, data, log, arg, fd, hdr, cur, found, since>>

(* rename replaces what the path named; a process that has the old inode   *)
(* open keeps it.                                                          *)
AllocRename(p) ==
  /\ Completed(p)
  /\ dir' = fd[p]
  /\ temps' = temps \ {fd[p]}
  /\ Finish(p, "ok")
  /\ UNCHANGED <<created, header, data, log, arg, fd, hdr, cur, found, since>>

(* Mutant: the error path forgets to unlink. *)
unlink_nothing(i) == temps

unlink(i) == temps \ {i}

(* Any failing call before or in rename: close, and unlink the temporary.  *)
AllocFail(p) ==
  /\ pc[p] \in AllocStates
  /\ "io" \in Faults \/ (pc[p] = "alloc_fill" /\ FillImpossible(arg[p]))
  /\ temps' = unlink(fd[p])
  /\ header' = [header EXCEPT ![fd[p]] = None]
  /\ Finish(p, "error")
  /\ UNCHANGED <<dir, created, data, log, arg, fd, hdr, cur, found, since>>

-----------------------------------------------------------------------------
(* padlock_set                                                             *)

SetCall(k, v, password) ==
  [op |-> "set", key |-> k, value |-> v, password |-> password, size |-> 0]

GoodKey(k) == KeyLen[k] \in 1 .. 255

SetRefused(p, k, v, password) ==
  /\ ~GoodKey(k) \/ dir = None
  /\ Refuse(p, SetCall(k, v, password))

NoOtherSet(p) == \A q \in Proc \ {p} : pc[q] \notin SetStates

(* fopen(path, "rb+"). *)
SetBegin(p, k, v, password) ==
  /\ pc[p] = "idle"
  /\ SerialSets => NoOtherSet(p)
  /\ GoodKey(k)
  /\ dir # None
  /\ fd' = [fd EXCEPT ![p] = dir]
  /\ since' = [since EXCEPT ![p] = Len(log[dir])]
  /\ arg' = [arg EXCEPT ![p] = SetCall(k, v, password)]
  /\ pc' = [pc EXCEPT ![p] = "set_header"]
  /\ UNCHANGED <<fileVars, hdr, cur, found, ret>>

RecordBlocks(p) == blocks_of(arg[p].key, arg[p].value)

(* Mutant: no capacity check. *)
FitsAnyRoom(p) == RecordBlocks(p) >= 1

(* Mutant: a record that would fill the store exactly is refused. *)
FitsStrictly(p) ==
  /\ RecordBlocks(p) >= 1
  /\ header[fd[p]].write_offset + RecordBlocks(p) < header[fd[p]].total_size

Fits(p) ==
  /\ RecordBlocks(p) >= 1
  /\ header[fd[p]].write_offset + RecordBlocks(p) <= header[fd[p]].total_size

(* read_header, decrypt_secret and the capacity check.  The header read    *)
(* here is the one written back later.                                     *)
SetReadHeader(p) ==
  /\ pc[p] = "set_header"
  /\ Opens(p)
  /\ Fits(p)
  /\ hdr' = [hdr EXCEPT ![p] = header[fd[p]]]
  /\ cur' = [cur EXCEPT ![p] = 0]
  /\ pc' = [pc EXCEPT ![p] = "set_data"]
  /\ UNCHANGED <<fileVars, arg, fd, found, since, ret>>

SetReject(p) ==
  /\ pc[p] = "set_header"
  /\ ~(Opens(p) /\ Fits(p))
  /\ Finish(p, "fail")
  /\ UNCHANGED <<fileVars, arg, fd, hdr, cur, found, since>>

(* Mutant: the record is written without the seek to write_offset. *)
SetWriteBlockUnsought(p) ==
  /\ pc[p] = "set_data"
  /\ cur[p] < RecordBlocks(p)
  /\ data' = [data EXCEPT ![fd[p]][HeaderBlocks + cur[p]] =
       crypt_xts(hdr[p].xts_key, hdr[p].write_offset, cur[p], arg[p].key, arg[p].value)]
  /\ cur' = [cur EXCEPT ![p] = @ + 1]
  /\ UNCHANGED <<dir, temps, created, header, log, pc, arg, fd, hdr, found, since, ret>>

(* The record reaches the file from its first block to its last, at the    *)
(* offset of the header that was read.                                     *)
SetWriteBlock(p) ==
  /\ pc[p] = "set_data"
  /\ cur[p] < RecordBlocks(p)
  /\ data' = [data EXCEPT ![fd[p]][hdr[p].write_offset + cur[p]] =
       crypt_xts(hdr[p].xts_key, hdr[p].write_offset, cur[p], arg[p].key, arg[p].value)]
  /\ cur' = [cur EXCEPT ![p] = @ + 1]
  /\ UNCHANGED <<dir, temps, created, header, log, pc, arg, fd, hdr, found, since, ret>>

(* Mutant: write_offset moves by the length before it is aligned. *)
NextOffsetUnaligned(p) ==
  hdr[p].write_offset
    + plain_length(KeyLen[arg[p].key], ValueLen[arg[p].value]) \div PADLOCK_BLOCK

NextOffset(p) == hdr[p].write_offset + RecordBlocks(p)

(* Mutant: total_size is overwritten as well. *)
WriteBackShrinks(p) ==
  /\ header' = [header EXCEPT ![fd[p]] =
       [hdr[p] EXCEPT !.write_offset = NextOffset(p), !.total_size = NextOffset(p)]]
  /\ log' = [log EXCEPT ![fd[p]] =
       Append(@, [offset |-> hdr[p].write_offset, key |-> arg[p].key, value |-> arg[p].value])]

(* write_header writes the whole header back, every field from the copy.   *)
WriteBack(p) ==
  /\ header' = [header EXCEPT ![fd[p]] =
       [hdr[p] EXCEPT !.write_offset = NextOffset(p)]]
  /\ log' = [log EXCEPT ![fd[p]] =
       Append(@, [offset |-> hdr[p].write_offset, key |-> arg[p].key, value |-> arg[p].value])]

DataWritten(p) == pc[p] = "set_data" /\ cur[p] = RecordBlocks(p)

SetWriteHeader(p) ==
  /\ DataWritten(p)
  /\ ~HeaderBuffered
  /\ WriteBack(p)
  /\ Finish(p, "ok")
  /\ UNCHANGED <<dir, temps, created, data, arg, fd, hdr, cur, found, since>>

(* With a stdio buffer longer than the header, fwrite only fills it.       *)
SetBufferHeader(p) ==
  /\ DataWritten(p)
  /\ HeaderBuffered
  /\ pc' = [pc EXCEPT ![p] = "set_close"]
  /\ UNCHANGED <<fileVars, arg, fd, hdr, cur, found, since, ret>>

SetClose(p) ==
  /\ pc[p] = "set_close"
  /\ WriteBack(p)
  /\ Finish(p, "ok")
  /\ UNCHANGED <<dir, temps, created, data, arg, fd, hdr, cur, found, since>>

(* fclose fails to flush; its result is ignored and the call returns 0.    *)
SetCloseLost(p) ==
  /\ pc[p] = "set_close"
  /\ "io" \in Faults
  /\ Finish(p, "ok")
  /\ UNCHANGED <<fileVars, arg, fd, hdr, cur, found, since>>

SetFail(p) ==
  /\ "io" \in Faults
  /\ pc[p] \in {"set_header", "set_data"}
  /\ Finish(p, "error")
  /\ UNCHANGED <<fileVars, arg, fd, hdr, cur, found, since>>

-----------------------------------------------------------------------------
(* padlock_get                                                             *)

GetCall(k, password) ==
  [op |-> "get", key |-> k, value |-> None, password |-> password, size |-> 0]

GetRefused(p, k, password) ==
  /\ dir = None
  /\ Refuse(p, GetCall(k, password))

(* fopen(path, "rb"). *)
GetBegin(p, k, password) ==
  /\ pc[p] = "idle"
  /\ dir # None
  /\ fd' = [fd EXCEPT ![p] = dir]
  /\ since' = [since EXCEPT ![p] = Len(log[dir])]
  /\ arg' = [arg EXCEPT ![p] = GetCall(k, password)]
  /\ pc' = [pc EXCEPT ![p] = "get_header"]
  /\ UNCHANGED <<fileVars, hdr, cur, found, ret>>

GetReadHeader(p) ==
  /\ pc[p] = "get_header"
  /\ Opens(p)
  /\ hdr' = [hdr EXCEPT ![p] = header[fd[p]]]
  /\ cur' = [cur EXCEPT ![p] = HeaderBlocks]
  /\ pc' = [pc EXCEPT ![p] = "get_scan"]
  /\ UNCHANGED <<fileVars, arg, fd, found, since, ret>>

GetReject(p) ==
  /\ pc[p] = "get_header"
  /\ ~Opens(p)
  /\ Finish(p, "fail")
  /\ UNCHANGED <<fileVars, arg, fd, hdr, cur, found, since>>

(* The blocks of a file at offset o decrypt, under key x, to the record (k, v). *)
Sound(blocks, x, o, k, v) ==
  \A j \in 0 .. (blocks_of(k, v) - 1) :
    /\ o + j \in Block
    /\ blocks[o + j] = crypt_xts(x, o, j, k, v)

(* One round of the loop over a record that decrypts. *)
Readable(p, k, v) ==
  /\ blocks_of(k, v) >= 1
  /\ Sound(data[fd[p]], hdr[p].xts_key, cur[p], k, v)
  /\ cur[p] + blocks_of(k, v) <= hdr[p].write_offset

Scanning(p) == pc[p] = "get_scan" /\ cur[p] < hdr[p].write_offset

(* Mutant: the first match is kept. *)
MatchedFirst(p, k, v) == IF k = arg[p].key /\ found[p] = None THEN v ELSE found[p]

(* A later match frees the earlier one and takes its place. *)
Matched(p, k, v) == IF k = arg[p].key THEN v ELSE found[p]

(* Mutant: a match does not advance the offset. *)
AdvancedPastOthers(p, k, v) ==
  IF k = arg[p].key THEN cur[p] ELSE cur[p] + blocks_of(k, v)

Advanced(p, k, v) == cur[p] + blocks_of(k, v)

GetRecord(p) ==
  /\ Scanning(p)
  /\ \E k \in Key, v \in Value :
       /\ Readable(p, k, v)
       /\ found' = [found EXCEPT ![p] = Matched(p, k, v)]
       /\ cur' = [cur EXCEPT ![p] = Advanced(p, k, v)]
  /\ UNCHANGED <<fileVars, pc, arg, fd, hdr, since, ret>>

Garbled(p) == Scanning(p) /\ ~ \E k \in Key, v \in Value : Readable(p, k, v)

(* Blocks that decrypt to no record: the key and value lengths are         *)
(* arbitrary, so the checks on them fail, or the loop steps over some      *)
(* blocks, or takes them for a record of the key.                          *)
GetGarbage(p) ==
  /\ Garbled(p)
  /\ \E n \in 1 .. (hdr[p].write_offset - cur[p]) : cur' = [cur EXCEPT ![p] = @ + n]
  /\ \E f \in {found[p], Random} : found' = [found EXCEPT ![p] = f]
  /\ UNCHANGED <<fileVars, pc, arg, fd, hdr, since, ret>>

GetCorrupt(p) ==
  /\ Garbled(p)
  /\ found' = [found EXCEPT ![p] = None]
  /\ Finish(p, "fail")
  /\ UNCHANGED <<fileVars, arg, fd, hdr, cur, since>>

Scanned(p) == pc[p] = "get_scan" /\ cur[p] >= hdr[p].write_offset

GetReturn(p) ==
  /\ Scanned(p)
  /\ Finish(p, IF found[p] = None THEN "fail" ELSE "ok")
  /\ UNCHANGED <<fileVars, arg, fd, hdr, cur, found, since>>

GetFail(p) ==
  /\ "io" \in Faults
  /\ pc[p] \in GetStates
  /\ found' = [found EXCEPT ![p] = None]
  /\ Finish(p, "error")
  /\ UNCHANGED <<fileVars, arg, fd, hdr, cur, since>>

-----------------------------------------------------------------------------
(* The call returns: its frame is gone. *)
Forget(p) ==
  /\ pc' = [pc EXCEPT ![p] = "idle"]
  /\ arg' = [arg EXCEPT ![p] = NoCall]
  /\ fd' = [fd EXCEPT ![p] = None]
  /\ hdr' = [hdr EXCEPT ![p] = None]
  /\ cur' = [cur EXCEPT ![p] = 0]
  /\ found' = [found EXCEPT ![p] = None]
  /\ since' = [since EXCEPT ![p] = 0]
  /\ ret' = [ret EXCEPT ![p] = "none"]
  /\ UNCHANGED fileVars

Return(p) ==
  /\ pc[p] = "done"
  /\ Forget(p)

(* The process dies inside a call: its files stay as they are, a temporary *)
(* name included.  Another process takes its place.                        *)
Kill(p) ==
  /\ "kill" \in Faults
  /\ pc[p] # "idle"
  /\ Forget(p)

AllocNext(p) ==
  \/ \E size \in Size, password \in Password :
       \/ AllocRefused(p, size, password)
       \/ AllocBegin(p, size, password)
  \/ AllocFill(p)
  \/ AllocSync(p)
  \/ AllocRename(p)
  \/ AllocFail(p)

SetNext(p) ==
  \/ \E k \in Key, v \in Value, password \in Password :
       \/ SetRefused(p, k, v, password)
       \/ SetBegin(p, k, v, password)
  \/ SetReadHeader(p)
  \/ SetReject(p)
  \/ SetWriteBlock(p)
  \/ SetWriteHeader(p)
  \/ SetBufferHeader(p)
  \/ SetClose(p)
  \/ SetCloseLost(p)
  \/ SetFail(p)

GetNext(p) ==
  \/ \E k \in Key, password \in Password :
       \/ GetRefused(p, k, password)
       \/ GetBegin(p, k, password)
  \/ GetReadHeader(p)
  \/ GetReject(p)
  \/ GetRecord(p)
  \/ GetGarbage(p)
  \/ GetCorrupt(p)
  \/ GetReturn(p)
  \/ GetFail(p)

Next == \E p \in Proc : AllocNext(p) \/ SetNext(p) \/ GetNext(p) \/ Return(p) \/ Kill(p)

Spec == Init /\ [][Next]_vars

(* A running call of p goes on: a step that does not fail, or must fail for *)
(* its arguments.  None waits for another process: the code takes no lock.  *)
Proceed(p) ==
  \/ AllocFill(p) \/ AllocSync(p) \/ AllocRename(p)
  \/ pc[p] = "alloc_fill" /\ FillImpossible(arg[p]) /\ AllocFail(p)
  \/ SetReadHeader(p) \/ SetReject(p) \/ SetWriteBlock(p) \/ SetWriteHeader(p)
  \/ SetBufferHeader(p) \/ SetClose(p)
  \/ GetReadHeader(p) \/ GetReject(p) \/ GetRecord(p) \/ GetGarbage(p)
  \/ GetCorrupt(p) \/ GetReturn(p)

Progress(p) == Proceed(p) \/ AllocFail(p) \/ SetCloseLost(p) \/ SetFail(p) \/ GetFail(p)

(* A failure is never due: a call that only a failure could end is stuck.  *)
FairSpec == Spec /\ \A p \in Proc : WF_vars(Proceed(p) \/ Return(p))

-----------------------------------------------------------------------------
(* Properties                                                              *)

Record == [offset : Nat, key : Key, value : Value]

FilesTyped ==
  /\ dir \in Inode \cup {None}
  /\ temps \subseteq created
  /\ created \subseteq Inode
  /\ header \in [Inode -> [total_size : 0 .. MaxBlocks, write_offset : 0 .. MaxBlocks,
                           password : Password, xts_key : Inode] \cup {None}]
  /\ data \in [Inode -> [Block -> Content]]
  /\ log \in [Inode -> Seq(Record)]

CallsTyped ==
  /\ pc \in [Proc -> States]
  /\ arg \in [Proc -> Call]
  /\ fd \in [Proc -> Inode \cup {None}]
  /\ hdr \in [Proc -> Header \cup {None}]
  /\ cur \in [Proc -> Nat]
  /\ found \in [Proc -> Value \cup {None, Random}]
  /\ since \in [Proc -> Nat]
  /\ ret \in [Proc -> {"none", "ok", "fail", "error"}]

(* The variables keep their types. *)
TypeOK == FilesTyped /\ CallsTyped

(* A file that the store path names, or named until it was replaced. *)
Published(i) == i \in created \ temps /\ header[i] # None

(* Where the first n records of a log end: the n-th write_offset. *)
EndOf(s, n) ==
  IF n = 0 THEN HeaderBlocks ELSE s[n].offset + blocks_of(s[n].key, s[n].value)

(* v is the value of the last of the first n records of s whose key is k,  *)
(* None when there is none.                                                *)
IsLatest(s, n, k, v) ==
  \/ /\ v = None
     /\ \A j \in 1 .. n : s[j].key # k
  \/ \E j \in 1 .. n :
       /\ s[j].key = k
       /\ s[j].value = v
       /\ \A m \in (j + 1) .. n : s[m].key # k

(* padlock_set only appends: every record whose header was ever written is *)
(* still on the file, readable at its offset, and the records tile the     *)
(* file from the header to write_offset.  A set that is under way, was     *)
(* killed or failed half way has disturbed none of them.                   *)
CommittedIntact ==
  \A i \in Inode : Published(i) =>
    /\ header[i].write_offset = EndOf(log[i], Len(log[i]))
    /\ \A n \in 1 .. Len(log[i]) :
         /\ log[i][n].offset = EndOf(log[i], n - 1)
         /\ Sound(data[i], header[i].xts_key, log[i][n].offset, log[i][n].key, log[i][n].value)

ReturnsLatest(p) ==
  (pc[p] = "done" /\ arg[p].op = "get" /\ hdr[p] # None /\ ret[p] # "error") =>
    /\ \E n \in since[p] .. Len(log[fd[p]]) : IsLatest(log[fd[p]], n, arg[p].key, found[p])
    /\ ret[p] = (IF found[p] = None THEN "fail" ELSE "ok")

(* padlock_get, when no system call failed and the password opened the     *)
(* header, returns the last value of the key among the first n records,    *)
(* for some n that counts every record committed before the call began;    *)
(* it fails only when there is no such record.  A set running meanwhile,   *)
(* or a store being replaced under it, never makes it return less.         *)
GetReturnsLatest == \A p \in Proc : ReturnsLatest(p)

(* padlock_allocate is atomic at the path: whatever is interrupted or      *)
(* fails, the path names nothing or a complete store whose header passes   *)
(* read_header, sealing the key its records are encrypted under.           *)
PathNamesWholeStore ==
  dir # None =>
    /\ dir \in created \ temps
    /\ header[dir] # None
    /\ read_header(header[dir])
    /\ header[dir].xts_key = dir

(* A failed padlock_allocate leaves nothing behind: without a kill, the    *)
(* temporary files are exactly those of the allocations still running.     *)
TempsAreOwned ==
  "kill" \notin Faults => temps = {fd[p] : p \in {q \in Proc : pc[q] \in AllocStates}}

(* padlock_set stays inside the file that was allocated, however sets      *)
(* overlap and whatever stale header they write back: write_offset lies    *)
(* between the header and total_size, and a set that found room writes its *)
(* record below the total_size of the file it has open.                    *)
InsideFile ==
  /\ \A i \in Inode : header[i] # None =>
       /\ header[i].write_offset \in HeaderBlocks .. header[i].total_size
       /\ header[i].total_size <= MaxBlocks
  /\ \A p \in Proc : pc[p] \in {"set_data", "set_close"} =>
       hdr[p].write_offset + RecordBlocks(p) <= header[fd[p]].total_size

RefusedWithPassword(p) ==
  /\ pc[p] = "done"
  /\ arg[p].op = "set"
  /\ ret[p] = "fail"
  /\ fd[p] # None
  /\ decrypt_secret(header[fd[p]], arg[p].password)

(* No room is lost: a padlock_set that opened a store with its password    *)
(* and was turned away, no system call having failed, had a record that    *)
(* does not fit between the last committed record and the end of the file. *)
(* Sets that failed or lost their header half way have used up nothing,    *)
(* and a record that fits exactly is taken.                                *)
RefusedSetHadNoRoom ==
  \A p \in Proc : RefusedWithPassword(p) =>
    EndOf(log[fd[p]], Len(log[fd[p]])) + RecordBlocks(p) > header[fd[p]].total_size

(* The size, the password and the key sealed in a published header never   *)
(* change, although every padlock_set rewrites the whole header from the   *)
(* copy it read, possibly long after the store was replaced.               *)
SealedKeyIsStable ==
  [][\A i \in Inode : Published(i) =>
       /\ header'[i] # None
       /\ [header'[i] EXCEPT !.write_offset = 0] = [header[i] EXCEPT !.write_offset = 0]]_vars

(* Every call returns, however often other processes write or replace the  *)
(* store meanwhile and although no failure ends it: padlock_get scans up   *)
(* to the write_offset it read, and each record, garbled or not, moves it  *)
(* forward.                                                                *)
CallsReturn == \A p \in Proc : pc[p] # "idle" ~> pc[p] = "idle"

-----------------------------------------------------------------------------
(* The inductive invariant behind the properties.  Shape holds             *)
(* however the calls overlap, the rest of Inv when sets do not.            *)

(* A file that was not created, or has only a temporary name, has no record. *)
FreshFiles ==
  \A i \in Inode :
    /\ i \notin created => header[i] = None
    /\ i \notin created \ temps => log[i] = <<>>

(* Every header in a file passes read_header and seals the file's own key. *)
HeadersValid ==
  \A i \in Inode : header[i] # None =>
    /\ read_header(header[i])
    /\ header[i].xts_key = i

(* The path names a published file. *)
DirPublished == dir # None => Published(dir)

(* A running allocation has a temporary file, with a header once it is filled. *)
OwnsTemp(p) ==
  pc[p] \in AllocStates =>
    /\ fd[p] \in temps
    /\ arg[p].op = "allocate"
    /\ arg[p].size >= MinBlocks
    /\ arg[p].password \in Password
    /\ pc[p] # "alloc_fill" =>
         header[fd[p]] # None /\ header[fd[p]].write_offset = HeaderBlocks

(* No two allocations share a temporary file. *)
TempsDistinct ==
  \A p, q \in Proc :
    (pc[p] \in AllocStates /\ pc[q] \in AllocStates /\ fd[p] = fd[q]) => p = q

(* p is executing padlock_set or padlock_get on an open file, or has just done so. *)
HasOpen(p) == arg[p].op \in {"set", "get"} /\ fd[p] # None

(* A set or get has a published file open. *)
OpensPublished(p) ==
  /\ pc[p] = "idle" => fd[p] = None
  /\ pc[p] \in SetStates =>
       /\ fd[p] # None
       /\ arg[p].op = "set"
       /\ arg[p].key \in Key
       /\ arg[p].value \in Value
  /\ pc[p] \in GetStates => fd[p] # None /\ arg[p].op = "get"
  /\ HasOpen(p) => Published(fd[p]) /\ since[p] <= Len(log[fd[p]])

(* The copy it made of the header differs from the file's at most in write_offset. *)
CopiedHeader(p) ==
  /\ pc[p] \in {"set_data", "set_close", "get_scan"} => hdr[p] # None
  /\ hdr[p] # None =>
       /\ HasOpen(p)
       /\ hdr[p].total_size = header[fd[p]].total_size
       /\ hdr[p].password = header[fd[p]].password
       /\ hdr[p].xts_key = fd[p]
       /\ hdr[p].write_offset >= HeaderBlocks

(* A set writes inside the room it found. *)
WritesInside(p) ==
  pc[p] \in {"set_data", "set_close"} =>
    /\ RecordBlocks(p) >= 1
    /\ hdr[p].write_offset + RecordBlocks(p) <= hdr[p].total_size
    /\ cur[p] <= RecordBlocks(p)
    /\ pc[p] = "set_close" => HeaderBuffered /\ cur[p] = RecordBlocks(p)

CallShape(p) == OwnsTemp(p) /\ OpensPublished(p) /\ CopiedHeader(p) /\ WritesInside(p)

FileShape == FreshFiles /\ HeadersValid /\ DirPublished

Shape == TypeOK /\ FileShape /\ TempsDistinct /\ \A p \in Proc : CallShape(p)

OneSet == \A p, q \in Proc : pc[p] \in SetStates /\ pc[q] \in SetStates => p = q

(* CommittedIntact, with the order of any two records made explicit. *)
RecordsTile ==
  \A i \in Inode : Published(i) =>
    /\ header[i].write_offset = EndOf(log[i], Len(log[i]))
    /\ \A n \in 1 .. Len(log[i]) :
         /\ blocks_of(log[i][n].key, log[i][n].value) >= 1
         /\ log[i][n].offset = EndOf(log[i], n - 1)
         /\ EndOf(log[i], n) <= header[i].write_offset
         /\ Sound(data[i], i, log[i][n].offset, log[i][n].key, log[i][n].value)
    /\ \A m, n \in 0 .. Len(log[i]) : m < n => EndOf(log[i], m) < EndOf(log[i], n)

(* The header a set copied is still the one in the file, and the blocks it *)
(* has written are there.                                                  *)
SetIsCurrent(p) ==
  pc[p] \in {"set_data", "set_close"} =>
    /\ hdr[p] = header[fd[p]]
    /\ \A j \in 0 .. (cur[p] - 1) :
         data[fd[p]][hdr[p].write_offset + j] =
           crypt_xts(fd[p], hdr[p].write_offset, j, arg[p].key, arg[p].value)

(* p scans up to the end of record n and has read the first m records. *)
ScannedUpTo(p, m, n) ==
  /\ hdr[p].write_offset = EndOf(log[fd[p]], n)
  /\ cur[p] = EndOf(log[fd[p]], m)
  /\ IsLatest(log[fd[p]], m, arg[p].key, found[p])

GetFollowsLog(p) ==
  /\ pc[p] \in {"idle", "get_header"} => found[p] = None /\ hdr[p] = None
  /\ pc[p] = "get_scan" =>
       \E n \in since[p] .. Len(log[fd[p]]) : \E m \in 0 .. n : ScannedUpTo(p, m, n)

Follows(p) == SetIsCurrent(p) /\ GetFollowsLog(p) /\ ReturnsLatest(p)

Inv == Shape /\ OneSet /\ RecordsTile /\ \A p \in Proc : Follows(p)
=============================================================================
