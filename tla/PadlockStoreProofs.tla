------------------------ MODULE PadlockStoreProofs -------------------------
(***************************************************************************)
(* Proofs of the properties of PadlockStore that hold however the calls    *)
(* overlap, for any number of processes, keys, values, files and any       *)
(* sizes.  First the steps that change no file: starting, refusing,        *)
(* reading for, ending and forgetting a call; then those that do.          *)
(***************************************************************************)
EXTENDS PadlockStore, TLAPS

(* Zenon proves most leaves; one that needs arithmetic or functions names SMT. *)
USE Zenon

(* A record of any lengths occupies a natural number of blocks. *)
LEMMA BlocksType == \A k \in Key, v \in Value : blocks_of(k, v) \in Nat
<1> SUFFICES ASSUME NEW k \in Key, NEW v \in Value PROVE blocks_of(k, v) \in Nat
  OBVIOUS
<1>1. plain_length(KeyLen[k], ValueLen[v]) \in Nat
  BY SMTT(30), StoreAssumption DEF plain_length
<1>2. \A x \in Nat : (x % Word) \in Nat
  BY SMTT(30), WordAssumption
<1> DEFINE sum == (plain_length(KeyLen[k], ValueLen[v]) + 15) % Word
<1>3. sum \in Nat
  BY SMTT(30), <1>1, <1>2
<1> HIDE DEF sum
<1>4. (sum - (sum % 16)) \div 16 \in Nat
  BY SMTT(30), <1>3
<1>5. BlocksOf[k][v] = padded_length(KeyLen[k], ValueLen[v]) \div PADLOCK_BLOCK
  BY SMTT(30) DEF BlocksOf
<1> QED
  BY <1>4, <1>5 DEF blocks_of, padded_length, align16, PADLOCK_BLOCK, sum

(* The records of a log end at block numbers. *)
LEMMA EndsNat == ASSUME NEW s \in Seq(Record), NEW n \in 0 .. Len(s) PROVE EndOf(s, n) \in Nat
<1>1. CASE n = 0
  BY <1>1, StoreAssumption DEF EndOf
<1>2. CASE n # 0
  <2>1. s[n] \in Record
    BY SMTT(30), <1>2
  <2>2. s[n].offset \in Nat /\ blocks_of(s[n].key, s[n].value) \in Nat
    BY <2>1, BlocksType DEF Record
  <2> QED
    BY SMTT(30), <1>2, <2>2 DEF EndOf
<1> QED
  BY <1>1, <1>2

(* Appending a record changes no earlier prefix. *)
LEMMA PrefixKept ==
  ASSUME NEW s \in Seq(Record), NEW r \in Record, NEW n \in 0 .. Len(s)
  PROVE  /\ EndOf(Append(s, r), n) = EndOf(s, n)
         /\ \A k, v : IsLatest(s, n, k, v) => IsLatest(Append(s, r), n, k, v)
<1> DEFINE t == Append(s, r)
<1>1. \A j \in 1 .. n : t[j] = s[j]
  BY SMTT(30)
<1> HIDE DEF t
<1>2. EndOf(t, n) = EndOf(s, n)
  BY SMTT(30), <1>1 DEF EndOf
<1>3. ASSUME NEW k, NEW v, IsLatest(s, n, k, v) PROVE IsLatest(t, n, k, v)
  <2>1. CASE v = None /\ \A j \in 1 .. n : s[j].key # k
    BY <1>1, <2>1 DEF IsLatest
  <2>2. CASE \E j \in 1 .. n : s[j].key = k /\ s[j].value = v /\ \A i \in (j + 1) .. n : s[i].key # k
    <3> PICK j \in 1 .. n : s[j].key = k /\ s[j].value = v /\ \A i \in (j + 1) .. n : s[i].key # k
      BY <2>2
    <3>1. t[j].key = k /\ t[j].value = v /\ \A i \in (j + 1) .. n : t[i].key # k
      BY SMTT(30), <1>1
    <3> QED
      BY <3>1 DEF IsLatest
  <2> QED
    BY <1>3, <2>1, <2>2 DEF IsLatest
<1> QED
  BY <1>2, <1>3 DEF t

-----------------------------------------------------------------------------
(* What a step of one process leaves alone.                                *)

(* The frame of process q is untouched. *)
Kept(q) ==
  /\ pc'[q] = pc[q]
  /\ arg'[q] = arg[q]
  /\ fd'[q] = fd[q]
  /\ hdr'[q] = hdr[q]
  /\ cur'[q] = cur[q]
  /\ found'[q] = found[q]
  /\ since'[q] = since[q]
  /\ ret'[q] = ret[q]

(* The step is one of process p. *)
OthersKept(p) == \A q \in Proc \ {p} : Kept(q)

(* Published files stay published, keep their sealed header and lose no record. *)
PublishedKept ==
  \A i \in Inode : Published(i) =>
    /\ Published(i)'
    /\ header'[i].total_size = header[i].total_size
    /\ header'[i].password = header[i].password
    /\ header'[i].xts_key = header[i].xts_key
    /\ Len(log[i]) <= Len(log'[i])

(* The temporary file of an allocation that does not move is untouched. *)
TempKept(q) ==
  pc[q] \in AllocStates => fd[q] \in temps' /\ header'[fd[q]] = header[fd[q]]

(* A process that does not move keeps its shape. *)
LEMMA KeptShape ==
  ASSUME TypeOK, TypeOK', NEW q \in Proc, CallShape(q), Kept(q), PublishedKept, TempKept(q)
  PROVE  CallShape(q)'
<1>1. OwnsTemp(q)'
  BY DEF CallShape, OwnsTemp, Kept, TempKept
<1>2. HasOpen(q)' <=> HasOpen(q)
  BY DEF HasOpen, Kept
<1>3. HasOpen(q) => fd[q] \in Inode
  BY DEF HasOpen, TypeOK, CallsTyped
<1>4. HasOpen(q) => Published(fd[q])' /\ since[q] <= Len(log'[fd[q]])
  <2> SUFFICES ASSUME HasOpen(q) PROVE Published(fd[q])' /\ since[q] <= Len(log'[fd[q]])
    OBVIOUS
  <2>1. Published(fd[q]) /\ since[q] <= Len(log[fd[q]])
    BY DEF CallShape, OpensPublished
  <2>2. Published(fd[q])' /\ Len(log[fd[q]]) <= Len(log'[fd[q]])
    BY <1>3, <2>1, Zenon DEF PublishedKept, Published, Kept
  <2>3. since[q] \in Nat /\ Len(log[fd[q]]) \in Nat /\ Len(log'[fd[q]]) \in Nat
    BY SMTT(30), <1>3 DEF TypeOK, FilesTyped, CallsTyped
  <2> QED
    BY SMTT(30), <2>1, <2>2, <2>3
<1>5. OpensPublished(q)'
  BY <1>2, <1>4 DEF CallShape, OpensPublished, Kept, Published
<1>6. CopiedHeader(q)'
  BY <1>2, <1>3 DEF CallShape, CopiedHeader, OpensPublished, Kept, PublishedKept
<1>7. WritesInside(q)'
  BY DEF CallShape, WritesInside, RecordBlocks, Kept
<1> QED
  BY <1>1, <1>5, <1>6, <1>7 DEF CallShape


(* A step that moves only process p and leaves the files alone. *)
LEMMA QuietStep ==
  ASSUME Shape, NEW p \in Proc, UNCHANGED fileVars, OthersKept(p), CallsTyped', CallShape(p)',
         pc'[p] \in AllocStates => pc[p] \in AllocStates /\ fd'[p] = fd[p]
  PROVE  Shape' /\ PublishedKept
<1>1. TypeOK /\ TypeOK'
  BY DEF Shape, TypeOK, FilesTyped, fileVars
<1>2. FileShape'
  BY DEF Shape, FileShape, FreshFiles, HeadersValid, read_header, DirPublished, Published, fileVars
<1>3. PublishedKept
  BY SMTT(30), <1>1 DEF PublishedKept, Published, fileVars, TypeOK, FilesTyped
<1>4. \A q \in Proc : CallShape(q)'
  <2> SUFFICES ASSUME NEW q \in Proc, q # p PROVE CallShape(q)'
    OBVIOUS
  <2>1. TempKept(q)
    BY DEF TempKept, fileVars, Shape, CallShape, OwnsTemp
  <2> QED
    BY <1>1, <1>3, <2>1, KeptShape DEF Shape, OthersKept
<1>5. TempsDistinct'
  BY SMTT(30) DEF Shape, TempsDistinct, OthersKept, Kept
<1> QED
  BY <1>1, <1>2, <1>3, <1>4, <1>5 DEF Shape

(* A process between calls has no file open. *)
LEMMA IdleShape ==
  ASSUME Shape, NEW p \in Proc, pc[p] = "idle" PROVE fd[p] = None /\ hdr[p] = None
BY DEF Shape, CallShape, OpensPublished, CopiedHeader, HasOpen

-----------------------------------------------------------------------------
(* Ending a call.                                                          *)

(* A process that has no file open. *)
LEMMA ClosedShape ==
  ASSUME NEW p \in Proc, pc'[p] \in {"idle", "done"}, fd'[p] = None, hdr'[p] = None
  PROVE  CallShape(p)'
BY DEF CallShape, OwnsTemp, OpensPublished, CopiedHeader, WritesInside, HasOpen, AllocStates, SetStates,
   GetStates

(* A call that is refused before it opens anything keeps the shape. *)
LEMMA ShapeRefuse ==
  ASSUME Shape, NEW p \in Proc, NEW call \in Call, Refuse(p, call)
  PROVE  Shape' /\ PublishedKept /\ OthersKept(p)
<1> USE DEF Refuse, Finish
<1>1. OthersKept(p) /\ pc'[p] = "done"
  BY DEF OthersKept, Kept, Shape, TypeOK, CallsTyped
<1>2. CallsTyped'
  BY DEF Shape, TypeOK, CallsTyped, States
<1>3. CallShape(p)'
  BY <1>1, IdleShape, ClosedShape
<1> QED
  BY <1>1, <1>2, <1>3, QuietStep DEF AllocStates

(* So does a call that returns, or whose process is killed. *)
LEMMA ShapeForget ==
  ASSUME Shape, NEW p \in Proc, Forget(p)
  PROVE  Shape' /\ PublishedKept /\ OthersKept(p)
<1> USE DEF Forget, NoCall
<1>1. OthersKept(p) /\ pc'[p] = "idle" /\ fd'[p] = None /\ hdr'[p] = None
  BY DEF OthersKept, Kept, Shape, TypeOK, CallsTyped
<1>2. CallsTyped'
  BY StoreAssumption DEF Shape, TypeOK, CallsTyped, States, Call
<1>3. CallShape(p)'
  BY <1>1, ClosedShape
<1> QED
  BY <1>1, <1>2, <1>3, QuietStep DEF AllocStates

(* The call of p ends without touching a file. *)
Ends(p) ==
  /\ pc' = [pc EXCEPT ![p] = "done"]
  /\ \E f \in Value \cup {None, Random} : found' = [found EXCEPT ![p] = f]
  /\ \E r \in {"ok", "fail", "error"} : ret' = [ret EXCEPT ![p] = r]
  /\ UNCHANGED <<fileVars, arg, fd, hdr, cur, since>>

(* Every way in which a set ends without writing its header. *)
LEMMA SetEnds ==
  ASSUME Shape, NEW p \in Proc, SetReject(p) \/ SetCloseLost(p) \/ SetFail(p)
  PROVE  Ends(p)
<1>1. found[p] \in Value \cup {None, Random} /\ found = [found EXCEPT ![p] = found[p]]
  BY DEF Shape, TypeOK, CallsTyped
<1> QED
  BY <1>1 DEF Ends, SetReject, SetCloseLost, SetFail, Finish

(* Every way in which a get ends. *)
LEMMA GetEnds ==
  ASSUME Shape, NEW p \in Proc, GetReject(p) \/ GetCorrupt(p) \/ GetReturn(p) \/ GetFail(p)
  PROVE  Ends(p)
<1>1. found[p] \in Value \cup {None, Random} /\ found = [found EXCEPT ![p] = found[p]]
  BY DEF Shape, TypeOK, CallsTyped
<1> QED
  BY <1>1 DEF Ends, GetReject, GetCorrupt, GetReturn, GetFail, Finish

(* A call that ends keeps the file it has open, and the shape. *)
LEMMA ShapeEnds ==
  ASSUME Shape, NEW p \in Proc, Ends(p)
  PROVE  Shape' /\ PublishedKept /\ OthersKept(p)
<1>1. /\ OthersKept(p) /\ pc'[p] = "done" /\ arg'[p] = arg[p] /\ fd'[p] = fd[p]
      /\ hdr'[p] = hdr[p] /\ since'[p] = since[p] /\ UNCHANGED fileVars
  BY DEF Ends, OthersKept, Kept, Shape, TypeOK, CallsTyped
<1>2. CallsTyped'
  BY SMTT(30) DEF Ends, Shape, TypeOK, CallsTyped, States
<1>3. OwnsTemp(p)' /\ WritesInside(p)'
  BY <1>1 DEF OwnsTemp, WritesInside, AllocStates
<1>4. OpensPublished(p)'
  BY <1>1 DEF Shape, CallShape, OpensPublished, HasOpen, Published, SetStates, GetStates, fileVars
<1>5. CopiedHeader(p)'
  BY <1>1 DEF Shape, CallShape, CopiedHeader, HasOpen, fileVars
<1> QED
  BY <1>1, <1>2, <1>3, <1>4, <1>5, QuietStep DEF CallShape, AllocStates

-----------------------------------------------------------------------------
(* Opening the store and reading its header.                               *)

(* p opens the file that the path names. *)
Begins(p, call, state) ==
  /\ pc[p] = "idle"
  /\ dir # None
  /\ fd' = [fd EXCEPT ![p] = dir]
  /\ since' = [since EXCEPT ![p] = Len(log[dir])]
  /\ arg' = [arg EXCEPT ![p] = call]
  /\ pc' = [pc EXCEPT ![p] = state]
  /\ UNCHANGED <<fileVars, hdr, cur, found, ret>>

(* A set or a get that opens the store keeps the shape. *)
LEMMA ShapeBegins ==
  ASSUME Shape, NEW p \in Proc, NEW call \in Call, NEW state \in {"set_header", "get_header"},
         Begins(p, call, state),
         state = "set_header" => call.op = "set" /\ call.key \in Key /\ call.value \in Value,
         state = "get_header" => call.op = "get"
  PROVE  Shape' /\ PublishedKept /\ OthersKept(p)
<1>1. /\ OthersKept(p) /\ UNCHANGED fileVars /\ dir # None /\ fd'[p] = dir /\ hdr'[p] = None
      /\ since'[p] = Len(log[dir]) /\ pc'[p] = state /\ arg'[p] = call
  BY IdleShape DEF Begins, OthersKept, Kept, Shape, TypeOK, CallsTyped
<1>2. dir \in Inode /\ Published(dir) /\ Len(log[dir]) \in Nat
  BY SMTT(30), <1>1 DEF Shape, FileShape, DirPublished, TypeOK, FilesTyped
<1>3. CallsTyped'
  BY <1>2 DEF Begins, Shape, TypeOK, CallsTyped, States, SetStates, GetStates
<1>4. OwnsTemp(p)' /\ CopiedHeader(p)' /\ WritesInside(p)'
  BY <1>1 DEF OwnsTemp, CopiedHeader, WritesInside, AllocStates
<1>5. Published(dir)' /\ Len(log[dir]) <= Len(log'[dir])
  BY SMTT(30), <1>1, <1>2 DEF Published, fileVars
<1>6. Published(fd[p])' /\ since'[p] <= Len(log'[fd'[p]])
  BY <1>1, <1>5 DEF Published, fileVars
<1>7. OpensPublished(p)'
  BY <1>1, <1>6 DEF OpensPublished, HasOpen, SetStates, GetStates
<1> QED
  BY <1>1, <1>3, <1>4, <1>7, QuietStep DEF CallShape, AllocStates

(* SetBegin opens the store. *)
LEMMA ShapeSetBegin ==
  ASSUME Shape, NEW p \in Proc, NEW k \in Key, NEW v \in Value, NEW password \in Password,
         SetBegin(p, k, v, password)
  PROVE  Shape' /\ PublishedKept /\ OthersKept(p)
<1>1. SetCall(k, v, password) \in Call
  BY DEF Call, SetCall
<1>2. Begins(p, SetCall(k, v, password), "set_header")
  BY DEF SetBegin, Begins
<1> QED
  BY <1>1, <1>2, ShapeBegins DEF SetCall

(* GetBegin opens the store. *)
LEMMA ShapeGetBegin ==
  ASSUME Shape, NEW p \in Proc, NEW k \in Key, NEW password \in Password, GetBegin(p, k, password)
  PROVE  Shape' /\ PublishedKept /\ OthersKept(p)
<1>1. GetCall(k, password) \in Call
  BY DEF Call, GetCall
<1>2. Begins(p, GetCall(k, password), "get_header")
  BY DEF GetBegin, Begins
<1> QED
  BY <1>1, <1>2, ShapeBegins DEF GetCall

(* A set or get finds a header in the file it has open. *)
LEMMA OpenedHeader ==
  ASSUME Shape, NEW p \in Proc, pc[p] \in SetStates \cup GetStates
  PROVE  /\ fd[p] \in Inode
         /\ Published(fd[p])
         /\ header[fd[p]] \in Header
         /\ header[fd[p]].total_size <= MaxBlocks
         /\ read_header(header[fd[p]])
         /\ header[fd[p]].xts_key = fd[p]
<1>1. fd[p] \in Inode /\ Published(fd[p])
  BY DEF Shape, CallShape, OpensPublished, HasOpen, TypeOK, CallsTyped
<1>2. header[fd[p]] \in [total_size : 0 .. MaxBlocks, write_offset : 0 .. MaxBlocks,
                        password : Password, xts_key : Inode]
  BY <1>1 DEF Shape, TypeOK, FilesTyped, Published
<1>3. header[fd[p]] \in Header /\ header[fd[p]].total_size <= MaxBlocks
  BY SMTT(30), <1>2, StoreAssumption DEF Header
<1> QED
  BY <1>1, <1>3 DEF Shape, FileShape, HeadersValid, Published


(* p reads the header of its file. *)
Copies(p, state, c) ==
  /\ hdr' = [hdr EXCEPT ![p] = header[fd[p]]]
  /\ cur' = [cur EXCEPT ![p] = c]
  /\ pc' = [pc EXCEPT ![p] = state]
  /\ UNCHANGED <<fileVars, arg, fd, found, since, ret>>

(* A set or a get that reads the header keeps the shape. *)
LEMMA ShapeCopies ==
  ASSUME Shape, NEW p \in Proc, NEW c \in Nat, NEW state,
         \/ pc[p] = "set_header" /\ state = "set_data"
         \/ pc[p] = "get_header" /\ state = "get_scan",
         Copies(p, state, c), WritesInside(p)'
  PROVE  Shape' /\ PublishedKept /\ OthersKept(p)
<1>1. /\ OthersKept(p) /\ UNCHANGED fileVars /\ hdr'[p] = header[fd[p]] /\ pc'[p] = state
      /\ fd'[p] = fd[p] /\ arg'[p] = arg[p] /\ since'[p] = since[p]
  BY DEF Copies, OthersKept, Kept, Shape, TypeOK, CallsTyped
<1>2. /\ fd[p] \in Inode /\ header[fd[p]] \in Header /\ read_header(header[fd[p]])
      /\ header[fd[p]].xts_key = fd[p]
  BY OpenedHeader DEF SetStates, GetStates
<1>3. CallsTyped'
  BY <1>2 DEF Copies, Shape, TypeOK, CallsTyped, States, SetStates, GetStates
<1>4. OpensPublished(p)' /\ OwnsTemp(p)'
  BY <1>1 DEF Shape, CallShape, OwnsTemp, OpensPublished, HasOpen, Published, AllocStates,
     SetStates, GetStates, fileVars
<1>5. HasOpen(p)'
  BY <1>1 DEF Shape, CallShape, OpensPublished, HasOpen, SetStates, GetStates
<1>6. CopiedHeader(p)'
  BY <1>1, <1>2, <1>5, StoreAssumption DEF CopiedHeader, Header, read_header, fileVars
<1> QED
  BY <1>1, <1>3, <1>4, <1>6, QuietStep DEF CallShape, AllocStates

(* SetReadHeader copies the header, and the record fits behind it. *)
LEMMA ShapeSetReadHeader ==
  ASSUME Shape, NEW p \in Proc, SetReadHeader(p)
  PROVE  Shape' /\ PublishedKept /\ OthersKept(p)
<1>1. pc[p] = "set_header" /\ Fits(p) /\ Copies(p, "set_data", 0)
  BY DEF SetReadHeader, Copies
<1>2. RecordBlocks(p) \in Nat
  BY <1>1, BlocksType DEF Shape, CallShape, OpensPublished, RecordBlocks, SetStates
<1>3. /\ hdr'[p] = header[fd[p]] /\ arg'[p] = arg[p] /\ cur'[p] = 0 /\ pc'[p] = "set_data"
  BY <1>1 DEF Copies, Shape, TypeOK, CallsTyped
<1>4. WritesInside(p)'
  BY SMTT(30), <1>1, <1>2, <1>3 DEF Fits, WritesInside, RecordBlocks
<1> QED
  BY <1>1, <1>4, ShapeCopies

(* GetReadHeader copies the header. *)
LEMMA ShapeGetReadHeader ==
  ASSUME Shape, NEW p \in Proc, GetReadHeader(p)
  PROVE  Shape' /\ PublishedKept /\ OthersKept(p)
<1>1. pc[p] = "get_header" /\ Copies(p, "get_scan", HeaderBlocks)
  BY DEF GetReadHeader, Copies
<1>2. WritesInside(p)'
  BY <1>1 DEF Copies, Shape, TypeOK, CallsTyped, WritesInside
<1> QED
  BY <1>1, <1>2, StoreAssumption, ShapeCopies

-----------------------------------------------------------------------------
(* The other steps that touch no file.                                     *)

(* p moves on without changing a file or the file it has open. *)
Moves(p, state) ==
  /\ pc' = [pc EXCEPT ![p] = state]
  /\ UNCHANGED <<fileVars, arg, fd, hdr, since>>
  /\ CallsTyped'
  /\ OthersKept(p)

(* A step inside padlock_allocate, padlock_set or padlock_get keeps the shape. *)
LEMMA ShapeMoves ==
  ASSUME Shape, NEW p \in Proc, NEW state, Moves(p, state), WritesInside(p)',
         \/ pc[p] = "alloc_sync" /\ state = "alloc_rename"
         \/ pc[p] = "set_data" /\ state = "set_close"
         \/ pc[p] = "get_scan" /\ state = "get_scan"
  PROVE  Shape' /\ PublishedKept
<1>1. pc'[p] = state /\ UNCHANGED <<fileVars, arg, fd, hdr, since>> /\ OthersKept(p) /\ CallsTyped'
  BY DEF Moves, Shape, TypeOK, CallsTyped
<1>2. OwnsTemp(p)'
  BY <1>1 DEF Shape, CallShape, OwnsTemp, AllocStates, fileVars
<1>3. OpensPublished(p)'
  BY <1>1 DEF Shape, CallShape, OpensPublished, HasOpen, Published, AllocStates, SetStates, GetStates,
     fileVars
<1>4. CopiedHeader(p)'
  BY <1>1 DEF Shape, CallShape, CopiedHeader, HasOpen, fileVars
<1> QED
  BY <1>1, <1>2, <1>3, <1>4, QuietStep DEF CallShape, AllocStates

(* AllocSync moves an allocation on to its rename. *)
LEMMA ShapeAllocSync ==
  ASSUME Shape, NEW p \in Proc, AllocSync(p)
  PROVE  Shape' /\ PublishedKept /\ OthersKept(p)
<1>1. OthersKept(p) /\ CallsTyped' /\ pc[p] = "alloc_sync" /\ pc'[p] = "alloc_rename"
  BY DEF AllocSync, OthersKept, Kept, Shape, TypeOK, CallsTyped, States, AllocStates
<1>2. Moves(p, "alloc_rename") /\ WritesInside(p)'
  BY <1>1 DEF AllocSync, Moves, WritesInside
<1> QED
  BY <1>1, <1>2, ShapeMoves

(* SetBufferHeader moves a set on to its fclose. *)
LEMMA ShapeSetBufferHeader ==
  ASSUME Shape, NEW p \in Proc, SetBufferHeader(p)
  PROVE  Shape' /\ PublishedKept /\ OthersKept(p)
<1> USE DEF SetBufferHeader, DataWritten
<1>1. OthersKept(p) /\ CallsTyped' /\ pc[p] = "set_data" /\ pc'[p] = "set_close"
  BY DEF OthersKept, Kept, Shape, TypeOK, CallsTyped, States, SetStates
<1>2. Moves(p, "set_close")
  BY <1>1 DEF Moves
<1>3. WritesInside(p)'
  BY <1>1 DEF Shape, CallShape, WritesInside, RecordBlocks
<1> QED
  BY <1>1, <1>2, <1>3, ShapeMoves

(* One round of the loop of padlock_get. *)
LEMMA ShapeGetScan ==
  ASSUME Shape, NEW p \in Proc, GetRecord(p) \/ GetGarbage(p)
  PROVE  Shape' /\ PublishedKept /\ OthersKept(p)
<1>1. pc[p] = "get_scan" /\ UNCHANGED <<fileVars, pc, arg, fd, hdr, since, ret>>
  BY DEF GetRecord, GetGarbage, Garbled, Scanning
<1>2. hdr[p] \in Header /\ cur[p] \in Nat /\ found[p] \in Value \cup {None, Random}
  BY <1>1 DEF Shape, CallShape, CopiedHeader, TypeOK, CallsTyped
<1>3. \E n \in Nat : cur' = [cur EXCEPT ![p] = n]
  <2>1. CASE GetRecord(p)
    <3> PICK k \in Key, v \in Value : cur' = [cur EXCEPT ![p] = Advanced(p, k, v)]
      BY <2>1 DEF GetRecord
    <3>1. Advanced(p, k, v) \in Nat
      BY SMTT(30), <1>2, BlocksType DEF Advanced
    <3> QED
      BY <3>1
  <2>2. CASE GetGarbage(p)
    <3> PICK n \in 1 .. (hdr[p].write_offset - cur[p]) : cur' = [cur EXCEPT ![p] = @ + n]
      BY <2>2 DEF GetGarbage
    <3>1. cur[p] + n \in Nat
      BY SMTT(30), <1>2 DEF Header
    <3> QED
      BY <3>1
  <2> QED
    BY <2>1, <2>2
<1>4. \E f \in Value \cup {None, Random} : found' = [found EXCEPT ![p] = f]
  <2>1. CASE GetRecord(p)
    BY <1>2, <2>1 DEF GetRecord, Matched
  <2>2. CASE GetGarbage(p)
    BY <1>2, <2>2 DEF GetGarbage
  <2> QED
    BY <2>1, <2>2
<1>5. OthersKept(p)
  BY <1>1, <1>3, <1>4 DEF OthersKept, Kept, Shape, TypeOK, CallsTyped
<1>6. CallsTyped'
  BY SMTT(30), <1>1, <1>3, <1>4 DEF Shape, TypeOK, CallsTyped
<1>7. pc' = [pc EXCEPT ![p] = "get_scan"] /\ pc'[p] = "get_scan"
  BY <1>1 DEF Shape, TypeOK, CallsTyped
<1>8. Moves(p, "get_scan") /\ WritesInside(p)'
  BY <1>1, <1>5, <1>6, <1>7 DEF Moves, WritesInside
<1> QED
  BY <1>1, <1>5, <1>8, ShapeMoves

-----------------------------------------------------------------------------
(* The shape of the files and of the calls is right initially. *)
LEMMA ShapeInit == Init => Shape
BY SMTT(30), StoreAssumption DEF Init, Shape, TypeOK, FilesTyped, CallsTyped, FileShape, FreshFiles,
   HeadersValid, DirPublished, TempsDistinct, CallShape, OwnsTemp, OpensPublished, CopiedHeader,
   WritesInside, HasOpen, Published, NoCall, Call, States, AllocStates, SetStates, GetStates,
   Content, Header

-----------------------------------------------------------------------------
(* The steps that change a file.                                           *)

(* A step that moves process p and changes files. *)
LEMMA LoudStep ==
  ASSUME Shape, NEW p \in Proc, TypeOK', FileShape', TempsDistinct', PublishedKept, CallShape(p)',
         OthersKept(p), \A q \in Proc \ {p} : TempKept(q)
  PROVE  Shape' /\ PublishedKept /\ OthersKept(p)
<1>1. \A q \in Proc : CallShape(q)'
  <2> SUFFICES ASSUME NEW q \in Proc, q # p PROVE CallShape(q)'
    OBVIOUS
  <2> QED
    BY KeptShape DEF Shape, OthersKept
<1> QED
  BY <1>1 DEF Shape

(* AllocBegin keeps the shape. *)
LEMMA ShapeAllocBegin ==
  ASSUME Shape, NEW p \in Proc, NEW size \in Size, NEW password \in Password,
         AllocBegin(p, size, password)
  PROVE  Shape' /\ PublishedKept /\ OthersKept(p)
<1> PICK i \in Inode \ created :
      created' = created \cup {i} /\ temps' = temps \cup {i} /\ fd' = [fd EXCEPT ![p] = i]
  BY DEF AllocBegin
<1>1. UNCHANGED <<dir, header, data, log>>
  BY DEF AllocBegin
<1>2. OthersKept(p)
  BY DEF AllocBegin, OthersKept, Kept, Shape, TypeOK, CallsTyped
<1>3. /\ pc'[p] = "alloc_fill" /\ fd'[p] = i /\ hdr'[p] = None
      /\ arg'[p] = AllocCall(size, password)
  BY IdleShape DEF AllocBegin, Shape, TypeOK, CallsTyped
<1>4. AllocCall(size, password) \in Call
  BY StoreAssumption DEF AllocCall, Call
<1>5. FilesTyped'
  BY <1>1 DEF Shape, TypeOK, FilesTyped
<1>6. CallsTyped'
  BY <1>4 DEF AllocBegin, Shape, TypeOK, CallsTyped, States, AllocStates
<1>7. FileShape'
  BY <1>1 DEF Shape, TypeOK, FilesTyped, FileShape, FreshFiles, HeadersValid, DirPublished,
     Published, read_header
<1>8. \A q \in Proc : pc[q] \in AllocStates => fd[q] \in temps /\ fd[q] # i
  BY DEF Shape, CallShape, OwnsTemp, TypeOK, FilesTyped
<1>9. TempsDistinct'
  <2> SUFFICES ASSUME NEW q \in Proc, NEW r \in Proc, q # r,
                      pc'[q] \in AllocStates, pc'[r] \in AllocStates
               PROVE  fd'[q] # fd'[r]
    BY DEF TempsDistinct
  <2> QED
    BY SMTT(30), <1>2, <1>3, <1>8 DEF OthersKept, Kept, Shape, TempsDistinct
<1>10. PublishedKept
  BY SMTT(30), <1>1 DEF PublishedKept, Published, Shape, TypeOK, FilesTyped
<1>11. \A q \in Proc \ {p} : TempKept(q)
  BY <1>1, <1>8 DEF TempKept
<1>12. CallShape(p)'
  BY SMTT(30), <1>3, StoreAssumption DEF CallShape, OwnsTemp, OpensPublished, CopiedHeader,
     WritesInside, HasOpen,
     AllocCall, AllocBegin, AllocStates, SetStates, GetStates
<1> QED
  BY <1>2, <1>5, <1>6, <1>7, <1>9, <1>10, <1>11, <1>12, LoudStep DEF TypeOK

(* What an allocation knows of its temporary file. *)
LEMMA OwnedTemp ==
  ASSUME Shape, NEW p \in Proc, pc[p] \in AllocStates
  PROVE  /\ fd[p] \in Inode /\ fd[p] \in created /\ fd[p] \in temps /\ ~Published(fd[p])
         /\ fd[p] # dir /\ hdr[p] = None /\ ~HasOpen(p)
         /\ \A q \in Proc \ {p} : pc[q] \in AllocStates => fd[q] # fd[p]
<1>1. fd[p] \in temps /\ fd[p] \in created /\ fd[p] \in Inode /\ arg[p].op = "allocate"
  BY DEF Shape, CallShape, OwnsTemp, TypeOK, FilesTyped
<1>2. ~Published(fd[p]) /\ fd[p] # dir
  BY <1>1, StoreAssumption DEF Shape, FileShape, DirPublished, Published
<1>3. ~HasOpen(p) /\ hdr[p] = None
  BY <1>1 DEF HasOpen, Shape, CallShape, CopiedHeader
<1> QED
  BY <1>1, <1>2, <1>3 DEF Shape, TempsDistinct

(* AllocFill keeps the shape. *)
LEMMA ShapeAllocFill ==
  ASSUME Shape, NEW p \in Proc, AllocFill(p)
  PROVE Shape' /\ PublishedKept /\ OthersKept(p)
<1> DEFINE h == [total_size |-> arg[p].size, write_offset |-> HeaderBlocks,
                 password |-> arg[p].password, xts_key |-> fd[p]]
<1>1. /\ pc[p] = "alloc_fill" /\ header' = [header EXCEPT ![fd[p]] = h]
      /\ UNCHANGED <<dir, temps, created, log, arg, fd, hdr, cur, found, since, ret>>
      /\ pc' = [pc EXCEPT ![p] = "alloc_sync"]
      /\ data' = [data EXCEPT ![fd[p]] = [b \in Block |-> Random]]
      /\ ~(arg[p].size > MaxBlocks)
  BY DEF AllocFill, FillImpossible
<1>2. pc[p] \in AllocStates
  BY <1>1 DEF AllocStates
<1>3. arg[p].size \in Nat /\ arg[p].size >= MinBlocks /\ arg[p].password \in Password /\ arg[p].op = "allocate"
  BY <1>2 DEF Shape, CallShape, OwnsTemp, TypeOK, CallsTyped, Call
<1>4. /\ h \in [total_size : 0 .. MaxBlocks, write_offset : 0 .. MaxBlocks,
                password : Password, xts_key : Inode]
      /\ h # None
  BY SMTT(30), <1>1, <1>2, <1>3, OwnedTemp, StoreAssumption
<1>5. read_header(h) /\ h.xts_key = fd[p] /\ h.write_offset = HeaderBlocks
  BY SMTT(30), <1>3, StoreAssumption DEF read_header
<1> HIDE DEF h
<1>6. /\ header'[fd[p]] = h
      /\ \A i \in Inode \ {fd[p]} : header'[i] = header[i]
  BY <1>1, <1>2, OwnedTemp DEF Shape, TypeOK, FilesTyped
<1>7. FilesTyped'
  <2>1. data' \in [Inode -> [Block -> Content]]
    BY <1>1 DEF Shape, TypeOK, FilesTyped, Content
  <2> QED
    BY <1>1, <1>4, <2>1 DEF Shape, TypeOK, FilesTyped
<1>8. CallsTyped'
  BY <1>1 DEF Shape, TypeOK, CallsTyped, States, AllocStates
<1>9. FreshFiles'
  BY <1>1, <1>2, <1>6, OwnedTemp DEF Shape, FileShape, FreshFiles
<1>10. HeadersValid'
  BY <1>5, <1>6, Zenon DEF Shape, FileShape, HeadersValid
<1>11. DirPublished'
  BY <1>1, <1>2, <1>6, OwnedTemp DEF Shape, FileShape, DirPublished, Published, TypeOK, FilesTyped
<1>12. /\ OthersKept(p)
       /\ pc'[p] = "alloc_sync"
  BY <1>1 DEF OthersKept, Kept, Shape, TypeOK, CallsTyped
<1>13. TempsDistinct'
  BY <1>1, <1>2, <1>12 DEF OthersKept, Kept, Shape, TempsDistinct
<1>14. PublishedKept
  BY SMTT(30), <1>1, <1>2, <1>6, OwnedTemp DEF PublishedKept, Published, Shape, TypeOK, FilesTyped
<1>15. \A q \in Proc \ {p} : TempKept(q)
  BY <1>1, <1>2, <1>6, OwnedTemp DEF TempKept, Shape, CallShape, OwnsTemp, TypeOK, FilesTyped
<1>16. CallShape(p)'
  BY <1>1, <1>2, <1>3, <1>4, <1>5, <1>6, <1>12, OwnedTemp DEF CallShape, OwnsTemp, OpensPublished,
     CopiedHeader,
     WritesInside, HasOpen, AllocStates, SetStates, GetStates
<1> QED
  BY <1>7, <1>8, <1>9, <1>10, <1>11, <1>12, <1>13, <1>14, <1>15, <1>16, LoudStep DEF TypeOK, FileShape

(* AllocRename keeps the shape. *)
LEMMA ShapeAllocRename ==
  ASSUME Shape, NEW p \in Proc, AllocRename(p)
  PROVE Shape' /\ PublishedKept /\ OthersKept(p)
<1>1. /\ pc[p] = "alloc_rename" /\ dir' = fd[p] /\ temps' = temps \ {fd[p]}
      /\ UNCHANGED <<created, header, data, log, arg, fd, hdr, cur, found, since>>
      /\ pc' = [pc EXCEPT ![p] = "done"] /\ ret' = [ret EXCEPT ![p] = "ok"]
  BY DEF AllocRename, Completed, Finish
<1>2. pc[p] \in AllocStates
  BY <1>1 DEF AllocStates
<1>3. TypeOK'
  BY <1>1, <1>2, OwnedTemp DEF Shape, TypeOK, FilesTyped, CallsTyped, States
<1>4. header[fd[p]] # None
  BY <1>1, <1>2 DEF Shape, CallShape, OwnsTemp
<1>5. FileShape'
  BY <1>1, <1>2, <1>4, OwnedTemp DEF Shape, FileShape, FreshFiles, HeadersValid, DirPublished,
     Published, read_header
<1>6. /\ OthersKept(p)
      /\ pc'[p] = "done"
  BY <1>1 DEF OthersKept, Kept, Shape, TypeOK, CallsTyped
<1>7. TempsDistinct'
  BY <1>1, <1>6 DEF OthersKept, Kept, Shape, TempsDistinct, AllocStates
<1>8. PublishedKept
  BY SMTT(30), <1>1 DEF PublishedKept, Published, Shape, TypeOK, FilesTyped
<1>9. \A q \in Proc \ {p} : TempKept(q)
  BY <1>1, <1>2, OwnedTemp DEF TempKept, Shape, CallShape, OwnsTemp
<1>10. CallShape(p)'
  BY <1>1, <1>2, <1>6, OwnedTemp DEF CallShape, OwnsTemp, OpensPublished, CopiedHeader,
     WritesInside, HasOpen, AllocStates, SetStates, GetStates
<1> QED
  BY <1>3, <1>5, <1>6, <1>7, <1>8, <1>9, <1>10, LoudStep

(* AllocFail keeps the shape. *)
LEMMA ShapeAllocFail ==
  ASSUME Shape, NEW p \in Proc, AllocFail(p)
  PROVE Shape' /\ PublishedKept /\ OthersKept(p)
<1>1. /\ pc[p] \in AllocStates /\ header' = [header EXCEPT ![fd[p]] = None] /\ temps' = temps \ {fd[p]}
      /\ UNCHANGED <<dir, created, data, log, arg, fd, hdr, cur, found, since>>
      /\ pc' = [pc EXCEPT ![p] = "done"] /\ ret' = [ret EXCEPT ![p] = "error"]
  BY DEF AllocFail, unlink, Finish
<1>2. TypeOK'
  BY <1>1, OwnedTemp DEF Shape, TypeOK, FilesTyped, CallsTyped, States
<1>3. /\ header'[fd[p]] = None
      /\ \A i \in Inode \ {fd[p]} : header'[i] = header[i]
  BY <1>1, OwnedTemp DEF Shape, TypeOK, FilesTyped
<1>4. FreshFiles'
  BY <1>1, <1>3 DEF Shape, FileShape, FreshFiles
<1>5. HeadersValid'
  BY <1>3, Zenon DEF Shape, FileShape, HeadersValid
<1>6. DirPublished'
  BY <1>1, <1>3, OwnedTemp DEF Shape, FileShape, DirPublished, Published, TypeOK, FilesTyped
<1>7. /\ OthersKept(p)
      /\ pc'[p] = "done"
  BY <1>1 DEF OthersKept, Kept, Shape, TypeOK, CallsTyped
<1>8. TempsDistinct'
  BY <1>1, <1>7 DEF OthersKept, Kept, Shape, TempsDistinct, AllocStates
<1>9. PublishedKept
  <2> SUFFICES ASSUME NEW i \in Inode, Published(i)
               PROVE  Published(i)' /\ header'[i] = header[i] /\ Len(log[i]) <= Len(log'[i])
    BY DEF PublishedKept
  <2>1. i # fd[p]
    BY <1>1, OwnedTemp
  <2> QED
    BY SMTT(30), <1>1, <1>3, <2>1 DEF Published, Shape, TypeOK, FilesTyped
<1>10. \A q \in Proc \ {p} : TempKept(q)
  BY SMTT(30), <1>1, <1>3, OwnedTemp DEF TempKept, Shape, CallShape, OwnsTemp, TypeOK, FilesTyped
<1>11. CallShape(p)'
  BY <1>1, <1>7, OwnedTemp DEF CallShape, OwnsTemp, OpensPublished, CopiedHeader,
     WritesInside, HasOpen, AllocStates, SetStates, GetStates
<1> QED
  BY <1>2, <1>4, <1>5, <1>6, <1>7, <1>8, <1>9, <1>10, <1>11, LoudStep DEF FileShape

(* A set that is writing: its file, its copy of the header and its room. *)
LEMMA WritingSet ==
  ASSUME Shape, NEW p \in Proc, pc[p] \in {"set_data", "set_close"}
  PROVE  /\ fd[p] \in Inode /\ Published(fd[p]) /\ header[fd[p]] # None
         /\ hdr[p] \in Header /\ hdr[p].xts_key = fd[p]
         /\ hdr[p].total_size = header[fd[p]].total_size /\ hdr[p].total_size <= MaxBlocks
         /\ hdr[p].password = header[fd[p]].password
         /\ hdr[p].total_size >= MinBlocks /\ hdr[p].write_offset >= HeaderBlocks
         /\ arg[p].op = "set" /\ arg[p].key \in Key /\ arg[p].value \in Value
         /\ RecordBlocks(p) \in Nat /\ RecordBlocks(p) >= 1 /\ cur[p] \in Nat
         /\ hdr[p].write_offset + RecordBlocks(p) <= hdr[p].total_size
<1>1. pc[p] \in SetStates
  BY DEF SetStates
<1>2. /\ fd[p] \in Inode /\ Published(fd[p]) /\ header[fd[p]] # None
      /\ header[fd[p]].total_size <= MaxBlocks /\ header[fd[p]].total_size >= MinBlocks
  BY <1>1, OpenedHeader DEF read_header, Published
<1>3. hdr[p] \in Header /\ cur[p] \in Nat
  BY DEF Shape, TypeOK, CallsTyped, CallShape, CopiedHeader
<1>4. /\ hdr[p].xts_key = fd[p] /\ hdr[p].total_size = header[fd[p]].total_size
      /\ hdr[p].password = header[fd[p]].password /\ hdr[p].write_offset >= HeaderBlocks
  BY <1>3 DEF Shape, CallShape, CopiedHeader
<1>5. arg[p].op = "set" /\ arg[p].key \in Key /\ arg[p].value \in Value
  BY <1>1 DEF Shape, CallShape, OpensPublished
<1>6. RecordBlocks(p) \in Nat
  BY <1>5, BlocksType DEF RecordBlocks
<1>7. RecordBlocks(p) >= 1 /\ hdr[p].write_offset + RecordBlocks(p) <= hdr[p].total_size
  BY DEF Shape, CallShape, WritesInside
<1> QED
  BY <1>2, <1>3, <1>4, <1>5, <1>6, <1>7

(* SetWriteBlock keeps the shape. *)
LEMMA ShapeSetWriteBlock ==
  ASSUME Shape, NEW p \in Proc, SetWriteBlock(p)
  PROVE  Shape' /\ PublishedKept /\ OthersKept(p)
<1> DEFINE b == hdr[p].write_offset + cur[p]
           c == crypt_xts(hdr[p].xts_key, hdr[p].write_offset, cur[p], arg[p].key, arg[p].value)
<1>1. /\ pc[p] = "set_data" /\ cur[p] < RecordBlocks(p)
      /\ data' = [data EXCEPT ![fd[p]][b] = c]
      /\ cur' = [cur EXCEPT ![p] = @ + 1]
      /\ UNCHANGED <<dir, temps, created, header, log, pc, arg, fd, hdr, found, since, ret>>
  BY DEF SetWriteBlock
<1>2. b \in Block
  BY SMTT(30), <1>1, WritingSet, StoreAssumption DEF Block, Header
<1>3. c \in Content
  BY <1>1, WritingSet DEF Content, crypt_xts, Header
<1> HIDE DEF b, c
<1>4. TypeOK'
  <2>1. data' \in [Inode -> [Block -> Content]]
    BY <1>1, <1>2, <1>3 DEF Shape, TypeOK, FilesTyped
  <2>2. cur' \in [Proc -> Nat]
    BY SMTT(30), <1>1 DEF Shape, TypeOK, CallsTyped
  <2> QED
    BY <1>1, <2>1, <2>2 DEF Shape, TypeOK, FilesTyped, CallsTyped
<1>5. FileShape'
  BY <1>1 DEF Shape, FileShape, FreshFiles, HeadersValid, read_header, DirPublished, Published
<1>6. TempsDistinct'
  BY <1>1 DEF Shape, TempsDistinct
<1>7. PublishedKept
  BY SMTT(30), <1>1 DEF PublishedKept, Published, Shape, TypeOK, FilesTyped
<1>8. OthersKept(p) /\ \A q \in Proc \ {p} : TempKept(q)
  BY <1>1 DEF OthersKept, Kept, TempKept, Shape, CallShape, OwnsTemp, TypeOK, CallsTyped
<1>9. WritesInside(p)'
  <2>1. cur'[p] = cur[p] + 1
    BY <1>1 DEF Shape, TypeOK, CallsTyped
  <2> QED
    BY SMTT(30), <1>1, <2>1, WritingSet DEF Shape, CallShape, WritesInside, RecordBlocks
<1>10. CallShape(p)'
  BY <1>1, <1>9 DEF Shape, CallShape, OwnsTemp, OpensPublished, CopiedHeader, HasOpen, Published
<1> QED
  BY <1>4, <1>5, <1>6, <1>7, <1>8, <1>10, LoudStep

(* Writing the header back: SetWriteHeader and SetClose. *)
LEMMA ShapeWriteBack ==
  ASSUME Shape, NEW p \in Proc, pc[p] \in {"set_data", "set_close"}, WriteBack(p), Finish(p, "ok"),
         UNCHANGED <<dir, temps, created, data, arg, fd, hdr, cur, found, since>>
  PROVE  Shape' /\ PublishedKept /\ OthersKept(p)
<1> DEFINE h == [hdr[p] EXCEPT !.write_offset = @ + RecordBlocks(p)]
           r == [offset |-> hdr[p].write_offset, key |-> arg[p].key, value |-> arg[p].value]
<1>1. /\ header' = [header EXCEPT ![fd[p]] = h]
      /\ log' = [log EXCEPT ![fd[p]] = Append(@, r)]
      /\ pc' = [pc EXCEPT ![p] = "done"] /\ ret' = [ret EXCEPT ![p] = "ok"]
  BY DEF WriteBack, NextOffset, Finish
<1>2. /\ h \in [total_size : 0 .. MaxBlocks, write_offset : 0 .. MaxBlocks,
                password : Password, xts_key : Inode]
      /\ h.total_size = header[fd[p]].total_size /\ h.password = header[fd[p]].password
      /\ h.xts_key = fd[p] /\ read_header(h)
  BY SMTT(30), WritingSet, StoreAssumption DEF Header, read_header
<1>3. r \in Record
  BY WritingSet DEF Record, Header
<1>4. h # None
  <2>1. h \in Header
    BY SMTT(30), <1>2, StoreAssumption DEF Header
  <2> QED
    BY <2>1, StoreAssumption DEF Header
<1> HIDE DEF h, r
<1>5. /\ header'[fd[p]] = h /\ log'[fd[p]] = Append(log[fd[p]], r)
      /\ \A i \in Inode \ {fd[p]} : header'[i] = header[i] /\ log'[i] = log[i]
  BY <1>1, WritingSet DEF Shape, TypeOK, FilesTyped
<1>6. /\ Append(log[fd[p]], r) \in Seq(Record) /\ Len(log[fd[p]]) \in Nat
      /\ Len(Append(log[fd[p]], r)) = Len(log[fd[p]]) + 1
  BY SMTT(30), <1>3, WritingSet DEF Shape, TypeOK, FilesTyped
<1>7. TypeOK'
  <2>1. FilesTyped'
    BY <1>1, <1>2, <1>6 DEF Shape, TypeOK, FilesTyped
  <2>2. CallsTyped'
    BY <1>1 DEF Shape, TypeOK, CallsTyped, States
  <2> QED
    BY <2>1, <2>2 DEF TypeOK
<1>8. FreshFiles'
  BY SMTT(30), <1>5, WritingSet DEF Shape, FileShape, FreshFiles, Published
<1>9. HeadersValid'
  BY <1>2, <1>5, Zenon DEF Shape, FileShape, HeadersValid
<1>10. PublishedKept
  <2> SUFFICES ASSUME NEW i \in Inode, Published(i)
               PROVE  /\ Published(i)'
                      /\ header'[i].total_size = header[i].total_size
                      /\ header'[i].password = header[i].password
                      /\ header'[i].xts_key = header[i].xts_key
                      /\ Len(log[i]) <= Len(log'[i])
    BY DEF PublishedKept
  <2>1. CASE i = fd[p]
    <3>1. header[fd[p]].xts_key = fd[p]
      BY <2>1 DEF Shape, FileShape, HeadersValid, Published
    <3> QED
      BY SMTT(30), <1>2, <1>4, <1>5, <1>6, <2>1, <3>1 DEF Published
  <2>2. CASE i # fd[p]
    BY SMTT(30), <1>5, <2>2 DEF Published, Shape, TypeOK, FilesTyped
  <2> QED
    BY <2>1, <2>2
<1>11. DirPublished'
  <2>1. dir # None => dir \in Inode /\ Published(dir)
    BY DEF Shape, FileShape, DirPublished, TypeOK, FilesTyped
  <2> QED
    BY <1>10, <2>1 DEF DirPublished, PublishedKept, Published
<1>12. /\ OthersKept(p)
       /\ pc'[p] = "done"
  BY <1>1 DEF OthersKept, Kept, Shape, TypeOK, CallsTyped
<1>13. TempsDistinct'
  BY <1>12 DEF OthersKept, Kept, Shape, TempsDistinct, AllocStates
<1>14. \A q \in Proc \ {p} : TempKept(q)
  BY <1>5, WritingSet DEF TempKept, Shape, CallShape, OwnsTemp, TypeOK, FilesTyped, Published
<1>15. Published(fd[p])' /\ since[p] <= Len(log'[fd[p]])
  <2>1. since[p] <= Len(log[fd[p]]) /\ Published(fd[p]) /\ since[p] \in Nat
    BY WritingSet DEF Shape, CallShape, OpensPublished, HasOpen, SetStates, TypeOK, CallsTyped
  <2>2. Len(log'[fd[p]]) = Len(log[fd[p]]) + 1
    BY <1>5, <1>6
  <2>3. Published(fd[p])'
    BY <1>10, WritingSet DEF PublishedKept, Published
  <2> QED
    BY SMTT(30), <1>6, <2>1, <2>2, <2>3
<1>16. CallShape(p)'
  <2>1. OwnsTemp(p)' /\ WritesInside(p)'
    BY <1>12 DEF OwnsTemp, WritesInside, AllocStates
  <2>2. OpensPublished(p)'
    BY <1>12, <1>15, WritingSet DEF OpensPublished, HasOpen, SetStates, GetStates, Published
  <2>3. CopiedHeader(p)'
    BY <1>2, <1>5, <1>12, WritingSet DEF Shape, CallShape, CopiedHeader, HasOpen
  <2> QED
    BY <2>1, <2>2, <2>3 DEF CallShape
<1> QED
  BY <1>7, <1>8, <1>9, <1>10, <1>11, <1>12, <1>13, <1>14, <1>16, LoudStep DEF FileShape

(* Every step keeps the shape. *)
LEMMA ShapeNext == ASSUME Shape, [Next]_vars PROVE Shape' /\ PublishedKept
<1>1. ASSUME NEW p \in Proc, AllocNext(p) PROVE Shape' /\ PublishedKept
  <2>1. ASSUME NEW size \in Size, NEW password \in Password, AllocRefused(p, size, password)
        PROVE  Shape' /\ PublishedKept
    <3>1. AllocCall(size, password) \in Call
      BY StoreAssumption DEF AllocCall, Call
    <3> QED
      BY <2>1, <3>1, ShapeRefuse DEF AllocRefused
  <2> QED
    BY <1>1, <2>1, ShapeAllocBegin, ShapeAllocFill, ShapeAllocSync, ShapeAllocRename, ShapeAllocFail
    DEF AllocNext
<1>2. ASSUME NEW p \in Proc, SetNext(p) PROVE Shape' /\ PublishedKept
  <2>1. ASSUME NEW k \in Key, NEW v \in Value, NEW password \in Password,
               SetRefused(p, k, v, password)
        PROVE  Shape' /\ PublishedKept
    <3>1. SetCall(k, v, password) \in Call
      BY DEF SetCall, Call
    <3> QED
      BY <2>1, <3>1, ShapeRefuse DEF SetRefused
  <2>2. SetWriteHeader(p) \/ SetClose(p) => Shape' /\ PublishedKept
    BY ShapeWriteBack DEF SetWriteHeader, SetClose, DataWritten
  <2>3. SetReject(p) \/ SetCloseLost(p) \/ SetFail(p) => Shape' /\ PublishedKept
    BY SetEnds, ShapeEnds
  <2> QED
    BY <1>2, <2>1, <2>2, <2>3, ShapeSetBegin, ShapeSetReadHeader, ShapeSetWriteBlock,
       ShapeSetBufferHeader DEF SetNext
<1>3. ASSUME NEW p \in Proc, GetNext(p) PROVE Shape' /\ PublishedKept
  <2>1. ASSUME NEW k \in Key, NEW password \in Password, GetRefused(p, k, password)
        PROVE  Shape' /\ PublishedKept
    <3>1. GetCall(k, password) \in Call
      BY DEF GetCall, Call
    <3> QED
      BY <2>1, <3>1, ShapeRefuse DEF GetRefused
  <2>2. GetReject(p) \/ GetCorrupt(p) \/ GetReturn(p) \/ GetFail(p) => Shape' /\ PublishedKept
    BY GetEnds, ShapeEnds
  <2> QED
    BY <1>3, <2>1, <2>2, ShapeGetBegin, ShapeGetReadHeader, ShapeGetScan DEF GetNext
<1>4. ASSUME NEW p \in Proc, Return(p) \/ Kill(p) PROVE Shape' /\ PublishedKept
  BY <1>4, ShapeForget DEF Return, Kill
<1>5. CASE UNCHANGED vars
  <2> USE <1>5 DEF vars
  <2>1. TypeOK' /\ FileShape' /\ TempsDistinct'
    BY DEF Shape, TypeOK, FilesTyped, CallsTyped, FileShape, FreshFiles, HeadersValid, read_header,
       DirPublished, Published, TempsDistinct
  <2>2. PublishedKept
    BY SMTT(30) DEF PublishedKept, Published, Shape, TypeOK, FilesTyped
  <2>3. \A q \in Proc : Kept(q) /\ TempKept(q)
    BY DEF Kept, TempKept, Shape, CallShape, OwnsTemp
  <2>4. \A q \in Proc : CallShape(q)'
    BY <2>1, <2>2, <2>3, KeptShape DEF Shape
  <2> QED
    BY <2>1, <2>2, <2>4 DEF Shape
<1> QED
  BY <1>1, <1>2, <1>3, <1>4, <1>5 DEF Next

(* Shape is an invariant, whatever calls overlap and whatever fails. *)
THEOREM ShapeInvariant == Spec => []Shape
<1>1. Shape /\ [Next]_vars => Shape'
  BY ShapeNext
<1> QED
  BY <1>1, ShapeInit, PTL DEF Spec

(* No padlock_set, with however old a copy of the header, moves            *)
(* write_offset or writes a block outside the file that was allocated,     *)
(* whatever calls overlap, fail or are killed.                             *)
THEOREM StaysInside == Spec => []InsideFile
<1>1. ASSUME Shape, NEW i \in Inode, header[i] # None
      PROVE  /\ header[i].write_offset \in HeaderBlocks .. header[i].total_size
             /\ header[i].total_size <= MaxBlocks
  <2>1. header[i].total_size \in 0 .. MaxBlocks /\ header[i].write_offset \in 0 .. MaxBlocks
    BY <1>1 DEF Shape, TypeOK, FilesTyped
  <2>2. read_header(header[i])
    BY <1>1 DEF Shape, FileShape, HeadersValid
  <2> QED
    BY SMTT(30), <2>1, <2>2, StoreAssumption DEF read_header
<1>2. ASSUME Shape, NEW p \in Proc, pc[p] \in {"set_data", "set_close"}
      PROVE  hdr[p].write_offset + RecordBlocks(p) <= header[fd[p]].total_size
  BY <1>2 DEF Shape, CallShape, WritesInside, CopiedHeader
<1>3. Shape => InsideFile
  BY <1>1, <1>2 DEF InsideFile
<1> QED
  BY <1>3, ShapeInvariant, PTL

(* padlock_allocate is atomic at the path, whatever calls overlap, fail or *)
(* are killed: the path names nothing or a whole store.                    *)
THEOREM WholeStore == Spec => []PathNamesWholeStore
<1>1. Shape => PathNamesWholeStore
  BY DEF Shape, TypeOK, FilesTyped, FileShape, DirPublished, Published, HeadersValid,
     PathNamesWholeStore
<1> QED
  BY <1>1, ShapeInvariant, PTL

(* The size, password and key sealed in a published store never change,    *)
(* even when sets overlap and write back old copies of its header.         *)
THEOREM SealedStable == Spec => SealedKeyIsStable
<1> DEFINE Stable == \A i \in Inode : Published(i) =>
       /\ header'[i] # None
       /\ [header'[i] EXCEPT !.write_offset = 0] = [header[i] EXCEPT !.write_offset = 0]
<1>1. ASSUME Shape, [Next]_vars PROVE Stable
  <2> SUFFICES ASSUME NEW i \in Inode, Published(i)
               PROVE  /\ header'[i] # None
                      /\ [header'[i] EXCEPT !.write_offset = 0] = [header[i] EXCEPT !.write_offset = 0]
    OBVIOUS
  <2>1. Shape' /\ PublishedKept
    BY <1>1, ShapeNext
  <2>2. header[i] \in [total_size : 0 .. MaxBlocks, write_offset : 0 .. MaxBlocks,
                       password : Password, xts_key : Inode]
    BY <1>1 DEF Shape, TypeOK, FilesTyped, Published
  <2>3. header'[i] # None
    BY <2>1 DEF PublishedKept, Published
  <2>4. header'[i] \in [total_size : 0 .. MaxBlocks, write_offset : 0 .. MaxBlocks,
                        password : Password, xts_key : Inode]
    BY <2>1, <2>3 DEF Shape, TypeOK, FilesTyped
  <2>5. /\ header'[i].total_size = header[i].total_size
        /\ header'[i].password = header[i].password
        /\ header'[i].xts_key = header[i].xts_key
    BY <2>1 DEF PublishedKept
  <2> QED
    BY <2>2, <2>3, <2>4, <2>5
<1>2. Shape /\ [Next]_vars => [Stable]_vars
  BY <1>1
<1> QED
  BY <1>2, ShapeInvariant, PTL DEF Spec, SealedKeyIsStable

-----------------------------------------------------------------------------
(* Temporary files *)

TempsHaveOwner == \A i \in temps : \E p \in Proc : pc[p] \in AllocStates /\ fd[p] = i

(* A step that neither ends an allocation nor touches a temporary name. *)
TempsUntouched ==
  /\ temps' = temps
  /\ \A q \in Proc : pc[q] \in AllocStates => pc'[q] \in AllocStates /\ fd'[q] = fd[q]

(* Without kills, no step leaves a temporary file without its allocation. *)
LEMMA OwnersStep ==
  ASSUME Shape, TempsHaveOwner, "kill" \notin Faults, [Next]_vars
  PROVE  TempsHaveOwner'
<1> USE DEF AllocStates
<1>1. pc \in [Proc -> States] /\ fd \in [Proc -> Inode \cup {None}]
  BY DEF Shape, TypeOK, CallsTyped
<1>2. TempsUntouched => TempsHaveOwner'
  BY DEF TempsUntouched, TempsHaveOwner
<1>3. ASSUME NEW p \in Proc, AllocNext(p) PROVE TempsHaveOwner'
  <2>1. ASSUME NEW size \in Size, NEW password \in Password, AllocRefused(p, size, password)
        PROVE  TempsUntouched
    BY <1>1, <2>1 DEF AllocRefused, Refuse, Finish, fileVars, TempsUntouched
  <2>2. ASSUME NEW size \in Size, NEW password \in Password, AllocBegin(p, size, password)
        PROVE  TempsHaveOwner'
    <3>1. PICK i \in Inode \ created : temps' = temps \cup {i} /\ fd' = [fd EXCEPT ![p] = i]
      BY <2>2 DEF AllocBegin
    <3>2. pc'[p] \in AllocStates /\ fd'[p] = i
      BY <1>1, <2>2, <3>1 DEF AllocBegin
    <3>3. \A q \in Proc : pc[q] \in AllocStates => pc'[q] \in AllocStates /\ fd'[q] = fd[q]
      BY <1>1, <2>2, <3>1 DEF AllocBegin
    <3> QED
      BY <3>1, <3>2, <3>3 DEF TempsHaveOwner
  <2>3. AllocFill(p) \/ AllocSync(p) => TempsUntouched
    BY <1>1 DEF AllocFill, AllocSync, TempsUntouched, fileVars
  <2>4. ASSUME AllocRename(p) \/ AllocFail(p) PROVE TempsHaveOwner'
    <3>1. /\ temps' = temps \ {fd[p]}
          /\ fd' = fd
          /\ \A q \in Proc \ {p} : pc'[q] = pc[q]
      BY <1>1, <2>4 DEF AllocRename, AllocFail, unlink, Finish
    <3> QED
      BY <3>1 DEF TempsHaveOwner
  <2> QED
    BY <1>2, <1>3, <2>1, <2>2, <2>3, <2>4 DEF AllocNext
<1>4. ASSUME NEW p \in Proc, SetNext(p) PROVE TempsUntouched
  BY <1>1, <1>4 DEF SetNext, SetRefused, Refuse, SetBegin, SetReadHeader, SetReject, SetWriteBlock,
     SetWriteHeader, DataWritten, SetBufferHeader, SetClose, SetCloseLost, SetFail, Finish,
     fileVars, TempsUntouched
<1>5. ASSUME NEW p \in Proc, GetNext(p) PROVE TempsUntouched
  BY <1>1, <1>5 DEF GetNext, GetRefused, Refuse, GetBegin, GetReadHeader, GetReject, GetRecord,
     GetGarbage, GetCorrupt, GetReturn, GetFail, Scanning, Scanned, Garbled, GetStates, Finish,
     fileVars, TempsUntouched
<1>6. ASSUME NEW p \in Proc, Return(p) PROVE TempsUntouched
  BY <1>1, <1>6 DEF Return, Forget, fileVars, TempsUntouched
<1>7. UNCHANGED vars => TempsUntouched
  BY DEF vars, TempsUntouched
<1> QED
  BY <1>2, <1>3, <1>4, <1>5, <1>6, <1>7 DEF Next, Kill

(* padlock_allocate unlinks its temporary file on every error path: when   *)
(* no process is killed, the temporary files are those of the allocations  *)
(* under way, however many run and wherever they fail.                     *)
THEOREM NoStrayTemps == Spec => []TempsAreOwned
<1>1. Init => TempsHaveOwner
  BY DEF Init, TempsHaveOwner
<1>2. CASE "kill" \in Faults
  <2>1. TempsAreOwned
    BY <1>2 DEF TempsAreOwned
  <2> QED
    BY <2>1, PTL
<1>3. CASE "kill" \notin Faults
  <2>1. Shape /\ TempsHaveOwner /\ [Next]_vars => TempsHaveOwner'
    BY <1>3, OwnersStep
  <2>2. Shape /\ TempsHaveOwner => TempsAreOwned
    BY DEF TempsHaveOwner, TempsAreOwned, Shape, CallShape, OwnsTemp
  <2> QED
    BY <1>1, <2>1, <2>2, ShapeInvariant, PTL DEF Spec
<1> QED
  BY <1>2, <1>3
=============================================================================
