--------------------------- MODULE StoreLogProofs ---------------------------
(***************************************************************************)
(* When sets do not overlap, the file is the log: records once committed   *)
(* stay readable where they are, a get returns the latest value, and the   *)
(* bytes of the files implement the abstract append-only log.              *)
(***************************************************************************)
EXTENDS PadlockStoreProofs, StoreRefinement, SequenceTheorems, WellFoundedInduction

(* Zenon proves most leaves; one that needs arithmetic or functions names SMT. *)
USE Zenon

-----------------------------------------------------------------------------
(* Facts about the operators on logs.                                      *)

(* The empty prefix holds no value. *)
LEMMA LatestZero == \A s, k : IsLatest(s, 0, k, None)
BY SMTT(30) DEF IsLatest

(* One more record decides, if it has the key, or changes nothing. *)
LEMMA LatestStep ==
  ASSUME NEW s, NEW m \in Nat, NEW k, NEW v, IsLatest(s, m, k, v)
  PROVE  IsLatest(s, m + 1, k, IF s[m + 1].key = k THEN s[m + 1].value ELSE v)
<1>1. CASE s[m + 1].key = k
  <2>1. m + 1 \in 1 .. (m + 1) /\ \A j \in (m + 1 + 1) .. (m + 1) : s[j].key # k
    BY SMTT(30)
  <2> QED
    BY <1>1, <2>1 DEF IsLatest
<1>2. CASE s[m + 1].key # k
  <2>1. \A j \in 1 .. (m + 1) : j \in 1 .. m \/ j = m + 1
    BY SMTT(30)
  <2>2. CASE v = None /\ \A j \in 1 .. m : s[j].key # k
    BY <1>2, <2>1, <2>2 DEF IsLatest
  <2>3. CASE \E j \in 1 .. m : s[j].key = k /\ s[j].value = v /\ \A i \in (j + 1) .. m : s[i].key # k
    <3> PICK j \in 1 .. m : s[j].key = k /\ s[j].value = v /\ \A i \in (j + 1) .. m : s[i].key # k
      BY <2>3
    <3>1. j \in 1 .. (m + 1) /\ \A i \in (j + 1) .. (m + 1) : s[i].key # k
      BY SMTT(30), <1>2
    <3> QED
      BY <1>2, <3>1 DEF IsLatest
  <2> QED
    BY <2>2, <2>3 DEF IsLatest
<1> QED
  BY <1>1, <1>2

-----------------------------------------------------------------------------
(* Steps that change no published file.                                    *)

(* No published file changes. *)
FilesSame ==
  \A i \in Inode : Published(i) => header'[i] = header[i] /\ log'[i] = log[i] /\ data'[i] = data[i]

(* A file that becomes published is empty. *)
NewFilesEmpty ==
  \A i \in Inode : (Published(i)' /\ ~Published(i)) =>
    log'[i] = <<>> /\ header'[i].write_offset = HeaderBlocks

(* A process that does not move goes on following the log. *)
LEMMA KeptFollows ==
  ASSUME Shape, NEW q \in Proc, Follows(q), Kept(q), FilesSame
  PROVE  Follows(q)'
<1>1. HasOpen(q) => fd[q] \in Inode /\ Published(fd[q])
  BY SMTT(30) DEF Shape, CallShape, OpensPublished, HasOpen, TypeOK, CallsTyped
<1>2. HasOpen(q) => /\ header'[fd[q]] = header[fd[q]] /\ log'[fd[q]] = log[fd[q]]
                    /\ data'[fd[q]] = data[fd[q]]
  BY <1>1 DEF FilesSame
<1>3. SetIsCurrent(q)'
  <2>1. pc[q] \in {"set_data", "set_close"} => HasOpen(q)
    BY DEF Shape, CallShape, OpensPublished, HasOpen, SetStates
  <2> QED
    BY <1>2, <2>1 DEF Follows, SetIsCurrent, Kept
<1>4. GetFollowsLog(q)'
  <2>1. pc[q] = "get_scan" => HasOpen(q)
    BY DEF Shape, CallShape, OpensPublished, HasOpen, GetStates
  <2> QED
    BY <1>2, <2>1 DEF Follows, GetFollowsLog, ScannedUpTo, Kept
<1>5. ReturnsLatest(q)'
  <2>1. arg[q].op = "get" /\ hdr[q] # None => HasOpen(q)
    BY DEF Shape, CallShape, CopiedHeader
  <2> QED
    BY <1>2, <2>1 DEF Follows, ReturnsLatest, Kept
<1> QED
  BY <1>3, <1>4, <1>5 DEF Follows

(* Files that do not change, or are new, go on being tiled by their records. *)
LEMMA TileKept == ASSUME Shape, RecordsTile, FilesSame, NewFilesEmpty PROVE RecordsTile'
<1> SUFFICES ASSUME NEW i \in Inode, Published(i)'
             PROVE  /\ header'[i].write_offset = EndOf(log'[i], Len(log'[i]))
                    /\ \A n \in 1 .. Len(log'[i]) :
                         /\ blocks_of(log'[i][n].key, log'[i][n].value) >= 1
                         /\ log'[i][n].offset = EndOf(log'[i], n - 1)
                         /\ EndOf(log'[i], n) <= header'[i].write_offset
                         /\ Sound(data'[i], i, log'[i][n].offset, log'[i][n].key, log'[i][n].value)
                    /\ \A m, n \in 0 .. Len(log'[i]) : m < n => EndOf(log'[i], m) < EndOf(log'[i], n)
  BY DEF RecordsTile
<1>1. CASE Published(i)
  <2>1. header'[i] = header[i] /\ log'[i] = log[i] /\ data'[i] = data[i]
    BY <1>1 DEF FilesSame
  <2> QED
    BY <1>1, <2>1, Zenon DEF RecordsTile
<1>2. CASE ~Published(i)
  <2>1. log'[i] = <<>> /\ header'[i].write_offset = HeaderBlocks
    BY <1>2 DEF NewFilesEmpty
  <2>2. Len(<<>>) = 0
    OBVIOUS
  <2> QED
    BY SMTT(30), <2>1, <2>2 DEF EndOf
<1> QED
  BY <1>1, <1>2

(* A step of p that changes no published file. *)
LEMMA CalmStep ==
  ASSUME Inv, NEW p \in Proc, Shape', FilesSame, NewFilesEmpty, OthersKept(p), Follows(p)',
         pc'[p] \in SetStates => pc[p] \in SetStates \/ NoOtherSet(p)
  PROVE  Inv'
<1>1. \A q \in Proc : Follows(q)'
  <2> SUFFICES ASSUME NEW q \in Proc, q # p PROVE Follows(q)'
    OBVIOUS
  <2> QED
    BY KeptFollows DEF Inv, OthersKept
<1>2. OneSet'
  BY DEF Inv, OneSet, NoOtherSet, OthersKept, Kept
<1>3. RecordsTile'
  BY TileKept DEF Inv
<1> QED
  BY <1>1, <1>2, <1>3 DEF Inv

(* A step of p that changes no file at all. *)
LEMMA StillStep ==
  ASSUME Inv, NEW p \in Proc, Shape', UNCHANGED fileVars, OthersKept(p), Follows(p)',
         pc'[p] \in SetStates => pc[p] \in SetStates \/ NoOtherSet(p)
  PROVE  Inv'
<1>1. FilesSame
  BY DEF FilesSame, fileVars
<1>2. NewFilesEmpty
  BY DEF NewFilesEmpty, Published, fileVars
<1> QED
  BY <1>1, <1>2, CalmStep

(* A call that has no get running and none to report. *)
LEMMA NothingToFollow ==
  ASSUME NEW p \in Proc, pc'[p] \notin {"idle", "get_header", "get_scan", "set_data", "set_close"},
         pc'[p] = "done" => arg'[p].op # "get" \/ hdr'[p] = None \/ ret'[p] = "error"
  PROVE  Follows(p)'
BY DEF Follows, SetIsCurrent, GetFollowsLog, ReturnsLatest

(* A call that is refused keeps the invariant. *)
LEMMA InvRefuse ==
  ASSUME Inv, NEW p \in Proc, NEW call \in Call, Refuse(p, call) PROVE Inv'
<1>1. Shape' /\ OthersKept(p)
  BY ShapeRefuse DEF Inv
<1>2. UNCHANGED fileVars /\ pc'[p] = "done" /\ hdr'[p] = None
  BY IdleShape DEF Refuse, Finish, Inv, Shape, TypeOK, CallsTyped
<1>3. Follows(p)'
  BY <1>2, NothingToFollow
<1> QED
  BY <1>1, <1>2, <1>3, StillStep DEF SetStates

(* So does a call that returns, or whose process is killed. *)
LEMMA InvForget == ASSUME Inv, NEW p \in Proc, Forget(p) PROVE Inv'
<1>1. Shape' /\ OthersKept(p)
  BY ShapeForget DEF Inv
<1>2. UNCHANGED fileVars /\ pc'[p] = "idle" /\ hdr'[p] = None /\ found'[p] = None
  BY DEF Forget, Inv, Shape, TypeOK, CallsTyped
<1>3. Follows(p)'
  BY <1>2 DEF Follows, SetIsCurrent, GetFollowsLog, ReturnsLatest
<1> QED
  BY <1>1, <1>2, <1>3, StillStep DEF SetStates

(* So does a call that ends, if what it returns agrees with the log. *)
LEMMA InvEnds ==
  ASSUME Inv, NEW p \in Proc, Ends(p), ReturnsLatest(p)' PROVE Inv'
<1>1. Shape' /\ OthersKept(p)
  BY ShapeEnds DEF Inv
<1>2. UNCHANGED fileVars /\ pc'[p] = "done"
  BY DEF Ends, Inv, Shape, TypeOK, CallsTyped
<1>3. Follows(p)'
  BY <1>2 DEF Follows, SetIsCurrent, GetFollowsLog
<1> QED
  BY <1>1, <1>2, <1>3, StillStep DEF SetStates

(* A set that ends without writing its header has nothing to agree with. *)
LEMMA InvSetEnds ==
  ASSUME Inv, NEW p \in Proc, SetReject(p) \/ SetCloseLost(p) \/ SetFail(p) PROVE Inv'
<1>1. Ends(p)
  BY SetEnds DEF Inv
<1>2. pc[p] \in SetStates
  BY DEF SetReject, SetCloseLost, SetFail, SetStates
<1>3. arg'[p].op = "set"
  BY <1>1, <1>2 DEF Ends, Inv, Shape, CallShape, OpensPublished
<1> QED
  BY <1>1, <1>3, InvEnds DEF ReturnsLatest

(* Nor has a get that never read the header, or that fails. *)
LEMMA InvGetFails ==
  ASSUME Inv, NEW p \in Proc, GetReject(p) \/ GetFail(p) PROVE Inv'
<1>1. Ends(p)
  BY GetEnds DEF Inv
<1>2. ret'[p] = "error" \/ hdr'[p] = None
  BY DEF GetReject, GetFail, Finish, Inv, Follows, GetFollowsLog, Shape, TypeOK, CallsTyped
<1> QED
  BY <1>1, <1>2, InvEnds DEF ReturnsLatest

(* AllocSync keeps the invariant. *)
LEMMA InvAllocSync == ASSUME Inv, NEW p \in Proc, AllocSync(p) PROVE Inv'
<1>1. Shape /\ Shape' /\ OthersKept(p)
  BY ShapeAllocSync DEF Inv
<1>2. UNCHANGED fileVars
  BY DEF AllocSync
<1>3. Follows(p)'
  BY <1>1, NothingToFollow DEF AllocSync, Shape, TypeOK, CallsTyped
<1>4. pc'[p] \in SetStates => pc[p] \in SetStates \/ NoOtherSet(p)
  BY <1>1 DEF AllocSync, Shape, TypeOK, CallsTyped, SetStates
<1> QED
  BY <1>1, <1>2, <1>3, <1>4, StillStep

(* GetBegin keeps the invariant. *)
LEMMA InvGetBegin ==
  ASSUME Inv, NEW p \in Proc, NEW k \in Key, NEW password \in Password, GetBegin(p, k, password)
  PROVE  Inv'
<1>1. Shape /\ Shape' /\ OthersKept(p)
  BY ShapeGetBegin DEF Inv
<1>2. UNCHANGED fileVars
  BY DEF GetBegin
<1>3. Follows(p)'
  BY <1>1, IdleShape DEF GetBegin, GetCall, Shape, TypeOK, CallsTyped, Inv, Follows, SetIsCurrent,
     GetFollowsLog, ReturnsLatest
<1>4. pc'[p] \in SetStates => pc[p] \in SetStates \/ NoOtherSet(p)
  BY <1>1 DEF GetBegin, GetCall, Shape, TypeOK, CallsTyped, SetStates
<1> QED
  BY <1>1, <1>2, <1>3, <1>4, StillStep

(* SetBegin keeps the invariant. *)
LEMMA InvSetBegin ==
  ASSUME SerialSets, Inv, NEW p \in Proc, NEW k \in Key, NEW v \in Value, NEW password \in Password,
         SetBegin(p, k, v, password)
  PROVE  Inv'
<1>1. Shape /\ Shape' /\ OthersKept(p)
  BY ShapeSetBegin DEF Inv
<1>2. UNCHANGED fileVars
  BY DEF SetBegin
<1>3. Follows(p)'
  BY <1>1, NothingToFollow DEF SetBegin, Shape, TypeOK, CallsTyped
<1>4. NoOtherSet(p)
  BY DEF SetBegin
<1> QED
  BY <1>1, <1>2, <1>3, <1>4, StillStep

(* SetReadHeader keeps the invariant. *)
LEMMA InvSetReadHeader == ASSUME Inv, NEW p \in Proc, SetReadHeader(p) PROVE Inv'
<1>1. Shape /\ Shape' /\ OthersKept(p)
  BY ShapeSetReadHeader DEF Inv
<1>2. UNCHANGED fileVars
  BY DEF SetReadHeader
<1>3. pc'[p] = "set_data" /\ hdr'[p] = header'[fd'[p]] /\ cur'[p] = 0
  BY <1>1, <1>2 DEF SetReadHeader, Shape, TypeOK, CallsTyped, fileVars
<1>4. 0 .. (cur'[p] - 1) = {}
  BY SMTT(30), <1>3
<1>5. Follows(p)'
  BY <1>3, <1>4 DEF Follows, SetIsCurrent, GetFollowsLog, ReturnsLatest
<1>6. pc'[p] \in SetStates => pc[p] \in SetStates \/ NoOtherSet(p)
  BY <1>1 DEF SetReadHeader, Opens, Fits, Shape, TypeOK, CallsTyped, SetStates
<1> QED
  BY <1>1, <1>2, <1>5, <1>6, StillStep

(* SetBufferHeader keeps the invariant. *)
LEMMA InvSetBufferHeader == ASSUME Inv, NEW p \in Proc, SetBufferHeader(p) PROVE Inv'
<1>1. Shape /\ Shape' /\ OthersKept(p)
  BY ShapeSetBufferHeader DEF Inv
<1>2. UNCHANGED fileVars
  BY DEF SetBufferHeader
<1>3. pc[p] = "set_data" /\ pc'[p] = "set_close" /\ hdr'[p] = hdr[p] /\ fd'[p] = fd[p] /\ cur'[p] = cur[p]
     /\ arg'[p] = arg[p]
  BY <1>1, <1>2 DEF SetBufferHeader, DataWritten, Shape, TypeOK, CallsTyped
<1>4. Follows(p)'
  BY <1>2, <1>3 DEF Inv, Follows, SetIsCurrent, GetFollowsLog, ReturnsLatest, fileVars
<1>5. pc'[p] \in SetStates => pc[p] \in SetStates \/ NoOtherSet(p)
  BY <1>1 DEF SetBufferHeader, DataWritten, Shape, TypeOK, CallsTyped, SetStates
<1> QED
  BY <1>1, <1>2, <1>4, <1>5, StillStep

(* AllocBegin keeps the invariant. *)
LEMMA InvAllocBegin ==
  ASSUME Inv, NEW p \in Proc, NEW size \in Size, NEW password \in Password, AllocBegin(p, size,
         password)
  PROVE  Inv'
<1>1. Shape /\ Shape' /\ OthersKept(p)
  BY ShapeAllocBegin DEF Inv
<1>3. FilesSame
  <2> SUFFICES ASSUME NEW i \in Inode, Published(i)
               PROVE  header'[i] = header[i] /\ log'[i] = log[i] /\ data'[i] = data[i]
    BY DEF FilesSame
  <2> QED
    BY <1>1 DEF AllocBegin, Shape, TypeOK, FilesTyped
<1>4. NewFilesEmpty
  BY <1>1 DEF NewFilesEmpty, Published, AllocBegin, Shape, FileShape, FreshFiles
<1>5. Follows(p)'
  BY <1>1, NothingToFollow DEF AllocBegin, AllocCall, Shape, TypeOK, CallsTyped
<1>6. pc'[p] \in SetStates => pc[p] \in SetStates \/ NoOtherSet(p)
  BY <1>1 DEF AllocBegin, AllocCall, Shape, TypeOK, CallsTyped, SetStates
<1> QED
  BY <1>1, <1>3, <1>4, <1>5, <1>6, CalmStep

(* AllocFill keeps the invariant. *)
LEMMA InvAllocFill == ASSUME Inv, NEW p \in Proc, AllocFill(p) PROVE Inv'
<1>1. Shape /\ Shape' /\ OthersKept(p)
  BY ShapeAllocFill DEF Inv
<1>2. pc[p] \in AllocStates
  BY DEF AllocFill, AllocStates
<1>4. FilesSame
  <2> SUFFICES ASSUME NEW i \in Inode, Published(i)
               PROVE  header'[i] = header[i] /\ log'[i] = log[i] /\ data'[i] = data[i]
    BY DEF FilesSame
  <2>1. i # fd[p]
    BY <1>2, <1>1, OwnedTemp
  <2> QED
    BY <1>1, <2>1 DEF AllocFill, Shape, TypeOK, FilesTyped
<1>5. NewFilesEmpty
  BY SMTT(30), <1>2, <1>1, OwnedTemp DEF NewFilesEmpty, Published, AllocFill, Shape, TypeOK, FilesTyped
<1>6. Follows(p)'
  BY <1>2, OwnedTemp, <1>1, NothingToFollow DEF AllocFill, FillImpossible, Shape, TypeOK, CallsTyped
<1>7. pc'[p] \in SetStates => pc[p] \in SetStates \/ NoOtherSet(p)
  BY <1>1 DEF AllocFill, FillImpossible, Shape, TypeOK, CallsTyped, SetStates
<1> QED
  BY <1>1, <1>4, <1>5, <1>6, <1>7, CalmStep

(* AllocRename keeps the invariant. *)
LEMMA InvAllocRename == ASSUME Inv, NEW p \in Proc, AllocRename(p) PROVE Inv'
<1>1. Shape /\ Shape' /\ OthersKept(p)
  BY ShapeAllocRename DEF Inv
<1>2. pc[p] \in AllocStates
  BY DEF AllocRename, Completed, AllocStates
<1>4. FilesSame
  <2> SUFFICES ASSUME NEW i \in Inode, Published(i)
               PROVE  header'[i] = header[i] /\ log'[i] = log[i] /\ data'[i] = data[i]
    BY DEF FilesSame
  <2>1. i # fd[p]
    BY <1>2, <1>1, OwnedTemp
  <2> QED
    BY <1>1, <2>1 DEF AllocRename, Completed, Shape, TypeOK, FilesTyped
<1>5. NewFilesEmpty
  BY SMTT(30), <1>2, <1>1, OwnedTemp DEF NewFilesEmpty, Published, AllocRename, Completed, Shape,
     CallShape, OwnsTemp,
     FileShape, FreshFiles
<1>6. Follows(p)'
  BY <1>2, OwnedTemp, <1>1, NothingToFollow DEF AllocRename, Completed, Finish, Shape, TypeOK,
     CallsTyped,
     CallShape, OwnsTemp, AllocStates
<1>7. pc'[p] \in SetStates => pc[p] \in SetStates \/ NoOtherSet(p)
  BY <1>1 DEF AllocRename, Completed, Finish, Shape, TypeOK, CallsTyped, SetStates
<1> QED
  BY <1>1, <1>4, <1>5, <1>6, <1>7, CalmStep

(* AllocFail keeps the invariant. *)
LEMMA InvAllocFail == ASSUME Inv, NEW p \in Proc, AllocFail(p) PROVE Inv'
<1>1. Shape /\ Shape' /\ OthersKept(p)
  BY ShapeAllocFail DEF Inv
<1>2. pc[p] \in AllocStates
  BY DEF AllocFail, unlink, AllocStates
<1>4. FilesSame
  <2> SUFFICES ASSUME NEW i \in Inode, Published(i)
               PROVE  header'[i] = header[i] /\ log'[i] = log[i] /\ data'[i] = data[i]
    BY DEF FilesSame
  <2>1. i # fd[p]
    BY <1>2, <1>1, OwnedTemp
  <2> QED
    BY <1>1, <2>1 DEF AllocFail, unlink, Shape, TypeOK, FilesTyped
<1>5. NewFilesEmpty
  BY <1>2, <1>1, OwnedTemp DEF NewFilesEmpty, Published, AllocFail, unlink, Shape, TypeOK, FilesTyped
<1>6. Follows(p)'
  BY <1>2, OwnedTemp, <1>1, NothingToFollow DEF AllocFail, unlink, Finish, Shape, TypeOK, CallsTyped
<1>7. pc'[p] \in SetStates => pc[p] \in SetStates \/ NoOtherSet(p)
  BY <1>1 DEF AllocFail, unlink, Finish, Shape, TypeOK, CallsTyped, SetStates
<1> QED
  BY <1>1, <1>4, <1>5, <1>6, <1>7, CalmStep

-----------------------------------------------------------------------------
(* The steps of a set that change the file.                                *)

(* SetWriteBlock keeps the invariant. *)
LEMMA InvSetWriteBlock == ASSUME Inv, NEW p \in Proc, SetWriteBlock(p) PROVE Inv'
<1> DEFINE b == hdr[p].write_offset + cur[p]
           c == crypt_xts(fd[p], hdr[p].write_offset, cur[p], arg[p].key, arg[p].value)
<1>1. Shape /\ Shape' /\ OthersKept(p)
  BY ShapeSetWriteBlock DEF Inv
<1>2. /\ pc[p] = "set_data" /\ cur[p] < RecordBlocks(p)
      /\ cur' = [cur EXCEPT ![p] = @ + 1]
      /\ UNCHANGED <<dir, temps, created, header, log, pc, arg, fd, hdr, found, since, ret>>
  BY DEF SetWriteBlock
<1>3. /\ fd[p] \in Inode /\ hdr[p] \in Header /\ cur[p] \in Nat /\ RecordBlocks(p) \in Nat
      /\ hdr[p].xts_key = fd[p] /\ hdr[p].write_offset \in Nat /\ hdr[p].write_offset >= HeaderBlocks
      /\ hdr[p].write_offset + RecordBlocks(p) <= MaxBlocks /\ Published(fd[p])
  BY SMTT(30), <1>1, <1>2, WritingSet, StoreAssumption DEF Header
<1>4. data' = [data EXCEPT ![fd[p]][b] = c]
  BY <1>3 DEF SetWriteBlock
<1>5. b \in Block /\ b \in Nat
  BY SMTT(30), <1>2, <1>3, StoreAssumption DEF Block
<1>6. /\ data'[fd[p]][b] = c
      /\ \A x \in Block : x # b => data'[fd[p]][x] = data[fd[p]][x]
      /\ \A i \in Inode \ {fd[p]} : data'[i] = data[i]
  BY <1>1, <1>3, <1>4, <1>5 DEF Shape, TypeOK, FilesTyped
<1> HIDE DEF c
<1>7. hdr[p] = header[fd[p]]
  BY <1>2 DEF Inv, Follows, SetIsCurrent
<1>8. cur'[p] = cur[p] + 1
  BY <1>1, <1>2 DEF Shape, TypeOK, CallsTyped
<1>9. SetIsCurrent(p)'
  <2> SUFFICES ASSUME NEW j \in 0 .. (cur'[p] - 1)
               PROVE  data'[fd[p]][hdr[p].write_offset + j] =
                        crypt_xts(fd[p], hdr[p].write_offset, j, arg[p].key, arg[p].value)
    BY <1>2, <1>7, Zenon DEF SetIsCurrent
  <2>1. CASE j = cur[p]
    BY <1>6, <2>1 DEF c
  <2>2. CASE j # cur[p]
    <3>1. j \in 0 .. (cur[p] - 1)
      BY SMTT(30), <1>3, <1>8, <2>2
    <3>2. hdr[p].write_offset + j \in Block /\ hdr[p].write_offset + j # b
      BY SMTT(30), <1>2, <1>3, <3>1, StoreAssumption DEF Block
    <3>3. data[fd[p]][hdr[p].write_offset + j] =
            crypt_xts(fd[p], hdr[p].write_offset, j, arg[p].key, arg[p].value)
      BY <1>2, <3>1 DEF Inv, Follows, SetIsCurrent
    <3> QED
      BY <1>6, <3>2, <3>3
  <2> QED
    BY <2>1, <2>2
<1>10. RecordsTile'
  <2> SUFFICES ASSUME NEW i \in Inode, Published(i), NEW n \in 1 .. Len(log[i]),
                      Sound(data[i], i, log[i][n].offset, log[i][n].key, log[i][n].value)
               PROVE  Sound(data'[i], i, log[i][n].offset, log[i][n].key, log[i][n].value)
    BY <1>2 DEF Inv, RecordsTile, Published
  <2>1. CASE i # fd[p]
    BY <1>6, <2>1
  <2>2. CASE i = fd[p]
    <3>1. log[i][n] \in Record
      BY SMTT(30), <1>1 DEF Shape, TypeOK, FilesTyped
    <3>2. blocks_of(log[i][n].key, log[i][n].value) \in Nat /\ log[i][n].offset \in Nat
      BY <3>1, BlocksType DEF Record
    <3>3. log[i][n].offset + blocks_of(log[i][n].key, log[i][n].value) <= hdr[p].write_offset
      BY SMTT(30), <1>7, <2>2 DEF Inv, RecordsTile, EndOf
    <3> SUFFICES ASSUME NEW j \in 0 .. (blocks_of(log[i][n].key, log[i][n].value) - 1)
                 PROVE  /\ log[i][n].offset + j \in Block
                        /\ data'[i][log[i][n].offset + j] =
                             crypt_xts(i, log[i][n].offset, j, log[i][n].key, log[i][n].value)
      BY DEF Sound
    <3>4. /\ log[i][n].offset + j \in Block
          /\ data[i][log[i][n].offset + j] =
               crypt_xts(i, log[i][n].offset, j, log[i][n].key, log[i][n].value)
      BY DEF Sound
    <3> HIDE DEF b
    <3>5. log[i][n].offset + j # hdr[p].write_offset + cur[p]
      BY SMTT(30), <1>3, <3>2, <3>3
    <3>6. log[i][n].offset + j # b
      BY <3>5 DEF b
    <3> QED
      BY <1>6, <2>2, <3>4, <3>6
  <2> QED
    BY <2>1, <2>2
<1>11. \A q \in Proc : Follows(q)'
  <2> SUFFICES ASSUME NEW q \in Proc PROVE Follows(q)'
    OBVIOUS
  <2>1. CASE q = p
    BY <1>2, <1>9, <2>1 DEF Follows, GetFollowsLog, ReturnsLatest
  <2>2. CASE q # p
    <3>1. pc[q] \notin SetStates
      BY <1>2, <2>2 DEF Inv, OneSet, SetStates
    <3>2. cur'[q] = cur[q]
      BY <1>1, <1>2, <2>2 DEF Shape, TypeOK, CallsTyped
    <3> QED
      BY <1>2, <3>1, <3>2 DEF Inv, Follows, SetIsCurrent, GetFollowsLog, ScannedUpTo, ReturnsLatest,
         SetStates
  <2> QED
    BY <2>1, <2>2
<1>12. OneSet'
  BY <1>2 DEF Inv, OneSet
<1> QED
  BY <1>1, <1>10, <1>11, <1>12 DEF Inv

(* Writing the header back commits the record: SetWriteHeader and SetClose. *)
LEMMA InvWriteBack ==
  ASSUME Inv, NEW p \in Proc, pc[p] \in {"set_data", "set_close"}, cur[p] = RecordBlocks(p),
         WriteBack(p), Finish(p, "ok"),
         UNCHANGED <<dir, temps, created, data, arg, fd, hdr, cur, found, since>>
  PROVE  Inv'
<1> DEFINE i == fd[p]
           s == log[i]
           w == hdr[p].write_offset
           r == [offset |-> w, key |-> arg[p].key, value |-> arg[p].value]
           t == Append(s, r)
<1>1. Shape /\ Shape' /\ OthersKept(p)
  BY ShapeWriteBack DEF Inv
<1>2. /\ i \in Inode /\ Published(i) /\ hdr[p] \in Header /\ w \in Nat /\ w >= HeaderBlocks
      /\ arg[p].key \in Key /\ arg[p].value \in Value /\ arg[p].op = "set"
      /\ RecordBlocks(p) \in Nat /\ RecordBlocks(p) >= 1
      /\ w + RecordBlocks(p) <= MaxBlocks
  BY SMTT(30), <1>1, WritingSet, StoreAssumption DEF Header
<1>3. hdr[p] = header[i] /\ w = EndOf(s, Len(s))
  BY <1>2 DEF Inv, Follows, SetIsCurrent, RecordsTile
<1>4. s \in Seq(Record) /\ r \in Record /\ Len(s) \in Nat
  <2>1. s \in Seq(Record)
    BY <1>1, <1>2 DEF Shape, TypeOK, FilesTyped
  <2>2. r \in Record
    BY <1>2 DEF Record
  <2> QED
    BY SMTT(30), <2>1, <2>2
<1>5. /\ t \in Seq(Record) /\ Len(t) = Len(s) + 1 /\ t[Len(s) + 1] = r
      /\ \A n \in 1 .. Len(s) : t[n] = s[n]
  BY SMTT(30), <1>4
<1>6. \A n \in 0 .. Len(s) :
        /\ EndOf(t, n) = EndOf(s, n)
        /\ \A k, v : IsLatest(s, n, k, v) => IsLatest(t, n, k, v)
  BY <1>4, PrefixKept
<1>7. /\ header'[i].write_offset = w + RecordBlocks(p)
      /\ log'[i] = t
      /\ \A x \in Inode \ {i} : header'[x] = header[x] /\ log'[x] = log[x]
  BY <1>1, <1>2 DEF WriteBack, NextOffset, Shape, TypeOK, FilesTyped, Header
<1>8. EndOf(t, Len(s) + 1) = w + RecordBlocks(p)
  BY SMTT(30), <1>4, <1>5 DEF EndOf, RecordBlocks
<1>9. Sound(data[i], i, w, arg[p].key, arg[p].value)
  <2> SUFFICES ASSUME NEW j \in 0 .. (RecordBlocks(p) - 1)
               PROVE  w + j \in Block /\ data[i][w + j] = crypt_xts(i, w, j, arg[p].key, arg[p].value)
    BY DEF Sound, RecordBlocks
  <2>1. w + j \in Block
    BY SMTT(30), <1>2, StoreAssumption DEF Block
  <2>2. data[i][w + j] = crypt_xts(i, w, j, arg[p].key, arg[p].value)
    BY DEF Inv, Follows, SetIsCurrent
  <2> QED
    BY <2>1, <2>2
<1>10. r.offset = w /\ r.key = arg[p].key /\ r.value = arg[p].value
  OBVIOUS
<1> HIDE DEF i, s, w, r, t
<1>11. /\ \A n \in 1 .. Len(s) :
            /\ blocks_of(s[n].key, s[n].value) >= 1
            /\ s[n].offset = EndOf(s, n - 1)
            /\ EndOf(s, n) <= w
            /\ Sound(data[i], i, s[n].offset, s[n].key, s[n].value)
       /\ \A m, n \in 0 .. Len(s) : m < n => EndOf(s, m) < EndOf(s, n)
  BY <1>2, <1>3 DEF Inv, RecordsTile, i, s, w
<1>12. \A n \in 0 .. Len(s) : EndOf(s, n) \in Nat
  BY <1>4, EndsNat
<1>13. ASSUME NEW n \in 1 .. Len(t)
       PROVE  /\ blocks_of(t[n].key, t[n].value) >= 1
              /\ t[n].offset = EndOf(t, n - 1)
              /\ EndOf(t, n) <= w + RecordBlocks(p)
              /\ Sound(data[i], i, t[n].offset, t[n].key, t[n].value)
  <2>1. CASE n = Len(s) + 1
    <3>1. t[n] = r /\ n - 1 = Len(s)
      BY SMTT(30), <1>4, <1>5, <2>1
    <3>2. EndOf(t, n - 1) = w
      BY SMTT(30), <1>3, <1>4, <1>6, <3>1 DEF s, w, i
    <3> QED
      BY SMTT(30), <1>2, <1>8, <1>9, <1>10, <2>1, <3>1, <3>2 DEF RecordBlocks
  <2>2. CASE n # Len(s) + 1
    <3>1. n \in 1 .. Len(s) /\ n - 1 \in 0 .. Len(s) /\ n \in 0 .. Len(s)
      BY SMTT(30), <1>4, <1>5, <2>2
    <3>2. t[n] = s[n] /\ EndOf(t, n) = EndOf(s, n) /\ EndOf(t, n - 1) = EndOf(s, n - 1)
      BY <1>5, <1>6, <3>1
    <3>3. EndOf(s, n) <= w + RecordBlocks(p)
      BY SMTT(30), <1>2, <1>11, <1>12, <3>1
    <3> QED
      BY <1>11, <3>1, <3>2, <3>3
  <2> QED
    BY <2>1, <2>2
<1>14. ASSUME NEW m \in 0 .. Len(t), NEW n \in 0 .. Len(t), m < n PROVE EndOf(t, m) < EndOf(t, n)
  <2>1. m \in 0 .. Len(s)
    BY SMTT(30), <1>4, <1>5, <1>14
  <2>2. EndOf(t, m) = EndOf(s, m) /\ EndOf(s, m) \in Nat
    BY <1>6, <1>12, <2>1
  <2>3. CASE n = Len(s) + 1
    <3>1. EndOf(s, m) <= w
      <4>1. CASE m = Len(s)
        BY SMTT(30), <1>2, <1>3, <4>1 DEF s, w, i
      <4>2. CASE m < Len(s)
        <5>1. EndOf(s, m) < EndOf(s, Len(s))
          BY SMTT(30), <1>4, <1>11, <2>1, <4>2
        <5> QED
          BY SMTT(30), <1>2, <1>3, <2>2, <5>1 DEF s, w, i
      <4> QED
        BY SMTT(30), <1>4, <2>1, <4>1, <4>2
    <3> QED
      BY SMTT(30), <1>2, <1>8, <2>2, <2>3, <3>1
  <2>4. CASE n # Len(s) + 1
    <3>1. n \in 0 .. Len(s)
      BY SMTT(30), <1>4, <1>5, <2>4
    <3> QED
      BY <1>6, <1>11, <1>14, <2>1, <3>1
  <2> QED
    BY <2>3, <2>4
<1>15. RecordsTile'
  <2> SUFFICES ASSUME NEW x \in Inode, Published(x)'
               PROVE  /\ header'[x].write_offset = EndOf(log'[x], Len(log'[x]))
                      /\ \A n \in 1 .. Len(log'[x]) :
                           /\ blocks_of(log'[x][n].key, log'[x][n].value) >= 1
                           /\ log'[x][n].offset = EndOf(log'[x], n - 1)
                           /\ EndOf(log'[x], n) <= header'[x].write_offset
                           /\ Sound(data[x], x, log'[x][n].offset, log'[x][n].key, log'[x][n].value)
                      /\ \A m, n \in 0 .. Len(log'[x]) : m < n => EndOf(log'[x], m) < EndOf(log'[x], n)
    BY DEF RecordsTile
  <2>1. CASE x = i
    <3>1. header'[i].write_offset = EndOf(t, Len(t))
      BY <1>5, <1>7, <1>8
    <3> QED
      BY <1>7, <1>13, <1>14, <2>1, <3>1, Zenon
  <2>2. CASE x # i
    <3>1. header'[x] = header[x] /\ log'[x] = log[x] /\ Published(x)
      BY <1>7, <2>2 DEF Published
    <3> QED
      BY <3>1, Zenon DEF Inv, RecordsTile
  <2> QED
    BY <2>1, <2>2
<1>16. pc'[p] = "done"
  BY <1>1 DEF Finish, Shape, TypeOK, CallsTyped
<1>17. OneSet'
  BY <1>1, <1>16 DEF Inv, OneSet, OthersKept, Kept, SetStates
<1>18. Follows(p)'
  BY <1>2, <1>16, NothingToFollow
<1>19. ASSUME NEW q \in Proc \ {p} PROVE Follows(q)'
  <2>1. Kept(q) /\ Follows(q) /\ since[q] \in Nat
    BY <1>1 DEF Inv, OthersKept, Shape, TypeOK, CallsTyped
  <2>2. pc[q] \notin SetStates
    BY <1>19 DEF Inv, OneSet, SetStates
  <2>3. SetIsCurrent(q)'
    BY <2>1, <2>2 DEF SetIsCurrent, Kept, SetStates
  <2>4. HasOpen(q) => fd[q] \in Inode
    BY <1>1 DEF HasOpen, Shape, TypeOK, CallsTyped
  <2>5. ASSUME HasOpen(q), NEW n \in 0 .. Len(log[fd[q]])
        PROVE  /\ n \in 0 .. Len(log'[fd[q]])
               /\ EndOf(log'[fd[q]], n) = EndOf(log[fd[q]], n)
               /\ \A k, v : IsLatest(log[fd[q]], n, k, v) => IsLatest(log'[fd[q]], n, k, v)
    <3>1. CASE fd[q] = i
      <4>1. log[fd[q]] = s /\ log'[fd[q]] = t
        BY <1>7, <3>1 DEF s
      <4>2. n \in 0 .. Len(s) /\ n \in 0 .. Len(t)
        BY SMTT(30), <1>4, <1>5, <2>5, <4>1
      <4> QED
        BY <1>6, <4>1, <4>2
    <3>2. CASE fd[q] # i
      BY <1>7, <2>4, <2>5, <3>2
    <3> QED
      BY <3>1, <3>2
  <2>6. HasOpen(q) => Len(log[fd[q]]) \in Nat /\ Len(log'[fd[q]]) \in Nat
    BY SMTT(30), <1>1, <2>4 DEF Shape, TypeOK, FilesTyped
  <2>7. GetFollowsLog(q)'
    <3>1. pc[q] = "get_scan" => HasOpen(q)
      BY <1>1 DEF Shape, CallShape, OpensPublished, HasOpen, GetStates
    <3>2. ASSUME pc[q] = "get_scan"
          PROVE  \E n \in since[q] .. Len(log'[fd[q]]) : \E m \in 0 .. n :
                   /\ hdr[q].write_offset = EndOf(log'[fd[q]], n)
                   /\ cur[q] = EndOf(log'[fd[q]], m)
                   /\ IsLatest(log'[fd[q]], m, arg[q].key, found[q])
      <4> PICK n \in since[q] .. Len(log[fd[q]]) : \E m \in 0 .. n : ScannedUpTo(q, m, n)
        BY <2>1, <3>2 DEF Follows, GetFollowsLog
      <4> PICK m \in 0 .. n : ScannedUpTo(q, m, n)
        OBVIOUS
      <4>0. since[q] \in Nat /\ Len(log[fd[q]]) \in Nat
        BY <2>1, <2>6, <3>1, <3>2
      <4>1. n \in 0 .. Len(log[fd[q]]) /\ m \in 0 .. Len(log[fd[q]])
        BY SMTT(30), <4>0
      <4>2. n \in since[q] .. Len(log'[fd[q]])
        BY SMTT(30), <2>1, <2>5, <2>6, <3>1, <3>2, <4>1
      <4>3. /\ hdr[q].write_offset = EndOf(log'[fd[q]], n)
            /\ cur[q] = EndOf(log'[fd[q]], m)
            /\ IsLatest(log'[fd[q]], m, arg[q].key, found[q])
        BY <2>5, <3>1, <3>2, <4>1 DEF ScannedUpTo
      <4> QED
        BY <4>2, <4>3
    <3> QED
      BY <2>1, <3>2 DEF Follows, GetFollowsLog, ScannedUpTo, Kept
  <2>8. ReturnsLatest(q)'
    <3>1. arg[q].op = "get" /\ hdr[q] # None => HasOpen(q)
      BY <1>1 DEF Shape, CallShape, CopiedHeader
    <3>2. ASSUME pc[q] = "done", arg[q].op = "get", hdr[q] # None, ret[q] # "error"
          PROVE  /\ \E n \in since[q] .. Len(log'[fd[q]]) : IsLatest(log'[fd[q]], n, arg[q].key, found[q])
                 /\ ret[q] = (IF found[q] = None THEN "fail" ELSE "ok")
      <4> PICK n \in since[q] .. Len(log[fd[q]]) : IsLatest(log[fd[q]], n, arg[q].key, found[q])
        BY <2>1, <3>2 DEF Follows, ReturnsLatest
      <4>1. n \in 0 .. Len(log[fd[q]])
        BY SMTT(30), <2>1, <2>6, <3>1, <3>2
      <4>2. n \in since[q] .. Len(log'[fd[q]]) /\ IsLatest(log'[fd[q]], n, arg[q].key, found[q])
        BY SMTT(30), <2>1, <2>5, <2>6, <3>1, <3>2, <4>1
      <4> QED
        BY <2>1, <3>2, <4>2 DEF Follows, ReturnsLatest
    <3> QED
      BY <2>1, <3>2, Zenon DEF ReturnsLatest, Kept
  <2> QED
    BY <2>3, <2>7, <2>8 DEF Follows
<1> QED
  BY <1>1, <1>15, <1>17, <1>18, <1>19 DEF Inv

-----------------------------------------------------------------------------
(* The steps of a get.                                                     *)

(* GetReadHeader keeps the invariant. *)
LEMMA InvGetReadHeader == ASSUME Inv, NEW p \in Proc, GetReadHeader(p) PROVE Inv'
<1>1. Shape /\ Shape' /\ OthersKept(p)
  BY ShapeGetReadHeader DEF Inv
<1>2. UNCHANGED fileVars
  BY DEF GetReadHeader
<1>3. /\ pc[p] = "get_header" /\ pc'[p] = "get_scan" /\ hdr'[p] = header[fd[p]] /\ cur'[p] = HeaderBlocks
      /\ fd'[p] = fd[p] /\ arg'[p] = arg[p] /\ found'[p] = found[p] /\ since'[p] = since[p]
  BY <1>1 DEF GetReadHeader, Shape, TypeOK, CallsTyped
<1>4. fd[p] \in Inode /\ Published(fd[p])
  BY <1>1, <1>3, OpenedHeader DEF GetStates
<1>5. found[p] = None
  BY <1>3 DEF Inv, Follows, GetFollowsLog
<1>6. since[p] \in Nat /\ Len(log[fd[p]]) \in Nat /\ since[p] <= Len(log[fd[p]])
  <2>1. since[p] \in Nat /\ log[fd[p]] \in Seq(Record)
    BY <1>1, <1>4 DEF Shape, TypeOK, FilesTyped, CallsTyped
  <2>2. since[p] <= Len(log[fd[p]])
    BY <1>1, <1>3 DEF Shape, CallShape, OpensPublished, HasOpen, GetStates
  <2> QED
    BY SMTT(30), <2>1, <2>2
<1>7. hdr'[p].write_offset = EndOf(log[fd[p]], Len(log[fd[p]])) /\ cur'[p] = EndOf(log[fd[p]], 0)
  BY <1>3, <1>4 DEF Inv, RecordsTile, EndOf
<1>8. \E n \in since[p] .. Len(log[fd[p]]) : \E m \in 0 .. n :
        /\ hdr'[p].write_offset = EndOf(log[fd[p]], n)
        /\ cur'[p] = EndOf(log[fd[p]], m)
        /\ IsLatest(log[fd[p]], m, arg[p].key, found[p])
  <2>1. Len(log[fd[p]]) \in since[p] .. Len(log[fd[p]]) /\ 0 \in 0 .. Len(log[fd[p]])
    BY SMTT(30), <1>6
  <2>2. IsLatest(log[fd[p]], 0, arg[p].key, found[p])
    BY <1>5, LatestZero
  <2> QED
    BY <1>7, <2>1, <2>2
<1>9. Follows(p)'
  BY <1>2, <1>3, <1>8 DEF Follows, SetIsCurrent, GetFollowsLog, ScannedUpTo, ReturnsLatest, fileVars
<1>10. pc'[p] \notin SetStates
  BY <1>3 DEF SetStates
<1> QED
  BY <1>1, <1>2, <1>9, <1>10, StillStep

(* A scanning get stands at a record boundary; if it has not reached its   *)
(* write_offset, the next record of the log is there, whole.               *)
LEMMA NextRecord ==
  ASSUME Inv, NEW p \in Proc, Scanning(p)
  PROVE  \E n \in since[p] .. Len(log[fd[p]]), m \in Nat :
           /\ m < n
           /\ ScannedUpTo(p, m, n)
           /\ log[fd[p]][m + 1] \in Record
           /\ cur[p] + blocks_of(log[fd[p]][m + 1].key, log[fd[p]][m + 1].value) = EndOf(log[fd[p]], m + 1)
           /\ Readable(p, log[fd[p]][m + 1].key, log[fd[p]][m + 1].value)
<1> DEFINE s == log[fd[p]]
<1>1. pc[p] = "get_scan" /\ cur[p] < hdr[p].write_offset
  BY DEF Scanning
<1>2. fd[p] \in Inode /\ Published(fd[p]) /\ hdr[p].xts_key = fd[p]
  BY <1>1, OpenedHeader DEF Inv, GetStates, Shape, CallShape, CopiedHeader
<1>3. s \in Seq(Record) /\ Len(s) \in Nat /\ since[p] \in Nat
  BY SMTT(30), <1>2 DEF Inv, Shape, TypeOK, FilesTyped, CallsTyped
<1>4. PICK n \in since[p] .. Len(s) : \E m \in 0 .. n : ScannedUpTo(p, m, n)
  BY <1>1 DEF Inv, Follows, GetFollowsLog
<1>5. PICK m \in 0 .. n : ScannedUpTo(p, m, n)
  BY <1>4
<1>6. n \in 0 .. Len(s) /\ m \in 0 .. Len(s) /\ m \in Nat /\ n \in Nat
  BY SMTT(30), <1>3
<1>7. hdr[p].write_offset = EndOf(s, n) /\ cur[p] = EndOf(s, m)
  BY <1>5 DEF ScannedUpTo
<1>8. /\ \A x \in 1 .. Len(s) :
            /\ blocks_of(s[x].key, s[x].value) >= 1
            /\ s[x].offset = EndOf(s, x - 1)
            /\ Sound(data[fd[p]], fd[p], s[x].offset, s[x].key, s[x].value)
      /\ \A x, y \in 0 .. Len(s) : x < y => EndOf(s, x) < EndOf(s, y)
  BY <1>2 DEF Inv, RecordsTile
<1>9. \A x \in 0 .. Len(s) : EndOf(s, x) \in Nat
  BY <1>3, EndsNat
<1> HIDE DEF s
<1>10. m < n
  <2> SUFFICES ASSUME m = n PROVE FALSE
    BY SMTT(30), <1>6
  <2> QED
    BY SMTT(30), <1>1, <1>6, <1>7, <1>9
<1>11. m + 1 \in 1 .. Len(s) /\ m + 1 \in 0 .. Len(s) /\ s[m + 1] \in Record
  BY SMTT(30), <1>3, <1>6, <1>10
<1>12. s[m + 1].offset = cur[p]
  BY SMTT(30), <1>6, <1>7, <1>8, <1>11
<1>13. EndOf(s, m + 1) = cur[p] + blocks_of(s[m + 1].key, s[m + 1].value)
  BY SMTT(30), <1>6, <1>12 DEF EndOf
<1>14. EndOf(s, m + 1) <= hdr[p].write_offset
  <2>1. CASE m + 1 = n
    BY SMTT(30), <1>6, <1>7, <1>9, <2>1
  <2>2. CASE m + 1 < n
    BY SMTT(30), <1>6, <1>7, <1>8, <1>9, <1>11, <2>2
  <2> QED
    BY SMTT(30), <1>6, <1>10, <2>1, <2>2
<1>15. Readable(p, s[m + 1].key, s[m + 1].value)
  BY <1>2, <1>8, <1>11, <1>12, <1>13, <1>14 DEF Readable
<1> QED
  BY <1>4, <1>5, <1>6, <1>10, <1>11, <1>13, <1>15 DEF s

(* A get never meets garbage. *)
LEMMA NeverGarbled == ASSUME Inv, NEW p \in Proc PROVE ~Garbled(p)
BY NextRecord DEF Garbled, Record

(* The first block of a record tells which record it is. *)
LEMMA RecordUnique ==
  ASSUME NEW p, NEW k \in Key, NEW v \in Value, NEW kk \in Key, NEW vv \in Value,
         Readable(p, k, v), Readable(p, kk, vv)
  PROVE  k = kk /\ v = vv
<1>1. blocks_of(k, v) \in Nat /\ blocks_of(kk, vv) \in Nat
  BY BlocksType
<1>2. 0 \in 0 .. (blocks_of(k, v) - 1) /\ 0 \in 0 .. (blocks_of(kk, vv) - 1)
  BY SMTT(30), <1>1 DEF Readable
<1>3. crypt_xts(hdr[p].xts_key, cur[p], 0, k, v) = crypt_xts(hdr[p].xts_key, cur[p], 0, kk, vv)
  BY <1>2 DEF Readable, Sound
<1> QED
  BY <1>3 DEF crypt_xts

(* GetRecord keeps the invariant. *)
LEMMA InvGetRecord == ASSUME Inv, NEW p \in Proc, GetRecord(p) PROVE Inv'
<1>1. Shape /\ Shape' /\ OthersKept(p)
  BY ShapeGetScan DEF Inv
<1>2. UNCHANGED fileVars
  BY DEF GetRecord
<1> DEFINE s == log[fd[p]]
<1>3. Scanning(p)
  BY DEF GetRecord
<1>4. PICK n \in since[p] .. Len(s), m \in Nat :
        /\ m < n
        /\ ScannedUpTo(p, m, n)
        /\ s[m + 1] \in Record
        /\ cur[p] + blocks_of(s[m + 1].key, s[m + 1].value) = EndOf(s, m + 1)
        /\ Readable(p, s[m + 1].key, s[m + 1].value)
  BY <1>3, NextRecord
<1>5. PICK k \in Key, v \in Value :
        /\ Readable(p, k, v)
        /\ found' = [found EXCEPT ![p] = IF k = arg[p].key THEN v ELSE @]
        /\ cur' = [cur EXCEPT ![p] = @ + blocks_of(k, v)]
  BY DEF GetRecord, Matched, Advanced
<1>6. k = s[m + 1].key /\ v = s[m + 1].value
  BY SMTT(30), <1>4, <1>5, RecordUnique DEF Record
<1>7. /\ pc[p] = "get_scan" /\ pc'[p] = "get_scan" /\ hdr'[p] = hdr[p] /\ fd'[p] = fd[p] /\ arg'[p] = arg[p]
      /\ since'[p] = since[p] /\ cur'[p] = cur[p] + blocks_of(k, v)
      /\ found'[p] = IF k = arg[p].key THEN v ELSE found[p]
  BY <1>1, <1>3, <1>5 DEF GetRecord, Scanning, Shape, TypeOK, CallsTyped
<1>8. cur'[p] = EndOf(s, m + 1)
  BY <1>4, <1>6, <1>7
<1>9. IsLatest(s, m + 1, arg[p].key, found'[p])
  <2>1. IsLatest(s, m, arg[p].key, found[p])
    BY <1>4 DEF ScannedUpTo
  <2>2. IsLatest(s, m + 1, arg[p].key, IF s[m + 1].key = arg[p].key THEN s[m + 1].value ELSE found[p])
    BY <2>1, LatestStep
  <2> QED
    BY <1>6, <1>7, <2>2
<1>10. m + 1 \in 0 .. n
  <2>1. since[p] \in Nat /\ s \in Seq(Record)
    BY <1>1, <1>3, OpenedHeader DEF Scanning, GetStates, Shape, TypeOK, FilesTyped, CallsTyped
  <2>2. Len(s) \in Nat
    BY SMTT(30), <2>1
  <2> QED
    BY SMTT(30), <1>4, <2>1, <2>2
<1>11. hdr[p].write_offset = EndOf(s, n)
  BY <1>4 DEF ScannedUpTo
<1>12. \E x \in since[p] .. Len(s) : \E y \in 0 .. x :
         /\ hdr'[p].write_offset = EndOf(s, x)
         /\ cur'[p] = EndOf(s, y)
         /\ IsLatest(s, y, arg[p].key, found'[p])
  BY <1>4, <1>7, <1>8, <1>9, <1>10, <1>11
<1>13. Follows(p)'
  BY <1>2, <1>7, <1>12 DEF Follows, SetIsCurrent, GetFollowsLog, ScannedUpTo, ReturnsLatest, fileVars
<1>14. pc'[p] \notin SetStates
  BY <1>7 DEF SetStates
<1> QED
  BY <1>1, <1>2, <1>13, <1>14, StillStep

(* GetReturn keeps the invariant. *)
LEMMA InvGetReturn == ASSUME Inv, NEW p \in Proc, GetReturn(p) PROVE Inv'
<1>1. Shape /\ Ends(p)
  BY GetEnds DEF Inv
<1>2. UNCHANGED fileVars
  BY DEF GetReturn
<1> DEFINE s == log[fd[p]]
<1>3. /\ pc[p] = "get_scan" /\ pc'[p] = "done" /\ hdr'[p] = hdr[p] /\ fd'[p] = fd[p] /\ arg'[p] = arg[p]
      /\ since'[p] = since[p] /\ found'[p] = found[p] /\ cur[p] >= hdr[p].write_offset
      /\ ret'[p] = IF found[p] = None THEN "fail" ELSE "ok"
  BY <1>1 DEF GetReturn, Scanned, Finish, Shape, TypeOK, CallsTyped
<1>4. fd[p] \in Inode /\ Published(fd[p])
  BY <1>1, <1>3, OpenedHeader DEF GetStates
<1>5. s \in Seq(Record) /\ Len(s) \in Nat /\ since[p] \in Nat
  BY SMTT(30), <1>1, <1>4 DEF Shape, TypeOK, FilesTyped, CallsTyped
<1>6. PICK n \in since[p] .. Len(s) : \E m \in 0 .. n : ScannedUpTo(p, m, n)
  BY <1>3 DEF Inv, Follows, GetFollowsLog
<1>7. PICK m \in 0 .. n : ScannedUpTo(p, m, n)
  BY <1>6
<1>8. n \in 0 .. Len(s) /\ m \in 0 .. Len(s)
  BY SMTT(30), <1>5
<1>9. \A x \in 0 .. Len(s) : EndOf(s, x) \in Nat
  BY <1>5, EndsNat
<1>10. m < n => EndOf(s, m) < EndOf(s, n)
  BY <1>4, <1>8 DEF Inv, RecordsTile
<1>11. m = n
  <2>1. EndOf(s, m) >= EndOf(s, n)
    BY <1>3, <1>7 DEF ScannedUpTo
  <2> QED
    BY SMTT(30), <1>8, <1>9, <1>10, <2>1
<1>12. IsLatest(s, n, arg[p].key, found[p])
  BY <1>7, <1>11 DEF ScannedUpTo
<1>13. ReturnsLatest(p)'
  BY <1>2, <1>3, <1>6, <1>12 DEF ReturnsLatest, fileVars
<1> QED
  BY <1>1, <1>13, InvEnds

-----------------------------------------------------------------------------
(* The invariant and the properties it gives.                              *)

(* The invariant holds initially. *)
LEMMA InvInit == Init => Inv
<1> SUFFICES ASSUME Init PROVE Inv
  OBVIOUS
<1>1. Shape
  BY ShapeInit
<1>2. OneSet /\ RecordsTile
  BY DEF Init, OneSet, RecordsTile, Published, SetStates
<1>3. \A p \in Proc : Follows(p)
  BY DEF Init, Follows, SetIsCurrent, GetFollowsLog, ReturnsLatest
<1> QED
  BY <1>1, <1>2, <1>3 DEF Inv

(* Every step keeps the invariant, as long as sets do not overlap. *)
LEMMA InvNext == ASSUME SerialSets, Inv, [Next]_vars PROVE Inv'
<1>1. ASSUME NEW p \in Proc, AllocNext(p) PROVE Inv'
  <2>1. ASSUME NEW size \in Size, NEW password \in Password, AllocRefused(p, size, password)
        PROVE  Inv'
    <3>1. AllocCall(size, password) \in Call
      BY StoreAssumption DEF AllocCall, Call
    <3> QED
      BY <2>1, <3>1, InvRefuse DEF AllocRefused
  <2> QED
    BY <1>1, <2>1, InvAllocBegin, InvAllocFill, InvAllocSync, InvAllocRename, InvAllocFail DEF AllocNext
<1>2. ASSUME NEW p \in Proc, SetWriteHeader(p) PROVE Inv'
  BY <1>2, InvWriteBack DEF SetWriteHeader, DataWritten
<1>3. ASSUME NEW p \in Proc, SetClose(p) PROVE Inv'
  <2>1. cur[p] = RecordBlocks(p)
    BY <1>3 DEF SetClose, Inv, Shape, CallShape, WritesInside
  <2> QED
    BY <1>3, <2>1, InvWriteBack DEF SetClose
<1>4. ASSUME NEW p \in Proc, SetNext(p) PROVE Inv'
  <2>1. ASSUME NEW k \in Key, NEW v \in Value, NEW password \in Password,
               SetRefused(p, k, v, password)
        PROVE  Inv'
    <3>1. SetCall(k, v, password) \in Call
      BY DEF SetCall, Call
    <3> QED
      BY <2>1, <3>1, InvRefuse DEF SetRefused
  <2> QED
    BY <1>2, <1>3, <1>4, <2>1, InvSetBegin, InvSetReadHeader, InvSetWriteBlock, InvSetBufferHeader,
       InvSetEnds DEF SetNext
<1>5. ASSUME NEW p \in Proc, GetGarbage(p) \/ GetCorrupt(p) PROVE Inv'
  BY <1>5, NeverGarbled DEF GetGarbage, GetCorrupt
<1>6. ASSUME NEW p \in Proc, GetNext(p) PROVE Inv'
  <2>1. ASSUME NEW k \in Key, NEW password \in Password, GetRefused(p, k, password)
        PROVE  Inv'
    <3>1. GetCall(k, password) \in Call
      BY DEF GetCall, Call
    <3> QED
      BY <2>1, <3>1, InvRefuse DEF GetRefused
  <2> QED
    BY <1>5, <1>6, <2>1, InvGetBegin, InvGetReadHeader, InvGetRecord, InvGetReturn, InvGetFails
       DEF GetNext
<1>7. CASE UNCHANGED vars
  <2>1. Shape'
    BY ShapeNext DEF Inv
  <2>2. \A q \in Proc : Kept(q)
    BY <1>7 DEF Kept, vars
  <2>3. FilesSame /\ NewFilesEmpty
    BY <1>7 DEF FilesSame, NewFilesEmpty, Published, vars
  <2>4. \A q \in Proc : Follows(q)'
    BY <2>2, <2>3, KeptFollows DEF Inv
  <2>5. RecordsTile' /\ OneSet'
    BY <1>7, <2>3, TileKept DEF Inv, OneSet, vars
  <2> QED
    BY <2>1, <2>4, <2>5 DEF Inv
<1> QED
  BY <1>1, <1>4, <1>6, <1>7, InvForget DEF Next, Return, Kill

(* Inv is an invariant when sets do not overlap, whatever else does. *)
THEOREM LogInvariant == ASSUME SerialSets PROVE Spec => []Inv
<1>1. Inv /\ [Next]_vars => Inv'
  BY InvNext
<1> QED
  BY <1>1, InvInit, PTL DEF Spec

(* The store is append-only: as long as no two padlock_set calls overlap,  *)
(* every committed record stays readable at its offset, whatever gets and  *)
(* allocations run meanwhile and wherever a process is killed.             *)
THEOREM CommittedStayIntact == ASSUME SerialSets PROVE Spec => []CommittedIntact
<1>1. Inv => CommittedIntact
  <2> SUFFICES ASSUME Inv, NEW i \in Inode, Published(i)
               PROVE  /\ header[i].write_offset = EndOf(log[i], Len(log[i]))
                      /\ \A n \in 1 .. Len(log[i]) :
                           /\ log[i][n].offset = EndOf(log[i], n - 1)
                           /\ Sound(data[i], header[i].xts_key, log[i][n].offset, log[i][n].key, log[i][n].value)
    BY DEF CommittedIntact
  <2>1. header[i].xts_key = i
    BY DEF Inv, Shape, FileShape, HeadersValid, Published
  <2> QED
    BY <2>1 DEF Inv, RecordsTile
<1> QED
  BY <1>1, LogInvariant, PTL

(* A get that is not hit by a failing system call returns the latest value *)
(* of its key, at least as recent as the call.                             *)
THEOREM GetsAreLatest == ASSUME SerialSets PROVE Spec => []GetReturnsLatest
<1>1. Inv => GetReturnsLatest
  BY DEF Inv, Follows, GetReturnsLatest
<1> QED
  BY <1>1, LogInvariant, PTL

-----------------------------------------------------------------------------
(* Refused sets *)

(* Every record occupies a block: the padded length never wraps to less. *)
LEMMA BlocksPositive == \A k \in Key, v \in Value : blocks_of(k, v) >= 1
<1> SUFFICES ASSUME NEW k \in Key, NEW v \in Value PROVE blocks_of(k, v) >= 1
  OBVIOUS
<1> DEFINE n == plain_length(KeyLen[k], ValueLen[v])
<1>1. n \in Nat /\ n >= 5
  BY SMTT(30), StoreAssumption DEF plain_length
<1>2. n + 15 < Word
  BY LengthAssumption
<1> HIDE DEF n
<1>3. (n + 15) % Word = n + 15
  BY SMTT(30), <1>1, <1>2, WordAssumption
<1>4. ((n + 15) - ((n + 15) % 16)) \div 16 >= 1
  BY SMTT(30), <1>1
<1>5. BlocksOf[k][v] = padded_length(KeyLen[k], ValueLen[v]) \div PADLOCK_BLOCK
  BY SMTT(30) DEF BlocksOf
<1> QED
  BY <1>3, <1>4, <1>5 DEF blocks_of, padded_length, align16, PADLOCK_BLOCK, n

(* The log of every file stays or gets one more record. *)
LogsGrow ==
  \A i \in Inode : log'[i] = log[i] \/ \E r \in Record : log'[i] = Append(log[i], r)

(* Only writing a header back adds a record. *)
LEMMA WriteGrows == ASSUME Shape, NEW p \in Proc, SetWriteHeader(p) \/ SetClose(p) PROVE LogsGrow
<1> DEFINE r == [offset |-> hdr[p].write_offset, key |-> arg[p].key, value |-> arg[p].value]
<1>1. /\ pc[p] \in {"set_data", "set_close"}
      /\ log' = [log EXCEPT ![fd[p]] = Append(@, r)]
  BY DEF SetWriteHeader, SetClose, DataWritten, WriteBack
<1>2. arg[p].key \in Key /\ arg[p].value \in Value
  BY <1>1 DEF Shape, CallShape, OpensPublished, SetStates
<1>3. hdr[p].write_offset \in Nat
  BY <1>1 DEF Shape, CallShape, CopiedHeader, TypeOK, CallsTyped, Header
<1>4. r \in Record
  BY <1>2, <1>3 DEF Record
<1>5. log \in [Inode -> Seq(Record)]
  BY DEF Shape, TypeOK, FilesTyped
<1> QED
  BY <1>1, <1>4, <1>5 DEF LogsGrow

RefusedOpen(p) == pc[p] = "done" /\ arg[p].op = "set" /\ ret[p] = "fail" /\ fd[p] # None

(* A set with an open file is turned away only after reading its header. *)
LEMMA RefusalStep ==
  ASSUME Shape, NEW p \in Proc, AllocNext(p) \/ SetNext(p) \/ GetNext(p) \/ Return(p) \/ Kill(p)
  PROVE  OthersKept(p) /\ LogsGrow /\ (RefusedOpen(p)' => SetReject(p))
<1> DEFINE Fine == OthersKept(p) /\ (log' = log \/ SetWriteHeader(p) \/ SetClose(p))
                   /\ (RefusedOpen(p)' => SetReject(p))
<1> USE DEF RefusedOpen, OthersKept, Kept, Finish, Refuse, fileVars
<1>1. /\ pc \in [Proc -> States] /\ arg \in [Proc -> Call] /\ fd \in [Proc -> Inode \cup {None}]
      /\ hdr \in [Proc -> Header \cup {None}] /\ cur \in [Proc -> Nat]
      /\ found \in [Proc -> Value \cup {None, Random}] /\ since \in [Proc -> Nat]
      /\ ret \in [Proc -> {"none", "ok", "fail", "error"}]
  BY DEF Shape, TypeOK, CallsTyped
<1>2. /\ pc[p] \in AllocStates => arg[p].op = "allocate"
      /\ pc[p] \in GetStates => arg[p].op = "get"
      /\ pc[p] = "idle" => fd[p] = None
  BY DEF Shape, CallShape, OwnsTemp, OpensPublished
<1>3. AllocNext(p) => Fine
  BY <1>1, <1>2 DEF AllocNext, AllocRefused, AllocBegin, AllocFill, AllocSync, AllocRename, Completed,
     AllocFail, AllocStates
<1>4. SetNext(p) => Fine
  BY <1>1, <1>2 DEF SetNext, SetRefused, SetBegin, SetReadHeader, SetReject, SetWriteBlock,
     SetWriteHeader, SetBufferHeader, SetClose, SetCloseLost, SetFail
<1>5. GetNext(p) => Fine
  BY <1>1, <1>2 DEF GetNext, GetRefused, GetBegin, GetReadHeader, GetReject, GetRecord, GetGarbage,
     GetCorrupt, GetReturn, GetFail, Scanning, Scanned, Garbled, GetStates
<1>6. Return(p) \/ Kill(p) => Fine
  BY <1>1 DEF Return, Kill, Forget
<1>7. log' = log => LogsGrow
  BY DEF LogsGrow
<1> QED
  BY <1>3, <1>4, <1>5, <1>6, <1>7, WriteGrows

(* The last record of a published file never ends earlier than before. *)
LEMMA EndGrows ==
  ASSUME Inv, Inv', LogsGrow, NEW i \in Inode, Published(i)'
  PROVE  /\ EndOf(log[i], Len(log[i])) \in Nat
         /\ EndOf(log'[i], Len(log'[i])) \in Nat
         /\ EndOf(log[i], Len(log[i])) <= EndOf(log'[i], Len(log'[i]))
<1>1. log[i] \in Seq(Record) /\ log'[i] \in Seq(Record)
  BY DEF Inv, Shape, TypeOK, FilesTyped
<1>2. Len(log[i]) \in 0 .. Len(log[i]) /\ Len(log'[i]) \in 0 .. Len(log'[i])
  BY SMTT(30), <1>1
<1>3. EndOf(log[i], Len(log[i])) \in Nat /\ EndOf(log'[i], Len(log'[i])) \in Nat
  BY <1>1, <1>2, EndsNat
<1>4. CASE log'[i] = log[i]
  BY SMTT(30), <1>3, <1>4
<1>5. CASE \E r \in Record : log'[i] = Append(log[i], r)
  <2>1. EndOf(log'[i], Len(log[i])) = EndOf(log[i], Len(log[i]))
    BY <1>1, <1>2, <1>5, PrefixKept
  <2>2. Len(log[i]) \in 0 .. Len(log'[i]) /\ Len(log[i]) < Len(log'[i])
    BY SMTT(30), <1>1, <1>5
  <2>3. EndOf(log'[i], Len(log[i])) < EndOf(log'[i], Len(log'[i]))
    BY <1>2, <2>2 DEF Inv, RecordsTile
  <2> QED
    BY SMTT(30), <1>3, <2>1, <2>3
<1> QED
  BY <1>3, <1>4, <1>5 DEF LogsGrow

(* RefusedSetHadNoRoom, with the type of what it adds up. *)
RefusedFull ==
  \A p \in Proc : RefusedWithPassword(p) =>
    /\ RecordBlocks(p) \in Nat
    /\ EndOf(log[fd[p]], Len(log[fd[p]])) + RecordBlocks(p) > header[fd[p]].total_size

(* A set being turned away with the right password has no room. *)
LEMMA RejectFull ==
  ASSUME Inv, NEW p \in Proc, SetReject(p), RefusedWithPassword(p)'
  PROVE  /\ RecordBlocks(p)' \in Nat
         /\ EndOf(log'[fd'[p]], Len(log'[fd'[p]])) + RecordBlocks(p)' > header'[fd'[p]].total_size
<1>1. /\ UNCHANGED <<header, log, arg, fd>> /\ pc[p] = "set_header" /\ ~(Opens(p) /\ Fits(p))
      /\ decrypt_secret(header[fd[p]], arg[p].password)
  BY DEF SetReject, fileVars, RefusedWithPassword
<1>2. /\ HasOpen(p) /\ Published(fd[p]) /\ fd[p] \in Inode
      /\ arg[p].key \in Key /\ arg[p].value \in Value
  BY <1>1 DEF Inv, Shape, CallShape, OpensPublished, HasOpen, SetStates, TypeOK, CallsTyped
<1>3. Opens(p)
  BY <1>1, <1>2 DEF Opens, Inv, Shape, FileShape, HeadersValid, Published
<1>4. RecordBlocks(p) \in Nat /\ RecordBlocks(p) >= 1
  BY <1>2, BlocksType, BlocksPositive DEF RecordBlocks
<1>5. ~(header[fd[p]].write_offset + RecordBlocks(p) <= header[fd[p]].total_size)
  BY <1>1, <1>3, <1>4 DEF Fits
<1>6. header[fd[p]].write_offset \in Nat /\ header[fd[p]].total_size \in Nat
  BY SMTT(30), <1>2, StoreAssumption DEF Inv, Shape, TypeOK, FilesTyped, Published
<1>7. header[fd[p]].write_offset + RecordBlocks(p) > header[fd[p]].total_size
  BY SMTT(30), <1>4, <1>5, <1>6
<1>8. header[fd[p]].write_offset = EndOf(log[fd[p]], Len(log[fd[p]]))
  BY <1>2 DEF Inv, RecordsTile
<1>9. RecordBlocks(p)' = RecordBlocks(p)
  BY <1>1 DEF RecordBlocks
<1> QED
  BY <1>1, <1>4, <1>7, <1>8, <1>9

(* A set that was turned away stays so: nothing makes room. *)
LEMMA StaysFull ==
  ASSUME Inv, Inv', PublishedKept, LogsGrow, RefusedFull, NEW p \in Proc, Kept(p),
         RefusedWithPassword(p)'
  PROVE  /\ RecordBlocks(p)' \in Nat
         /\ EndOf(log'[fd'[p]], Len(log'[fd'[p]])) + RecordBlocks(p)' > header'[fd'[p]].total_size
<1>1. pc'[p] = pc[p] /\ arg'[p] = arg[p] /\ fd'[p] = fd[p] /\ ret'[p] = ret[p]
  BY DEF Kept
<1>2. RefusedOpen(p) /\ decrypt_secret(header'[fd[p]], arg[p].password)
  BY <1>1 DEF RefusedOpen, RefusedWithPassword
<1>3. HasOpen(p) /\ Published(fd[p]) /\ fd[p] \in Inode
  BY <1>2 DEF RefusedOpen, Inv, Shape, CallShape, OpensPublished, HasOpen, TypeOK, CallsTyped
<1>4. /\ Published(fd[p])' /\ header'[fd[p]].total_size = header[fd[p]].total_size
      /\ header'[fd[p]].password = header[fd[p]].password
  BY <1>1, <1>3 DEF PublishedKept, Published
<1>5. RefusedWithPassword(p)
  BY <1>2, <1>4 DEF RefusedOpen, RefusedWithPassword, decrypt_secret
<1>6. /\ RecordBlocks(p) \in Nat
      /\ EndOf(log[fd[p]], Len(log[fd[p]])) + RecordBlocks(p) > header[fd[p]].total_size
  BY <1>5 DEF RefusedFull
<1>7. /\ EndOf(log[fd[p]], Len(log[fd[p]])) \in Nat
      /\ EndOf(log'[fd[p]], Len(log'[fd[p]])) \in Nat
      /\ EndOf(log[fd[p]], Len(log[fd[p]])) <= EndOf(log'[fd[p]], Len(log'[fd[p]]))
  <2>1. (\E i \in Inode : i = fd[p] /\ Published(i)')
    BY <1>1, <1>3, <1>4 DEF Published
  <2> QED
    BY <2>1, EndGrows
<1>8. header[fd[p]].total_size \in Nat
  BY SMTT(30), <1>3, StoreAssumption DEF Inv, Shape, TypeOK, FilesTyped, Published
<1>9. EndOf(log'[fd[p]], Len(log'[fd[p]])) + RecordBlocks(p) > header[fd[p]].total_size
  BY SMTT(30), <1>6, <1>7, <1>8
<1>10. RecordBlocks(p)' = RecordBlocks(p)
  BY <1>1 DEF RecordBlocks
<1> QED
  BY <1>1, <1>4, <1>6, <1>9, <1>10

(* No room is lost: as long as no two sets overlap, a set that opened the  *)
(* store with its password and was turned away has a record longer than    *)
(* what is left after the last committed one, whatever failed before it.   *)
THEOREM NoRoomLost == ASSUME SerialSets PROVE Spec => []RefusedSetHadNoRoom
<1>1. Init => RefusedFull
  BY DEF Init, RefusedFull, RefusedWithPassword
<1>2. Inv /\ RefusedFull /\ [Next]_vars => RefusedFull'
  <2> SUFFICES ASSUME Inv, RefusedFull, [Next]_vars, NEW q \in Proc, RefusedWithPassword(q)'
               PROVE  /\ RecordBlocks(q)' \in Nat
                      /\ EndOf(log'[fd'[q]], Len(log'[fd'[q]])) + RecordBlocks(q)' > header'[fd'[q]].total_size
    BY DEF RefusedFull
  <2>1. Inv' /\ PublishedKept
    BY InvNext, ShapeNext DEF Inv
  <2>2. RefusedOpen(q)'
    BY DEF RefusedOpen, RefusedWithPassword
  <2>3. CASE UNCHANGED vars
    BY <2>1, <2>3, StaysFull DEF vars, Kept, LogsGrow
  <2>4. ASSUME NEW p \in Proc, AllocNext(p) \/ SetNext(p) \/ GetNext(p) \/ Return(p) \/ Kill(p)
        PROVE  (LogsGrow /\ Kept(q)) \/ SetReject(q)
    BY <2>2, <2>4, RefusalStep DEF Inv, OthersKept
  <2> QED
    BY <2>1, <2>3, <2>4, StaysFull, RejectFull DEF Next
<1>3. RefusedFull => RefusedSetHadNoRoom
  BY DEF RefusedFull, RefusedSetHadNoRoom
<1> QED
  BY <1>1, <1>2, <1>3, LogInvariant, PTL DEF Spec

-----------------------------------------------------------------------------
(* The store implements AppendOnlyLog: what Decoded finds in the bytes of  *)
(* a published file is what the log has.                                   *)

(* A set of natural numbers that is not empty has a least element. *)
LEMMA LeastNat ==
  ASSUME NEW T, T \subseteq Nat, T # {}
  PROVE  \E x \in T : \A y \in T : x <= y
<1> DEFINE R == OpToRel(<, Nat)
<1>1. IsWellFoundedOn(R, Nat)
  BY NatLessThanWellFounded
<1>2. \A x, y \in Nat : y < x => <<y, x>> \in R
  BY SMTT(30) DEF OpToRel
<1> HIDE DEF R
<1>3. PICK x \in T : \A y \in T : ~(<<y, x>> \in R)
  BY <1>1, WFMin
<1>4. ASSUME NEW y \in T PROVE x <= y
  <2>1. x \in Nat /\ y \in Nat /\ ~(y < x)
    BY <1>2, <1>3
  <2> QED
    BY SMTT(30), <2>1
<1> QED
  BY <1>4

(* The pairs that a log holds from its n-th record on. *)
Pair == [key : Key, value : Value]
PairAt(s, n) == [key |-> s[n].key, value |-> s[n].value]
PairsFrom(s, n) == [j \in 1 .. (Len(s) - n) |-> PairAt(s, n + j)]

(* They are a sequence, one shorter for every record left out. *)
LEMMA PairsTyped ==
  ASSUME NEW s \in Seq(Record), NEW n \in 0 .. Len(s)
  PROVE  PairsFrom(s, n) \in Seq(Pair) /\ Len(PairsFrom(s, n)) = Len(s) - n
<1>1. Len(s) - n \in Nat /\ Len(s) \in Nat
  BY SMTT(30)
<1>2. ASSUME NEW j \in 1 .. (Len(s) - n) PROVE PairAt(s, n + j) \in Pair
  <2>1. s[n + j] \in Record
    BY SMTT(30)
  <2> QED
    BY <2>1 DEF PairAt, Pair, Record
<1>3. PairsFrom(s, n) \in [1 .. (Len(s) - n) -> Pair]
  BY <1>2 DEF PairsFrom
<1> QED
  BY <1>1, <1>3, SeqDef, LenProperties, SMTT(30) 

(* The first of them is the pair of the next record. *)
LEMMA PairsStep ==
  ASSUME NEW s \in Seq(Record), NEW n \in 0 .. (Len(s) - 1)
  PROVE  PairsFrom(s, n) = <<PairAt(s, n + 1)>> \o PairsFrom(s, n + 1)
<1>1. n \in 0 .. Len(s) /\ n + 1 \in 0 .. Len(s) /\ Len(s) \in Nat /\ n \in Nat
  BY SMTT(30)
<1>2. /\ PairsFrom(s, n) \in Seq(Pair) /\ Len(PairsFrom(s, n)) = Len(s) - n
      /\ PairsFrom(s, n + 1) \in Seq(Pair) /\ Len(PairsFrom(s, n + 1)) = Len(s) - (n + 1)
  BY <1>1, PairsTyped
<1>3. PairAt(s, n + 1) \in Pair
  <2>1. s[n + 1] \in Record
    BY SMTT(30), <1>1
  <2> QED
    BY <2>1 DEF PairAt, Pair, Record
<1>4. \A j \in 1 .. (Len(s) - n) : PairsFrom(s, n)[j] = PairAt(s, n + j)
  BY DEF PairsFrom
<1>5. \A j \in 1 .. (Len(s) - (n + 1)) : PairsFrom(s, n + 1)[j] = PairAt(s, n + 1 + j)
  BY DEF PairsFrom
<1> DEFINE a == PairsFrom(s, n)
           b == PairsFrom(s, n + 1)
           c == <<PairAt(s, n + 1)>>
<1>6. c \in Seq(Pair) /\ Len(c) = 1 /\ c[1] = PairAt(s, n + 1)
  BY SMTT(30), <1>3
<1> HIDE DEF a, b, c
<1>7. /\ c \o b \in Seq(Pair) /\ Len(c \o b) = Len(s) - n
      /\ \A j \in 1 .. (Len(s) - n) : (c \o b)[j] = IF j = 1 THEN c[1] ELSE b[j - 1]
  <2>1. b \in Seq(Pair) /\ Len(b) = Len(s) - (n + 1)
    BY <1>2 DEF b
  <2>2. /\ c \o b \in Seq(Pair) /\ Len(c \o b) = Len(c) + Len(b)
        /\ \A j \in 1 .. Len(c) + Len(b) : (c \o b)[j] = IF j <= Len(c) THEN c[j] ELSE b[j - Len(c)]
    BY <1>6, <2>1, ConcatProperties
  <2>3. Len(c) + Len(b) = Len(s) - n
    BY SMTT(30), <1>1, <1>6, <2>1
  <2>4. \A j \in 1 .. (Len(s) - n) : j <= 1 <=> j = 1
    BY SMTT(30)
  <2> QED
    BY <1>6, <2>2, <2>3, <2>4
<1>8. ASSUME NEW j \in 1 .. (Len(s) - n) PROVE a[j] = (c \o b)[j]
  <2>1. CASE j = 1
    BY <1>4, <1>6, <1>7, <2>1 DEF a
  <2>2. CASE j # 1
    <3>1. j - 1 \in 1 .. (Len(s) - (n + 1)) /\ n + 1 + (j - 1) = n + j
      BY SMTT(30), <1>1, <2>2
    <3> QED
      BY <1>4, <1>5, <1>7, <2>2, <3>1 DEF a, b
  <2> QED
    BY <2>1, <2>2
<1>9. a = c \o b
  BY <1>2, <1>7, <1>8, SeqEqual DEF a
<1> QED
  BY <1>9 DEF a, b, c

(* None follow the last record. *)
LEMMA PairsEnd == ASSUME NEW s \in Seq(Record) PROVE PairsFrom(s, Len(s)) = <<>>
<1>1. PairsFrom(s, Len(s)) \in Seq(Pair) /\ Len(PairsFrom(s, Len(s))) = 0
  <2>1. Len(s) \in 0 .. Len(s) /\ Len(s) - Len(s) = 0
    BY SMTT(30)
  <2> QED
    BY <2>1, PairsTyped
<1> QED
  BY <1>1, EmptySeq

(* A record appended to the log is one more pair at the end. *)
LEMMA PairsAppend ==
  ASSUME NEW s \in Seq(Record), NEW r \in Record
  PROVE  PairsFrom(Append(s, r), 0) = Append(PairsFrom(s, 0), [key |-> r.key, value |-> r.value])
<1> DEFINE t == Append(s, r)
           a == PairsFrom(s, 0)
           pair == [key |-> r.key, value |-> r.value]
<1>1. /\ t \in Seq(Record) /\ Len(t) = Len(s) + 1 /\ Len(s) \in Nat
      /\ t[Len(s) + 1] = r
      /\ \A j \in 1 .. Len(s) : t[j] = s[j]
  BY SMTT(30)
<1>2. pair \in Pair
  BY DEF Pair, Record
<1>3. /\ a \in Seq(Pair) /\ Len(a) = Len(s)
      /\ PairsFrom(t, 0) \in Seq(Pair) /\ Len(PairsFrom(t, 0)) = Len(s) + 1
  <2>1. 0 \in 0 .. Len(s) /\ 0 \in 0 .. Len(t) /\ Len(s) - 0 = Len(s) /\ Len(t) - 0 = Len(s) + 1
    BY SMTT(30), <1>1
  <2> QED
    BY <1>1, <2>1, PairsTyped
<1>4. \A j \in 1 .. Len(s) : a[j] = PairAt(s, j)
  BY SMTT(30), <1>1 DEF PairsFrom
<1>5. \A j \in 1 .. (Len(s) + 1) : PairsFrom(t, 0)[j] = PairAt(t, j)
  <2> HIDE DEF t
  <2> QED
    BY SMTT(30), <1>1 DEF PairsFrom
<1> HIDE DEF t, a, pair
<1>6. /\ Append(a, pair) \in Seq(Pair) /\ Len(Append(a, pair)) = Len(s) + 1
      /\ \A j \in 1 .. (Len(s) + 1) : Append(a, pair)[j] = IF j = Len(s) + 1 THEN pair ELSE a[j]
  BY SMTT(30), <1>1, <1>2, <1>3
<1>7. ASSUME NEW j \in 1 .. (Len(s) + 1) PROVE PairsFrom(t, 0)[j] = Append(a, pair)[j]
  <2>1. CASE j = Len(s) + 1
    BY <1>1, <1>5, <1>6, <2>1 DEF PairAt, pair
  <2>2. CASE j # Len(s) + 1
    <3>1. j \in 1 .. Len(s)
      BY SMTT(30), <1>1, <2>2
    <3> QED
      BY <1>1, <1>4, <1>5, <1>6, <2>2, <3>1 DEF PairAt
  <2> QED
    BY <2>1, <2>2
<1>8. PairsFrom(t, 0) = Append(a, pair)
  BY <1>3, <1>6, <1>7, SeqEqual
<1> QED
  BY <1>8 DEF t, a, pair

(* A published file under the invariant: where its records end. *)
LEMMA LogFacts ==
  ASSUME Inv, NEW i \in Inode, Published(i)
  PROVE  /\ log[i] \in Seq(Record) /\ Len(log[i]) \in Nat
         /\ header[i].xts_key = i
         /\ header[i].write_offset = EndOf(log[i], Len(log[i]))
         /\ EndOf(log[i], 0) = HeaderBlocks
         /\ \A n \in 0 .. Len(log[i]) : EndOf(log[i], n) \in HeaderBlocks .. MaxBlocks
         /\ \A m, n \in 0 .. Len(log[i]) : m < n => EndOf(log[i], m) < EndOf(log[i], n)
<1>1. log[i] \in Seq(Record) /\ header[i] # None
      /\ header[i] \in [total_size : 0 .. MaxBlocks, write_offset : 0 .. MaxBlocks,
                        password : Password, xts_key : Inode]
  BY DEF Inv, Shape, TypeOK, FilesTyped, Published
<1>2. header[i].xts_key = i
  BY <1>1 DEF Inv, Shape, FileShape, HeadersValid
<1>3. /\ header[i].write_offset = EndOf(log[i], Len(log[i]))
      /\ \A m, n \in 0 .. Len(log[i]) : m < n => EndOf(log[i], m) < EndOf(log[i], n)
  BY DEF Inv, RecordsTile
<1>4. header[i].write_offset \in 0 .. MaxBlocks
  BY <1>1
<1> DEFINE s == log[i]
<1>5. s \in Seq(Record) /\ Len(s) \in Nat
  BY SMTT(30), <1>1
<1>6. EndOf(s, 0) = HeaderBlocks
  BY DEF EndOf
<1>7. \A n \in 0 .. Len(s) : EndOf(s, n) \in Nat
  BY <1>5, EndsNat
<1>8. /\ EndOf(s, Len(s)) \in 0 .. MaxBlocks
      /\ \A m, n \in 0 .. Len(s) : m < n => EndOf(s, m) < EndOf(s, n)
  BY <1>3, <1>4
<1> HIDE DEF s
<1>9. ASSUME NEW n \in 0 .. Len(s) PROVE EndOf(s, n) \in HeaderBlocks .. MaxBlocks
  <2>1. EndOf(s, n) <= EndOf(s, Len(s))
    BY SMTT(30), <1>5, <1>7, <1>8
  <2>2. HeaderBlocks <= EndOf(s, n)
    BY SMTT(30), <1>5, <1>6, <1>7, <1>8, StoreAssumption
  <2> QED
    BY SMTT(30), <1>7, <1>8, <2>1, <2>2, StoreAssumption
<1> QED
  BY <1>2, <1>3, <1>5, <1>6, <1>9 DEF s

(* Where a record of the log begins, the decoder finds it. *)
LEMMA FindsRecord ==
  ASSUME Inv, NEW i \in Inode, Published(i), NEW n \in 0 .. (Len(log[i]) - 1), NEW o, o = EndOf(log[i], n)
  PROVE  /\ o < header[i].write_offset
         /\ RecordAt(i, o)
         /\ data[i][o].key = log[i][n + 1].key
         /\ data[i][o].value = log[i][n + 1].value
         /\ o + blocks_of(data[i][o].key, data[i][o].value) = EndOf(log[i], n + 1)
<1> DEFINE s == log[i]
<1>1. /\ s \in Seq(Record) /\ Len(s) \in Nat
      /\ header[i].xts_key = i
      /\ header[i].write_offset = EndOf(s, Len(s))
      /\ \A m \in 0 .. Len(s) : EndOf(s, m) \in HeaderBlocks .. MaxBlocks
      /\ \A l, m \in 0 .. Len(s) : l < m => EndOf(s, l) < EndOf(s, m)
  BY LogFacts
<1>2. n \in 0 .. Len(s) /\ n + 1 \in 1 .. Len(s) /\ n + 1 \in 0 .. Len(s) /\ n + 1 - 1 = n /\ n \in Nat
  BY SMTT(30), <1>1
<1>3. /\ blocks_of(s[n + 1].key, s[n + 1].value) >= 1
      /\ s[n + 1].offset = o
      /\ Sound(data[i], i, o, s[n + 1].key, s[n + 1].value)
      /\ EndOf(s, n + 1) <= header[i].write_offset
  <2>1. \A m \in 1 .. Len(s) :
          /\ blocks_of(s[m].key, s[m].value) >= 1
          /\ s[m].offset = EndOf(s, m - 1)
          /\ EndOf(s, m) <= header[i].write_offset
          /\ Sound(data[i], i, s[m].offset, s[m].key, s[m].value)
    BY DEF Inv, RecordsTile
  <2>2. EndOf(s, n + 1 - 1) = o
    BY <1>2
  <2> HIDE DEF s
  <2>3. /\ blocks_of(s[n + 1].key, s[n + 1].value) >= 1
        /\ s[n + 1].offset = EndOf(s, n + 1 - 1)
        /\ EndOf(s, n + 1) <= header[i].write_offset
        /\ Sound(data[i], i, s[n + 1].offset, s[n + 1].key, s[n + 1].value)
    <3>1. n + 1 \in 1 .. Len(s)
      BY <1>2
    <3> QED
      BY SMTT(30), <2>1, <3>1
  <2> QED
    BY <2>2, <2>3
<1>4. o = EndOf(s, n)
  OBVIOUS
<1> HIDE DEF s
<1>5. s[n + 1] \in Record /\ o \in Nat
  BY SMTT(30), <1>1, <1>2, <1>4, StoreAssumption
<1>6. blocks_of(s[n + 1].key, s[n + 1].value) \in Nat
  BY <1>5, BlocksType DEF Record
<1>7. EndOf(s, n + 1) = o + blocks_of(s[n + 1].key, s[n + 1].value)
  BY SMTT(30), <1>2, <1>3 DEF EndOf
<1>8. data[i][o] = crypt_xts(i, o, 0, s[n + 1].key, s[n + 1].value)
  <2>1. 0 \in 0 .. (blocks_of(s[n + 1].key, s[n + 1].value) - 1) /\ o + 0 = o
    BY SMTT(30), <1>3, <1>5, <1>6
  <2> QED
    BY <1>3, <2>1 DEF Sound
<1>9. data[i][o].key = s[n + 1].key /\ data[i][o].value = s[n + 1].value
  BY SMTT(30), <1>8 DEF crypt_xts
<1>10. o < header[i].write_offset
  <2>1. EndOf(s, n) < EndOf(s, n + 1)
    BY SMTT(30), <1>1, <1>2
  <2> QED
    BY SMTT(30), <1>1, <1>2, <1>3, <1>4, <1>5, <2>1, StoreAssumption
<1>11. data[i][o] # Random
  <2>1. crypt_xts(i, o, 0, s[n + 1].key, s[n + 1].value)
          \in [xts_key : Inode, unit : Nat, index : Nat, key : Key, value : Value]
    BY SMTT(30), <1>5 DEF crypt_xts, Record
  <2> QED
    BY <1>8, <2>1, DecodeAssumption DEF DecodeAssumption
<1>12. RecordAt(i, o)
  BY <1>1, <1>3, <1>7, <1>9, <1>11 DEF RecordAt
<1> QED
  BY <1>7, <1>9, <1>10, <1>12 DEF s

(* Anywhere else before write_offset it finds no record: a block inside a  *)
(* record was encrypted for another start of the unit.                     *)
LEMMA FindsNone ==
  ASSUME Inv, NEW i \in Inode, Published(i), NEW o \in HeaderBlocks .. MaxBlocks,
         o < header[i].write_offset, \A n \in 0 .. (Len(log[i]) - 1) : o # EndOf(log[i], n)
  PROVE  ~RecordAt(i, o)
<1> DEFINE s == log[i]
           T == {n \in 0 .. Len(s) : o < EndOf(s, n)}
<1>1. /\ s \in Seq(Record) /\ Len(s) \in Nat
      /\ header[i].xts_key = i
      /\ header[i].write_offset = EndOf(s, Len(s))
      /\ EndOf(s, 0) = HeaderBlocks
      /\ \A m \in 0 .. Len(s) : EndOf(s, m) \in HeaderBlocks .. MaxBlocks
  BY LogFacts
<1>2. \A n \in 1 .. Len(s) :
        /\ blocks_of(s[n].key, s[n].value) >= 1
        /\ s[n].offset = EndOf(s, n - 1)
        /\ Sound(data[i], i, s[n].offset, s[n].key, s[n].value)
  BY DEF Inv, RecordsTile
<1>3. \A n \in 0 .. (Len(s) - 1) : o # EndOf(s, n)
  OBVIOUS
<1> HIDE DEF s
<1>4. PICK x \in T : \A y \in T : x <= y
  <2>1. T \subseteq Nat
    BY SMTT(30)
  <2>2. Len(s) \in T
    BY SMTT(30), <1>1
  <2> HIDE DEF T
  <2> QED
    BY <2>1, <2>2, LeastNat
<1>5. x \in 0 .. Len(s) /\ o < EndOf(s, x)
  BY <1>4
<1>6. o \in Nat /\ HeaderBlocks \in Nat /\ HeaderBlocks <= o
  BY SMTT(30), StoreAssumption
<1>7. x # 0
  BY SMTT(30), <1>1, <1>5, <1>6
<1>8. x \in 1 .. Len(s) /\ x - 1 \in 0 .. (Len(s) - 1) /\ x - 1 \in 0 .. Len(s) /\ x \in Nat /\ ~(x <= x - 1)
  BY SMTT(30), <1>1, <1>5, <1>7
<1>9. ~(o < EndOf(s, x - 1))
  BY <1>4, <1>8
<1>10. s[x] \in Record /\ EndOf(s, x - 1) \in Nat
  BY SMTT(30), <1>1, <1>8, StoreAssumption
<1> DEFINE k == s[x].key
           v == s[x].value
           u == s[x].offset
<1>11. k \in Key /\ v \in Value /\ blocks_of(k, v) \in Nat
  BY <1>10, BlocksType DEF Record
<1>12. u = EndOf(s, x - 1) /\ blocks_of(k, v) >= 1 /\ Sound(data[i], i, u, k, v) /\ u # o
  BY <1>2, <1>3, <1>8
<1>13. EndOf(s, x) = u + blocks_of(k, v)
  BY <1>7 DEF EndOf
<1> HIDE DEF k, v, u
<1>14. u \in Nat /\ u < o /\ o < u + blocks_of(k, v)
  BY SMTT(30), <1>5, <1>6, <1>9, <1>10, <1>12, <1>13
<1>15. o - u \in 0 .. (blocks_of(k, v) - 1) /\ u + (o - u) = o
  BY SMTT(30), <1>6, <1>11, <1>14
<1>16. data[i][o] = crypt_xts(i, u, o - u, k, v)
  BY <1>12, <1>15 DEF Sound
<1>17. data[i][o].key = k /\ data[i][o].value = v /\ data[i][o].unit = u
  BY SMTT(30), <1>16 DEF crypt_xts
<1> SUFFICES ASSUME RecordAt(i, o) PROVE FALSE
  OBVIOUS
<1>18. Sound(data[i], i, o, k, v)
  BY <1>1, <1>17 DEF RecordAt
<1>19. 0 \in 0 .. (blocks_of(k, v) - 1) /\ o + 0 = o
  BY SMTT(30), <1>6, <1>11, <1>12
<1>20. data[i][o] = crypt_xts(i, o, 0, k, v)
  BY <1>18, <1>19 DEF Sound
<1>21. data[i][o].unit = o
  BY SMTT(30), <1>20 DEF crypt_xts
<1> QED
  BY <1>12, <1>17, <1>21

(* The equation that the recursive function of Decoded satisfies. *)
Walk(i, from) ==
  [o \in HeaderBlocks .. MaxBlocks |->
     IF o >= header[i].write_offset THEN <<>>
     ELSE IF ~RecordAt(i, o) THEN <<Random>>
     ELSE LET k == data[i][o].key
              v == data[i][o].value
          IN  <<[key |-> k, value |-> v]>> \o from[o + blocks_of(k, v)]]

(* A function that satisfies it exists as soon as one is known, and Decoded *)
(* is the value of such a function at the first record.                    *)
LEMMA WalkDecodes ==
  ASSUME NEW i, NEW F, F = Walk(i, F)
  PROVE  \E G : G = Walk(i, G) /\ Decoded(i) = G[HeaderBlocks]
BY DEF Decoded, Walk

(* What the walk finds at the end of the first n records. *)
LEMMA WalkAt ==
  ASSUME Inv, NEW i \in Inode, Published(i), NEW F
  PROVE  /\ \A o \in HeaderBlocks .. MaxBlocks : o >= header[i].write_offset => Walk(i, F)[o] = <<>>
         /\ Walk(i, F)[EndOf(log[i], Len(log[i]))] = <<>>
         /\ \A n \in 0 .. (Len(log[i]) - 1) :
              Walk(i, F)[EndOf(log[i], n)] = <<PairAt(log[i], n + 1)>> \o F[EndOf(log[i], n + 1)]
         /\ \A o \in HeaderBlocks .. MaxBlocks :
              (o < header[i].write_offset /\ \A n \in 0 .. (Len(log[i]) - 1) : o # EndOf(log[i], n))
                => Walk(i, F)[o] = <<Random>>
<1>1. /\ Len(log[i]) \in Nat
      /\ header[i].write_offset = EndOf(log[i], Len(log[i]))
      /\ \A n \in 0 .. Len(log[i]) : EndOf(log[i], n) \in HeaderBlocks .. MaxBlocks
  BY LogFacts
<1>2. \A o \in HeaderBlocks .. MaxBlocks : o \in Nat
  BY SMTT(30), StoreAssumption
<1>3. \A n \in 0 .. (Len(log[i]) - 1) : n \in 0 .. Len(log[i])
  BY SMTT(30), <1>1
<1>4. Len(log[i]) \in 0 .. Len(log[i])
  BY SMTT(30), <1>1
<1>5. header[i].write_offset \in HeaderBlocks .. MaxBlocks
  BY <1>1, <1>4
<1>6. header[i].write_offset >= header[i].write_offset
  BY SMTT(30), <1>2, <1>5
<1>7. ASSUME NEW o \in HeaderBlocks .. MaxBlocks, o >= header[i].write_offset PROVE Walk(i, F)[o] = <<>>
  BY <1>7 DEF Walk
<1>8. ASSUME NEW o \in HeaderBlocks .. MaxBlocks, o < header[i].write_offset PROVE ~(o >= header[i].write_offset)
  BY SMTT(30), <1>2, <1>5, <1>8
<1>9. ASSUME NEW n \in 0 .. (Len(log[i]) - 1), NEW o, o = EndOf(log[i], n)
      PROVE  Walk(i, F)[o] = <<PairAt(log[i], n + 1)>> \o F[EndOf(log[i], n + 1)]
  <2>1. o \in HeaderBlocks .. MaxBlocks
    BY <1>1, <1>3, <1>9
  <2>2. /\ o < header[i].write_offset
        /\ RecordAt(i, o)
        /\ data[i][o].key = log[i][n + 1].key
        /\ data[i][o].value = log[i][n + 1].value
        /\ o + blocks_of(data[i][o].key, data[i][o].value) = EndOf(log[i], n + 1)
    BY <1>9, FindsRecord
  <2>3. Walk(i, F)[o] = <<[key |-> data[i][o].key, value |-> data[i][o].value]>>
                          \o F[o + blocks_of(data[i][o].key, data[i][o].value)]
    BY <1>8, <2>1, <2>2 DEF Walk
  <2> QED
    BY <2>2, <2>3 DEF PairAt
<1>10. ASSUME NEW o \in HeaderBlocks .. MaxBlocks, o < header[i].write_offset,
              \A n \in 0 .. (Len(log[i]) - 1) : o # EndOf(log[i], n)
       PROVE  Walk(i, F)[o] = <<Random>>
  BY <1>8, <1>10, FindsNone DEF Walk
<1> QED
  BY <1>1, <1>5, <1>6, <1>7, <1>9, <1>10

(* A function that satisfies the equation. *)
ClosedWalk(i) ==
  [o \in HeaderBlocks .. MaxBlocks |->
     IF o >= header[i].write_offset THEN <<>>
     ELSE IF \E n \in 0 .. (Len(log[i]) - 1) : o = EndOf(log[i], n)
     THEN PairsFrom(log[i], CHOOSE n \in 0 .. (Len(log[i]) - 1) : o = EndOf(log[i], n))
     ELSE <<Random>>]

(* Its value at the end of the first n records: the pairs after them. *)
LEMMA ClosedWalkAt ==
  ASSUME Inv, NEW i \in Inode, Published(i), NEW n \in 0 .. Len(log[i])
  PROVE  ClosedWalk(i)[EndOf(log[i], n)] = PairsFrom(log[i], n)
<1> DEFINE s == log[i]
           o == EndOf(s, n)
<1>1. /\ s \in Seq(Record) /\ Len(s) \in Nat
      /\ header[i].write_offset = EndOf(s, Len(s))
      /\ \A m \in 0 .. Len(s) : EndOf(s, m) \in HeaderBlocks .. MaxBlocks
      /\ \A l, m \in 0 .. Len(s) : l < m => EndOf(s, l) < EndOf(s, m)
  BY LogFacts
<1>2. o \in HeaderBlocks .. MaxBlocks /\ o \in Nat
  <2>1. o \in HeaderBlocks .. MaxBlocks
    BY <1>1
  <2> HIDE DEF o
  <2> QED
    BY SMTT(30), <2>1, StoreAssumption
<1>3. CASE n = Len(s)
  <2>1. o >= header[i].write_offset
    BY SMTT(30), <1>1, <1>2, <1>3
  <2> QED
    BY <1>1, <1>2, <1>3, <2>1, PairsEnd DEF ClosedWalk
<1>4. CASE n # Len(s)
  <2>1. n \in 0 .. (Len(s) - 1)
    BY SMTT(30), <1>1, <1>4
  <2>2. o < header[i].write_offset
    BY <2>1, FindsRecord
  <2>3. header[i].write_offset \in Nat
    <3>1. Len(s) \in 0 .. Len(s)
      BY SMTT(30), <1>1
    <3>2. header[i].write_offset \in HeaderBlocks .. MaxBlocks
      BY <1>1, <3>1
    <3> QED
      BY SMTT(30), <3>2, StoreAssumption
  <2>4. ~(o >= header[i].write_offset)
    BY SMTT(30), <1>2, <2>2, <2>3
  <2>5. ASSUME NEW m \in 0 .. (Len(s) - 1), o = EndOf(s, m) PROVE m = n
    <3>1. m \in 0 .. Len(s) /\ m \in Nat /\ n \in Nat
      BY SMTT(30), <1>1
    <3>2. ~(m < n) /\ ~(n < m)
      <4>1. ~(EndOf(s, m) < EndOf(s, n)) /\ ~(EndOf(s, n) < EndOf(s, m))
        BY SMTT(30), <1>2, <2>5
      <4> QED
        BY <1>1, <3>1, <4>1
    <3> QED
      BY SMTT(30), <3>1, <3>2
  <2>6. (CHOOSE m \in 0 .. (Len(s) - 1) : o = EndOf(s, m)) = n
    BY <2>1, <2>5
  <2>7. ClosedWalk(i)[o] = PairsFrom(s, CHOOSE m \in 0 .. (Len(s) - 1) : o = EndOf(s, m))
    BY <1>2, <2>1, <2>4 DEF ClosedWalk
  <2> QED
    BY <2>6, <2>7
<1> QED
  BY <1>3, <1>4

(* It satisfies the equation. *)
LEMMA ClosedWalkWalks ==
  ASSUME Inv, NEW i \in Inode, Published(i)
  PROVE  ClosedWalk(i) = Walk(i, ClosedWalk(i))
<1> DEFINE F == ClosedWalk(i)
<1>1. \A o \in HeaderBlocks .. MaxBlocks : o \in Nat
  BY SMTT(30), StoreAssumption
<1>2. /\ log[i] \in Seq(Record) /\ Len(log[i]) \in Nat
      /\ header[i].write_offset = EndOf(log[i], Len(log[i]))
      /\ \A n \in 0 .. Len(log[i]) : EndOf(log[i], n) \in HeaderBlocks .. MaxBlocks
  BY LogFacts
<1>3. header[i].write_offset \in Nat
  <2>1. Len(log[i]) \in 0 .. Len(log[i])
    BY SMTT(30), <1>2
  <2> QED
    BY <1>1, <1>2, <2>1
<1>4. ASSUME NEW o \in HeaderBlocks .. MaxBlocks PROVE F[o] = Walk(i, F)[o]
  <2>1. CASE o >= header[i].write_offset
    BY <2>1, WalkAt DEF ClosedWalk
  <2>2. ASSUME NEW n \in 0 .. (Len(log[i]) - 1), o = EndOf(log[i], n) PROVE F[o] = Walk(i, F)[o]
    <3>1. n \in 0 .. Len(log[i]) /\ n + 1 \in 0 .. Len(log[i])
      BY SMTT(30), <1>2
    <3>2. F[o] = PairsFrom(log[i], n) /\ F[EndOf(log[i], n + 1)] = PairsFrom(log[i], n + 1)
      BY <2>2, <3>1, ClosedWalkAt
    <3>3. Walk(i, F)[o] = <<PairAt(log[i], n + 1)>> \o F[EndOf(log[i], n + 1)]
      BY <2>2, WalkAt
    <3> QED
      BY <1>2, <3>2, <3>3, PairsStep
  <2>3. CASE o < header[i].write_offset /\ \A n \in 0 .. (Len(log[i]) - 1) : o # EndOf(log[i], n)
    <3>1. ~(o >= header[i].write_offset)
      BY SMTT(30), <1>1, <1>3, <2>3
    <3>2. F[o] = <<Random>>
      BY <2>3, <3>1 DEF ClosedWalk
    <3> QED
      BY <2>3, <3>2, WalkAt
  <2>4. o >= header[i].write_offset \/ o < header[i].write_offset
    BY SMTT(30), <1>1, <1>3
  <2> QED
    BY <2>1, <2>2, <2>3, <2>4
<1> QED
  BY <1>4 DEF Walk, ClosedWalk

(* Every function that satisfies it has those values: the last record      *)
(* where it had not would be contradicted by the one after it.             *)
LEMMA WalkUnique ==
  ASSUME Inv, NEW i \in Inode, Published(i), NEW G, G = Walk(i, G), NEW n \in 0 .. Len(log[i])
  PROVE  G[EndOf(log[i], n)] = PairsFrom(log[i], n)
<1> DEFINE s == log[i]
           T == {m \in 0 .. Len(s) : G[EndOf(s, Len(s) - m)] # PairsFrom(s, Len(s) - m)}
<1>1. s \in Seq(Record) /\ Len(s) \in Nat
  BY LogFacts
<1>2. /\ G[EndOf(s, Len(s))] = <<>>
      /\ \A k \in 0 .. (Len(s) - 1) : G[EndOf(s, k)] = <<PairAt(s, k + 1)>> \o G[EndOf(s, k + 1)]
  BY WalkAt
<1> HIDE DEF s
<1>3. ASSUME NEW m \in T, \A y \in T : m <= y PROVE FALSE
  <2>1. m \in 0 .. Len(s) /\ G[EndOf(s, Len(s) - m)] # PairsFrom(s, Len(s) - m) /\ m \in Nat
    BY SMTT(30)
  <2>2. CASE m = 0
    <3>1. Len(s) - m = Len(s)
      BY SMTT(30), <1>1, <2>2
    <3> QED
      BY <1>1, <1>2, <2>1, <3>1, PairsEnd
  <2>3. CASE m # 0
    <3>1. /\ m - 1 \in 0 .. Len(s) /\ ~(m <= m - 1)
          /\ Len(s) - m \in 0 .. (Len(s) - 1) /\ Len(s) - (m - 1) = Len(s) - m + 1
      BY SMTT(30), <1>1, <2>1, <2>3
    <3>2. m - 1 \notin T
      BY <1>3, <3>1
    <3>3. G[EndOf(s, Len(s) - m + 1)] = PairsFrom(s, Len(s) - m + 1)
      BY <3>1, <3>2
    <3> QED
      BY <1>1, <1>2, <2>1, <3>1, <3>3, PairsStep
  <2> QED
    BY <2>2, <2>3
<1>4. T = {}
  <2>1. T \subseteq Nat
    BY SMTT(30)
  <2> HIDE DEF T
  <2> QED
    BY <1>3, <2>1, LeastNat
<1>5. Len(s) - n \in 0 .. Len(s) /\ Len(s) - (Len(s) - n) = n
  <2>1. n \in 0 .. Len(s)
    BY DEF s
  <2> QED
    BY SMTT(30), <1>1, <2>1
<1>6. Len(s) - n \notin T
  BY <1>4
<1>7. G[EndOf(s, n)] = PairsFrom(s, n)
  BY <1>5, <1>6
<1> QED
  BY <1>7 DEF s

(* On a published file the decoder finds exactly the records of the log. *)
LEMMA DecodedIsLog ==
  ASSUME Inv, NEW i \in Inode, Published(i)
  PROVE  Decoded(i) = PairsFrom(log[i], 0)
<1>1. PICK G : G = Walk(i, G) /\ Decoded(i) = G[HeaderBlocks]
  BY ClosedWalkWalks, WalkDecodes
<1>2. 0 \in 0 .. Len(log[i]) /\ EndOf(log[i], 0) = HeaderBlocks
  <2>1. Len(log[i]) \in Nat /\ EndOf(log[i], 0) = HeaderBlocks
    BY LogFacts
  <2> QED
    BY SMTT(30), <2>1
<1> QED
  BY <1>1, <1>2, WalkUnique

(* The pairs that the abstract specification is about, as they are decoded *)
(* from the bytes, and as the history variable has them.                   *)
Pairs == [i \in Inode |-> IF Published(i) THEN Decoded(i) ELSE None]
Committed == [i \in Inode |-> IF Published(i) THEN PairsFrom(log[i], 0) ELSE None]

(* The two are the same. *)
LEMMA PairsCommitted == Inv => Pairs = Committed
<1> SUFFICES ASSUME Inv PROVE Pairs = Committed
  OBVIOUS
<1>1. \A i \in Inode : Published(i) => Decoded(i) = PairsFrom(log[i], 0)
  BY DecodedIsLog
<1> QED
  BY <1>1 DEF Pairs, Committed

(* A step that publishes no file and writes no header of a published one. *)
LEMMA QuietMaps ==
  ASSUME UNCHANGED <<dir, log>>, \A i \in Inode : Published(i)' <=> Published(i)
  PROVE  UNCHANGED <<dir, Committed>>
BY DEF Committed, PairsFrom, PairAt

(* A step after which one file is published with the given pairs. *)
LEMMA OneFileMaps ==
  ASSUME NEW g \in Inode, Published(g)',
         \A i \in Inode \ {g} : (Published(i)' <=> Published(i)) /\ log'[i] = log[i]
  PROVE  Committed' = [Committed EXCEPT ![g] = PairsFrom(log'[g], 0)]
<1>1. ASSUME NEW i \in Inode PROVE Committed'[i] = [Committed EXCEPT ![g] = PairsFrom(log'[g], 0)][i]
  <2>1. CASE i = g
    BY <2>1 DEF Committed, PairsFrom, PairAt
  <2>2. CASE i # g
    BY <2>2 DEF Committed, PairsFrom, PairAt
  <2> QED
    BY <2>1, <2>2
<1> QED
  BY <1>1 DEF Committed

(* rename publishes an empty file. *)
LEMMA RenameMaps ==
  ASSUME Inv, NEW p \in Proc, AllocRename(p), NEW g, g = fd[p]
  PROVE  /\ g \in Inode
         /\ dir' = g
         /\ Committed[g] = None
         /\ Committed' = [Committed EXCEPT ![g] = <<>>]
<1>1. /\ pc[p] = "alloc_rename" /\ dir' = g /\ temps' = temps \ {g}
      /\ UNCHANGED <<created, header, log>>
  BY DEF AllocRename, Completed
<1>2. g \in temps /\ header[g] # None
  BY <1>1 DEF Inv, Shape, CallShape, OwnsTemp, AllocStates
<1>3. g \in Inode /\ g \in created /\ log[g] = <<>>
  BY <1>2 DEF Inv, Shape, TypeOK, FilesTyped, FileShape, FreshFiles
<1>4. Committed[g] = None
  BY <1>2, <1>3 DEF Committed, Published
<1>5. Published(g)' /\ \A i \in Inode : i # g => (Published(i)' <=> Published(i))
  BY <1>1, <1>2, <1>3 DEF Published
<1>6. PairsFrom(log'[g], 0) = <<>>
  <2>1. log'[g] = <<>> /\ <<>> \in Seq(Record) /\ Len(<<>>) = 0
    BY <1>1, <1>3, EmptySeq
  <2> QED
    BY <2>1, PairsEnd
<1> QED
  BY <1>1, <1>3, <1>4, <1>5, <1>6, OneFileMaps

(* The write of the header adds the record of the call to its file. *)
LEMMA WriteMaps ==
  ASSUME Inv, PublishedKept, NEW p \in Proc, pc[p] \in {"set_data", "set_close"}, WriteBack(p),
         UNCHANGED <<dir, temps, created>>, NEW g, g = fd[p]
  PROVE  \E pair \in Pair :
           /\ g \in Inode
           /\ Committed[g] # None /\ Committed[g] \in Seq(Pair)
           /\ Committed' = [Committed EXCEPT ![g] = Append(Committed[g], pair)]
<1> DEFINE r == [offset |-> hdr[p].write_offset, key |-> arg[p].key, value |-> arg[p].value]
           pair == [key |-> r.key, value |-> r.value]
<1>1. g \in Inode /\ Published(g) /\ hdr[p] \in Header /\ arg[p].key \in Key /\ arg[p].value \in Value
  <2>1. OpensPublished(p) /\ CopiedHeader(p) /\ fd[p] \in Inode \cup {None} /\ hdr[p] \in Header \cup {None}
    BY DEF Inv, Shape, TypeOK, CallsTyped, CallShape
  <2> QED
    BY <2>1 DEF OpensPublished, CopiedHeader, HasOpen, SetStates
<1>2. r \in Record /\ pair \in Pair
  BY SMTT(30), <1>1 DEF Record, Pair, Header
<1>3. log[g] \in Seq(Record) /\ DOMAIN log = Inode /\ DOMAIN header = Inode
  BY <1>1 DEF Inv, Shape, TypeOK, FilesTyped
<1>4. log'[g] = Append(log[g], r) /\ \A i \in Inode : i # g => log'[i] = log[i] /\ header'[i] = header[i]
  BY <1>1, <1>3 DEF WriteBack
<1>5. Published(g)' /\ \A i \in Inode : i # g => (Published(i)' <=> Published(i))
  BY <1>1, <1>4 DEF Published, PublishedKept
<1>6. Committed[g] = PairsFrom(log[g], 0) /\ Committed[g] # None /\ Committed[g] \in Seq(Pair)
  <2>1. Committed[g] = PairsFrom(log[g], 0)
    BY <1>1 DEF Committed
  <2>2. PairsFrom(log[g], 0) \in Seq(Pair)
    <3>1. 0 \in 0 .. Len(log[g])
      BY SMTT(30), <1>3
    <3> QED
      BY <1>3, <3>1, PairsTyped
  <2> QED
    BY <2>1, <2>2, DecodeAssumption DEF Pair
<1>7. PairsFrom(log'[g], 0) = Append(Committed[g], pair)
  BY <1>2, <1>3, <1>4, <1>6, PairsAppend
<1>8. Committed' = [Committed EXCEPT ![g] = Append(Committed[g], pair)]
  BY <1>1, <1>4, <1>5, <1>7, OneFileMaps
<1> QED
  BY <1>1, <1>2, <1>6, <1>8

(* Every other step leaves the published files alone, or their contents. *)
LEMMA StepMaps ==
  ASSUME Inv, NEW p \in Proc, Next,
         AllocNext(p) \/ SetNext(p) \/ GetNext(p) \/ Return(p) \/ Kill(p)
  PROVE  \/ AllocRename(p)
         \/ /\ pc[p] \in {"set_data", "set_close"} /\ WriteBack(p)
            /\ UNCHANGED <<dir, temps, created>>
         \/ UNCHANGED <<dir, Committed>>
<1> DEFINE Quiet == UNCHANGED <<dir, log>> /\ \A i \in Inode : Published(i)' <=> Published(i)
<1>1. DOMAIN header = Inode /\ temps \subseteq created
  BY DEF Inv, Shape, TypeOK, FilesTyped
<1>2. pc[p] \in AllocStates => fd[p] \in temps
  BY DEF Inv, Shape, CallShape, OwnsTemp
<1> USE DEF fileVars
<1>3. ASSUME UNCHANGED <<dir, temps, created, header, log>> PROVE Quiet
  BY <1>3 DEF Published
<1>4. ASSUME NEW size, NEW password, AllocBegin(p, size, password) PROVE Quiet
  BY <1>1, <1>4 DEF AllocBegin, Published
<1>5. ASSUME AllocFill(p) \/ AllocFail(p) PROVE Quiet
  <2>1. fd[p] \in temps
    BY <1>2, <1>5 DEF AllocFill, AllocFail, AllocStates
  <2>2. CASE AllocFill(p)
    BY <1>1, <2>1, <2>2 DEF AllocFill, Published
  <2>3. CASE AllocFail(p)
    BY <1>1, <2>1, <2>3 DEF AllocFail, unlink, Published
  <2> QED
    BY <1>5, <2>2, <2>3
<1>6. CASE AllocNext(p)
  <2>1. ASSUME AllocSync(p) \/ \E size \in Size, password \in Password : AllocRefused(p, size, password)
        PROVE  Quiet
    BY <1>3, <2>1 DEF AllocSync, AllocRefused, Refuse
  <2> HIDE DEF Quiet
  <2>2. Quiet \/ AllocRename(p)
    BY <1>4, <1>5, <1>6, <2>1 DEF AllocNext
  <2> QED
    BY <2>2, QuietMaps DEF Quiet
<1>7. CASE SetNext(p)
  <2>1. \/ SetWriteHeader(p) \/ SetClose(p)
        \/ UNCHANGED <<dir, temps, created, header, log>>
    BY <1>7 DEF SetNext, SetRefused, SetBegin, Refuse, SetReadHeader, SetReject, SetWriteBlock,
       SetBufferHeader, SetCloseLost, SetFail
  <2>2. ASSUME SetWriteHeader(p) \/ SetClose(p)
        PROVE  /\ pc[p] \in {"set_data", "set_close"} /\ WriteBack(p)
               /\ UNCHANGED <<dir, temps, created>>
    BY <2>2 DEF SetWriteHeader, SetClose, DataWritten
  <2> QED
    BY <1>3, <2>1, <2>2, QuietMaps
<1>8. CASE GetNext(p)
  <2>1. UNCHANGED <<dir, temps, created, header, log>>
    BY <1>8 DEF GetNext, GetRefused, GetBegin, Refuse, GetReadHeader, GetReject, GetRecord,
       GetGarbage, GetCorrupt, GetReturn, GetFail
  <2> QED
    BY <1>3, <2>1, QuietMaps
<1>9. CASE Return(p) \/ Kill(p)
  BY <1>3, <1>9, QuietMaps DEF Return, Kill, Forget
<1> QED
  BY <1>6, <1>7, <1>8, <1>9

(* Every step of the store is a step of the abstract log, or leaves its    *)
(* variables alone.                                                        *)
LEMMA NextMaps ==
  ASSUME Inv, [Next]_vars, Pairs = Committed, (Pairs = Committed)'
  PROVE  [Log!Next]_<<dir, Pairs>>
<1>1. CASE UNCHANGED vars
  <2>1. UNCHANGED <<dir, log>> /\ \A i \in Inode : Published(i)' <=> Published(i)
    BY <1>1 DEF vars, Published
  <2> QED
    BY <2>1, QuietMaps
<1>2. CASE Next
  <2>1. PICK p \in Proc : AllocNext(p) \/ SetNext(p) \/ GetNext(p) \/ Return(p) \/ Kill(p)
    BY <1>2 DEF Next
  <2>2. CASE AllocRename(p)
    <3>1. PICK g \in Inode : /\ dir' = g /\ Pairs[g] = None
                             /\ Pairs' = [Pairs EXCEPT ![g] = <<>>]
      BY <2>2, RenameMaps
    <3>2. Log!Allocate(g)
      BY <3>1 DEF Log!Allocate, Pairs
    <3>3. Pairs' # Pairs
      <4>1. Pairs'[g] = <<>>
        BY <3>1 DEF Pairs
      <4>2. <<>> # None
        BY DecodeAssumption, EmptySeq
      <4> QED
        BY <3>1, <4>1, <4>2
    <3> QED
      BY <3>2, <3>3 DEF Log!Next, Pairs
  <2>3. CASE /\ pc[p] \in {"set_data", "set_close"} /\ WriteBack(p)
             /\ UNCHANGED <<dir, temps, created>>
    <3>1. PublishedKept
      BY <1>2, ShapeNext DEF Inv
    <3>2. PICK g \in Inode, pair \in Pair :
            /\ Pairs[g] # None /\ Pairs[g] \in Seq(Pair)
            /\ Pairs' = [Pairs EXCEPT ![g] = Append(Pairs[g], pair)]
      BY <2>3, <3>1, WriteMaps
    <3>3. Log!Set(g, pair)
      BY <2>3, <3>2 DEF Log!Set, Pairs
    <3>4. Pairs' # Pairs
      <4>1. Pairs'[g] = Append(Pairs[g], pair)
        BY <3>2 DEF Pairs
      <4>2. ASSUME NEW s \in Seq(Pair) PROVE Append(s, pair) # s
        BY SMTT(30)
      <4> QED
        BY <3>2, <4>1, <4>2
    <3> QED
      BY <3>3, <3>4 DEF Log!Next, Pairs, Pair
  <2>4. CASE UNCHANGED <<dir, Committed>>
    BY <2>4
  <2> QED
    BY <1>2, <2>1, <2>2, <2>3, <2>4, StepMaps
<1> QED
  BY <1>1, <1>2

(* As long as no two padlock_set calls overlap, the store implements the   *)
(* append-only log, for any number of processes, files, keys and values:   *)
(* every step, a kill and a failed call included, leaves the pairs that    *)
(* can be decoded from every file alone, publishes one new empty file, or  *)
(* adds exactly one pair at the end of one file.                           *)
THEOREM StoreImplementsLog == ASSUME SerialSets PROVE Spec => ImplementsAppendOnlyLog
<1>1. Init => Log!Init
  BY DEF Init, Log!Init, Published
<1>2. Inv => Pairs = Committed
  BY PairsCommitted
<1>3. Inv /\ [Next]_vars /\ Pairs = Committed /\ (Pairs = Committed)' => [Log!Next]_<<dir, Pairs>>
  BY NextMaps
<1> QED
  BY <1>1, <1>2, <1>3, LogInvariant, PTL DEF Spec, ImplementsAppendOnlyLog, Log!Spec, Pairs

=============================================================================
