----------------------- MODULE StoreDurabilityProofs ------------------------
(***************************************************************************)
(* What of PadlockStore survives power failures, for any number of         *)
(* processes, files, keys and sizes.  What the path names and what its     *)
(* header seals survives however the calls overlap; that a record found    *)
(* intact stays intact needs sets that do not overlap.                     *)
(***************************************************************************)
EXTENDS StoreDurability, PadlockStoreProofs

(* Zenon proves most leaves; one that needs arithmetic or functions names SMT. *)
USE Zenon

-----------------------------------------------------------------------------
(* What one step of a process does to the name and to synced files.        *)

(* A process reaches the rename only by fsync. *)
LEMMA RenameReady ==
  ASSUME Shape, Next, NEW q \in Proc, pc'[q] = "alloc_rename"
  PROVE  fd'[q] = fd[q] /\ (pc[q] = "alloc_rename" \/ fsync(q))
<1> USE DEF Shape, TypeOK, CallsTyped, fsync, Finish
<1>1. ASSUME NEW p \in Proc, AllocNext(p)
      PROVE  fd'[q] = fd[q] /\ (pc[q] = "alloc_rename" \/ fsync(q))
  BY SMTT(30), <1>1 DEF AllocNext, AllocRefused, Refuse, AllocBegin, AllocFill, AllocSync, AllocRename,
     AllocFail
<1>2. ASSUME NEW p \in Proc, SetNext(p)
      PROVE  fd'[q] = fd[q] /\ (pc[q] = "alloc_rename" \/ fsync(q))
  BY SMTT(30), <1>2 DEF SetNext, SetRefused, Refuse, SetBegin, SetReadHeader, SetReject, SetWriteBlock,
     SetWriteHeader, SetBufferHeader, SetClose, SetCloseLost, SetFail
<1>3. ASSUME NEW p \in Proc, GetNext(p)
      PROVE  fd'[q] = fd[q] /\ (pc[q] = "alloc_rename" \/ fsync(q))
  BY SMTT(30), <1>3 DEF GetNext, GetRefused, Refuse, GetBegin, GetReadHeader, GetReject, GetRecord,
     GetGarbage, GetCorrupt, GetReturn, GetFail
<1>4. ASSUME NEW p \in Proc, Return(p) \/ Kill(p)
      PROVE  fd'[q] = fd[q] /\ (pc[q] = "alloc_rename" \/ fsync(q))
  BY SMTT(30), <1>4 DEF Return, Kill, Forget
<1> QED
  BY <1>1, <1>2, <1>3, <1>4 DEF Next

(* The steps that change the name, the set of names or a header. *)
LEMMA LoudSteps ==
  ASSUME Next
  PROVE  \/ UNCHANGED <<dir, temps, created, header>>
         \/ \E p \in Proc, size \in Size, password \in Password : AllocBegin(p, size, password)
         \/ \E p \in Proc : AllocFill(p) \/ AllocRename(p) \/ AllocFail(p)
         \/ \E p \in Proc : SetWriteHeader(p) \/ SetClose(p)
<1>1. ASSUME NEW p \in Proc, AllocNext(p)
      PROVE  \/ UNCHANGED <<dir, temps, created, header>>
             \/ \E size \in Size, password \in Password : AllocBegin(p, size, password)
             \/ AllocFill(p) \/ AllocRename(p) \/ AllocFail(p)
  BY <1>1 DEF AllocNext, AllocRefused, Refuse, AllocSync, fileVars
<1>2. ASSUME NEW p \in Proc, SetNext(p)
      PROVE  UNCHANGED <<dir, temps, created, header>> \/ SetWriteHeader(p) \/ SetClose(p)
  BY <1>2 DEF SetNext, SetRefused, Refuse, SetBegin, SetReadHeader, SetReject, SetWriteBlock,
     SetBufferHeader, SetCloseLost, SetFail, fileVars
<1>3. ASSUME NEW p \in Proc, GetNext(p)
      PROVE  UNCHANGED <<dir, temps, created, header>>
  BY <1>3 DEF GetNext, GetRefused, Refuse, GetBegin, GetReadHeader, GetReject, GetRecord,
     GetGarbage, GetCorrupt, GetReturn, GetFail, fileVars
<1>4. ASSUME NEW p \in Proc, Return(p) \/ Kill(p)
      PROVE  UNCHANGED <<dir, temps, created, header>>
  BY <1>4 DEF Return, Kill, Forget, fileVars
<1> QED
  BY <1>1, <1>2, <1>3, <1>4 DEF Next

(* The path gets a name only from a temporary file. *)
LEMMA DirStep ==
  ASSUME Shape, Next
  PROVE  dir' = dir \/ dir' \in temps
<1>1. ASSUME NEW p \in Proc, AllocRename(p) PROVE dir' \in temps
  BY <1>1, OwnedTemp DEF AllocRename, Completed, AllocStates
<1> QED
  BY <1>1, LoudSteps DEF AllocBegin, AllocFill, AllocFail, SetWriteHeader, SetClose

(* The header of a file that waits for its rename does not change. *)
LEMMA WaitingHeader ==
  ASSUME Shape, Next, NEW q \in Proc, pc[q] = "alloc_rename", pc'[q] = "alloc_rename"
  PROVE  header'[fd[q]] = header[fd[q]]
<1>1. pc[q] \in AllocStates
  BY DEF AllocStates
<1>2. fd[q] \in Inode /\ fd[q] \in temps
  BY <1>1, OwnedTemp
<1>3. ASSUME NEW p \in Proc, AllocFill(p) \/ AllocFail(p)
      PROVE  header'[fd[q]] = header[fd[q]]
  <2>1. pc'[p] # "alloc_rename" /\ pc[p] \in AllocStates
    BY <1>3 DEF AllocFill, AllocFail, Finish, AllocStates, Shape, TypeOK, CallsTyped
  <2>2. fd[p] # fd[q]
    BY <1>1, <2>1, OwnedTemp
  <2> QED
    BY <1>2, <1>3, <2>2 DEF AllocFill, AllocFail, Shape, TypeOK, FilesTyped
<1>4. ASSUME NEW p \in Proc, SetWriteHeader(p) \/ SetClose(p)
      PROVE  header'[fd[q]] = header[fd[q]]
  <2>1. pc[p] \in SetStates
    BY <1>4 DEF SetWriteHeader, SetClose, DataWritten, SetStates
  <2>2. Published(fd[p])
    BY <2>1 DEF Shape, CallShape, OpensPublished, HasOpen
  <2>3. fd[p] # fd[q]
    BY <1>2, <2>2 DEF Published
  <2> QED
    BY <1>2, <1>4, <2>3 DEF SetWriteHeader, SetClose, WriteBack, Shape, TypeOK, FilesTyped
<1> QED
  BY <1>3, <1>4, LoudSteps DEF AllocBegin, AllocRename

(* A file is published by the rename and by nothing else. *)
LEMMA NewlyPublished ==
  ASSUME Shape, Next, NEW i \in Inode, Published(i)', ~Published(i)
  PROVE  Synced(i) /\ header'[i] = header[i]
<1> USE DEF Published
<1>1. ASSUME NEW p \in Proc, NEW size \in Size, NEW password \in Password,
             AllocBegin(p, size, password)
      PROVE  FALSE
  BY <1>1 DEF AllocBegin
<1>2. ASSUME NEW p \in Proc, AllocFill(p) PROVE FALSE
  BY <1>2, OwnedTemp DEF AllocFill, AllocStates, Shape, TypeOK, FilesTyped
<1>3. ASSUME NEW p \in Proc, AllocFail(p) PROVE FALSE
  BY <1>3, OwnedTemp DEF AllocFail, unlink, Shape, TypeOK, FilesTyped
<1>4. ASSUME NEW p \in Proc, AllocRename(p) PROVE Synced(i) /\ header'[i] = header[i]
  BY <1>4 DEF AllocRename, Completed, Synced
<1>5. ASSUME NEW p \in Proc, SetWriteHeader(p) \/ SetClose(p) PROVE FALSE
  <2>1. Published(fd[p])
    BY <1>5 DEF SetWriteHeader, SetClose, DataWritten, SetStates, Shape, CallShape, OpensPublished,
       HasOpen
  <2> QED
    BY <1>5, <2>1 DEF SetWriteHeader, SetClose, WriteBack, Shape, TypeOK, FilesTyped
<1> QED
  BY <1>1, <1>2, <1>3, <1>4, <1>5, LoudSteps

(* A file is synced by fsync, and then its seal never changes. *)
LEMMA SyncedStep ==
  ASSUME Shape, Next, NEW i \in Inode, Synced(i)', ~ \E p \in Proc : fsync(p) /\ fd[p] = i
  PROVE  Synced(i) /\ (Published(i) \/ header'[i] = header[i])
<1>1. CASE Published(i)'
  BY <1>1, NewlyPublished DEF Synced
<1>2. ASSUME NEW q \in Proc, pc'[q] = "alloc_rename", fd'[q] = i
      PROVE  Synced(i) /\ header'[i] = header[i]
  BY <1>2, RenameReady, WaitingHeader DEF Synced
<1> QED
  BY <1>1, <1>2 DEF Synced

-----------------------------------------------------------------------------
(* A step of a process keeps the invariant of the disk.                    *)

(* The current header of a synced file is a whole one. *)
LEMMA SyncedHeader ==
  ASSUME Shape, NEW i \in Inode, Synced(i)
  PROVE  SameSeal(header[i], header[i])
<1>1. header[i] # None
  BY DEF Synced, Published, Shape, CallShape, OwnsTemp, AllocStates
<1> QED
  BY <1>1 DEF Shape, FileShape, HeadersValid, SameSeal

(* A step of a process keeps the types of what the disk may hold. *)
LEMMA TypedStep ==
  ASSUME DiskTyped, StoreStep, Shape'
  PROVE  DiskTyped'
<1>1. dir' \in Inode \cup {None} /\ header' \in [Inode -> FileHeader \cup {None}]
      /\ data' \in [Inode -> [Block -> Content]]
  BY DEF Shape, TypeOK, FilesTyped, FileHeader
<1>2. names' \in Seq(Inode \cup {None})
  BY SMTT(30), <1>1 DEF StoreStep, DiskTyped
<1> DEFINE synced == {fd[p] : p \in {q \in Proc : fsync(q)}}
<1>3. headers' \in [Inode -> SUBSET (FileHeader \cup {None})]
  <2>1. headers' = [i \in Inode |->
          (IF i \in synced \/ header'[i] = None THEN {} ELSE headers[i]) \cup {header'[i]}]
    BY DEF StoreStep
  <2> HIDE DEF synced
  <2>2. \A i \in Inode :
          (IF i \in synced \/ header'[i] = None THEN {} ELSE headers[i]) \cup {header'[i]}
            \in SUBSET (FileHeader \cup {None})
    BY <1>1 DEF DiskTyped
  <2> QED
    BY <2>1, <2>2
<1>4. blocks' \in [Inode -> [Block -> SUBSET Content]]
  <2>1. blocks' = [i \in Inode |-> [b \in Block |->
          (IF i \in synced THEN {} ELSE blocks[i][b]) \cup {data'[i][b]}]]
    BY DEF StoreStep
  <2> HIDE DEF synced
  <2>2. \A i \in Inode, b \in Block :
          (IF i \in synced THEN {} ELSE blocks[i][b]) \cup {data'[i][b]} \in SUBSET Content
    <3> SUFFICES ASSUME NEW i \in Inode, NEW b \in Block
                 PROVE  blocks[i][b] \subseteq Content /\ data'[i][b] \in Content
      OBVIOUS
    <3>1. blocks[i] \in [Block -> SUBSET Content] /\ data'[i] \in [Block -> Content]
      BY <1>1 DEF DiskTyped
    <3> QED
      BY <3>1
  <2> QED
    BY <2>1, <2>2
<1> QED
  BY <1>2, <1>3, <1>4 DEF DiskTyped

(* The file i is published after the step. *)
PublishedNext(i) == i \in created' \ temps' /\ header'[i] # None

(* The path gets a new name only by a rename, of a file with a header. *)
LEMMA NamesStep ==
  ASSUME DurableInv, StoreStep, Shape', PublishedKept
  PROVE  NamesWhole'
<1>1. names \in Seq(Inode \cup {None}) /\ Len(names) \in Nat
  BY SMTT(30) DEF DurableInv, DiskTyped
<1>2. \A n \in 1 .. Len(names) : names[n] \in Inode \cup {None}
  BY SMTT(30), <1>1
<1>3. \A n \in 1 .. Len(names) : names[n] # None => PublishedNext(names[n])
  <2>1. \A i \in Inode : Published(i) => PublishedNext(i)
    BY DEF PublishedKept, Published, PublishedNext
  <2> QED
    BY <1>2, <2>1 DEF DurableInv, NamesWhole
<1>4. CASE dir' = dir
  <2>1. names' = names
    BY <1>4 DEF StoreStep
  <2> QED
    BY <1>3, <1>4, <2>1 DEF DurableInv, NamesWhole, Published, PublishedNext
<1>5. CASE dir' # dir
  <2>1. dir' \in temps /\ dir' \in Inode
    BY <1>5, DirStep DEF StoreStep, DurableInv, Shape, TypeOK, FilesTyped
  <2>2. dir' # None /\ PublishedNext(dir')
    BY <2>1, StoreAssumption DEF Shape, FileShape, DirPublished, Published, PublishedNext
  <2>3. \A n \in 1 .. Len(names) : names[n] # dir'
    BY <2>1, <2>2 DEF DurableInv, NamesWhole, Published
  <2>4. names' = Append(names, dir')
    BY <1>5 DEF StoreStep
  <2>5. /\ Len(names') = Len(names) + 1
        /\ names'[Len(names) + 1] = dir'
        /\ \A n \in 1 .. Len(names) : names'[n] = names[n]
    BY SMTT(30), <1>1, <2>1, <2>4
  <2>6. \A n \in 1 .. Len(names') : n \in 1 .. Len(names) \/ n = Len(names) + 1
    BY SMTT(30), <1>1, <2>5
  <2>7. names' # <<>> /\ dir' = names'[Len(names')]
    BY SMTT(30), <1>1, <2>4, <2>5
  <2>8. \A n \in 1 .. Len(names') : names'[n] # None => PublishedNext(names'[n])
    <3> SUFFICES ASSUME NEW n \in 1 .. Len(names'), names'[n] # None
                 PROVE  PublishedNext(names'[n])
      OBVIOUS
    <3>1. CASE n \in 1 .. Len(names)
      BY <1>3, <2>5, <3>1
    <3>2. CASE n = Len(names) + 1
      BY <2>2, <2>5, <3>2
    <3> QED
      BY <2>6, <3>1, <3>2
  <2>9. \A m, n \in 1 .. Len(names') : m < n => names'[n] # None /\ names'[m] # names'[n]
    <3> SUFFICES ASSUME NEW m \in 1 .. Len(names'), NEW n \in 1 .. Len(names'), m < n
                 PROVE  names'[n] # None /\ names'[m] # names'[n]
      OBVIOUS
    <3>1. m \in 1 .. Len(names)
      BY SMTT(30), <1>1, <2>5
    <3>2. CASE n \in 1 .. Len(names)
      BY <2>5, <3>1, <3>2 DEF DurableInv, NamesWhole
    <3>3. CASE n = Len(names) + 1
      BY <2>2, <2>3, <2>5, <3>1, <3>3
    <3> QED
      BY <2>6, <3>2, <3>3
  <2> QED
    BY <2>7, <2>8, <2>9 DEF NamesWhole, Published, PublishedNext
<1> QED
  BY <1>4, <1>5

(* A header written to a synced file seals what the others do. *)
LEMMA HeadersStep ==
  ASSUME DurableInv, StoreStep, Shape', PublishedKept
  PROVE  HeadersWhole'
<1> SUFFICES ASSUME NEW i \in Inode, Synced(i)', NEW h \in headers'[i]
             PROVE  SameSeal(h, header'[i])
  BY DEF HeadersWhole, SameSeal, read_header
<1>1. SameSeal(header'[i], header'[i])
  <2>1. header'[i] # None
    BY DEF Synced, Published, Shape, CallShape, OwnsTemp, AllocStates
  <2> QED
    BY <2>1 DEF Shape, FileShape, HeadersValid, SameSeal, read_header
<1>2. CASE h # header'[i]
  <2>1. h \in headers[i] /\ ~ \E p \in Proc : fsync(p) /\ fd[p] = i
    BY <1>2 DEF StoreStep
  <2>2. Synced(i) /\ (Published(i) \/ header'[i] = header[i])
    BY <2>1, SyncedStep DEF StoreStep, DurableInv
  <2>3. SameSeal(h, header[i])
    BY <2>1, <2>2 DEF DurableInv, HeadersWhole
  <2>4. /\ header'[i].total_size = header[i].total_size
        /\ header'[i].password = header[i].password
        /\ header'[i].xts_key = header[i].xts_key
    BY <2>2 DEF PublishedKept
  <2> QED
    BY <2>3, <2>4 DEF SameSeal
<1> QED
  BY <1>1, <1>2

(* A step of a process keeps DurableInv. *)
LEMMA DurableStoreStep ==
  ASSUME DurableInv, StoreStep
  PROVE  DurableInv' /\ PublishedKept
<1>1. Shape' /\ PublishedKept
  BY ShapeNext DEF DurableInv, StoreStep
<1> QED
  BY <1>1, TypedStep, NamesStep, HeadersStep DEF DurableInv

-----------------------------------------------------------------------------
(* Power failure                                                           *)

(* Every published file keeps its seal. *)
SealsKept == \A i \in Inode : Published(i) => SameSeal(header'[i], header[i])

(* The files that a power failure leaves. *)
LEMMA PowerLossFiles ==
  ASSUME DurableInv, PowerLoss
  PROVE  /\ SealsKept
         /\ dir' \in Inode \cup {None}
         /\ temps' \subseteq created /\ temps \subseteq temps'
         /\ dir' # None => Published(dir') /\ dir' \notin temps'
         /\ \A i \in Inode : ~Published(i) => header'[i] = header[i]
         /\ header' \in [Inode -> FileHeader \cup {None}]
         /\ data' \in [Inode -> [Block -> Content]]
         /\ log' \in [Inode -> Seq(Record)]
         /\ \A i \in Inode : i \notin created \ temps' => log'[i] = <<>>
<1>1. /\ names \in Seq(Inode \cup {None}) /\ Len(names) \in Nat
      /\ \A m \in 1 .. Len(names) : names[m] \in Inode \cup {None}
  BY SMTT(30) DEF DurableInv, DiskTyped
<1>2. /\ header \in [Inode -> FileHeader \cup {None}]
      /\ data \in [Inode -> [Block -> Content]]
      /\ log \in [Inode -> Seq(Record)]
      /\ temps \subseteq created
  BY DEF DurableInv, Shape, TypeOK, FilesTyped, FileHeader
<1>3. PICK n \in 1 .. Len(names) :
        LET undone == {names[m] : m \in (n + 1) .. Len(names)}
        IN  /\ dir' = names[n]
            /\ temps' = temps \cup undone
            /\ IF names[n] = None THEN RestartEmpty(undone) ELSE Restart(names[n], undone)
  BY DEF PowerLoss
<1> DEFINE undone == {names[m] : m \in (n + 1) .. Len(names)}
<1>4. \A i \in undone : i \in Inode /\ Published(i) /\ i # names[n]
  <2> SUFFICES ASSUME NEW m \in (n + 1) .. Len(names)
               PROVE  names[m] \in Inode /\ Published(names[m]) /\ names[m] # names[n]
    OBVIOUS
  <2>1. m \in 1 .. Len(names) /\ n < m
    BY SMTT(30), <1>1
  <2> QED
    BY <1>1, <2>1 DEF DurableInv, NamesWhole
<1>5. /\ dir' = names[n]
      /\ temps' = temps \cup undone
      /\ names[n] = None => RestartEmpty(undone)
      /\ names[n] # None => Restart(names[n], undone)
  BY <1>3
<1> HIDE DEF undone
<1>6. names[n] # None => names[n] \in Inode /\ Published(names[n])
  BY <1>1 DEF DurableInv, NamesWhole
<1>7. /\ dir' \in Inode \cup {None}
      /\ temps' \subseteq created /\ temps \subseteq temps'
      /\ dir' # None => Published(dir') /\ dir' \notin temps'
  BY <1>1, <1>2, <1>4, <1>5, <1>6 DEF Published
<1>8. \A i \in Inode : Published(i) => SameSeal(header[i], header[i])
  BY SyncedHeader DEF DurableInv, Synced
<1>9. \A i \in Inode : i \notin created \ temps => log[i] = <<>>
  BY DEF DurableInv, Shape, FileShape, FreshFiles
<1>10. CASE names[n] = None
  <2>1. /\ header' = header /\ data' = data
        /\ log' = [j \in Inode |-> IF j \in undone THEN <<>> ELSE log[j]]
    BY <1>5, <1>10 DEF RestartEmpty
  <2>2. log' \in [Inode -> Seq(Record)]
    BY SMTT(30), <1>2, <2>1
  <2>3. \A i \in Inode : i \notin created \ temps' => log'[i] = <<>>
    BY <1>5, <1>9, <2>1
  <2> QED
    BY <1>2, <1>7, <1>8, <2>1, <2>2, <2>3 DEF SealsKept
<1>11. CASE names[n] # None
  <2> DEFINE f == names[n]
  <2>1. f \in Inode /\ Published(f) /\ f \notin undone
    BY <1>4, <1>6, <1>11
  <2>2. PICK h \in headers[f], d \in Outcomes(blocks[f]), k \in 0 .. Len(log[f]) :
          /\ header' = [header EXCEPT ![f] = h]
          /\ data' = [data EXCEPT ![f] = d]
          /\ log' = [j \in Inode |-> IF j = f THEN SubSeq(log[f], 1, k)
                                     ELSE IF j \in undone THEN <<>> ELSE log[j]]
    BY <1>5, <1>11 DEF Restart
  <2> HIDE DEF f
  <2>3. h \in FileHeader \cup {None} /\ SameSeal(h, header[f])
    BY <2>1 DEF DurableInv, DiskTyped, HeadersWhole, Synced
  <2>4. d \in [Block -> Content]
    <3>1. blocks[f] \in [Block -> SUBSET Content]
      BY <2>1 DEF DurableInv, DiskTyped
    <3>2. DOMAIN d = Block /\ d = [b \in Block |-> d[b]] /\ \A b \in Block : d[b] \in blocks[f][b]
      BY DEF Outcomes
    <3> QED
      BY <3>1, <3>2
  <2>5. SubSeq(log[f], 1, k) \in Seq(Record)
    BY SMTT(30), <1>2, <2>1
  <2>6. /\ header' \in [Inode -> FileHeader \cup {None}]
        /\ data' \in [Inode -> [Block -> Content]]
    BY <1>2, <2>2, <2>3, <2>4
  <2>7. log' \in [Inode -> Seq(Record)]
    BY SMTT(30), <1>2, <2>2, <2>5
  <2>8. SealsKept /\ \A i \in Inode : ~Published(i) => header'[i] = header[i]
    BY <1>2, <1>8, <2>1, <2>2, <2>3 DEF SealsKept
  <2>9. \A i \in Inode : i \notin created \ temps' => log'[i] = <<>>
    BY <1>5, <1>9, <2>1, <2>2 DEF Published
  <2> QED
    BY <1>7, <2>6, <2>7, <2>8, <2>9
<1> QED
  BY <1>10, <1>11

(* A restart keeps the invariant: no process runs, and the file under the  *)
(* path is whole.                                                          *)
LEMMA DurablePowerLoss ==
  ASSUME DurableInv, PowerLoss
  PROVE  DurableInv' /\ SealsKept
<1>1. /\ SealsKept
      /\ dir' \in Inode \cup {None}
      /\ temps' \subseteq created /\ temps \subseteq temps'
      /\ dir' # None => Published(dir') /\ dir' \notin temps'
      /\ \A i \in Inode : ~Published(i) => header'[i] = header[i]
      /\ header' \in [Inode -> FileHeader \cup {None}]
      /\ data' \in [Inode -> [Block -> Content]]
      /\ log' \in [Inode -> Seq(Record)]
      /\ \A i \in Inode : i \notin created \ temps' => log'[i] = <<>>
  BY PowerLossFiles
<1>2. /\ pc' = [p \in Proc |-> "idle"]
      /\ arg' = [p \in Proc |-> NoCall]
      /\ fd' = [p \in Proc |-> None]
      /\ hdr' = [p \in Proc |-> None]
      /\ cur' = [p \in Proc |-> 0]
      /\ found' = [p \in Proc |-> None]
      /\ since' = [p \in Proc |-> 0]
      /\ ret' = [p \in Proc |-> "none"]
      /\ created' = created
  BY DEF PowerLoss
<1>3. TypeOK'
  <2>1. FilesTyped'
    BY <1>1, <1>2 DEF FilesTyped, FileHeader, DurableInv, Shape, TypeOK
  <2>2. NoCall \in Call
    BY SMTT(30) DEF NoCall, Call
  <2>3. CallsTyped'
    BY SMTT(30), <1>2, <2>2 DEF CallsTyped, States
  <2> QED
    BY <2>1, <2>3 DEF TypeOK
<1>4. \A i \in Inode : header'[i] # None => read_header(header'[i]) /\ header'[i].xts_key = i
  <2> SUFFICES ASSUME NEW i \in Inode, header'[i] # None
               PROVE  read_header(header'[i]) /\ header'[i].xts_key = i
    OBVIOUS
  <2>1. CASE Published(i)
    BY <1>1, <2>1 DEF SealsKept, SameSeal, Published, DurableInv, Shape, FileShape, HeadersValid
  <2>2. CASE ~Published(i)
    <3>1. header'[i] = header[i]
      BY <1>1, <2>2
    <3>2. read_header(header[i]) /\ header[i].xts_key = i
      BY <3>1 DEF DurableInv, Shape, FileShape, HeadersValid
    <3> QED
      BY <3>1, <3>2
  <2> QED
    BY <2>1, <2>2
<1>5. FileShape'
  <2>1. FreshFiles'
    BY <1>1, <1>2 DEF FreshFiles, DurableInv, Shape, FileShape, Published
  <2>2. HeadersValid'
    BY <1>4 DEF HeadersValid, read_header
  <2>3. DirPublished'
    BY <1>1, <1>2, StoreAssumption DEF DirPublished, Published, SealsKept, SameSeal
  <2> QED
    BY <2>1, <2>2, <2>3 DEF FileShape
<1>6. TempsDistinct' /\ \A p \in Proc : CallShape(p)'
  BY SMTT(30), <1>2 DEF TempsDistinct, CallShape, OwnsTemp, OpensPublished, CopiedHeader, WritesInside,
     HasOpen, NoCall, AllocStates, SetStates, GetStates
<1>7. Shape'
  BY <1>3, <1>5, <1>6 DEF Shape
<1>8. /\ names' = <<dir'>>
      /\ headers' = [i \in Inode |-> {header'[i]}]
      /\ blocks' = [i \in Inode |-> [b \in Block |-> {data'[i][b]}]]
  BY DEF PowerLoss
<1>9. DiskTyped'
  <2>1. names' \in Seq(Inode \cup {None})
    BY SMTT(30), <1>1, <1>8
  <2>2. headers' \in [Inode -> SUBSET (FileHeader \cup {None})]
    BY <1>1, <1>8
  <2>3. \A i \in Inode, b \in Block : {data'[i][b]} \in SUBSET Content
    <3> SUFFICES ASSUME NEW i \in Inode, NEW b \in Block PROVE data'[i][b] \in Content
      OBVIOUS
    <3>1. data'[i] \in [Block -> Content]
      BY <1>1
    <3> QED
      BY <3>1
  <2>4. blocks' \in [Inode -> [Block -> SUBSET Content]]
    BY <1>8, <2>3
  <2> QED
    BY <2>1, <2>2, <2>4 DEF DiskTyped
<1>10. NamesWhole'
  <2>1. /\ names' # <<>> /\ Len(names') = 1 /\ names'[1] = dir'
        /\ \A m, n \in 1 .. Len(names') : m = 1 /\ n = 1 /\ ~(m < n)
    BY SMTT(30), <1>8
  <2>2. dir' # None => PublishedNext(dir')
    BY <1>5 DEF FileShape, DirPublished, Published, PublishedNext
  <2>3. \A n \in 1 .. Len(names') : names'[n] # None => PublishedNext(names'[n])
    BY <2>1, <2>2
  <2> QED
    BY <2>1, <2>3 DEF NamesWhole, Published, PublishedNext
<1>11. HeadersWhole'
  <2> SUFFICES ASSUME NEW i \in Inode, Synced(i)', NEW h \in headers'[i]
               PROVE  SameSeal(h, header'[i])
    BY DEF HeadersWhole, SameSeal, read_header
  <2>1. h = header'[i]
    BY <1>8
  <2>2. header'[i] # None
    BY <1>2 DEF Synced, Published
  <2> QED
    BY <1>4, <2>1, <2>2 DEF SameSeal
<1> QED
  BY <1>1, <1>7, <1>9, <1>10, <1>11 DEF DurableInv

-----------------------------------------------------------------------------
(* The theorems                                                            *)

(* DurableInv holds before the first call. *)
LEMMA DurableInitInv == DurableInit => DurableInv
<1> SUFFICES ASSUME DurableInit PROVE DurableInv
  OBVIOUS
<1>1. Shape
  BY ShapeInit DEF DurableInit
<1>2. DiskTyped
  BY SMTT(30) DEF DurableInit, DiskTyped, Content
<1>3. NamesWhole
  BY SMTT(30) DEF DurableInit, Init, NamesWhole
<1>4. HeadersWhole
  BY SMTT(30) DEF DurableInit, Init, HeadersWhole, Synced, Published
<1> QED
  BY <1>1, <1>2, <1>3, <1>4 DEF DurableInv

(* Every step, power failures included, keeps the invariant and the seals. *)
LEMMA DurableStep ==
  ASSUME DurableInv, [DurableNext]_durableVars
  PROVE  DurableInv' /\ SealsKept
<1>1. CASE StoreStep
  <2>1. DurableInv' /\ PublishedKept
    BY <1>1, DurableStoreStep
  <2>2. SealsKept
    BY <2>1 DEF SealsKept, SameSeal, PublishedKept, Published, DurableInv, Shape, FileShape,
       HeadersValid, read_header
  <2> QED
    BY <2>1, <2>2
<1>2. CASE PowerLoss
  BY <1>2, DurablePowerLoss
<1>3. CASE UNCHANGED durableVars
  <2>1. UNCHANGED vars /\ UNCHANGED diskVars
    BY <1>3 DEF durableVars
  <2>2. Shape' /\ PublishedKept
    BY <2>1, ShapeNext DEF DurableInv
  <2>3. DiskTyped' /\ NamesWhole' /\ HeadersWhole'
    BY <2>1 DEF DurableInv, DiskTyped, NamesWhole, HeadersWhole, Published, Synced, SameSeal,
       read_header, vars, diskVars
  <2>4. SealsKept
    BY <2>1, SyncedHeader DEF SealsKept, DurableInv, Synced, vars
  <2> QED
    BY <2>2, <2>3, <2>4 DEF DurableInv
<1> QED
  BY <1>1, <1>2, <1>3 DEF DurableNext

(* The inductive invariant of the store and of what the disk may hold. *)
THEOREM DurableInvariant == DurableSpec => []DurableInv
<1>1. DurableInv /\ [DurableNext]_durableVars => DurableInv'
  BY DurableStep
<1> QED
  BY <1>1, DurableInitInv, PTL DEF DurableSpec

(* Power may fail at any step of any overlapping calls, with any part of   *)
(* what was written lost: the path names nothing or a whole store, since   *)
(* padlock_allocate calls fsync before rename.                             *)
THEOREM WholeStoreOnDisk == DurableSpec => []PathNamesWholeStore
<1>1. DurableInv => PathNamesWholeStore
  BY DEF DurableInv, Shape, TypeOK, FilesTyped, FileShape, DirPublished, Published, HeadersValid,
     PathNamesWholeStore
<1> QED
  BY <1>1, DurableInvariant, PTL

(* No power failure brings back a header with another size, password or    *)
(* key than the one the store was allocated with.                          *)
THEOREM SealedOnDisk == DurableSpec => SealedKeyIsStable
<1> DEFINE Stable == \A i \in Inode : Published(i) =>
       /\ header'[i] # None
       /\ [header'[i] EXCEPT !.write_offset = 0] = [header[i] EXCEPT !.write_offset = 0]
<1>1. ASSUME DurableInv, [DurableNext]_durableVars PROVE Stable
  <2> SUFFICES ASSUME NEW i \in Inode, Published(i)
               PROVE  /\ header'[i] # None
                      /\ [header'[i] EXCEPT !.write_offset = 0] = [header[i] EXCEPT !.write_offset = 0]
    OBVIOUS
  <2>1. DurableInv' /\ SealsKept
    BY <1>1, DurableStep
  <2>2. SameSeal(header'[i], header[i])
    BY <2>1 DEF SealsKept
  <2>3. header[i] \in FileHeader /\ header'[i] \in FileHeader
    BY <1>1, <2>1, <2>2 DEF DurableInv, Shape, TypeOK, FilesTyped, Published, FileHeader, SameSeal
  <2> QED
    BY SMTT(30), <2>2, <2>3 DEF SameSeal, FileHeader
<1>2. DurableInv /\ [DurableNext]_durableVars => [Stable]_vars
  BY <1>1
<1> QED
  BY <1>2, DurableInvariant, PTL DEF DurableSpec, SealedKeyIsStable

-----------------------------------------------------------------------------
(* SurvivorsStay, when sets do not overlap.                                *)

(* How a step of a process may change a published file. *)
LEMMA FileSteps ==
  ASSUME Shape, Next, NEW i \in Inode, Published(i)
  PROVE  \/ header'[i] = header[i] /\ log'[i] = log[i] /\ data'[i] = data[i]
         \/ \E p \in Proc : fd[p] = i /\ SetWriteBlock(p)
         \/ \E p \in Proc : fd[p] = i /\ (SetWriteHeader(p) \/ SetClose(p))
<1> DEFINE Same == header'[i] = header[i] /\ log'[i] = log[i] /\ data'[i] = data[i]
<1> USE DEF Shape, TypeOK, FilesTyped
<1>1. ASSUME NEW p \in Proc, AllocNext(p) PROVE Same
  <2>1. pc[p] \in AllocStates => fd[p] # i
    BY OwnedTemp
  <2> QED
    BY <1>1, <2>1 DEF AllocNext, AllocRefused, Refuse, AllocBegin, AllocFill, AllocSync, AllocRename,
       Completed, AllocFail, AllocStates, fileVars
<1>2. ASSUME NEW p \in Proc, SetNext(p)
      PROVE  Same \/ (fd[p] = i /\ (SetWriteBlock(p) \/ SetWriteHeader(p) \/ SetClose(p)))
  <2>1. ASSUME SetWriteBlock(p), fd[p] # i PROVE Same
    BY <2>1 DEF SetWriteBlock
  <2>2. ASSUME SetWriteHeader(p) \/ SetClose(p), fd[p] # i PROVE Same
    BY <2>2 DEF SetWriteHeader, SetClose, WriteBack
  <2> QED
    BY <1>2, <2>1, <2>2 DEF SetNext, SetRefused, Refuse, SetBegin, SetReadHeader, SetReject,
       SetBufferHeader, SetCloseLost, SetFail, fileVars
<1>3. ASSUME NEW p \in Proc, GetNext(p) PROVE Same
  BY <1>3 DEF GetNext, GetRefused, Refuse, GetBegin, GetReadHeader, GetReject, GetRecord,
     GetGarbage, GetCorrupt, GetReturn, GetFail, fileVars
<1>4. ASSUME NEW p \in Proc, Return(p) \/ Kill(p) PROVE Same
  BY <1>4 DEF Return, Kill, Forget, fileVars
<1> QED
  BY <1>1, <1>2, <1>3, <1>4 DEF Next

(* Where a process that is inside padlock_set after a step comes from. *)
LEMMA SetOrigin ==
  ASSUME SerialSets, Shape, Next, NEW q \in Proc, pc'[q] \in SetStates
  PROVE  \/ pc[q] \in SetStates /\ fd'[q] = fd[q] /\ (pc'[q] = pc[q] \/ pc[q] = "set_data") /\ hdr'[q] = hdr[q]
         \/ SetReadHeader(q)
         \/ pc'[q] = "set_header" /\ NoOtherSet(q) /\ \A r \in Proc \ {q} : pc'[r] = pc[r]
<1> DEFINE Stays == pc[q] = pc'[q] /\ fd'[q] = fd[q] /\ hdr'[q] = hdr[q]
<1> USE DEF Shape, TypeOK, CallsTyped, Finish, SetStates
<1>1. ASSUME NEW p \in Proc, AllocNext(p) PROVE Stays
  BY SMTT(30), <1>1 DEF AllocNext, AllocRefused, Refuse, AllocBegin, AllocFill, AllocSync, AllocRename,
     Completed, AllocFail, AllocStates
<1>2. ASSUME NEW p \in Proc, GetNext(p) \/ Return(p) \/ Kill(p) PROVE Stays
  BY SMTT(30), <1>2 DEF GetNext, GetRefused, Refuse, GetBegin, GetReadHeader, GetReject, GetRecord,
     GetGarbage, GetCorrupt, GetReturn, GetFail, Scanning, Return, Kill, Forget
<1>3. ASSUME NEW p \in Proc, SetNext(p), q # p PROVE Stays
  BY SMTT(30), <1>3 DEF SetNext, SetRefused, Refuse, SetBegin, SetReadHeader, SetReject, SetWriteBlock,
     SetWriteHeader, SetBufferHeader, SetClose, SetCloseLost, SetFail
<1>4. ASSUME SetNext(q)
      PROVE  \/ Stays
             \/ SetBufferHeader(q)
             \/ SetReadHeader(q)
             \/ \E k \in Key, v \in Value, password \in Password : SetBegin(q, k, v, password)
  BY SMTT(30), <1>4 DEF SetNext, SetRefused, Refuse, SetReject, SetWriteBlock,
     SetWriteHeader, SetClose, SetCloseLost, SetFail
<1>5. ASSUME SetBufferHeader(q)
      PROVE  pc[q] = "set_data" /\ fd'[q] = fd[q] /\ hdr'[q] = hdr[q]
  BY <1>5 DEF SetBufferHeader, DataWritten
<1>6. ASSUME NEW k \in Key, NEW v \in Value, NEW password \in Password, SetBegin(q, k, v, password)
      PROVE  pc'[q] = "set_header" /\ NoOtherSet(q) /\ \A r \in Proc \ {q} : pc'[r] = pc[r]
  BY <1>6 DEF SetBegin
<1> QED
  BY <1>1, <1>2, <1>3, <1>4, <1>5, <1>6 DEF Next

(* Sets still do not overlap after a step, and a set's copy of the header  *)
(* is still that of its file.                                              *)
LEMMA SetsStep ==
  ASSUME SerialSets, Shape, OneSet, CopiesCurrent, Next
  PROVE  OneSet' /\ CopiesCurrent'
<1>1. ASSUME NEW p \in Proc, NEW q \in Proc, pc'[p] \in SetStates, pc'[q] \in SetStates PROVE p = q
  <2>1. ASSUME NEW r \in Proc, pc'[r] \in SetStates
        PROVE  \/ pc[r] \in SetStates
               \/ NoOtherSet(r) /\ \A x \in Proc \ {r} : pc'[x] = pc[x]
    BY <2>1, SetOrigin DEF SetReadHeader, SetStates
  <2> QED
    BY <1>1, <2>1 DEF OneSet, NoOtherSet
<1>2. ASSUME NEW q \in Proc, pc'[q] \in {"set_data", "set_close"} PROVE hdr'[q] = header'[fd'[q]]
  <2>1. pc'[q] \in SetStates
    BY <1>2 DEF SetStates
  <2>2. CASE SetReadHeader(q)
    BY <2>2 DEF SetReadHeader, Shape, TypeOK, CallsTyped, fileVars
  <2>3. CASE pc[q] \in SetStates /\ fd'[q] = fd[q] /\ (pc'[q] = pc[q] \/ pc[q] = "set_data") /\ hdr'[q] = hdr[q]
    <3>1. pc[q] \in {"set_data", "set_close"}
      BY <1>2, <2>3
    <3>2. hdr[q] = header[fd[q]]
      BY <2>3, <3>1 DEF CopiesCurrent, SetStates
    <3>3. fd[q] \in Inode /\ Published(fd[q])
      BY <2>3, OpenedHeader
    <3>4. ASSUME NEW p \in Proc, fd[p] = fd[q], SetWriteHeader(p) \/ SetClose(p) PROVE FALSE
      <4>1. pc[p] \in SetStates /\ pc'[p] = "done"
        BY <3>4 DEF SetWriteHeader, SetClose, DataWritten, SetStates, Finish, Shape, TypeOK, CallsTyped
      <4> QED
        BY <1>2, <2>3, <4>1 DEF OneSet
    <3>5. header'[fd[q]] = header[fd[q]]
      BY <3>3, <3>4, FileSteps DEF SetWriteBlock
    <3> QED
      BY <2>3, <3>2, <3>5
  <2> QED
    BY <1>2, <2>1, <2>2, <2>3, SetOrigin
<1> QED
  BY <1>1, <1>2 DEF OneSet, CopiesCurrent

(* One more record at the end of a log that tiles. *)
LEMMA AppendTiles ==
  ASSUME NEW s \in Seq(Record), NEW r \in Record, Tiles(s), r.offset = EndOf(s, Len(s)),
         blocks_of(r.key, r.value) >= 1
  PROVE  /\ Tiles(Append(s, r))
         /\ EndOf(Append(s, r), Len(s) + 1) = r.offset + blocks_of(r.key, r.value)
<1> DEFINE t == Append(s, r)
<1>1. /\ t \in Seq(Record) /\ Len(s) \in Nat /\ Len(t) = Len(s) + 1 /\ t[Len(s) + 1] = r
      /\ \A n \in 1 .. Len(s) : t[n] = s[n]
  BY SMTT(30)
<1>2. \A n \in 0 .. Len(s) : EndOf(t, n) = EndOf(s, n) /\ EndOf(s, n) \in Nat
  BY PrefixKept, EndsNat
<1>3. blocks_of(r.key, r.value) \in Nat /\ r.offset \in Nat
  BY BlocksType DEF Record
<1> HIDE DEF t
<1>4. EndOf(t, Len(s) + 1) = r.offset + blocks_of(r.key, r.value)
  BY SMTT(30), <1>1 DEF EndOf
<1>5. ASSUME NEW n \in 1 .. Len(t)
      PROVE  blocks_of(t[n].key, t[n].value) >= 1 /\ t[n].offset = EndOf(t, n - 1)
  <2>1. CASE n = Len(s) + 1
    BY SMTT(30), <1>1, <1>2, <2>1
  <2>2. CASE n # Len(s) + 1
    <3>1. n \in 1 .. Len(s) /\ n - 1 \in 0 .. Len(s)
      BY SMTT(30), <1>1, <2>2
    <3> QED
      BY <1>1, <1>2, <3>1 DEF Tiles
  <2> QED
    BY <2>1, <2>2
<1>6. ASSUME NEW m \in 0 .. Len(t), NEW n \in 0 .. Len(t), m < n PROVE EndOf(t, m) < EndOf(t, n)
  <2>1. m \in 0 .. Len(s) /\ (n \in 0 .. Len(s) \/ n = Len(s) + 1)
    BY SMTT(30), <1>1, <1>6
  <2>2. CASE n \in 0 .. Len(s)
    BY <1>2, <1>6, <2>1, <2>2 DEF Tiles
  <2>3. CASE n = Len(s) + 1
    <3>1. EndOf(s, m) <= EndOf(s, Len(s))
      BY SMTT(30), <1>1, <1>2, <2>1 DEF Tiles
    <3> QED
      BY SMTT(30), <1>1, <1>2, <1>3, <1>4, <2>1, <2>3, <3>1
  <2> QED
    BY <2>1, <2>2, <2>3
<1> QED
  BY <1>4, <1>5, <1>6 DEF Tiles, t

(* The first records of a log that tiles. *)
LEMMA PrefixTiles ==
  ASSUME NEW s \in Seq(Record), Tiles(s), NEW k \in 0 .. Len(s)
  PROVE  /\ Tiles(SubSeq(s, 1, k)) /\ Len(SubSeq(s, 1, k)) = k
         /\ \A n \in 1 .. k : SubSeq(s, 1, k)[n] = s[n]
         /\ \A n \in 0 .. k : EndOf(SubSeq(s, 1, k), n) = EndOf(s, n)
<1> DEFINE t == SubSeq(s, 1, k)
<1>1. /\ Len(s) \in Nat /\ k \in Nat /\ Len(t) = k
      /\ \A n \in 1 .. k : t[n] = s[n]
  BY SMTT(30)
<1> HIDE DEF t
<1>2. \A n \in 0 .. k : EndOf(t, n) = EndOf(s, n) /\ n \in 0 .. Len(s)
  BY SMTT(30), <1>1 DEF EndOf
<1>3. ASSUME NEW n \in 1 .. k
      PROVE  blocks_of(t[n].key, t[n].value) >= 1 /\ t[n].offset = EndOf(t, n - 1)
  <2>1. n \in 1 .. Len(s) /\ n - 1 \in 0 .. k
    BY SMTT(30), <1>1
  <2> QED
    BY <1>1, <1>2, <2>1 DEF Tiles
<1>4. \A m, n \in 0 .. k : m < n => EndOf(t, m) < EndOf(t, n)
  BY <1>2 DEF Tiles
<1> QED
  BY <1>1, <1>2, <1>3, <1>4 DEF Tiles, t

(* No record ends after the last one. *)
LEMMA EndsInside ==
  ASSUME NEW s \in Seq(Record), Tiles(s), NEW n \in 0 .. Len(s)
  PROVE  EndOf(s, n) <= EndOf(s, Len(s))
<1>1. Len(s) \in Nat /\ EndOf(s, n) \in Nat /\ Len(s) \in 0 .. Len(s)
  BY SMTT(30), EndsNat
<1>2. n < Len(s) => EndOf(s, n) < EndOf(s, Len(s))
  BY <1>1 DEF Tiles
<1>3. EndOf(s, Len(s)) \in Nat
  BY <1>1, EndsNat
<1> QED
  BY SMTT(30), <1>1, <1>2, <1>3

(* Where an allocation that runs after a step comes from. *)
LEMMA AllocOrigin ==
  ASSUME Shape, Next, NEW q \in Proc, pc'[q] \in AllocStates
  PROVE  (pc[q] \in AllocStates /\ fd'[q] = fd[q]) \/ fd'[q] \in Inode \ created
<1> USE DEF Shape, TypeOK, CallsTyped, Finish, AllocStates
<1>1. ASSUME NEW p \in Proc, AllocNext(p)
      PROVE  (pc[q] \in AllocStates /\ fd'[q] = fd[q]) \/ fd'[q] \in Inode \ created
  BY SMTT(30), <1>1 DEF AllocNext, AllocRefused, Refuse, AllocBegin, AllocFill, AllocSync, AllocRename,
     Completed, AllocFail
<1>2. ASSUME NEW p \in Proc, SetNext(p) PROVE pc[q] \in AllocStates /\ fd'[q] = fd[q]
  BY SMTT(30), <1>2 DEF SetNext, SetRefused, Refuse, SetBegin, SetReadHeader, SetReject, SetWriteBlock,
     SetWriteHeader, SetBufferHeader, SetClose, SetCloseLost, SetFail
<1>3. ASSUME NEW p \in Proc, GetNext(p) \/ Return(p) \/ Kill(p)
      PROVE  pc[q] \in AllocStates /\ fd'[q] = fd[q]
  BY SMTT(30), <1>3 DEF GetNext, GetRefused, Refuse, GetBegin, GetReadHeader, GetReject, GetRecord,
     GetGarbage, GetCorrupt, GetReturn, GetFail, Scanning, Return, Kill, Forget
<1> QED
  BY <1>1, <1>2, <1>3 DEF Next

(* Files stay created. *)
LEMMA CreatedStep == ASSUME Next PROVE created \subseteq created'
BY LoudSteps DEF AllocBegin, AllocFill, AllocRename, AllocFail, SetWriteHeader, SetClose

(* NewFiles is kept: an allocation works on a file without survivors, and  *)
(* fsync leaves the disk one header of it.                                 *)
LEMMA NewFilesStep ==
  ASSUME DurableInv, NewFiles, StoreStep, Shape'
  PROVE  NewFiles'
<1>1. Shape /\ Next /\ survived' = survived
  BY DEF DurableInv, StoreStep
<1>2. \A i \in Inode : i \notin created' => survived'[i] = {}
  BY <1>1, CreatedStep DEF NewFiles
<1>3. \A p \in Proc : pc'[p] \in AllocStates => survived'[fd'[p]] = {}
  BY <1>1, AllocOrigin DEF NewFiles
<1>4. ASSUME NEW p \in Proc, pc'[p] = "alloc_rename" PROVE headers'[fd'[p]] = {header'[fd'[p]]}
  <2>1. fd'[p] = fd[p] /\ (pc[p] = "alloc_rename" \/ fsync(p)) /\ pc[p] \in AllocStates
    BY <1>1, <1>4, RenameReady DEF fsync, AllocStates
  <2>2. fd[p] \in Inode
    BY <1>1, <2>1, OwnedTemp
  <2>3. CASE fsync(p)
    BY <2>1, <2>2, <2>3 DEF StoreStep
  <2>4. CASE pc[p] = "alloc_rename"
    <3>1. header'[fd[p]] = header[fd[p]] /\ headers[fd[p]] = {header[fd[p]]}
      BY <1>1, <1>4, <2>4, WaitingHeader DEF NewFiles
    <3> QED
      BY <2>1, <2>2, <3>1 DEF StoreStep
  <2> QED
    BY <2>1, <2>3, <2>4
<1> QED
  BY <1>2, <1>3, <1>4 DEF NewFiles

(* What a step of a process may leave of a published file on the disk. *)
LEMMA DiskStep ==
  ASSUME Shape, StoreStep, NEW i \in Inode, Published(i)
  PROVE  /\ \A h \in headers'[i] : h \in headers[i] \/ h = header'[i]
         /\ \A b \in Block : blocks'[i][b] = blocks[i][b] \cup {data'[i][b]}
<1>1. \A p \in Proc : fsync(p) => fd[p] # i
  BY OwnedTemp DEF fsync, AllocStates
<1> QED
  BY <1>1 DEF StoreStep

(* The files that have the name after a step of a process. *)
LEMMA NamedStep ==
  ASSUME DurableInv, StoreStep, NEW i \in Named'
  PROVE  \/ i \in Named /\ i \in Inode /\ Published(i)
         \/ i \in Inode /\ \E p \in Proc : AllocRename(p) /\ fd[p] = i
<1>1. /\ names \in Seq(Inode \cup {None}) /\ Len(names) \in Nat /\ Shape /\ Next
      /\ \A m \in 1 .. Len(names) : names[m] \in Inode \cup {None}
  BY SMTT(30) DEF DurableInv, DiskTyped, StoreStep
<1>2. i # None
  BY DEF Named
<1>3. ASSUME NEW m \in 1 .. Len(names), i = names[m] PROVE i \in Named /\ i \in Inode /\ Published(i)
  BY <1>1, <1>2, <1>3 DEF Named, DurableInv, NamesWhole
<1>4. CASE dir' = dir
  BY <1>3, <1>4 DEF Named, StoreStep
<1>5. CASE dir' # dir
  <2>1. PICK p \in Proc : AllocRename(p)
    BY <1>1, <1>5, LoudSteps DEF AllocBegin, AllocFill, AllocFail, SetWriteHeader, SetClose
  <2>2. dir' = fd[p] /\ fd[p] \in Inode
    BY <1>1, <2>1, OwnedTemp DEF AllocRename, Completed, AllocStates
  <2>3. names' = Append(names, dir')
    BY <1>5 DEF StoreStep
  <2>4. \A m \in 1 .. Len(names') : (m \in 1 .. Len(names) /\ names'[m] = names[m]) \/ names'[m] = dir'
    BY SMTT(30), <1>1, <2>2, <2>3
  <2> QED
    BY <1>3, <2>1, <2>2, <2>4 DEF Named
<1> QED
  BY <1>4, <1>5

(* The file i is whole on the disk: what SurvivorsInv says of a named file. *)
FileOnDisk(i) == LogTiles(i) /\ HeadersEndRecords(i) /\ \A r \in survived[i] : OnDisk(i, r)

(* The end of a record that is on the disk, as a number. *)
LEMMA OnDiskEnds ==
  ASSUME NEW i, log[i] \in Seq(Record), LogTiles(i), NEW r, OnDisk(i, r)
  PROVE  /\ r \in Record /\ r.offset \in Nat /\ blocks_of(r.key, r.value) \in Nat
         /\ r.offset + blocks_of(r.key, r.value) <= header[i].write_offset
<1>1. PICK n \in 1 .. Len(log[i]) : log[i][n] = r
  BY DEF OnDisk
<1>2. n \in 0 .. Len(log[i]) /\ r \in Record /\ n # 0
  BY SMTT(30), <1>1
<1>3. r.offset \in Nat /\ blocks_of(r.key, r.value) \in Nat
  BY <1>2, BlocksType DEF Record
<1>4. EndOf(log[i], n) <= header[i].write_offset
  BY <1>2, EndsInside DEF LogTiles
<1> QED
  BY <1>1, <1>2, <1>3, <1>4 DEF EndOf

(* A step that changes no record of the file, and no block of a record. *)
LEMMA UntouchedFile ==
  ASSUME NEW i \in Inode, StoreStep, Shape, Published(i), FileOnDisk(i), header'[i] = header[i],
         log'[i] = log[i],
         \A r \in survived[i] : \A j \in 0 .. (blocks_of(r.key, r.value) - 1) :
           data'[i][r.offset + j] = data[i][r.offset + j]
  PROVE  FileOnDisk(i)'
<1>1. log[i] \in Seq(Record) /\ survived'[i] = survived[i] /\ LogTiles(i)
  BY DEF Shape, TypeOK, FilesTyped, StoreStep, FileOnDisk
<1>2. Len(log[i]) \in 0 .. Len(log[i])
  BY SMTT(30), <1>1
<1>3. LogTiles(i)'
  BY <1>1 DEF LogTiles
<1>4. \A h \in headers'[i] : \E n \in 0 .. Len(log[i]) : h.write_offset = EndOf(log[i], n)
  BY <1>1, <1>2, DiskStep DEF LogTiles, FileOnDisk, HeadersEndRecords
<1>5. ASSUME NEW r \in survived[i] PROVE OnDisk(i, r)'
  <2>1. OnDisk(i, r) /\ r.offset + blocks_of(r.key, r.value) <= header[i].write_offset
    BY <1>1, OnDiskEnds DEF FileOnDisk
  <2>2. \A h \in headers'[i] : r.offset + blocks_of(r.key, r.value) <= h.write_offset
    BY <2>1, DiskStep DEF OnDisk
  <2>3. ASSUME NEW j \in 0 .. (blocks_of(r.key, r.value) - 1)
        PROVE  /\ r.offset + j \in Block
               /\ data'[i][r.offset + j] = crypt_xts(i, r.offset, j, r.key, r.value)
               /\ blocks'[i][r.offset + j] = {crypt_xts(i, r.offset, j, r.key, r.value)}
    <3>1. /\ r.offset + j \in Block
          /\ data'[i][r.offset + j] = crypt_xts(i, r.offset, j, r.key, r.value)
          /\ blocks[i][r.offset + j] = {crypt_xts(i, r.offset, j, r.key, r.value)}
      BY <2>1 DEF OnDisk
    <3> QED
      BY <3>1, DiskStep
  <2> QED
    BY <2>1, <2>2, <2>3 DEF OnDisk
<1> QED
  BY <1>1, <1>3, <1>4, <1>5 DEF FileOnDisk, HeadersEndRecords

(* A block of a set lands behind every record that is on the disk. *)
LEMMA WriteBlockOnDisk ==
  ASSUME SurvivorsInv, StoreStep, NEW i \in Inode, NEW p \in Proc, fd[p] = i,
         SetWriteBlock(p), FileOnDisk(i)
  PROVE  FileOnDisk(i)'
<1> DEFINE b == hdr[p].write_offset + cur[p]
<1>1. Shape /\ pc[p] = "set_data" /\ header' = header /\ log' = log
  BY DEF SurvivorsInv, DurableInv, SetWriteBlock
<1>2. /\ i \in Inode /\ Published(i) /\ hdr[p].write_offset \in Nat /\ cur[p] \in Nat
      /\ hdr[p] = header[i] /\ data[i] \in [Block -> Content]
  BY <1>1, WritingSet DEF Header, SurvivorsInv, CopiesCurrent, Shape, TypeOK, CallsTyped, FilesTyped
<1>3. \A x \in Block : x # b => data'[i][x] = data[i][x]
  BY <1>1, <1>2 DEF SetWriteBlock, Shape, TypeOK, FilesTyped
<1>4. log[i] \in Seq(Record) /\ LogTiles(i)
  BY <1>1, <1>2 DEF FileOnDisk, Shape, TypeOK, FilesTyped
<1> HIDE DEF b
<1>5. ASSUME NEW r \in survived[i], NEW j \in 0 .. (blocks_of(r.key, r.value) - 1)
      PROVE  data'[i][r.offset + j] = data[i][r.offset + j]
  <2>1. OnDisk(i, r) /\ r.offset + j \in Block
    BY <1>5 DEF FileOnDisk, OnDisk
  <2>2. /\ r.offset \in Nat /\ blocks_of(r.key, r.value) \in Nat
        /\ r.offset + blocks_of(r.key, r.value) <= header[i].write_offset
    BY <1>4, <2>1, OnDiskEnds
  <2>3. r.offset + j # hdr[p].write_offset + cur[p]
    BY SMTT(30), <1>2, <2>2
  <2> QED
    BY <1>3, <2>1, <2>3 DEF b
<1> QED
  BY <1>1, <1>2, <1>5, UntouchedFile

(* A set commits its record: SetWriteHeader and SetClose. *)
LEMMA WriteBackOnDisk ==
  ASSUME SurvivorsInv, StoreStep, NEW i \in Inode, NEW p \in Proc, fd[p] = i,
         SetWriteHeader(p) \/ SetClose(p), FileOnDisk(i)
  PROVE  FileOnDisk(i)'
<1> DEFINE s == log[i]
           w == hdr[p].write_offset
           r == [offset |-> w, key |-> arg[p].key, value |-> arg[p].value]
           t == Append(s, r)
<1>1. Shape /\ pc[p] \in {"set_data", "set_close"} /\ data' = data /\ WriteBack(p)
      /\ survived' = survived
  BY DEF SurvivorsInv, DurableInv, SetWriteHeader, SetClose, DataWritten, StoreStep
<1>2. /\ Published(i) /\ hdr[p] \in Header /\ w \in Nat /\ hdr[p] = header[i]
      /\ arg[p].key \in Key /\ arg[p].value \in Value
      /\ RecordBlocks(p) \in Nat /\ RecordBlocks(p) >= 1
  BY <1>1, WritingSet DEF Header, SurvivorsInv, CopiesCurrent
<1>3. /\ header'[i].write_offset = w + RecordBlocks(p)
      /\ log'[i] = t
  BY <1>1, <1>2 DEF WriteBack, NextOffset, Shape, TypeOK, FilesTyped, Header
<1>4. s \in Seq(Record) /\ r \in Record /\ Tiles(s) /\ w = EndOf(s, Len(s))
      /\ \A x \in survived[i] : OnDisk(i, x)
  BY <1>1, <1>2 DEF Shape, TypeOK, FilesTyped, Record, FileOnDisk, LogTiles
<1>5. r.offset = w /\ blocks_of(r.key, r.value) = RecordBlocks(p)
  BY DEF RecordBlocks
<1> HIDE DEF s, w, r
<1>6. Tiles(t) /\ EndOf(t, Len(s) + 1) = w + RecordBlocks(p)
  BY <1>2, <1>4, <1>5, AppendTiles
<1>7. /\ Len(t) = Len(s) + 1 /\ Len(s) \in Nat /\ 0 .. Len(s) \subseteq 0 .. Len(t)
      /\ Len(t) \in 0 .. Len(t)
      /\ \A n \in 1 .. Len(s) : n \in 1 .. Len(t) /\ t[n] = s[n]
  BY SMTT(30), <1>4
<1>8. \A n \in 0 .. Len(s) : EndOf(t, n) = EndOf(s, n)
  BY <1>4, PrefixKept
<1> HIDE DEF t
<1>9. LogTiles(i)'
  BY <1>3, <1>6, <1>7 DEF LogTiles
<1>10. ASSUME NEW h \in headers'[i]
       PROVE  \E n \in 0 .. Len(t) : h.write_offset = EndOf(t, n)
  <2>1. CASE h = header'[i]
    BY <1>3, <1>6, <1>7, <2>1
  <2>2. CASE h \in headers[i]
    BY <1>7, <1>8, <2>2 DEF FileOnDisk, HeadersEndRecords, s
  <2> QED
    BY <1>1, <1>2, <2>1, <2>2, DiskStep
<1>11. ASSUME NEW x \in survived[i] PROVE OnDisk(i, x)'
  <2>1. /\ OnDisk(i, x)
        /\ x.offset \in Nat /\ blocks_of(x.key, x.value) \in Nat
        /\ x.offset + blocks_of(x.key, x.value) <= w
    BY <1>2, <1>4, OnDiskEnds DEF FileOnDisk, s, w
  <2>2. x.offset + blocks_of(x.key, x.value) <= w + RecordBlocks(p)
    BY SMTT(30), <1>2, <2>1
  <2>3. \E n \in 1 .. Len(t) : t[n] = x
    BY <1>7, <2>1 DEF OnDisk, s
  <2>4. \A h \in headers'[i] : x.offset + blocks_of(x.key, x.value) <= h.write_offset
    BY <1>1, <1>2, <1>3, <2>1, <2>2, DiskStep DEF OnDisk
  <2>5. ASSUME NEW j \in 0 .. (blocks_of(x.key, x.value) - 1)
        PROVE  /\ x.offset + j \in Block
               /\ data'[i][x.offset + j] = crypt_xts(i, x.offset, j, x.key, x.value)
               /\ blocks'[i][x.offset + j] = {crypt_xts(i, x.offset, j, x.key, x.value)}
    <3>1. /\ x.offset + j \in Block
          /\ data'[i][x.offset + j] = crypt_xts(i, x.offset, j, x.key, x.value)
          /\ blocks[i][x.offset + j] = {crypt_xts(i, x.offset, j, x.key, x.value)}
      BY <1>1, <2>1 DEF OnDisk
    <3> QED
      BY <1>1, <1>2, <3>1, DiskStep
  <2> QED
    BY <1>3, <2>3, <2>4, <2>5 DEF OnDisk
<1> QED
  BY <1>1, <1>3, <1>9, <1>10, <1>11 DEF FileOnDisk, HeadersEndRecords

(* A file that has just got the name is empty. *)
LEMMA RenamedOnDisk ==
  ASSUME SurvivorsInv, StoreStep, NEW i \in Inode, NEW p \in Proc, fd[p] = i, AllocRename(p)
  PROVE  FileOnDisk(i)'
<1>1. Shape /\ pc[p] = "alloc_rename" /\ header' = header /\ log' = log /\ survived' = survived
  BY DEF SurvivorsInv, DurableInv, AllocRename, Completed, StoreStep
<1>2. i \in temps
  BY <1>1, OwnedTemp DEF AllocStates
<1>3. /\ log[i] = <<>> /\ header[i] # None /\ header[i].write_offset = HeaderBlocks
  BY <1>1, <1>2 DEF Shape, FileShape, FreshFiles, CallShape, OwnsTemp, AllocStates
<1>4. survived[i] = {} /\ headers[i] = {header[i]}
  BY <1>1 DEF SurvivorsInv, NewFiles, AllocStates
<1>5. \A h \in headers'[i] : h = header'[i]
  BY <1>1, <1>4 DEF StoreStep
<1>6. Len(log'[i]) = 0 /\ EndOf(log'[i], 0) = HeaderBlocks /\ header'[i].write_offset = HeaderBlocks
  BY SMTT(30), <1>1, <1>3 DEF EndOf
<1>7. Tiles(log'[i])
  BY SMTT(30), <1>6 DEF Tiles
<1> QED
  BY SMTT(30), <1>1, <1>4, <1>5, <1>6, <1>7 DEF FileOnDisk, LogTiles, HeadersEndRecords

(* A step of a process keeps SurvivorsInv, when sets do not overlap. *)
LEMMA SurvivorsStoreStep == ASSUME SerialSets, SurvivorsInv, StoreStep PROVE SurvivorsInv'
<1>1. DurableInv /\ DurableInv' /\ Shape /\ Shape' /\ Next
  BY DurableStoreStep DEF SurvivorsInv, DurableInv, StoreStep
<1>2. survived' \in [Inode -> SUBSET Record]
  BY DEF SurvivorsInv, StoreStep
<1>3. OneSet' /\ CopiesCurrent'
  BY <1>1, SetsStep DEF SurvivorsInv
<1>4. NewFiles'
  BY <1>1, NewFilesStep DEF SurvivorsInv
<1>5. ASSUME NEW i \in Named' PROVE FileOnDisk(i)'
  <2>1. CASE i \in Named /\ i \in Inode /\ Published(i)
    <3>1. FileOnDisk(i)
      BY <2>1 DEF SurvivorsInv, FileOnDisk
    <3>2. CASE header'[i] = header[i] /\ log'[i] = log[i] /\ data'[i] = data[i]
      BY <1>1, <2>1, <3>1, <3>2, UntouchedFile
    <3> QED
      BY <1>1, <2>1, <3>1, <3>2, FileSteps, WriteBlockOnDisk, WriteBackOnDisk
  <2> QED
    BY <1>1, <2>1, NamedStep, RenamedOnDisk
<1> QED
  BY <1>1, <1>2, <1>3, <1>4, <1>5 DEF SurvivorsInv, FileOnDisk

(* The file under the path after a restart: every record that had survived *)
(* counts again, whichever header and blocks the power failure left.       *)
LEMMA RestartOnDisk ==
  ASSUME SurvivorsInv, NEW i \in Inode, Published(i), FileOnDisk(i), NEW undone, Restart(i, undone),
         headers' = [f \in Inode |-> {header'[f]}],
         blocks' = [f \in Inode |-> [b \in Block |-> {data'[f][b]}]]
  PROVE  FileOnDisk(i)' /\ survived' \in [Inode -> SUBSET Record]
<1> DEFINE s == log[i]
<1>1. Shape /\ DurableInv /\ s \in Seq(Record) /\ Tiles(s) /\ Len(s) \in Nat
  BY SMTT(30) DEF SurvivorsInv, DurableInv, Shape, TypeOK, FilesTyped, FileOnDisk, LogTiles
<1>2. PICK h \in headers[i], d \in Outcomes(blocks[i]), k \in 0 .. Len(s) :
        /\ IF h = None THEN k = 0 ELSE h.write_offset = EndOf(s, k)
        /\ header' = [header EXCEPT ![i] = h]
        /\ data' = [data EXCEPT ![i] = d]
        /\ log' = [j \in Inode |-> IF j = i THEN SubSeq(s, 1, k)
                                   ELSE IF j \in undone THEN <<>> ELSE log[j]]
        /\ survived' = [survived EXCEPT ![i] = @ \cup Intact(SubSeq(s, 1, k), d, i)]
  BY DEF Restart
<1> DEFINE t == SubSeq(s, 1, k)
<1>3. h # None
  BY <1>1 DEF DurableInv, HeadersWhole, Synced, SameSeal
<1>4. h.write_offset = EndOf(s, k)
  BY <1>2, <1>3
<1>5. /\ header'[i] = h /\ data'[i] = d /\ log'[i] = t
      /\ survived'[i] = survived[i] \cup Intact(t, d, i)
      /\ headers'[i] = {h} /\ \A b \in Block : blocks'[i][b] = {d[b]}
  BY <1>1, <1>2 DEF SurvivorsInv, Shape, TypeOK, FilesTyped
<1>6. /\ Tiles(t) /\ Len(t) = k /\ t \in Seq(Record)
      /\ \A n \in 1 .. k : t[n] = s[n]
      /\ \A n \in 0 .. k : EndOf(t, n) = EndOf(s, n)
  <2>1. t \in Seq(Record)
    BY SMTT(30), <1>1
  <2> QED
    BY <1>1, <2>1, PrefixTiles
<1>7. \A b \in Block : d[b] \in blocks[i][b]
  BY DEF Outcomes
<1> HIDE DEF s, t
<1>8. k \in Nat /\ k \in 0 .. k
  BY SMTT(30), <1>1
<1>9. LogTiles(i)' /\ HeadersEndRecords(i)'
  BY <1>4, <1>5, <1>6, <1>8 DEF LogTiles, HeadersEndRecords
<1>10. ASSUME NEW r, NEW n \in 1 .. k, r = t[n] PROVE r.offset + blocks_of(r.key, r.value) <= h.write_offset
  <2>1. n \in 0 .. k /\ n # 0 /\ n \in 0 .. Len(t)
    BY SMTT(30), <1>6, <1>8
  <2>2. EndOf(t, n) <= EndOf(t, k)
    BY <1>6, <2>1, EndsInside
  <2> QED
    BY <1>4, <1>6, <1>8, <1>10, <2>1, <2>2 DEF EndOf
<1>11. ASSUME NEW r \in survived[i] PROVE OnDisk(i, r)'
  <2>1. OnDisk(i, r)
    BY DEF FileOnDisk
  <2>2. PICK n \in 1 .. Len(s) : s[n] = r
    BY <2>1 DEF OnDisk, s
  <2>3. EndOf(s, n) <= EndOf(s, k)
    <3>1. n # 0
      BY SMTT(30)
    <3> QED
      BY <1>4, <2>1, <2>2, <3>1 DEF OnDisk, EndOf
  <2>4. n <= k
    <3>1. n \in 0 .. Len(s) /\ EndOf(s, n) \in Nat /\ EndOf(s, k) \in Nat
      BY SMTT(30), <1>1, EndsNat DEF s
    <3>2. k < n => EndOf(s, k) < EndOf(s, n)
      BY <1>1, <3>1 DEF Tiles, s
    <3> QED
      BY SMTT(30), <1>8, <2>3, <3>1, <3>2
  <2>5. n \in 1 .. k
    BY SMTT(30), <1>8, <2>4
  <2>6. \E m \in 1 .. Len(t) : t[m] = r
    BY <1>6, <2>2, <2>5
  <2>7. \A g \in headers'[i] : r.offset + blocks_of(r.key, r.value) <= g.write_offset
    BY <1>5, <2>1 DEF OnDisk
  <2>8. ASSUME NEW j \in 0 .. (blocks_of(r.key, r.value) - 1)
        PROVE  /\ r.offset + j \in Block
               /\ data'[i][r.offset + j] = crypt_xts(i, r.offset, j, r.key, r.value)
               /\ blocks'[i][r.offset + j] = {crypt_xts(i, r.offset, j, r.key, r.value)}
    <3>1. /\ r.offset + j \in Block
          /\ blocks[i][r.offset + j] = {crypt_xts(i, r.offset, j, r.key, r.value)}
      BY <2>1 DEF OnDisk
    <3> QED
      BY <1>5, <1>7, <3>1
  <2> QED
    BY <1>5, <2>6, <2>7, <2>8 DEF OnDisk
<1>12. ASSUME NEW r \in Intact(t, d, i) PROVE OnDisk(i, r)' /\ r \in Record
  <2>1. PICK n \in 1 .. Len(t) : t[n] = r /\ Sound(d, i, r.offset, r.key, r.value)
    BY <1>12 DEF Intact
  <2>2. \A g \in headers'[i] : r.offset + blocks_of(r.key, r.value) <= g.write_offset
    BY <1>5, <1>6, <1>10, <2>1
  <2>3. ASSUME NEW j \in 0 .. (blocks_of(r.key, r.value) - 1)
        PROVE  /\ r.offset + j \in Block
               /\ data'[i][r.offset + j] = crypt_xts(i, r.offset, j, r.key, r.value)
               /\ blocks'[i][r.offset + j] = {crypt_xts(i, r.offset, j, r.key, r.value)}
    BY <1>5, <2>1 DEF Sound
  <2>4. r \in Record
    BY SMTT(30), <1>6, <2>1
  <2> QED
    BY <1>5, <2>1, <2>2, <2>3, <2>4 DEF OnDisk
<1>13. survived' \in [Inode -> SUBSET Record]
  BY <1>2, <1>12 DEF SurvivorsInv, t
<1> QED
  BY <1>5, <1>9, <1>11, <1>12, <1>13 DEF FileOnDisk

(* So does a power failure, whatever it leaves of each block and header. *)
LEMMA SurvivorsPowerLoss == ASSUME SurvivorsInv, PowerLoss PROVE SurvivorsInv'
<1>1. DurableInv /\ DurableInv'
  BY DurablePowerLoss DEF SurvivorsInv
<1>2. /\ names \in Seq(Inode \cup {None}) /\ Len(names) \in Nat
      /\ \A m \in 1 .. Len(names) : names[m] \in Inode \cup {None}
  BY SMTT(30), <1>1 DEF DurableInv, DiskTyped
<1>3. PICK n \in 1 .. Len(names) :
        LET undone == {names[m] : m \in (n + 1) .. Len(names)}
        IN  /\ dir' = names[n]
            /\ temps' = temps \cup undone
            /\ IF names[n] = None THEN RestartEmpty(undone) ELSE Restart(names[n], undone)
  BY DEF PowerLoss
<1>4. PICK undone :
        /\ dir' = names[n]
        /\ IF names[n] = None THEN RestartEmpty(undone) ELSE Restart(names[n], undone)
  BY <1>3
<1>5. /\ names' = <<dir'>>
      /\ headers' = [f \in Inode |-> {header'[f]}]
      /\ blocks' = [f \in Inode |-> [b \in Block |-> {data'[f][b]}]]
      /\ pc' = [p \in Proc |-> "idle"]
      /\ created' = created
  BY DEF PowerLoss
<1>6. \A i \in Named' : i = dir' /\ i # None
  BY SMTT(30), <1>5 DEF Named
<1>7. OneSet' /\ CopiesCurrent'
  BY <1>5 DEF OneSet, CopiesCurrent, SetStates
<1>8. CASE names[n] = None
  <2>1. survived' = survived /\ dir' = None
    BY <1>4, <1>8 DEF RestartEmpty
  <2>2. NewFiles'
    BY <1>5, <2>1 DEF NewFiles, SurvivorsInv, AllocStates
  <2> QED
    BY <1>1, <1>6, <1>7, <2>1, <2>2 DEF SurvivorsInv
<1>9. CASE names[n] # None
  <2> DEFINE f == names[n]
  <2>1. f \in Inode /\ Published(f) /\ f \in Named /\ Restart(f, undone) /\ dir' = f
    BY <1>1, <1>2, <1>4, <1>9 DEF Named, DurableInv, NamesWhole
  <2> HIDE DEF f
  <2>2. PICK i \in Inode : i = f
    BY <2>1
  <2>3. FileOnDisk(i)' /\ survived' \in [Inode -> SUBSET Record]
    <3>1. FileOnDisk(i) /\ Published(i) /\ Restart(i, undone)
      BY <2>1, <2>2 DEF SurvivorsInv, FileOnDisk
    <3> QED
      BY <1>5, <3>1, RestartOnDisk
  <2>4. \A j \in Inode \ {i} : survived'[j] = survived[j]
    BY <2>1, <2>2 DEF Restart, SurvivorsInv
  <2>5. i \in created
    BY <2>1, <2>2 DEF Published
  <2>6. NewFiles'
    BY <1>5, <2>4, <2>5 DEF NewFiles, SurvivorsInv, AllocStates
  <2>7. \A j \in Named' : j = i
    BY <1>6, <2>1, <2>2
  <2> QED
    BY <1>1, <1>7, <2>3, <2>6, <2>7 DEF SurvivorsInv, FileOnDisk
<1> QED
  BY <1>8, <1>9

(* SurvivorsInv holds before the first call. *)
LEMMA SurvivorsInit == DurableInit => SurvivorsInv
<1> SUFFICES ASSUME DurableInit PROVE SurvivorsInv
  OBVIOUS
<1>1. DurableInv
  BY DurableInitInv
<1>2. Named = {}
  BY SMTT(30) DEF DurableInit, Named
<1>3. OneSet /\ CopiesCurrent /\ NewFiles /\ survived \in [Inode -> SUBSET Record]
  BY DEF DurableInit, Init, OneSet, CopiesCurrent, NewFiles, SetStates, AllocStates
<1> QED
  BY <1>1, <1>2, <1>3 DEF SurvivorsInv

(* The inductive invariant behind SurvivorsStay. *)
THEOREM SurvivorsInvariant == ASSUME SerialSets PROVE DurableSpec => []SurvivorsInv
<1>1. ASSUME SurvivorsInv, UNCHANGED durableVars PROVE SurvivorsInv'
  <2>1. UNCHANGED vars /\ UNCHANGED diskVars
    BY <1>1 DEF durableVars
  <2>2. DurableInv'
    BY <1>1, DurableStep DEF SurvivorsInv
  <2>3. Named' = Named
    BY <2>1 DEF Named, diskVars
  <2>4. ASSUME NEW i \in Named PROVE FileOnDisk(i)'
    <3>1. LogTiles(i) /\ HeadersEndRecords(i) /\ \A r \in survived[i] : OnDisk(i, r)
      BY <1>1 DEF SurvivorsInv
    <3>2. LogTiles(i)' /\ HeadersEndRecords(i)'
      BY <2>1, <3>1 DEF LogTiles, HeadersEndRecords, vars, diskVars
    <3>3. \A r \in survived'[i] : OnDisk(i, r)'
      BY <2>1, <3>1 DEF OnDisk, vars, diskVars
    <3> QED
      BY <3>2, <3>3 DEF FileOnDisk
  <2>5. OneSet' /\ CopiesCurrent' /\ NewFiles' /\ survived' \in [Inode -> SUBSET Record]
    BY <1>1, <2>1 DEF SurvivorsInv, OneSet, CopiesCurrent, NewFiles, vars, diskVars
  <2> QED
    BY <2>2, <2>3, <2>4, <2>5 DEF SurvivorsInv, FileOnDisk
<1>2. SurvivorsInv /\ [DurableNext]_durableVars => SurvivorsInv'
  BY <1>1, SurvivorsStoreStep, SurvivorsPowerLoss DEF DurableNext
<1> QED
  BY <1>2, SurvivorsInit, PTL DEF DurableSpec

(* As long as no two padlock_set calls overlap, a record that came through *)
(* one power failure is never lost again: later sets, kills and power      *)
(* failures leave it intact and counted, although no set calls fsync.      *)
THEOREM SurvivorsNeverLost == ASSUME SerialSets PROVE DurableSpec => []SurvivorsStay
<1>1. SurvivorsInv => SurvivorsStay
  <2> SUFFICES ASSUME SurvivorsInv, dir # None, NEW r \in survived[dir]
               PROVE  /\ r \in Intact(log[dir], data[dir], dir)
                      /\ r.offset + blocks_of(r.key, r.value) <= header[dir].write_offset
    BY DEF SurvivorsStay
  <2>1. names \in Seq(Inode \cup {None}) /\ names # <<>> /\ dir = names[Len(names)]
    BY DEF SurvivorsInv, DurableInv, DiskTyped, NamesWhole
  <2>2. Len(names) \in 1 .. Len(names)
    BY SMTT(30), <2>1
  <2>3. dir \in Named
    BY <2>1, <2>2 DEF Named
  <2>4. LogTiles(dir) /\ OnDisk(dir, r)
    BY <2>3 DEF SurvivorsInv
  <2>5. log[dir] \in Seq(Record)
    BY DEF SurvivorsInv, DurableInv, Shape, TypeOK, FilesTyped
  <2>6. r.offset + blocks_of(r.key, r.value) <= header[dir].write_offset
    BY <2>4, <2>5, OnDiskEnds
  <2>7. Sound(data[dir], dir, r.offset, r.key, r.value)
    BY <2>4 DEF OnDisk, Sound
  <2> QED
    BY <2>4, <2>6, <2>7 DEF OnDisk, Intact
<1> QED
  BY <1>1, SurvivorsInvariant, PTL
=============================================================================
