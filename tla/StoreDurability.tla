-------------------------- MODULE StoreDurability ---------------------------
(***************************************************************************)
(* PadlockStore on a machine that can lose power.  What a call writes goes *)
(* to the page cache; the kernel writes it back when it likes and in any   *)
(* order.  padlock_allocate calls fsync before rename, nothing else does.  *)
(*                                                                         *)
(* The kernel's own write-back is no action: it only narrows what a power  *)
(* failure may leave, and PowerLoss chooses among all of that.  A header   *)
(* block is left as one of the headers written to it: two of them differ   *)
(* only in write_offset, eight bytes inside one sector.                    *)
(***************************************************************************)
EXTENDS PadlockStore

VARIABLES
  names,    \* what the path named since the last power failure, oldest first
  headers,  \* inode -> the header blocks that a power failure may leave
  blocks,   \* inode -> block number -> the contents that it may leave
  survived  \* history: inode -> records found intact after a power failure

diskVars == <<names, headers, blocks, survived>>
durableVars == <<vars, diskVars>>

DurableInit ==
  /\ Init
  /\ names = <<None>>
  /\ headers = [i \in Inode |-> {None}]
  /\ blocks = [i \in Inode |-> [b \in Block |-> {Random}]]
  /\ survived = [i \in Inode |-> {}]

(* Mutant: the temporary file is renamed without fsync. *)
fsync_nothing(p) == FALSE

(* p's step is the fsync of padlock_allocate. *)
fsync(p) == pc[p] = "alloc_sync" /\ pc'[p] = "alloc_rename"

(* A step of a process.  A file whose allocation failed is gone. *)
StoreStep ==
  /\ Next
  /\ LET synced == {fd[p] : p \in {q \in Proc : fsync(q)}}
     IN  /\ headers' = [i \in Inode |->
              (IF i \in synced \/ header'[i] = None THEN {} ELSE headers[i]) \cup {header'[i]}]
         /\ blocks' = [i \in Inode |-> [b \in Block |->
              (IF i \in synced THEN {} ELSE blocks[i][b]) \cup {data'[i][b]}]]
  /\ names' = IF dir' = dir THEN names ELSE Append(names, dir')
  /\ UNCHANGED survived

(* Any combination of old and new blocks. *)
Outcomes(contents) ==
  {d \in [Block -> UNION {contents[b] : b \in Block}] : \A b \in Block : d[b] \in contents[b]}

(* The records of a log that are intact on the blocks d of the file i. *)
Intact(s, d, i) == {s[n] : n \in {m \in 1 .. Len(s) : Sound(d, i, s[m].offset, s[m].key, s[m].value)}}

(* The machine restarts with the file i under the path: its header and     *)
(* blocks are whatever reached the disk.  The header ends one of the       *)
(* records of the log, the last that counts now.  The files in undone have *)
(* lost the name of the store; nothing opens them again.                   *)
Restart(i, undone) ==
  \E h \in headers[i], d \in Outcomes(blocks[i]), n \in 0 .. Len(log[i]) :
    LET left == SubSeq(log[i], 1, n)
    IN  /\ IF h = None THEN n = 0 ELSE h.write_offset = EndOf(log[i], n)
        /\ header' = [header EXCEPT ![i] = h]
        /\ data' = [data EXCEPT ![i] = d]
        /\ log' = [j \in Inode |-> IF j = i THEN left ELSE IF j \in undone THEN <<>> ELSE log[j]]
        /\ survived' = [survived EXCEPT ![i] = @ \cup Intact(left, d, i)]

RestartEmpty(undone) ==
  /\ log' = [j \in Inode |-> IF j \in undone THEN <<>> ELSE log[j]]
  /\ UNCHANGED <<header, data, survived>>

(* Power fails.  The renames that did not reach the disk are undone, the   *)
(* last ones first; every process is gone.                                 *)
PowerLoss ==
  /\ \E n \in 1 .. Len(names) :
       LET undone == {names[m] : m \in (n + 1) .. Len(names)}
       IN  /\ dir' = names[n]
           /\ temps' = temps \cup undone
           /\ IF names[n] = None THEN RestartEmpty(undone) ELSE Restart(names[n], undone)
  /\ names' = <<dir'>>
  /\ headers' = [i \in Inode |-> {header'[i]}]
  /\ blocks' = [i \in Inode |-> [b \in Block |-> {data'[i][b]}]]
  /\ pc' = [p \in Proc |-> "idle"]
  /\ arg' = [p \in Proc |-> NoCall]
  /\ fd' = [p \in Proc |-> None]
  /\ hdr' = [p \in Proc |-> None]
  /\ cur' = [p \in Proc |-> 0]
  /\ found' = [p \in Proc |-> None]
  /\ since' = [p \in Proc |-> 0]
  /\ ret' = [p \in Proc |-> "none"]
  /\ UNCHANGED created

DurableNext == StoreStep \/ PowerLoss

DurableSpec == DurableInit /\ [][DurableNext]_durableVars

-----------------------------------------------------------------------------
(* Properties.  PathNamesWholeStore and SealedKeyIsStable of PadlockStore  *)
(* hold across power failures too.                                         *)

(* What survived one power failure survives everything that follows: a     *)
(* record found intact after a restart stays intact through later sets,    *)
(* kills and power failures, and the next set starts at its end or later,  *)
(* although no set calls fsync and a write_offset may come back older or   *)
(* newer than the blocks before it.                                        *)
SurvivorsStay ==
  dir # None =>
    /\ survived[dir] \subseteq Intact(log[dir], data[dir], dir)
    /\ \A r \in survived[dir] : r.offset + blocks_of(r.key, r.value) <= header[dir].write_offset

-----------------------------------------------------------------------------
(* The inductive invariant behind the first two, on top of Shape. *)

FileHeader ==
  [total_size : 0 .. MaxBlocks, write_offset : 0 .. MaxBlocks, password : Password, xts_key : Inode]

DiskTyped ==
  /\ names \in Seq(Inode \cup {None})
  /\ headers \in [Inode -> SUBSET (FileHeader \cup {None})]
  /\ blocks \in [Inode -> [Block -> SUBSET Content]]

(* Every name the path may come back to is that of a whole store, and no   *)
(* store has had it twice.                                                 *)
NamesWhole ==
  /\ names # <<>>
  /\ dir = names[Len(names)]
  /\ \A n \in 1 .. Len(names) : names[n] # None => Published(names[n])
  /\ \A m, n \in 1 .. Len(names) : m < n => names[n] # None /\ names[m] # names[n]

(* fsync of the file has returned: it has, or is about to get, the name. *)
Synced(i) == Published(i) \/ \E p \in Proc : pc[p] = "alloc_rename" /\ fd[p] = i

(* Whichever header of such a file is on the disk, it differs from the     *)
(* current one in write_offset only.                                       *)
SameSeal(h, g) ==
  /\ h # None
  /\ read_header(h)
  /\ h.total_size = g.total_size
  /\ h.password = g.password
  /\ h.xts_key = g.xts_key

HeadersWhole == \A i \in Inode : Synced(i) => \A h \in headers[i] : SameSeal(h, header[i])

DurableInv == Shape /\ DiskTyped /\ NamesWhole /\ HeadersWhole

-----------------------------------------------------------------------------
(* The inductive invariant behind SurvivorsStay, when sets do not overlap. *)

(* The files that the path names, or may come back to. *)
Named == {names[n] : n \in 1 .. Len(names)} \ {None}

(* The records of a log tile the file, one ending where the next begins,   *)
(* whether or not their blocks came through.                               *)
Tiles(s) ==
  /\ \A n \in 1 .. Len(s) : blocks_of(s[n].key, s[n].value) >= 1 /\ s[n].offset = EndOf(s, n - 1)
  /\ \A m, n \in 0 .. Len(s) : m < n => EndOf(s, m) < EndOf(s, n)

LogTiles(i) == Tiles(log[i]) /\ header[i].write_offset = EndOf(log[i], Len(log[i]))

(* Whatever header the next power failure leaves ends a record of the log. *)
HeadersEndRecords(i) ==
  \A h \in headers[i] : \E n \in 0 .. Len(log[i]) : h.write_offset = EndOf(log[i], n)

(* The blocks of the record r of the file i are on the disk, no other      *)
(* version of them is, and no header that may be left ends before r does.  *)
OnDisk(i, r) ==
  /\ \E n \in 1 .. Len(log[i]) : log[i][n] = r
  /\ \A j \in 0 .. (blocks_of(r.key, r.value) - 1) :
       /\ r.offset + j \in Block
       /\ data[i][r.offset + j] = crypt_xts(i, r.offset, j, r.key, r.value)
       /\ blocks[i][r.offset + j] = {crypt_xts(i, r.offset, j, r.key, r.value)}
  /\ \A h \in headers[i] : r.offset + blocks_of(r.key, r.value) <= h.write_offset

(* The header a set copied is still the one in the file. *)
CopiesCurrent == \A p \in Proc : pc[p] \in {"set_data", "set_close"} => hdr[p] = header[fd[p]]

(* Nothing has survived in a file that was never under the path, and the   *)
(* header it gets the name with is the only one on the disk.               *)
NewFiles ==
  /\ \A i \in Inode : i \notin created => survived[i] = {}
  /\ \A p \in Proc : pc[p] \in AllocStates => survived[fd[p]] = {}
  /\ \A p \in Proc : pc[p] = "alloc_rename" => headers[fd[p]] = {header[fd[p]]}

SurvivorsInv ==
  /\ DurableInv
  /\ survived \in [Inode -> SUBSET Record]
  /\ OneSet
  /\ CopiesCurrent
  /\ NewFiles
  /\ \A i \in Named : LogTiles(i) /\ HeadersEndRecords(i) /\ \A r \in survived[i] : OnDisk(i, r)
=============================================================================
