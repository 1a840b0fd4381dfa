-------------------------- MODULE PadlockCliProofs ---------------------------
(***************************************************************************)
(* A login that sealed a store opens it for ever, and a command begun      *)
(* since the last change of the configuration opens a store allocated      *)
(* since then, for any number of processes, commands and faults, as long   *)
(* as the files that decide it could be seen and read.                     *)
(*                                                                         *)
(* The theorems of the store and of the sealed secret are used through     *)
(* instances of their proof modules, SP and KP; S and K are the instances  *)
(* that PadlockCli is built from.                                          *)
(***************************************************************************)
EXTENDS PadlockCli, TLAPS

SP == INSTANCE PadlockStoreProofs WITH Password <- [key : Secret, login : Login] \cup {EmptyPassword}
KP == INSTANCE SealedKeyProofs WITH pc <- kpc, ret <- kret

(* Zenon proves most leaves; one that needs arithmetic or functions names SMT. *)
USE Zenon

-----------------------------------------------------------------------------
(* The two instances of a component are one specification.                 *)

(* The invariant of the store is the same in both. *)
LEMMA SameStoreShape == S!Shape <=> SP!Shape
BY DEF
   S!Shape, SP!Shape, S!TypeOK, SP!TypeOK, S!FileShape, SP!FileShape, S!TempsDistinct,
   SP!TempsDistinct, S!CallShape, SP!CallShape, S!FilesTyped, SP!FilesTyped, S!CallsTyped,
   SP!CallsTyped, S!FreshFiles, SP!FreshFiles, S!HeadersValid, SP!HeadersValid, S!DirPublished,
   SP!DirPublished, S!AllocStates, SP!AllocStates, S!OwnsTemp, SP!OwnsTemp, S!OpensPublished,
   SP!OpensPublished, S!CopiedHeader, SP!CopiedHeader, S!WritesInside, SP!WritesInside, S!Block,
   SP!Block, S!Content, SP!Content, S!Record, SP!Record, S!States, SP!States, S!Call, SP!Call,
   S!Header, SP!Header, S!read_header, SP!read_header, S!Published, SP!Published, S!SetStates,
   SP!SetStates, S!GetStates, SP!GetStates, S!HasOpen, SP!HasOpen, S!RecordBlocks, SP!RecordBlocks,
   S!blocks_of, SP!blocks_of, S!BlocksOf, SP!BlocksOf, S!padded_length, SP!padded_length,
   S!PADLOCK_BLOCK, SP!PADLOCK_BLOCK, S!align16, SP!align16, S!plain_length, SP!plain_length

(* So is where it starts. *)
LEMMA SameStoreInit == S!Init <=> SP!Init
BY DEF
   S!Init, SP!Init, S!Block, SP!Block, S!NoCall, SP!NoCall

(* So are its steps. *)
LEMMA SameStoreNext == S!Next <=> SP!Next
BY DEF
   S!Next, SP!Next, S!AllocNext, SP!AllocNext, S!SetNext, SP!SetNext, S!GetNext, SP!GetNext,
   S!Return, SP!Return, S!Kill, SP!Kill, S!AllocRefused, SP!AllocRefused, S!AllocBegin,
   SP!AllocBegin, S!AllocFill, SP!AllocFill, S!AllocSync, SP!AllocSync, S!AllocRename,
   SP!AllocRename, S!AllocFail, SP!AllocFail, S!SetRefused, SP!SetRefused, S!SetBegin, SP!SetBegin,
   S!SetReadHeader, SP!SetReadHeader, S!SetReject, SP!SetReject, S!SetWriteBlock, SP!SetWriteBlock,
   S!SetWriteHeader, SP!SetWriteHeader, S!SetBufferHeader, SP!SetBufferHeader, S!SetClose,
   SP!SetClose, S!SetCloseLost, SP!SetCloseLost, S!SetFail, SP!SetFail, S!GetRefused, SP!GetRefused,
   S!GetBegin, SP!GetBegin, S!GetReadHeader, SP!GetReadHeader, S!GetReject, SP!GetReject,
   S!GetRecord, SP!GetRecord, S!GetGarbage, SP!GetGarbage, S!GetCorrupt, SP!GetCorrupt, S!GetReturn,
   SP!GetReturn, S!GetFail, SP!GetFail, S!Forget, SP!Forget, S!Refuse, SP!Refuse, S!AllocCall,
   SP!AllocCall, S!FillImpossible, SP!FillImpossible, S!Block, SP!Block, S!fileVars, SP!fileVars,
   S!Completed, SP!Completed, S!Finish, SP!Finish, S!AllocStates, SP!AllocStates, S!unlink,
   SP!unlink, S!GoodKey, SP!GoodKey, S!SetCall, SP!SetCall, S!NoOtherSet, SP!NoOtherSet, S!Opens,
   SP!Opens, S!Fits, SP!Fits, S!RecordBlocks, SP!RecordBlocks, S!crypt_xts, SP!crypt_xts,
   S!DataWritten, SP!DataWritten, S!WriteBack, SP!WriteBack, S!GetCall,
   SP!GetCall, S!Scanning, SP!Scanning, S!Readable, SP!Readable, S!Matched, SP!Matched, S!Advanced,
   SP!Advanced, S!Garbled, SP!Garbled, S!Scanned, SP!Scanned, S!GetStates, SP!GetStates, S!NoCall,
   SP!NoCall, S!SetStates, SP!SetStates, S!read_header, SP!read_header, S!decrypt_secret,
   SP!decrypt_secret, S!blocks_of, SP!blocks_of, S!NextOffset, SP!NextOffset, S!Sound, SP!Sound,
   S!BlocksOf, SP!BlocksOf, S!padded_length, SP!padded_length, S!PADLOCK_BLOCK, SP!PADLOCK_BLOCK,
   S!align16, SP!align16, S!plain_length, SP!plain_length

(* The same three facts of the sealed secret: its invariant. *)
LEMMA SameKeyInv == K!Inv <=> KP!Inv
BY DEF
   K!Inv, KP!Inv, K!Undisturbed, KP!Undisturbed, K!TypeOK, KP!TypeOK, K!AloneWhileCreating, KP!AloneWhileCreating,
   K!ReadersFindFiles, KP!ReadersFindFiles, K!OpenedFilesExist, KP!OpenedFilesExist, K!UsedIsOnFile,
   KP!UsedIsOnFile, K!ReadIsCurrent, KP!ReadIsCurrent, K!Blob, KP!Blob, K!States, KP!States, K!Name,
   KP!Name, K!CreateStates, KP!CreateStates, K!UnsealStates, KP!UnsealStates, K!Missing, KP!Missing

(* Where it starts. *)
LEMMA SameKeyInit == K!Init <=> KP!Init
BY DEF K!Init, KP!Init

(* Its steps. *)
LEMMA SameKeyNext == K!Next <=> KP!Next
BY DEF
   K!Next, KP!Next, K!DeriveRefused, KP!DeriveRefused, K!Derive, KP!Derive, K!DeriveMistaken,
   KP!DeriveMistaken, K!Work, KP!Work,
   K!Return, KP!Return, K!Kill, KP!Kill, K!Begin, KP!Begin, K!files, KP!files, K!Missing,
   KP!Missing, K!Create, KP!Create, K!OpenPublic, KP!OpenPublic, K!OpenPublicFails,
   KP!OpenPublicFails, K!OpenPrivate, KP!OpenPrivate, K!OpenPrivateOnly, KP!OpenPrivateOnly,
   K!ClosePublic, KP!ClosePublic, K!ClosePrivate, KP!ClosePrivate, K!CreateFails, KP!CreateFails,
   K!ReadPublic, KP!ReadPublic, K!ReadPublicFails, KP!ReadPublicFails, K!ReadPrivate,
   KP!ReadPrivate, K!ReadPrivateFails, KP!ReadPrivateFails, K!Forget, KP!Forget, K!CreateStates,
   KP!CreateStates, K!Goto, KP!Goto, K!Finish, KP!Finish, K!Flushed, KP!Flushed, K!Loads, KP!Loads

(* The store keeps its shape in every step that is one of its own. *)
LEMMA StoreInit == S!Init => S!Shape
<1>1. SP!Init => SP!Shape
  BY SP!ShapeInit, CliAssumption DEF CliAssumption, S!plain_length, SP!plain_length
<1> QED
  BY <1>1, SameStoreInit, SameStoreShape

(* Every step of the library, and every step beside it, keeps the shape. *)
LEMMA StoreNext == ASSUME S!Shape, [S!Next]_storeVars PROVE S!Shape'
<1>1. SP!Shape /\ [SP!Next]_SP!vars
  BY SameStoreNext, SameStoreShape DEF SP!vars, storeVars
<1>2. SP!Shape'
  BY <1>1, SP!ShapeNext, CliAssumption DEF CliAssumption, S!plain_length, SP!plain_length
<1> QED
  BY <1>2, SameStoreShape, PTL

(* So does the secret, when the first derivation is not overlapped. *)
LEMMA KeyInit == K!Init => K!Inv
<1>1. KP!Init => KP!Inv
  BY KP!KeyInit, CliAssumption DEF CliAssumption, KP!Inv, KP!Undisturbed
<1> QED
  BY <1>1, SameKeyInit, SameKeyInv

(* Every step of a derivation keeps the invariant of the secret. *)
LEMMA KeyNext == ASSUME SerialFirst, K!Inv, [K!Next]_keyVars PROVE K!Inv'
<1>1. KP!Inv /\ [KP!Next]_KP!vars
  BY SameKeyNext, SameKeyInv DEF KP!vars, keyVars
<1>2. KP!Inv'
  BY <1>1, KP!KeyNext, CliAssumption DEF CliAssumption
<1> QED
  BY <1>2, SameKeyInv, PTL

-----------------------------------------------------------------------------
(* What a step of a component leaves alone                                 *)

(* The call of q to the library, and to the derivation, is left alone. *)
StoreKept(q) ==
  /\ pc'[q] = pc[q]
  /\ arg'[q] = arg[q]
  /\ fd'[q] = fd[q]
  /\ hdr'[q] = hdr[q]
  /\ cur'[q] = cur[q]
  /\ found'[q] = found[q]
  /\ since'[q] = since[q]
  /\ ret'[q] = ret[q]

KeyKept(q) == kpc'[q] = kpc[q] /\ login'[q] = login[q] /\ secret'[q] = secret[q] /\ kret'[q] = kret[q]

(* The variables are functions on processes and files. *)
LEMMA StoreFrames ==
  ASSUME S!Shape
  PROVE  /\ pc \in [Proc -> S!States] /\ arg \in [Proc -> S!Call]
         /\ fd \in [Proc -> Inode \cup {None}] /\ hdr \in [Proc -> S!Header \cup {None}]
         /\ cur \in [Proc -> Nat] /\ found \in [Proc -> Value \cup {None, Random}]
         /\ since \in [Proc -> Nat] /\ ret \in [Proc -> {"none", "ok", "fail", "error"}]
         /\ DOMAIN header = Inode
         /\ temps \subseteq created /\ created \subseteq Inode
BY DEF S!Shape, S!TypeOK, S!CallsTyped, S!FilesTyped

(* A running call that goes on keeps its arguments and its file.  It       *)
(* writes a header with another password only as the allocation of a file, *)
(* and then its own.                                                       *)
LEMMA ProgressStep ==
  ASSUME S!Shape, NEW p \in Proc, S!Progress(p)
  PROVE  /\ arg' = arg /\ fd' = fd /\ created' = created
         /\ pc[p] # "idle" /\ pc'[p] # "idle"
         /\ pc'[p] \in S!AllocStates => pc[p] \in S!AllocStates
         /\ \A q \in Proc \ {p} : StoreKept(q)
         /\ \A i \in Inode : header'[i] # None =>
              \/ header[i] # None /\ header'[i].password = header[i].password
              \/ pc[p] \in S!AllocStates /\ fd[p] = i /\ header'[i].password = arg[p].password
<1> USE StoreFrames
<1> DEFINE Goal == /\ arg' = arg /\ fd' = fd /\ created' = created
                   /\ pc[p] # "idle" /\ pc'[p] # "idle"
                   /\ pc'[p] \in S!AllocStates => pc[p] \in S!AllocStates
                   /\ \A q \in Proc \ {p} : StoreKept(q)
<1> USE DEF S!fileVars, S!AllocStates, StoreKept
<1>1. CASE S!AllocFill(p)
  <2>1. Goal
    BY <1>1 DEF S!AllocFill
  <2>2. ASSUME NEW i \in Inode, i # fd[p] PROVE header'[i] = header[i]
    BY <1>1, <2>2 DEF S!AllocFill
  <2>3. ASSUME NEW i \in Inode, i = fd[p] PROVE header'[i].password = arg[p].password
    BY <1>1, <2>3 DEF S!AllocFill
  <2> QED
    BY <1>1, <2>1, <2>2, <2>3 DEF S!AllocFill
<1>2. CASE S!AllocSync(p) \/ S!AllocRename(p)
  BY <1>2 DEF S!AllocSync, S!AllocRename, S!Completed, S!Finish
<1>3. CASE S!AllocFail(p)
  <2>1. Goal
    BY <1>3 DEF S!AllocFail, S!Finish
  <2>2. \A i \in Inode : header'[i] \in {header[i], None}
    BY <1>3 DEF S!AllocFail
  <2> QED
    BY <2>1, <2>2
<1>4. CASE S!SetReadHeader(p) \/ S!SetReject(p) \/ S!SetBufferHeader(p) \/ S!SetCloseLost(p) \/ S!SetFail(p)
  BY <1>4 DEF S!SetReadHeader, S!SetReject, S!SetBufferHeader, S!SetCloseLost, S!SetFail,
     S!DataWritten, S!Finish
<1>5. CASE S!SetWriteBlock(p)
  BY <1>5 DEF S!SetWriteBlock
<1>6. CASE S!SetWriteHeader(p) \/ S!SetClose(p)
  <2>1. Goal
    BY <1>6 DEF S!SetWriteHeader, S!SetClose, S!DataWritten, S!Finish
  <2>2. pc[p] \in {"set_data", "set_close"} /\ S!WriteBack(p)
    BY <1>6 DEF S!SetWriteHeader, S!SetClose, S!DataWritten
  <2>3. S!OpensPublished(p) /\ S!CopiedHeader(p)
    BY DEF S!Shape, S!CallShape
  <2>4. /\ hdr[p] # None /\ hdr[p].password = header[fd[p]].password
        /\ fd[p] \in Inode /\ header[fd[p]] # None
    BY <2>2, <2>3 DEF S!OpensPublished, S!CopiedHeader, S!Published, S!HasOpen
  <2>5. header'[fd[p]].password = hdr[p].password
    BY SMTT(30), <2>2, <2>4 DEF S!WriteBack, S!Header
  <2>6. \A i \in Inode : i # fd[p] => header'[i] = header[i]
    BY <2>2 DEF S!WriteBack
  <2> QED
    BY <2>1, <2>4, <2>5, <2>6
<1>7. CASE S!GetReadHeader(p) \/ S!GetReject(p) \/ S!GetCorrupt(p) \/ S!GetReturn(p) \/ S!GetFail(p)
  BY <1>7 DEF S!GetReadHeader, S!GetReject, S!GetCorrupt, S!GetReturn, S!GetFail, S!Garbled,
     S!Scanning, S!Scanned, S!GetStates, S!Finish
<1>8. CASE S!GetRecord(p) \/ S!GetGarbage(p)
  BY <1>8 DEF S!GetRecord, S!GetGarbage, S!Garbled, S!Scanning
<1> QED
  BY <1>1, <1>2, <1>3, <1>4, <1>5, <1>6, <1>7, <1>8 DEF S!Progress, S!Proceed

(* A call begins with its password and no more than a new file. *)
LEMMA BeginStep ==
  ASSUME S!Shape, NEW p \in Proc, NEW c \in Commands, NEW password,
         Allocate(p, c, password) \/ Set(p, c, password) \/ Get(p, c, password)
  PROVE  /\ pc[p] = "idle" /\ pc'[p] # "idle"
         /\ arg'[p].password = password
         /\ header' = header
         /\ created \subseteq created'
         /\ created' \subseteq Inode
         /\ pc'[p] \in S!AllocStates => fd'[p] \in created' \ created
         /\ \A q \in Proc \ {p} : StoreKept(q)
<1> USE StoreFrames
<1> USE DEF S!fileVars, S!AllocStates, StoreKept
<1>1. CASE Allocate(p, c, password)
  <2>1. CASE S!AllocRefused(p, c.size, password)
    BY <2>1 DEF S!AllocRefused, S!Refuse, S!Finish, S!AllocCall
  <2>2. CASE S!AllocBegin(p, c.size, password)
    BY <2>2 DEF S!AllocBegin, S!AllocCall
  <2> QED
    BY <1>1, <2>1, <2>2 DEF Allocate
<1>2. CASE Set(p, c, password)
  <2>1. CASE S!SetRefused(p, c.key, c.value, password)
    BY <2>1 DEF S!SetRefused, S!Refuse, S!Finish, S!SetCall
  <2>2. CASE S!SetBegin(p, c.key, c.value, password)
    BY <2>2 DEF S!SetBegin, S!SetCall
  <2> QED
    BY <1>2, <2>1, <2>2 DEF Set
<1>3. CASE Get(p, c, password)
  <2>1. CASE S!GetRefused(p, c.key, password)
    BY <2>1 DEF S!GetRefused, S!Refuse, S!Finish, S!GetCall
  <2>2. CASE S!GetBegin(p, c.key, password)
    BY <2>2 DEF S!GetBegin, S!GetCall
  <2> QED
    BY <1>3, <2>1, <2>2 DEF Get
<1> QED
  BY <1>1, <1>2, <1>3

(* The same for the derivations. *)
LEMMA KeyFrames ==
  ASSUME K!Inv
  PROVE  /\ kpc \in [Proc -> K!States] /\ login \in [Proc -> K!Name]
         /\ secret \in [Proc -> Secret \cup {Absent}] /\ kret \in [Proc -> {"none", "ok", "fail"}]
         /\ derived \subseteq Secret
BY DEF K!Inv, K!TypeOK

(* A derivation that goes on keeps its argument and, when it succeeds,     *)
(* has counted the key it used.                                            *)
LEMMA WorkStep ==
  ASSUME K!Inv, NEW p \in Proc, K!Work(p), kret[p] = "ok" => kpc[p] = "done"
  PROVE  /\ login' = login /\ faults' = faults /\ derived \subseteq derived'
         /\ kpc[p] # "idle" /\ kpc'[p] # "idle"
         /\ kret'[p] = "ok" => kpc'[p] = "done" /\ secret'[p] \in derived'
         /\ \A q \in Proc \ {p} : KeyKept(q)
<1> USE KeyFrames
<1> USE DEF K!files, KeyKept
<1>1. CASE K!Create(p) \/ K!OpenPublic(p) \/ K!OpenPublicFails(p) \/ K!OpenPrivate(p)
  BY <1>1 DEF K!Work, K!Create, K!OpenPublic, K!OpenPublicFails, K!OpenPrivate, K!Goto
<1>2. CASE K!ClosePublic(p) \/ K!ClosePrivate(p) \/ K!ReadPublic(p)
  BY <1>2 DEF K!Work, K!ClosePublic, K!ClosePrivate, K!ReadPublic, K!Goto
<1>3. CASE K!OpenPrivateOnly(p) \/ K!CreateFails(p) \/ K!ReadPublicFails(p) \/ K!ReadPrivateFails(p)
  BY <1>3 DEF K!Work, K!OpenPrivateOnly, K!CreateFails, K!ReadPublicFails, K!ReadPrivateFails, K!Finish
<1>4. CASE K!ReadPrivate(p)
  BY <1>4 DEF K!Work, K!ReadPrivate, K!Loads, K!Finish
<1> QED
  BY <1>1, <1>2, <1>3, <1>4 DEF K!Work

-----------------------------------------------------------------------------
(* Every step of the program is a step of each component, or leaves it     *)
(* alone.                                                                  *)

(* What the arguments of a command are. *)
LEMMA CommandTypes ==
  ASSUME NEW c \in Commands
  PROVE  /\ c.op = "allocate" => c.size \in Size
         /\ c.op = "set" => c.key \in Key /\ c.value \in Value
         /\ c.op = "get" => c.key \in Key
BY SMTT(30) DEF Commands

(* The process that calls the library holds a password that was derived. *)
LEMMA CallerPassword ==
  ASSUME CliInv, NEW p \in Proc, kret[p] = "ok"
  PROVE  /\ header_password(p) \in Derived
         /\ header_password(p).login = login[p]
         /\ header_password(p) \in [key : Secret, login : Login] \cup {EmptyPassword}
         /\ phase[p] = "derive" /\ command[p] \in Commands
<1>1. kpc[p] = "done" /\ secret[p] \in derived
  BY DEF CliInv, ProcInv, HoldsDerived
<1>2. phase[p] = "derive" /\ login[p] \in Login /\ command[p] \in Commands
  BY <1>1 DEF CliInv, ProcInv, PhaseAgrees
<1>3. derived \subseteq Secret
  BY KeyFrames DEF CliInv
<1> QED
  BY <1>1, <1>2, <1>3 DEF Derived, header_password, K!HMAC

(* A process outside the library has nothing there to forget. *)
LEMMA ForgetNothing ==
  ASSUME CliInv, NEW p \in Proc, S!Forget(p), pc[p] = "idle"
  PROVE  UNCHANGED storeVars
<1> USE StoreFrames
<1>1. S!Shape
  BY DEF CliInv
<1>2. /\ arg[p] = S!NoCall /\ fd[p] = None /\ hdr[p] = None /\ cur[p] = 0 /\ found[p] = None
      /\ since[p] = 0 /\ ret[p] = "none"
  BY DEF CliInv, ProcInv, FrameClean
<1> QED
  BY <1>1, <1>2 DEF S!Forget, S!fileVars, storeVars

(* Every step of the program is one of the store, or beside it. *)
LEMMA StoreStep == ASSUME CliInv, Next PROVE [S!Next]_storeVars
<1>1. ASSUME NEW p \in Proc, Call(p) PROVE S!Next
  <2> DEFINE c == command[p]
             password == header_password(p)
  <2>1. kret[p] = "ok" /\ (Allocate(p, c, password) \/ Set(p, c, password) \/ Get(p, c, password))
    BY <1>1 DEF Call
  <2>2. c \in Commands /\ password \in [key : Secret, login : Login] \cup {EmptyPassword}
    BY <2>1, CallerPassword
  <2> HIDE DEF c, password
  <2>3. CASE Allocate(p, c, password)
    BY <2>2, <2>3, CommandTypes DEF Allocate, S!Next, S!AllocNext
  <2>4. CASE Set(p, c, password)
    BY <2>2, <2>4, CommandTypes DEF Set, S!Next, S!SetNext
  <2>5. CASE Get(p, c, password)
    BY <2>2, <2>5, CommandTypes DEF Get, S!Next, S!GetNext
  <2> QED
    BY <2>1, <2>3, <2>4, <2>5
<1>2. ASSUME NEW p \in Proc, Operate(p) PROVE S!Next
  BY <1>2 DEF Operate, S!Progress, S!Proceed, S!Next, S!AllocNext, S!SetNext, S!GetNext
<1>3. ASSUME NEW p \in Proc, Finish(p) PROVE S!Next
  BY <1>3 DEF Finish, S!Next
<1>4. ASSUME NEW p \in Proc, Kill(p) PROVE [S!Next]_storeVars
  <2>1. S!Forget(p) /\ "kill" \in Faults
    BY <1>4 DEF Kill, CliInv
  <2>2. CASE pc[p] = "idle"
    BY <2>1, <2>2, ForgetNothing
  <2>3. CASE pc[p] # "idle"
    BY <2>1, <2>3 DEF S!Next, S!Kill
  <2> QED
    BY <2>2, <2>3
<1> QED
  BY <1>1, <1>2, <1>3, <1>4 DEF Next, Start, Prompt, Authenticate, Derive, DeriveFails, RewriteRule,
     ChangePassword, Overtake

(* Every step of the program is one of a derivation, or beside it. *)
LEMMA KeyStep == ASSUME CliInv, Next PROVE [K!Next]_keyVars
<1>1. ASSUME NEW p \in Proc, NEW c \in Commands, Start(p, c) PROVE [K!Next]_keyVars
  BY <1>1 DEF Start, DeriveBegin, Login, K!Next
<1>2. ASSUME NEW p \in Proc, Authenticate(p) PROVE [K!Next]_keyVars
  <2>1. typed[p] \in Typed \cup {""}
    BY DEF CliInv, CliTyped
  <2> QED
    BY <1>2, <2>1 DEF Authenticate, DeriveBegin, Login, K!Derive, K!DeriveMistaken, K!Next
<1>3. ASSUME NEW p \in Proc, Derive(p) PROVE K!Next
  BY <1>3 DEF Derive, K!Next
<1>4. ASSUME NEW p \in Proc, DeriveFails(p) \/ Call(p) PROVE K!Next
  BY <1>4 DEF DeriveFails, Call, K!Next
<1>5. ASSUME NEW p \in Proc, Kill(p) PROVE [K!Next]_keyVars
  <2>1. K!Forget(p) /\ "kill" \in faults
    BY <1>5 DEF Kill
  <2>2. CASE kpc[p] = "idle"
    <3>1. login[p] = "" /\ secret[p] = Absent /\ kret[p] = "none"
      BY <2>2 DEF CliInv, ProcInv, FrameClean
    <3>2. K!Inv
      BY DEF CliInv
    <3> QED
      BY <2>1, <2>2, <3>1, <3>2, KeyFrames DEF K!Forget, K!files, keyVars
  <2>3. CASE kpc[p] # "idle"
    BY <2>1, <2>3 DEF K!Next, K!Kill, K!Return
  <2> QED
    BY <2>2, <2>3
<1> QED
  BY <1>1, <1>2, <1>3, <1>4, <1>5 DEF Next, Prompt, Operate, Finish, RewriteRule, ChangePassword, Overtake

-----------------------------------------------------------------------------
(* The invariant CliInv                                                    *)

(* A process whose frames a step leaves alone. *)
LEMMA OtherProcess ==
  ASSUME CliInv, NEW q \in Proc, StoreKept(q), KeyKept(q),
         phase'[q] = phase[q], command'[q] = command[q], typed'[q] = typed[q],
         derived \subseteq derived', UNCHANGED envVars,
         q \in stale' <=> q \in stale, stale \cap Inode \subseteq stale'
  PROVE  ProcInv(q)'
<1> USE DEF StoreKept, KeyKept
<1>1. ProcInv(q)
  BY DEF CliInv
<1>2. FrameClean(q)' /\ PhaseAgrees(q)'
  BY <1>1 DEF ProcInv, FrameClean, PhaseAgrees
<1>3. HoldsDerived(q)'
  BY <1>1 DEF ProcInv, HoldsDerived, Derived
<1>4. CurrentLogin' = CurrentLogin
      /\ Passwordless' = Passwordless
  BY DEF CurrentLogin, Passwordless, envVars
<1>5. pc[q] \in S!AllocStates => fd[q] \in Inode
  BY StoreFrames DEF CliInv, S!Shape, S!CallShape, S!OwnsTemp
<1>6. LoginIsCurrent(q)'
  BY <1>1, <1>4, <1>5 DEF ProcInv, LoginIsCurrent
<1> QED
  BY <1>2, <1>3, <1>6 DEF ProcInv

(* A file whose password a step leaves alone. *)
LEMMA OtherFile ==
  ASSUME CliInv, NEW i \in Inode,
         header'[i] # None => header[i] # None /\ header'[i].password = header[i].password,
         derived \subseteq derived', UNCHANGED envVars, stale \cap Inode \subseteq stale'
  PROVE  FileInv(i)'
<1>1. FileInv(i)
  BY DEF CliInv
<1>2. CurrentLogin' = CurrentLogin
  BY DEF CurrentLogin, Passwordless, envVars
<1> QED
  BY <1>1, <1>2 DEF FileInv, Derived

(* A step of p that leaves every file's password alone. *)
LEMMA QuietCommand ==
  ASSUME CliInv, NEW p \in Proc,
         \A q \in Proc \ {p} :
           /\ StoreKept(q) /\ KeyKept(q)
           /\ phase'[q] = phase[q] /\ command'[q] = command[q] /\ typed'[q] = typed[q]
           /\ q \in stale' <=> q \in stale,
         \A i \in Inode : header'[i] # None => header[i] # None /\ header'[i].password = header[i].password,
         derived \subseteq derived', UNCHANGED envVars, stale \cap Inode \subseteq stale',
         ProcInv(p)'
  PROVE  (\A q \in Proc : ProcInv(q)') /\ (\A i \in Inode : FileInv(i)')
<1>1. ASSUME NEW q \in Proc \ {p} PROVE ProcInv(q)'
  BY OtherProcess
<1>2. ASSUME NEW i \in Inode PROVE FileInv(i)'
  BY OtherFile
<1> QED
  BY <1>1, <1>2

(* The library or the derivation is not called meanwhile. *)
LEMMA StoreUntouched == ASSUME UNCHANGED storeVars PROVE \A q \in Proc : StoreKept(q)
BY DEF storeVars, StoreKept

(* No step beside the derivations changes one. *)
LEMMA KeyUntouched == ASSUME UNCHANGED keyVars PROVE \A q \in Proc : KeyKept(q)
BY DEF keyVars, KeyKept

(* A process that is not in a call has clean frames. *)
LEMMA OutsideStore ==
  ASSUME CliInv, NEW p \in Proc, phase[p] # "store"
  PROVE  pc[p] = "idle" /\ FrameClean(p)
BY DEF CliInv, ProcInv, PhaseAgrees

(* A process that is not deriving has a clean frame there too. *)
LEMMA OutsideKey ==
  ASSUME CliInv, NEW p \in Proc, phase[p] # "derive"
  PROVE  kpc[p] = "idle" /\ login[p] = "" /\ secret[p] = Absent /\ kret[p] = "none"
BY DEF CliInv, ProcInv, PhaseAgrees, FrameClean

(* The functions over processes that the program has of its own: a step    *)
(* of p leaves the rest of them alone.                                     *)
LEMMA ExitStep ==
  ASSUME CliTyped, NEW p \in Proc, Exit(p)
  PROVE  /\ CliTyped'
         /\ phase'[p] = "shell"
         /\ \A q \in Proc \ {p} :
              phase'[q] = phase[q] /\ command'[q] = command[q] /\ typed'[q] = typed[q]
BY DEF Exit, CliTyped

(* What a derivation that begins leaves alone. *)
LEMMA DeriveBeginStep ==
  ASSUME CliInv, NEW p \in Proc, NEW l \in Login, DeriveBegin(p, l)
  PROVE  /\ kpc[p] = "idle" /\ kpc'[p] # "idle"
         /\ login'[p] = l /\ kret'[p] = kret[p] /\ secret'[p] = secret[p]
         /\ derived' = derived
         /\ \A q \in Proc \ {p} : KeyKept(q)
<1>1. K!Inv /\ (K!Derive(p, l) \/ K!DeriveMistaken(p, l))
  BY DEF CliInv, DeriveBegin
<1> QED
  BY <1>1, KeyFrames DEF K!Derive, K!DeriveMistaken, K!Begin, KeyKept

(* A process that returned, or was killed, starts again. *)
LEMMA ForgottenStore ==
  ASSUME S!Shape, NEW p \in Proc, S!Forget(p)
  PROVE  /\ pc'[p] = "idle" /\ arg'[p] = S!NoCall /\ fd'[p] = None /\ hdr'[p] = None /\ cur'[p] = 0
         /\ found'[p] = None /\ since'[p] = 0 /\ ret'[p] = "none"
         /\ header' = header
         /\ \A q \in Proc \ {p} : StoreKept(q)
BY StoreFrames DEF S!Forget, S!fileVars, StoreKept

(* The same for its derivation. *)
LEMMA ForgottenKey ==
  ASSUME K!Inv, NEW p \in Proc, K!Forget(p)
  PROVE  /\ kpc'[p] = "idle" /\ login'[p] = "" /\ secret'[p] = Absent /\ kret'[p] = "none"
         /\ derived' = derived /\ faults' = faults
         /\ \A q \in Proc \ {p} : KeyKept(q)
BY KeyFrames DEF K!Forget, K!files, KeyKept

(* A process back in the shell, whose calls are over. *)
LEMMA InShell ==
  ASSUME NEW p \in Proc, phase'[p] = "shell", pc'[p] = "idle", kpc'[p] = "idle", FrameClean(p)'
  PROVE  ProcInv(p)'
<1>1. PhaseAgrees(p)'
  BY DEF PhaseAgrees
<1>2. HoldsDerived(p)'
  BY DEF HoldsDerived, FrameClean
<1>3. LoginIsCurrent(p)'
  BY DEF LoginIsCurrent, S!AllocStates
<1> QED
  BY <1>1, <1>2, <1>3 DEF ProcInv

(* What each action establishes, given that the components keep theirs. *)
Rest == CliTyped /\ (\A p \in Proc : ProcInv(p)) /\ (\A i \in Inode : FileInv(i))

(* A command prompts, or derives from the user name; one that does what    *)
(* the service file does not say is not counted as current.                *)
LEMMA RestStart == ASSUME CliInv, NEW p \in Proc, NEW c \in Commands, Start(p, c) PROVE Rest'
<1>0. PICK no_prompt \in pam_service_is_passwordless_for_user :
        /\ \/ /\ no_prompt
              /\ DeriveBegin(p, Username)
           \/ /\ ~no_prompt
              /\ phase' = [phase EXCEPT ![p] = "prompt"]
              /\ UNCHANGED <<keyVars, typed>>
        /\ stale' = IF no_prompt = Passwordless THEN stale \ {p} ELSE stale \cup {p}
  BY DEF Start
<1>1. /\ phase[p] = "shell" /\ command' = [command EXCEPT ![p] = c]
      /\ stale' \in {stale \ {p}, stale \cup {p}}
      /\ UNCHANGED <<storeVars, envVars>>
      /\ CliTyped
  BY <1>0 DEF Start, CliInv
<1>2. pc[p] = "idle" /\ FrameClean(p) /\ kpc[p] = "idle"
      /\ login[p] = "" /\ secret[p] = Absent /\ kret[p] = "none"
  BY <1>1, OutsideStore, OutsideKey
<1>3. (\A q \in Proc : StoreKept(q)) /\ header' = header
  BY <1>1, StoreUntouched DEF storeVars
<1>4. p \notin Inode
  BY CliAssumption DEF CliAssumption
<1>5. CASE no_prompt
  <2>1. DeriveBegin(p, Username) /\ Username \in Login
    BY <1>0, <1>5 DEF Login
  <2>2. CliTyped' /\ phase'[p] = "derive" /\ command'[p] = c
        /\ \A q \in Proc \ {p} : phase'[q] = phase[q] /\ command'[q] = command[q] /\ typed'[q] = typed[q]
    BY <1>1, <2>1 DEF DeriveBegin, CliTyped
  <2>3. /\ kpc'[p] # "idle"
        /\ login'[p] = Username /\ kret'[p] = "none" /\ secret'[p] = Absent
        /\ derived' = derived
        /\ \A q \in Proc \ {p} : KeyKept(q)
    BY <1>2, <2>1, DeriveBeginStep
  <2>4. FrameClean(p)' /\ PhaseAgrees(p)' /\ HoldsDerived(p)'
    BY <1>2, <1>3, <2>1, <2>2, <2>3 DEF FrameClean, PhaseAgrees, HoldsDerived, StoreKept
  <2>5. p \notin stale' => CurrentLogin' = Username
    <3>1. p \notin stale' => Passwordless
      BY <1>0, <1>5
    <3> QED
      BY <1>1, <3>1 DEF CurrentLogin, Passwordless, envVars
  <2>6. LoginIsCurrent(p)'
    BY <1>2, <1>3, <2>2, <2>3, <2>5 DEF LoginIsCurrent, StoreKept, S!AllocStates
  <2> QED
    BY <1>1, <1>3, <1>4, <2>2, <2>3, <2>4, <2>6, QuietCommand DEF Rest, ProcInv
<1>6. CASE ~no_prompt
  <2>1. phase' = [phase EXCEPT ![p] = "prompt"] /\ UNCHANGED <<keyVars, typed>>
    BY <1>0, <1>6
  <2>2. CliTyped' /\ phase'[p] = "prompt" /\ command'[p] = c
        /\ \A q \in Proc \ {p} : phase'[q] = phase[q] /\ command'[q] = command[q] /\ typed'[q] = typed[q]
    BY <1>1, <2>1 DEF CliTyped
  <2>3. (\A q \in Proc : KeyKept(q)) /\ derived' = derived
    BY <2>1, KeyUntouched DEF keyVars
  <2>4. FrameClean(p)' /\ PhaseAgrees(p)' /\ HoldsDerived(p)'
    BY <1>2, <1>3, <2>2, <2>3 DEF FrameClean, PhaseAgrees, HoldsDerived, StoreKept, KeyKept
  <2>5. p \notin stale' => ~Passwordless'
    <3>1. p \notin stale' => ~Passwordless
      BY <1>0, <1>6
    <3> QED
      BY <1>1, <3>1 DEF Passwordless, envVars
  <2>6. LoginIsCurrent(p)'
    BY <1>2, <1>3, <2>2, <2>5 DEF LoginIsCurrent, StoreKept, S!AllocStates
  <2> QED
    BY <1>1, <1>3, <1>4, <2>2, <2>3, <2>4, <2>6, QuietCommand DEF Rest, ProcInv
<1> QED
  BY <1>5, <1>6

(* A step of p that ends in the shell without touching the files. *)
LEMMA RestExit ==
  ASSUME CliInv, NEW p \in Proc, Exit(p), UNCHANGED <<envVars, stale>>, header' = header, derived' = derived,
         \A q \in Proc \ {p} : StoreKept(q) /\ KeyKept(q),
         pc'[p] = "idle", kpc'[p] = "idle", FrameClean(p)'
  PROVE  Rest'
<1>1. CliTyped
  BY DEF CliInv
<1>2. CliTyped' /\ phase'[p] = "shell"
      /\ \A q \in Proc \ {p} : phase'[q] = phase[q] /\ command'[q] = command[q] /\ typed'[q] = typed[q]
  BY <1>1, ExitStep
<1>3. ProcInv(p)'
  BY <1>2, InShell
<1> QED
  BY <1>2, <1>3, QuietCommand DEF Rest

(* prompt_password ends the command or leaves it with a typed line. *)
LEMMA RestPrompt == ASSUME CliInv, NEW p \in Proc, NEW line \in Typed, Prompt(p, line) PROVE Rest'
<1>1. phase[p] = "prompt" /\ UNCHANGED <<storeVars, keyVars, envVars, stale>> /\ CliTyped
  BY DEF Prompt, CliInv
<1>2. pc[p] = "idle" /\ FrameClean(p) /\ kpc[p] = "idle" /\ ProcInv(p)
  BY <1>1, OutsideStore, OutsideKey DEF CliInv
<1>3. (\A q \in Proc : StoreKept(q) /\ KeyKept(q)) /\ header' = header /\ derived' = derived
  BY <1>1, StoreUntouched, KeyUntouched DEF storeVars, keyVars
<1>4. FrameClean(p)'
  BY <1>2, <1>3 DEF FrameClean, StoreKept, KeyKept
<1>5. CASE line = ""
  <2>1. Exit(p) /\ pc'[p] = "idle" /\ kpc'[p] = "idle"
    BY <1>2, <1>3, <1>5 DEF Prompt, StoreKept, KeyKept
  <2> QED
    BY <1>1, <1>3, <1>4, <2>1, RestExit
<1>6. CASE line # ""
  <2>1. phase' = [phase EXCEPT ![p] = "pam"] /\ typed' = [typed EXCEPT ![p] = line] /\ command' = command
    BY <1>6 DEF Prompt
  <2>2. CliTyped' /\ phase'[p] = "pam" /\ command'[p] = command[p]
        /\ \A q \in Proc \ {p} : phase'[q] = phase[q] /\ command'[q] = command[q] /\ typed'[q] = typed[q]
    BY <1>1, <2>1 DEF CliTyped
  <2>3. PhaseAgrees(p)' /\ HoldsDerived(p)'
    BY <1>1, <1>2, <1>3, <2>2 DEF ProcInv, PhaseAgrees, HoldsDerived, StoreKept, KeyKept
  <2>4. Passwordless' = Passwordless
    BY <1>1 DEF Passwordless, envVars
  <2>5. LoginIsCurrent(p)'
    BY <1>1, <1>2, <1>3, <2>2, <2>4 DEF ProcInv, LoginIsCurrent, StoreKept, S!AllocStates
  <2> QED
    BY <1>1, <1>3, <1>4, <2>2, <2>3, <2>5, QuietCommand DEF Rest, ProcInv
<1> QED
  BY <1>5, <1>6

(* What PAM accepts is the login of the account, unless it was changed     *)
(* since the command began.                                                *)
LEMMA RestAuthenticate == ASSUME CliInv, NEW p \in Proc, Authenticate(p) PROVE Rest'
<1>1. phase[p] = "pam" /\ UNCHANGED <<storeVars, envVars, stale>> /\ CliTyped
  BY DEF Authenticate, CliInv
<1>2. /\ pc[p] = "idle" /\ FrameClean(p) /\ kpc[p] = "idle" /\ ProcInv(p)
      /\ secret[p] = Absent /\ kret[p] = "none"
  BY <1>1, OutsideStore, OutsideKey DEF CliInv
<1>3. (\A q \in Proc : StoreKept(q)) /\ header' = header
  BY <1>1, StoreUntouched DEF storeVars
<1>4. CASE Exit(p) /\ UNCHANGED keyVars
  <2>1. (\A q \in Proc : KeyKept(q)) /\ derived' = derived
    BY <1>4, KeyUntouched DEF keyVars
  <2>2. pc'[p] = "idle" /\ kpc'[p] = "idle" /\ FrameClean(p)'
    BY <1>2, <1>3, <2>1 DEF FrameClean, StoreKept, KeyKept
  <2> QED
    BY <1>1, <1>3, <1>4, <2>1, <2>2, RestExit
<1>5. CASE /\ TRUE \in pam_authenticate(typed[p])
           /\ DeriveBegin(p, typed[p])
           /\ UNCHANGED command
  <2>1. typed[p] \in Login
    BY <1>1, <1>5 DEF CliTyped, DeriveBegin, K!Derive, K!DeriveMistaken, Login
  <2>2. CliTyped' /\ phase'[p] = "derive" /\ command'[p] = command[p]
        /\ \A q \in Proc \ {p} : phase'[q] = phase[q] /\ command'[q] = command[q] /\ typed'[q] = typed[q]
    BY <1>1, <1>5 DEF DeriveBegin, CliTyped
  <2>3. /\ kpc'[p] # "idle"
        /\ login'[p] = typed[p] /\ kret'[p] = "none" /\ secret'[p] = Absent
        /\ derived' = derived
        /\ \A q \in Proc \ {p} : KeyKept(q)
    BY <1>2, <1>5, <2>1, DeriveBeginStep
  <2>4. FrameClean(p)' /\ PhaseAgrees(p)' /\ HoldsDerived(p)'
    BY <1>1, <1>2, <1>3, <2>1, <2>2, <2>3 DEF FrameClean, ProcInv, PhaseAgrees, HoldsDerived, StoreKept
  <2>5. p \notin stale => typed[p] = CurrentLogin
    BY <1>1, <1>2, <1>5
       DEF ProcInv, LoginIsCurrent, pam_authenticate, CurrentLogin, Passwordless
  <2>6. CurrentLogin' = CurrentLogin
    BY <1>1 DEF CurrentLogin, Passwordless, envVars
  <2>7. LoginIsCurrent(p)'
    BY <1>1, <1>2, <1>3, <2>2, <2>3, <2>5, <2>6 DEF LoginIsCurrent, StoreKept, S!AllocStates
  <2> QED
    BY <1>1, <1>3, <2>2, <2>3, <2>4, <2>7, QuietCommand DEF Rest, ProcInv
<1> QED
  BY <1>4, <1>5 DEF Authenticate

(* A step of the derivation: what it ends with was derived from the login  *)
(* of the command.                                                         *)
LEMMA RestDerive == ASSUME CliInv, NEW p \in Proc, Derive(p) PROVE Rest'
<1>1. K!Work(p) /\ UNCHANGED <<storeVars, envVars, cliVars, stale>> /\ K!Inv /\ CliTyped /\ ProcInv(p)
  BY DEF Derive, CliInv
<1>2. (\A q \in Proc : StoreKept(q)) /\ header' = header /\ UNCHANGED <<phase, command, typed>>
  BY <1>1, StoreUntouched DEF storeVars, cliVars
<1>3. /\ login' = login /\ derived \subseteq derived'
      /\ kpc[p] # "idle" /\ kpc'[p] # "idle"
      /\ kret'[p] = "ok" => kpc'[p] = "done" /\ secret'[p] \in derived'
      /\ \A q \in Proc \ {p} : KeyKept(q)
  <2>1. kret[p] = "ok" => kpc[p] = "done"
    BY <1>1 DEF ProcInv, HoldsDerived
  <2> QED
    BY <1>1, <2>1, WorkStep
<1>4. FrameClean(p)' /\ PhaseAgrees(p)'
  BY <1>1, <1>2, <1>3 DEF ProcInv, FrameClean, PhaseAgrees, StoreKept
<1>5. HoldsDerived(p)'
  BY <1>1, <1>2, <1>3 DEF ProcInv, HoldsDerived, Derived, StoreKept
<1>6. CurrentLogin' = CurrentLogin
      /\ Passwordless' = Passwordless
  BY <1>1 DEF CurrentLogin, Passwordless, envVars
<1>7. LoginIsCurrent(p)'
  BY <1>1, <1>2, <1>3, <1>6 DEF ProcInv, LoginIsCurrent, StoreKept
<1>8. CliTyped'
  BY <1>1, <1>2 DEF CliTyped
<1> QED
  BY <1>1, <1>2, <1>3, <1>4, <1>5, <1>7, <1>8, QuietCommand DEF Rest, ProcInv

(* A derivation that failed ends the command. *)
LEMMA RestDeriveFails == ASSUME CliInv, NEW p \in Proc, DeriveFails(p) PROVE Rest'
<1>1. /\ K!Forget(p) /\ kpc[p] = "done" /\ Exit(p) /\ UNCHANGED <<storeVars, envVars, stale>>
      /\ K!Inv /\ ProcInv(p)
  BY DEF DeriveFails, K!Return, CliInv
<1>2. (\A q \in Proc : StoreKept(q)) /\ header' = header
  BY <1>1, StoreUntouched DEF storeVars
<1>3. /\ kpc'[p] = "idle" /\ login'[p] = "" /\ secret'[p] = Absent /\ kret'[p] = "none"
      /\ derived' = derived
      /\ \A q \in Proc \ {p} : KeyKept(q)
  BY <1>1, ForgottenKey
<1>4. pc'[p] = "idle" /\ FrameClean(p)'
  BY <1>1, <1>2, <1>3 DEF ProcInv, PhaseAgrees, FrameClean, StoreKept
<1> QED
  BY <1>1, <1>2, <1>3, <1>4, RestExit

(* The call returned, and so does main. *)
LEMMA RestFinish == ASSUME CliInv, NEW p \in Proc, Finish(p) PROVE Rest'
<1>1. /\ S!Forget(p) /\ pc[p] = "done" /\ Exit(p) /\ UNCHANGED <<keyVars, envVars, stale>>
      /\ S!Shape /\ ProcInv(p)
  BY DEF Finish, S!Return, CliInv
<1>2. (\A q \in Proc : KeyKept(q)) /\ derived' = derived
  BY <1>1, KeyUntouched DEF keyVars
<1>3. /\ pc'[p] = "idle" /\ arg'[p] = S!NoCall /\ fd'[p] = None /\ hdr'[p] = None /\ cur'[p] = 0
      /\ found'[p] = None /\ since'[p] = 0 /\ ret'[p] = "none"
      /\ header' = header
      /\ \A q \in Proc \ {p} : StoreKept(q)
  BY <1>1, ForgottenStore
<1>4. kpc'[p] = "idle" /\ FrameClean(p)'
  <2>1. kpc[p] = "idle"
    BY <1>1 DEF ProcInv, PhaseAgrees
  <2> QED
    BY <1>1, <1>2, <1>3, <2>1 DEF ProcInv, FrameClean, KeyKept, S!NoCall
<1> QED
  BY <1>1, <1>2, <1>3, <1>4, RestExit

(* A killed command leaves its files as they are. *)
LEMMA RestKill == ASSUME CliInv, NEW p \in Proc, Kill(p) PROVE Rest'
<1>1. S!Forget(p) /\ K!Forget(p) /\ Exit(p) /\ UNCHANGED <<envVars, stale>> /\ S!Shape /\ K!Inv
  BY DEF Kill, CliInv
<1>2. /\ pc'[p] = "idle" /\ arg'[p] = S!NoCall /\ fd'[p] = None /\ hdr'[p] = None /\ cur'[p] = 0
      /\ found'[p] = None /\ since'[p] = 0 /\ ret'[p] = "none"
      /\ header' = header
      /\ \A q \in Proc \ {p} : StoreKept(q)
  BY <1>1, ForgottenStore
<1>3. /\ kpc'[p] = "idle" /\ login'[p] = "" /\ secret'[p] = Absent /\ kret'[p] = "none"
      /\ derived' = derived
      /\ \A q \in Proc \ {p} : KeyKept(q)
  BY <1>1, ForgottenKey
<1>4. FrameClean(p)'
  BY <1>2, <1>3 DEF FrameClean, S!NoCall
<1> QED
  BY <1>1, <1>2, <1>3, <1>4, RestExit

(* The library is called with the password that was derived. *)
LEMMA RestCall == ASSUME CliInv, NEW p \in Proc, Call(p) PROVE Rest'
<1> DEFINE password == header_password(p)
<1>1. /\ kret[p] = "ok" /\ K!Forget(p)
      /\ phase' = [phase EXCEPT ![p] = "store"]
      /\ stale' = IF p \in stale THEN stale \cup (created' \ created) ELSE stale
      /\ UNCHANGED <<envVars, command, typed>>
      /\ S!Shape /\ K!Inv /\ CliTyped /\ ProcInv(p)
  BY DEF Call, K!Return, CliInv
<1>2. password \in Derived /\ password.login = login[p] /\ phase[p] = "derive" /\ command[p] \in Commands
  BY <1>1, CallerPassword
<1>3. /\ pc[p] = "idle" /\ pc'[p] # "idle"
      /\ arg'[p].password = password
      /\ header' = header
      /\ created' \subseteq Inode
      /\ pc'[p] \in S!AllocStates => fd'[p] \in created' \ created
      /\ \A q \in Proc \ {p} : StoreKept(q)
  <2> HIDE DEF password
  <2>1. \/ Allocate(p, command[p], password) \/ Set(p, command[p], password)
        \/ Get(p, command[p], password)
    BY DEF Call, password
  <2> QED
    BY <1>1, <1>2, <2>1, BeginStep
<1> HIDE DEF password
<1>4. /\ kpc'[p] = "idle" /\ login'[p] = "" /\ secret'[p] = Absent /\ kret'[p] = "none"
      /\ derived' = derived
      /\ \A q \in Proc \ {p} : KeyKept(q)
  BY <1>1, ForgottenKey
<1>5. CliTyped' /\ phase'[p] = "store"
      /\ \A q \in Proc \ {p} : phase'[q] = phase[q] /\ command'[q] = command[q] /\ typed'[q] = typed[q]
  BY <1>1 DEF CliTyped
<1>6. FrameClean(p)' /\ PhaseAgrees(p)'
  BY <1>1, <1>2, <1>3, <1>4, <1>5 DEF FrameClean, PhaseAgrees
<1>7. HoldsDerived(p)'
  BY <1>2, <1>3, <1>4 DEF HoldsDerived, Derived
<1>8. CurrentLogin' = CurrentLogin
  BY <1>1 DEF CurrentLogin, Passwordless, envVars
<1>9. \A q \in Proc : q \in stale' <=> q \in stale
  BY <1>1, <1>3, CliAssumption DEF CliAssumption
<1>10. LoginIsCurrent(p)'
  BY <1>1, <1>2, <1>3, <1>5, <1>8, <1>9 DEF ProcInv, LoginIsCurrent
<1>11. stale \cap Inode \subseteq stale'
  BY <1>1
<1> QED
  BY <1>1, <1>3, <1>4, <1>5, <1>6, <1>7, <1>9, <1>10, <1>11, QuietCommand DEF Rest, ProcInv

(* A step of the library: the only header it gives a new password is that  *)
(* of the allocation, which takes the one of the command.                  *)
LEMMA RestOperate == ASSUME CliInv, NEW p \in Proc, Operate(p) PROVE Rest'
<1>1. S!Progress(p) /\ UNCHANGED <<keyVars, envVars, cliVars, stale>> /\ S!Shape /\ CliTyped /\ ProcInv(p)
  BY DEF Operate, CliInv
<1>2. (\A q \in Proc : KeyKept(q)) /\ derived' = derived /\ UNCHANGED <<phase, command, typed>>
  BY <1>1, KeyUntouched DEF keyVars, cliVars
<1>3. /\ arg' = arg /\ fd' = fd
      /\ pc[p] # "idle" /\ pc'[p] # "idle"
      /\ pc'[p] \in S!AllocStates => pc[p] \in S!AllocStates
      /\ \A q \in Proc \ {p} : StoreKept(q)
      /\ \A i \in Inode : header'[i] # None =>
           \/ header[i] # None /\ header'[i].password = header[i].password
           \/ pc[p] \in S!AllocStates /\ fd[p] = i /\ header'[i].password = arg[p].password
  BY <1>1, ProgressStep
<1>4. CurrentLogin' = CurrentLogin
      /\ Passwordless' = Passwordless
  BY <1>1 DEF CurrentLogin, Passwordless, envVars
<1>5. ProcInv(p)'
  <2>1. FrameClean(p)' /\ PhaseAgrees(p)'
    BY <1>1, <1>2, <1>3 DEF ProcInv, FrameClean, PhaseAgrees, KeyKept
  <2>2. HoldsDerived(p)'
    BY <1>1, <1>2, <1>3 DEF ProcInv, HoldsDerived, Derived, KeyKept
  <2>3. LoginIsCurrent(p)'
    BY <1>1, <1>2, <1>3, <1>4 DEF ProcInv, LoginIsCurrent, KeyKept
  <2> QED
    BY <2>1, <2>2, <2>3 DEF ProcInv
<1>6. ASSUME NEW q \in Proc \ {p} PROVE ProcInv(q)'
  BY <1>1, <1>2, <1>3, OtherProcess
<1>7. ASSUME NEW i \in Inode PROVE FileInv(i)'
  <2>1. CASE header'[i] # None => header[i] # None /\ header'[i].password = header[i].password
    BY <1>1, <1>2, <2>1, OtherFile
  <2>2. CASE pc[p] \in S!AllocStates /\ fd[p] = i /\ header'[i].password = arg[p].password
    <3>1. arg[p].password \in Derived'
      BY <1>1, <1>2, <1>3 DEF ProcInv, HoldsDerived, Derived
    <3>2. i \notin stale => p \notin stale /\ phase[p] = "store"
      BY <1>1, <1>3, <2>2 DEF ProcInv, LoginIsCurrent, PhaseAgrees
    <3>3. i \notin stale' => header'[i].password.login = CurrentLogin'
      BY <1>1, <1>4, <2>2, <3>2 DEF ProcInv, LoginIsCurrent
    <3> QED
      BY <2>2, <3>1, <3>3 DEF FileInv
  <2> QED
    BY <1>3, <2>1, <2>2
<1>8. CliTyped'
  BY <1>1, <1>2 DEF CliTyped
<1> QED
  BY <1>5, <1>6, <1>7, <1>8 DEF Rest

(* After a change of the service file or of the account nothing that was   *)
(* begun counts as current.                                                *)
LEMMA RestOvertake == ASSUME CliInv, Overtake PROVE Rest'
<1>1. /\ stale' = created \cup {p \in Proc : phase[p] # "shell"}
      /\ UNCHANGED <<storeVars, keyVars, phase, command, typed>>
      /\ S!Shape /\ CliTyped
  BY DEF Overtake, cliVars, CliInv
<1>2. ASSUME NEW p \in Proc PROVE ProcInv(p)'
  <2>1. ProcInv(p) /\ StoreKept(p) /\ KeyKept(p) /\ derived' = derived
    BY <1>1, StoreUntouched, KeyUntouched DEF CliInv, keyVars
  <2>2. FrameClean(p)' /\ PhaseAgrees(p)' /\ HoldsDerived(p)'
    BY <1>1, <2>1 DEF ProcInv, FrameClean, PhaseAgrees, HoldsDerived, Derived, StoreKept, KeyKept
  <2>3. pc[p] \in S!AllocStates => fd[p] \in created
    BY <1>1, StoreFrames DEF S!Shape, S!CallShape, S!OwnsTemp
  <2>4. LoginIsCurrent(p)'
    BY <1>1, <2>1, <2>3 DEF LoginIsCurrent, StoreKept
  <2> QED
    BY <2>2, <2>4 DEF ProcInv
<1>3. ASSUME NEW i \in Inode PROVE FileInv(i)'
  <2>1. FileInv(i) /\ header' = header /\ derived' = derived
    BY <1>1 DEF CliInv, storeVars, keyVars
  <2>2. header[i] # None => i \in created
    BY <1>1 DEF S!Shape, S!FileShape, S!FreshFiles
  <2> QED
    BY <1>1, <2>1, <2>2 DEF FileInv, Derived
<1>4. CliTyped'
  BY <1>1 DEF CliTyped
<1> QED
  BY <1>2, <1>3, <1>4 DEF Rest

(* CliInv holds before the first command. *)
LEMMA CliInit == Init => CliInv
<1> SUFFICES ASSUME Init PROVE CliInv
  OBVIOUS
<1>1. S!Shape /\ K!Inv /\ faults = Faults
  BY StoreInit, KeyInit DEF Init
<1>2. CliTyped
  BY DEF Init, CliTyped
<1>3. ASSUME NEW p \in Proc PROVE ProcInv(p)
  <2>1. FrameClean(p)
    BY DEF Init, S!Init, K!Init, FrameClean
  <2>2. PhaseAgrees(p) /\ HoldsDerived(p) /\ LoginIsCurrent(p)
    BY DEF Init, S!Init, K!Init, PhaseAgrees, HoldsDerived, LoginIsCurrent
  <2> QED
    BY <2>1, <2>2 DEF ProcInv
<1>4. ASSUME NEW i \in Inode PROVE FileInv(i)
  BY DEF Init, S!Init, FileInv
<1> QED
  BY <1>1, <1>2, <1>3, <1>4 DEF CliInv

(* CliInv is inductive: the components keep theirs, and each action the    *)
(* rest.                                                                   *)
LEMMA CliNext == ASSUME SerialFirst, CliInv, [Next]_vars PROVE CliInv'
<1>1. CASE UNCHANGED vars
  <2>1. /\ UNCHANGED <<storeVars, keyVars, envVars, phase, command, typed, stale, header, derived, faults>>
        /\ CliTyped /\ faults = Faults
    BY <1>1 DEF vars, cliVars, storeVars, keyVars, CliInv
  <2>2. S!Shape' /\ K!Inv'
    BY <2>1, StoreNext, KeyNext DEF CliInv
  <2>3. ASSUME NEW q \in Proc PROVE ProcInv(q)'
    BY <2>1, StoreUntouched, KeyUntouched, OtherProcess
  <2>4. ASSUME NEW i \in Inode PROVE FileInv(i)'
    BY <2>1, OtherFile
  <2> QED
    BY <2>1, <2>2, <2>3, <2>4 DEF CliInv, CliTyped
<1>2. CASE Next
  <2>1. S!Shape' /\ K!Inv'
    BY <1>2, StoreStep, StoreNext, KeyStep, KeyNext DEF CliInv
  <2>2. faults' = Faults
    <3>1. K!Next => faults' = faults
      BY DEF K!Next, K!Work, K!DeriveRefused, K!Derive, K!DeriveMistaken, K!Begin, K!Return, K!Kill, K!Forget
    <3> QED
      BY <1>2, <3>1, KeyStep DEF CliInv, keyVars
  <2>3. Rest'
    BY <1>2, RestStart, RestPrompt, RestAuthenticate, RestDerive, RestDeriveFails, RestCall,
       RestOperate, RestFinish, RestKill, RestOvertake DEF Next, RewriteRule, ChangePassword
  <2> QED
    BY <2>1, <2>2, <2>3 DEF CliInv, Rest
<1> QED
  BY <1>1, <1>2

-----------------------------------------------------------------------------
(* Theorems                                                                *)

(* CliInv is an invariant of the composed program, whatever fails or is    *)
(* killed and however the configuration changes, when the first derivation *)
(* is not overlapped.                                                      *)
THEOREM CliInvariant == ASSUME SerialFirst PROVE Spec => []CliInv
<1>1. CliInv /\ [Next]_vars => CliInv'
  BY CliNext
<1> QED
  BY <1>1, CliInit, PTL DEF Spec

(* A call at the header of a file finds a header that read_header accepts, *)
(* and both hold passwords derived from the same key, unless access has    *)
(* overlooked a file of the secret.                                        *)
LEMMA SameKey ==
  ASSUME CliInv, ~mistaken, NEW p \in Proc, AtHeader(p)
  PROVE  /\ fd[p] \in Inode /\ header[fd[p]] # None /\ S!read_header(header[fd[p]])
         /\ arg[p].password \in [key : Secret, login : Login]
         /\ header[fd[p]].password \in [key : Secret, login : Login]
         /\ arg[p].password.key = header[fd[p]].password.key
         /\ phase[p] = "store"
<1>1. S!Shape /\ K!Inv /\ ProcInv(p)
  BY DEF CliInv
<1>2. fd[p] \in Inode /\ header[fd[p]] # None
  <2>1. S!OpensPublished(p)
    BY <1>1 DEF S!Shape, S!CallShape
  <2>2. fd[p] # None /\ S!Published(fd[p])
    BY <2>1 DEF S!OpensPublished, S!HasOpen, AtHeader, S!SetStates, S!GetStates
  <2> QED
    BY <1>1, <2>2, StoreFrames DEF S!Published
<1>3. S!read_header(header[fd[p]])
  BY <1>1, <1>2 DEF S!Shape, S!FileShape, S!HeadersValid
<1>4. arg[p].password \in Derived /\ header[fd[p]].password \in Derived
  BY <1>1, <1>2 DEF CliInv, FileInv, ProcInv, HoldsDerived, AtHeader
<1>5. derived \subseteq Secret /\ derived \subseteq {public}
  BY <1>1, KeyFrames DEF K!Inv, K!Undisturbed, K!UsedIsOnFile
<1>6. phase[p] = "store"
  BY <1>1 DEF ProcInv, PhaseAgrees, AtHeader
<1> QED
  BY SMTT(30), <1>2, <1>3, <1>4, <1>5, <1>6 DEF Derived

(* A call whose password is of the login that sealed the file opens it. *)
LEMMA SameLoginOpens ==
  ASSUME CliInv, ~mistaken, NEW p \in Proc, AtHeader(p),
         arg[p].password.login = header[fd[p]].password.login
  PROVE  S!Opens(p)
<1>1. /\ S!read_header(header[fd[p]])
      /\ arg[p].password \in [key : Secret, login : Login]
      /\ header[fd[p]].password \in [key : Secret, login : Login]
      /\ arg[p].password.key = header[fd[p]].password.key
  BY SameKey
<1>2. arg[p].password = header[fd[p]].password
  BY SMTT(30), <1>1
<1>3. arg[p].password # EmptyPassword
  BY <1>1, CliAssumption DEF CliAssumption
<1> QED
  BY <1>1, <1>2, <1>3 DEF S!Opens, S!decrypt_secret

(* A login that sealed a store opens it for ever, whatever fails or is     *)
(* killed in between and however often the service file or the account's   *)
(* password changes, as long as access sees the files of the secret and    *)
(* when the first derivation is not overlapped.                            *)
THEOREM LoginAlwaysOpens == ASSUME SerialFirst PROVE Spec => []LoginOpens
<1>1. CliInv => LoginOpens
  BY SameLoginOpens DEF LoginOpens
<1> QED
  BY <1>1, CliInvariant, PTL

(* A command begun since the last change of the service file or of the     *)
(* account opens every store allocated since then, when both could read    *)
(* the service file and as long as access sees the files of the secret: no *)
(* mistyped password seals a store or is tried on one.                     *)
THEOREM StoreAlwaysOpens == ASSUME SerialFirst PROVE Spec => []StoreOpens
<1>1. ASSUME CliInv, NEW p \in Proc, AtHeader(p), {p, fd[p]} \cap stale = {}, ~mistaken PROVE S!Opens(p)
  <2>1. fd[p] \in Inode /\ header[fd[p]] # None /\ phase[p] = "store"
    BY <1>1, SameKey
  <2>2. p \notin stale /\ fd[p] \notin stale
    BY <1>1
  <2>3. arg[p].password.login = CurrentLogin
    BY <1>1, <2>1, <2>2 DEF CliInv, ProcInv, LoginIsCurrent
  <2>4. header[fd[p]].password.login = CurrentLogin
    BY <1>1, <2>1, <2>2 DEF CliInv, FileInv
  <2> QED
    BY <1>1, <2>3, <2>4, SameLoginOpens
<1>2. CliInv => StoreOpens
  BY <1>1 DEF StoreOpens
<1> QED
  BY <1>2, CliInvariant, PTL

=============================================================================
