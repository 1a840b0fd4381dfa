-------------------------- MODULE SealedKeyProofs ---------------------------
(***************************************************************************)
(* When no derivation starts while another one creates the secret, the     *)
(* header passwords are stable, whatever fails or is killed, but for       *)
(* access failing on files that are there.                                 *)
(***************************************************************************)
EXTENDS SealedKey, TLAPS

(* Zenon proves most leaves; one that needs arithmetic or functions names SMT. *)
USE Zenon

(* The invariant holds initially. *)
LEMMA KeyInit == Init => Undisturbed
<1> SUFFICES ASSUME Init PROVE Undisturbed
  OBVIOUS
<1>1. TypeOK
  BY DEF Init, TypeOK, Blob, Name, States
<1>2. AloneWhileCreating /\ ReadersFindFiles /\ OpenedFilesExist /\ ReadIsCurrent
  BY DEF Init, AloneWhileCreating, ReadersFindFiles, OpenedFilesExist, ReadIsCurrent, CreateStates,
     UnsealStates
<1>3. UsedIsOnFile
  BY DEF Init, UsedIsOnFile
<1> QED
  BY <1>1, <1>2, <1>3 DEF Undisturbed

(* Steps that leave the files and what was derived alone and move p to a   *)
(* state that neither creates nor has read.                                *)
LEMMA KeyQuiet ==
  ASSUME Undisturbed, TypeOK', NEW p \in Proc, UNCHANGED <<files, derived>>,
         \A q \in Proc \ {p} : pc'[q] = pc[q] /\ secret'[q] = secret[q],
         pc'[p] \in {"idle", "done"}
  PROVE  Undisturbed'
<1>1. AloneWhileCreating'
  BY DEF Undisturbed, AloneWhileCreating, CreateStates
<1>2. ReadersFindFiles'
  BY DEF Undisturbed, ReadersFindFiles, UnsealStates, Missing, files
<1>3. UsedIsOnFile'
  BY DEF Undisturbed, UsedIsOnFile, files, CreateStates
<1>4. ReadIsCurrent'
  BY DEF Undisturbed, ReadIsCurrent, files
<1>5. OpenedFilesExist'
  BY DEF Undisturbed, OpenedFilesExist, files
<1> QED
  BY <1>1, <1>2, <1>3, <1>4, <1>5 DEF Undisturbed

(* Steps of a call that creates the secret: it runs alone and nothing has  *)
(* been derived.                                                           *)
LEMMA KeyCreating ==
  ASSUME Undisturbed, TypeOK', NEW p \in Proc, pc[p] \in CreateStates, derived' = derived,
         \A q \in Proc \ {p} : pc'[q] = pc[q] /\ secret'[q] = secret[q],
         pc'[p] \in UnsealStates => public' # Absent /\ private' # Absent,
         pc'[p] # "read_private",
         OpenedFilesExist'
  PROVE  Undisturbed'
<1>1. \A q \in Proc \ {p} : pc'[q] \in {"idle", "done"}
  BY DEF Undisturbed, AloneWhileCreating
<1>2. AloneWhileCreating'
  BY SMTT(30), <1>1 DEF AloneWhileCreating, CreateStates
<1>3. ReadersFindFiles'
  BY <1>1 DEF ReadersFindFiles, Missing, UnsealStates
<1>4. UsedIsOnFile'
  BY DEF Undisturbed, UsedIsOnFile
<1>5. ReadIsCurrent'
  BY <1>1 DEF ReadIsCurrent
<1> QED
  BY <1>2, <1>3, <1>4, <1>5 DEF Undisturbed

(* Steps of a call that unseals the secret: nobody is creating one. *)
LEMMA KeyUnsealing ==
  ASSUME Undisturbed, TypeOK', NEW p \in Proc, pc[p] \in UnsealStates, UNCHANGED files,
         \A q \in Proc \ {p} : pc'[q] = pc[q] /\ secret'[q] = secret[q],
         pc'[p] \in {"read_private", "done"},
         pc'[p] = "read_private" => secret'[p] = public,
         UsedIsOnFile'
  PROVE  Undisturbed'
<1>1. AloneWhileCreating'
  BY DEF Undisturbed, AloneWhileCreating, CreateStates, UnsealStates
<1>2. ReadersFindFiles'
  BY DEF Undisturbed, ReadersFindFiles, Missing, files
<1>3. ReadIsCurrent'
  BY DEF Undisturbed, ReadIsCurrent, files
<1>4. OpenedFilesExist'
  BY DEF Undisturbed, OpenedFilesExist, files
<1> QED
  BY <1>1, <1>2, <1>3, <1>4 DEF Undisturbed

(* No step changes the faults that the behaviour may meet. *)
LEMMA FaultsKept == ASSUME Next PROVE faults' = faults
BY DEF Next, Work, DeriveRefused, Derive, DeriveMistaken, Begin, Return, Kill, Forget

(* What access overlooked is never forgotten. *)
LEMMA MistakenKept ==
  ASSUME Next, mistaken \in BOOLEAN
  PROVE  /\ mistaken' \in BOOLEAN
         /\ mistaken => mistaken'
         /\ mistaken' => mistaken \/ "io" \in faults
<1>1. CASE mistaken' = mistaken
  BY <1>1
<1>2. CASE mistaken' = TRUE /\ "io" \in faults
  BY <1>2
<1>3. mistaken' = mistaken \/ (mistaken' = TRUE /\ "io" \in faults)
  BY DEF Next, Work, DeriveRefused, Derive, DeriveMistaken, Begin, Return, Kill, Forget
<1> QED
  BY <1>1, <1>2, <1>3

(* Every step keeps the variables' types. *)
LEMMA KeyTypes == ASSUME TypeOK, Next PROVE TypeOK'
<1> USE DEF TypeOK, Blob, Name, States, CreateStates, UnsealStates, files
<1>0. /\ faults' \subseteq Faults
      /\ mistaken' \in BOOLEAN
      /\ mistaken' => "io" \in faults'
  BY FaultsKept, MistakenKept
<1>1. ASSUME NEW p \in Proc, NEW l \in Login, DeriveRefused(p, l) \/ Derive(p, l) \/ DeriveMistaken(p, l)
      PROVE  TypeOK'
  <2>1. /\ pc' \in [Proc -> States] /\ login' \in [Proc -> Name] /\ ret' \in [Proc -> {"none", "ok", "fail"}]
        /\ UNCHANGED <<public, private, used, secret, derived>>
    BY ZenonT(60), <1>1 DEF DeriveRefused, Derive, DeriveMistaken, Begin
  <2> QED
    BY <1>0, <2>1
<1>2. ASSUME NEW p \in Proc, Create(p) PROVE TypeOK'
  BY <1>0, <1>2 DEF Create, Goto
<1>3. ASSUME NEW p \in Proc, OpenPublic(p) \/ OpenPublicFails(p) \/ OpenPrivate(p) \/ OpenPrivateOnly(p) PROVE TypeOK'
  BY <1>0, <1>3 DEF OpenPublic, OpenPublicFails, OpenPrivate, OpenPrivateOnly, Goto, Finish
<1>4. ASSUME NEW p \in Proc, ClosePublic(p) PROVE TypeOK'
  BY <1>0, <1>4 DEF ClosePublic, Flushed, Goto
<1>5. ASSUME NEW p \in Proc, ClosePrivate(p) PROVE TypeOK'
  BY <1>0, <1>5 DEF ClosePrivate, Flushed, Goto
<1>6. ASSUME NEW p \in Proc, CreateFails(p) PROVE TypeOK'
  BY <1>0, <1>6 DEF CreateFails, Flushed, Finish
<1>7. ASSUME NEW p \in Proc, ReadPublic(p) \/ ReadPublicFails(p) \/ ReadPrivateFails(p) PROVE TypeOK'
  BY ZenonT(60), <1>0, <1>7 DEF ReadPublic, ReadPublicFails, ReadPrivateFails, Goto, Finish
<1>8. ASSUME NEW p \in Proc, ReadPrivate(p) PROVE TypeOK'
  BY <1>0, <1>8 DEF ReadPrivate, Loads, Finish
<1>9. ASSUME NEW p \in Proc, Return(p) \/ Kill(p) PROVE TypeOK'
  BY <1>0, <1>9 DEF Return, Kill, Forget
<1> QED
  BY <1>1, <1>2, <1>3, <1>4, <1>5, <1>6, <1>7, <1>8, <1>9 DEF Next, Work

(* Every step but a mistaken one keeps the invariant, as long as the first *)
(* derivation is not overlapped.                                           *)
LEMMA KeyUndisturbed == ASSUME SerialFirst, Undisturbed, [Next]_vars, ~mistaken' PROVE Undisturbed'
<1>1. CASE UNCHANGED vars
  BY <1>1 DEF vars, Undisturbed, TypeOK, AloneWhileCreating, ReadersFindFiles, Missing, OpenedFilesExist,
     UsedIsOnFile, ReadIsCurrent
<1>2. ASSUME Next PROVE TypeOK'
  BY <1>2, KeyTypes DEF Undisturbed
<1>3. pc \in [Proc -> States] /\ secret \in [Proc -> Secret \cup {Absent}]
  BY DEF Undisturbed, TypeOK
<1> USE DEF files
<1>4. ASSUME Next, NEW p \in Proc, NEW l \in Login, DeriveRefused(p, l) PROVE Undisturbed'
  BY <1>2, <1>3, <1>4, KeyQuiet DEF DeriveRefused, Begin
<1>5. ASSUME Next, NEW p \in Proc, NEW l \in Login, Derive(p, l) PROVE Undisturbed'
  <2>1. \A q \in Proc : pc[q] \notin CreateStates
    BY <1>5 DEF Derive, Begin
  <2>2. /\ \A q \in Proc \ {p} : pc'[q] = pc[q] /\ secret'[q] = secret[q]
        /\ pc'[p] = IF Missing THEN "create" ELSE "read_public"
        /\ UNCHANGED <<public, private, derived>>
    BY <1>3, <1>5 DEF Derive, Begin
  <2>3. Missing => \A q \in Proc \ {p} : pc[q] \in {"idle", "done"}
    BY <1>3, <2>1 DEF Undisturbed, ReadersFindFiles, States
  <2>4. AloneWhileCreating'
    BY <2>1, <2>2, <2>3 DEF AloneWhileCreating, CreateStates
  <2>5. ReadersFindFiles'
    BY <2>2, <2>3 DEF Undisturbed, ReadersFindFiles, Missing, UnsealStates
  <2>6. UsedIsOnFile'
    <3>1. derived # {} => ~Missing
      BY SealedKeyAssumption DEF Undisturbed, UsedIsOnFile, Missing
    <3> QED
      BY <2>2, <3>1 DEF Undisturbed, UsedIsOnFile, CreateStates
  <2>7. ReadIsCurrent'
    BY <2>2 DEF Undisturbed, ReadIsCurrent
  <2>8. OpenedFilesExist'
    BY <2>2 DEF Undisturbed, OpenedFilesExist
  <2> QED
    BY <1>2, <1>5, <2>4, <2>5, <2>6, <2>7, <2>8 DEF Undisturbed
<1>6. ASSUME Next, NEW p \in Proc, Create(p) PROVE Undisturbed'
  <2>1. OpenedFilesExist'
    BY <1>3, <1>6, SealedKeyAssumption DEF Undisturbed, OpenedFilesExist, Create, Goto
  <2> QED
    BY <1>2, <1>3, <1>6, <2>1, KeyCreating DEF Create, Goto, CreateStates, UnsealStates
<1>7. ASSUME Next, NEW p \in Proc, OpenPublic(p) PROVE Undisturbed'
  <2>1. OpenedFilesExist'
    BY <1>3, <1>7, SealedKeyAssumption DEF Undisturbed, OpenedFilesExist, OpenPublic, Goto
  <2> QED
    BY <1>2, <1>3, <1>7, <2>1, KeyCreating DEF OpenPublic, Goto, CreateStates, UnsealStates
<1>8. ASSUME Next, NEW p \in Proc, OpenPublicFails(p) PROVE Undisturbed'
  <2>1. OpenedFilesExist'
    BY <1>3, <1>8, SealedKeyAssumption DEF Undisturbed, OpenedFilesExist, OpenPublicFails, Goto
  <2> QED
    BY <1>2, <1>3, <1>8, <2>1, KeyCreating DEF OpenPublicFails, Goto, CreateStates, UnsealStates
<1>9. ASSUME Next, NEW p \in Proc, OpenPrivate(p) PROVE Undisturbed'
  <2>1. OpenedFilesExist'
    BY <1>3, <1>9, SealedKeyAssumption DEF Undisturbed, OpenedFilesExist, OpenPrivate, Goto
  <2> QED
    BY <1>2, <1>3, <1>9, <2>1, KeyCreating DEF OpenPrivate, Goto, CreateStates, UnsealStates
<1>10. ASSUME Next, NEW p \in Proc, OpenPrivateOnly(p) PROVE Undisturbed'
  <2>1. OpenedFilesExist'
    BY <1>3, <1>10, SealedKeyAssumption DEF Undisturbed, OpenedFilesExist, OpenPrivateOnly, Finish
  <2> QED
    BY <1>2, <1>3, <1>10, <2>1, KeyCreating DEF OpenPrivateOnly, Finish, CreateStates, UnsealStates
<1>11. ASSUME Next, NEW p \in Proc, ClosePublic(p) PROVE Undisturbed'
  <2>1. OpenedFilesExist'
    BY <1>3, <1>11, SealedKeyAssumption DEF Undisturbed, OpenedFilesExist, ClosePublic, Flushed, Goto
  <2> QED
    BY <1>2, <1>3, <1>11, <2>1, KeyCreating DEF ClosePublic, Flushed, Goto, CreateStates, UnsealStates
<1>12. ASSUME Next, NEW p \in Proc, CreateFails(p) PROVE Undisturbed'
  <2>1. OpenedFilesExist'
    BY <1>3, <1>12, SealedKeyAssumption DEF Undisturbed, OpenedFilesExist, CreateFails, Flushed, Finish
  <2> QED
    BY <1>2, <1>3, <1>12, <2>1, KeyCreating DEF CreateFails, Flushed, Finish, CreateStates, UnsealStates
<1>13. ASSUME Next, NEW p \in Proc, ClosePrivate(p) PROVE Undisturbed'
  <2>1. public # Absent /\ private' # Absent /\ public' = public
    BY <1>13, SealedKeyAssumption DEF Undisturbed, OpenedFilesExist, ClosePrivate, Flushed
  <2>2. OpenedFilesExist'
    BY <1>3, <1>13, <2>1 DEF Undisturbed, OpenedFilesExist, ClosePrivate, Goto
  <2> QED
    BY <1>2, <1>3, <1>13, <2>1, <2>2, KeyCreating DEF ClosePrivate, Goto, CreateStates, UnsealStates
<1>14. ASSUME Next, NEW p \in Proc, ReadPublic(p) PROVE Undisturbed'
  <2>1. UsedIsOnFile'
    BY <1>3, <1>14 DEF ReadPublic, Goto, Undisturbed, UsedIsOnFile, CreateStates
  <2> QED
    BY <1>2, <1>3, <1>14, <2>1, KeyUnsealing DEF ReadPublic, Goto, UnsealStates
<1>15. ASSUME Next, NEW p \in Proc, ReadPublicFails(p) \/ ReadPrivateFails(p) PROVE Undisturbed'
  BY <1>2, <1>3, <1>15, KeyQuiet DEF ReadPublicFails, ReadPrivateFails, Finish
<1>16. ASSUME Next, NEW p \in Proc, ReadPrivate(p) PROVE Undisturbed'
  <2>1. /\ pc[p] = "read_private" /\ pc' = [pc EXCEPT ![p] = "done"]
        /\ private \in Secret /\ private = secret[p]
        /\ derived' = derived \cup {private}
        /\ UNCHANGED <<public, private, secret>>
    BY <1>16 DEF ReadPrivate, Loads, Finish
  <2>2. secret[p] = public
    BY <2>1 DEF Undisturbed, ReadIsCurrent
  <2>3. \A q \in Proc : pc'[q] \notin CreateStates
    BY <1>3, <2>1 DEF Undisturbed, AloneWhileCreating, CreateStates
  <2>4. derived \subseteq {public}
    BY DEF Undisturbed, UsedIsOnFile
  <2>5. UsedIsOnFile'
    BY SMTT(30), <2>1, <2>2, <2>3, <2>4 DEF UsedIsOnFile
  <2> QED
    BY <1>2, <1>3, <1>16, <2>1, <2>5, KeyUnsealing DEF UnsealStates
<1>17. ASSUME Next, NEW p \in Proc, Return(p) \/ Kill(p) PROVE Undisturbed'
  BY <1>2, <1>3, <1>17, KeyQuiet DEF Return, Kill, Forget
<1> QED
  BY <1>1, <1>4, <1>5, <1>6, <1>7, <1>8, <1>9, <1>10, <1>11, <1>12, <1>13, <1>14, <1>15, <1>16,
     <1>17 DEF Next, Work, DeriveMistaken

(* Every step keeps Inv. *)
LEMMA KeyNext == ASSUME SerialFirst, Inv, [Next]_vars PROVE Inv'
<1>1. CASE UNCHANGED vars
  <2>1. TypeOK' /\ mistaken' = mistaken
    BY <1>1 DEF Inv, vars, TypeOK
  <2> QED
    BY <2>1, KeyUndisturbed DEF Inv
<1>2. CASE Next
  <2>1. TypeOK' /\ (~mistaken' => ~mistaken)
    BY <1>2, KeyTypes, MistakenKept DEF Inv, TypeOK
  <2> QED
    BY <2>1, KeyUndisturbed DEF Inv
<1> QED
  BY <1>1, <1>2

(* Inv is an invariant when the first derivation is not overlapped: until  *)
(* access overlooks a file, a secret that was used is on both files and    *)
(* nobody creates another.                                                 *)
THEOREM KeyInvariant == ASSUME SerialFirst PROVE Spec => []Inv
<1>1. Inv /\ [Next]_vars => Inv'
  BY KeyNext
<1>2. Init => Inv
  BY KeyInit DEF Inv, Undisturbed
<1> QED
  BY <1>1, <1>2, PTL DEF Spec

(* The variables keep their types, however the calls overlap. *)
THEOREM KeyTyped == Spec => []TypeOK
<1>1. Init => TypeOK
  BY KeyInit DEF Undisturbed
<1>2. TypeOK /\ [Next]_vars => TypeOK'
  <2>1. CASE UNCHANGED vars
    BY <2>1 DEF vars, TypeOK
  <2> QED
    BY <2>1, KeyTypes
<1> QED
  BY <1>1, <1>2, PTL DEF Spec

(* All derivations that succeed for a login password give the same header  *)
(* password, whatever fails or is killed, as long as access sees the files *)
(* that are there.                                                         *)
THEOREM StablePassword == ASSUME SerialFirst PROVE Spec => []PasswordIsStable
<1>1. Inv => PasswordIsStable
  BY DEF Inv, Undisturbed, UsedIsOnFile, PasswordIsStable
<1> QED
  BY <1>1, KeyInvariant, PTL

(* No step touches the files of a secret that was used, unless access has  *)
(* overlooked one of them.                                                 *)
THEOREM KeptSecret == ASSUME SerialFirst PROVE Spec => UsedSecretIsKept
<1>1. ASSUME Inv, ~mistaken, Next, derived # {} PROVE UNCHANGED files
  <2>1. \A p \in Proc : pc[p] \notin CreateStates
    BY <1>1 DEF Inv, Undisturbed, UsedIsOnFile
  <2> QED
    BY <1>1, <2>1 DEF Next, Work, files, CreateStates, DeriveRefused, Derive, DeriveMistaken, Create, OpenPublic,
       OpenPublicFails, OpenPrivate, OpenPrivateOnly, ClosePublic, ClosePrivate, CreateFails,
       ReadPublic, ReadPublicFails, ReadPrivate, ReadPrivateFails, Return, Kill, Forget
<1>2. Inv /\ [Next]_vars => [derived # {} /\ ~mistaken => UNCHANGED files]_vars
  BY <1>1
<1> QED
  BY <1>2, KeyInvariant, PTL DEF Spec, UsedSecretIsKept

(* Without faults the files stay as FaultlessFiles says. *)
LEMMA FaultlessNext == ASSUME Inv, FaultlessFiles, [Next]_vars PROVE FaultlessFiles'
<1>1. CASE UNCHANGED vars
  BY <1>1 DEF vars, FaultlessFiles
<1> SUFFICES ASSUME Next, faults' = {} PROVE FaultlessFiles'
  BY <1>1 DEF FaultlessFiles
<1>2. faults = {}
  BY FaultsKept
<1>0. Undisturbed
  BY <1>2 DEF Inv, TypeOK
<1>3. pc \in [Proc -> States] /\ secret \in [Proc -> Secret \cup {Absent}]
  BY DEF Inv, TypeOK
<1>4. \A p \in Proc : pc[p] # "private_only" /\ (pc[p] = "close_private" => public = secret[p])
  BY <1>2 DEF FaultlessFiles
<1> USE DEF files
<1>5. ASSUME NEW p \in Proc, NEW l \in Login, DeriveRefused(p, l) \/ Derive(p, l) PROVE FaultlessFiles'
  <2>1. /\ UNCHANGED <<public, private, secret>>
        /\ \A q \in Proc \ {p} : pc'[q] = pc[q]
        /\ pc[p] = "idle" /\ pc'[p] \in {"done", "create", "read_public"}
    BY <1>3, <1>5 DEF DeriveRefused, Derive, Begin
  <2>2. \A q \in Proc : pc[q] \in CreateStates => pc'[q] \in CreateStates
    BY <2>1 DEF CreateStates
  <2> QED
    BY <1>2, <1>4, <2>1, <2>2 DEF FaultlessFiles
<1>6. ASSUME NEW p \in Proc, Create(p) \/ OpenPublic(p) \/ OpenPrivate(p) PROVE FaultlessFiles'
  <2>1. /\ pc'[p] \in {"open_public", "open_private", "close_public"}
        /\ pc[p] \in CreateStates
        /\ \A q \in Proc \ {p} : pc'[q] = pc[q]
    BY <1>3, <1>6 DEF Create, OpenPublic, OpenPrivate, Goto, CreateStates
  <2>2. \A q \in Proc \ {p} : pc'[q] \in {"idle", "done"}
    BY <1>0, <2>1 DEF Undisturbed, AloneWhileCreating
  <2> QED
    BY <2>1, <2>2 DEF FaultlessFiles, CreateStates
<1>7. ASSUME NEW p \in Proc, ClosePublic(p) PROVE FaultlessFiles'
  <2>1. /\ pc'[p] = "close_private" /\ public' = secret[p] /\ secret' = secret
        /\ pc[p] \in CreateStates
        /\ \A q \in Proc \ {p} : pc'[q] = pc[q]
    BY <1>2, <1>3, <1>7 DEF ClosePublic, Flushed, Goto, CreateStates
  <2>2. \A q \in Proc \ {p} : pc'[q] \in {"idle", "done"}
    BY <1>0, <2>1 DEF Undisturbed, AloneWhileCreating
  <2> QED
    BY <2>1, <2>2 DEF FaultlessFiles, CreateStates
<1>8. ASSUME NEW p \in Proc, ClosePrivate(p) PROVE FaultlessFiles'
  <2>1. /\ pc'[p] = "read_public" /\ private' = secret[p] /\ public' = public
        /\ pc[p] = "close_private"
        /\ \A q \in Proc \ {p} : pc'[q] = pc[q]
    BY <1>2, <1>3, <1>8 DEF ClosePrivate, Flushed, Goto
  <2>2. \A q \in Proc \ {p} : pc'[q] \in {"idle", "done"}
    BY <1>0, <2>1 DEF Undisturbed, AloneWhileCreating, CreateStates
  <2>3. public = secret[p] /\ secret[p] \in Secret
    BY <1>0, <1>4, <2>1 DEF Undisturbed, OpenedFilesExist
  <2> QED
    BY <2>1, <2>2, <2>3 DEF FaultlessFiles
<1>9. ASSUME NEW p \in Proc,
             ReadPublic(p) \/ ReadPublicFails(p) \/ ReadPrivate(p) \/ ReadPrivateFails(p) \/ Return(p)
      PROVE  FaultlessFiles'
  <2>1. /\ UNCHANGED <<public, private>>
        /\ \A q \in Proc \ {p} : pc'[q] = pc[q] /\ secret'[q] = secret[q]
        /\ pc[p] \in {"read_public", "read_private", "done"}
        /\ pc'[p] \in {"read_private", "done", "idle"}
    BY <1>3, <1>9 DEF ReadPublic, ReadPublicFails, ReadPrivate, ReadPrivateFails, Return, Forget, Goto, Finish
  <2>2. \A q \in Proc : pc[q] \in CreateStates => pc'[q] \in CreateStates
    BY <2>1 DEF CreateStates
  <2> QED
    BY <1>2, <1>4, <2>1, <2>2 DEF FaultlessFiles
<1>10. ASSUME NEW p \in Proc, OpenPublicFails(p) \/ OpenPrivateOnly(p) \/ CreateFails(p) \/ Kill(p)
       PROVE  FALSE
  BY <1>2, <1>4, <1>10 DEF OpenPublicFails, OpenPrivateOnly, CreateFails, Kill
<1> QED
  BY <1>2, <1>5, <1>6, <1>7, <1>8, <1>9, <1>10 DEF Next, Work, DeriveMistaken

(* Without faults, and when the first derivation is not overlapped, the    *)
(* files left by any calls are the two blobs of one secret.                *)
THEOREM MatchingFiles == ASSUME SerialFirst PROVE Spec => []FilesMatch
<1>1. Init => FaultlessFiles
  BY DEF Init, FaultlessFiles
<1>2. Inv /\ FaultlessFiles /\ [Next]_vars => FaultlessFiles'
  BY FaultlessNext
<1>3. FaultlessFiles => FilesMatch
  BY DEF FaultlessFiles, FilesMatch, CreateStates
<1> QED
  BY <1>1, <1>2, <1>3, KeyInvariant, PTL DEF Spec

=============================================================================
