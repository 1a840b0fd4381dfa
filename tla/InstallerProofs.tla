-------------------------- MODULE InstallerProofs ---------------------------
(***************************************************************************)
(* What install.sh and uninstall.sh keep, for every size that is typed,    *)
(* every width of a word and every disk, through any sequence of runs,     *)
(* failures and reboots.                                                   *)
(***************************************************************************)
EXTENDS Installer, TLAPS

USE Zenon

(* Nothing is installed, and no script runs. *)
LEMMA InvInit == Init => Inv
<1> SUFFICES ASSUME Init PROVE Inv
  OBVIOUS
<1> USE DEF Init, EnclaveDone, Installing, Removing, Moved, Mounted
<1>1. Typed
  BY DEF Typed
<1>2. JobFollowed /\ BinariesPlaced /\ StoreLocked
  BY SMT DEF JobFollowed, BinariesPlaced, StoreLocked
<1>3. ImageMade
  BY SMT DEF ImageMade
<1> QED
  BY <1>1, <1>2, <1>3 DEF Inv

(* A step of install.sh goes from one of its program points to the next. *)
LEMMA InvStep == ASSUME Inv, [Next]_vars PROVE Inv'
<1> USE DEF disk, Inv, EnclaveDone, Installing, Removing, Moved, Mounted, Step
<1>1. ASSUME NEW j \in Jobs, Begin(j) PROVE Inv'
  BY SMT, <1>1 DEF Begin, Typed, JobFollowed, BinariesPlaced, ImageMade, StoreLocked
<1>2. CASE TruncateRule
  BY SMT, <1>2 DEF TruncateRule, Typed, JobFollowed, BinariesPlaced, ImageMade, StoreLocked
<1>3. CASE WriteRule
  BY SMT, <1>3 DEF WriteRule, Typed, JobFollowed, BinariesPlaced, ImageMade, StoreLocked
<1>4. CASE CmakeInstall
  BY SMT, <1>4 DEF CmakeInstall, Typed, JobFollowed, BinariesPlaced, ImageMade, StoreLocked
<1>5. CASE MoveBinary
  BY SMT, <1>5 DEF MoveBinary, Typed, JobFollowed, BinariesPlaced, ImageMade, StoreLocked
<1>6. CASE setup_enclave_user
  BY SMT, <1>6 DEF setup_enclave_user, Typed, JobFollowed, BinariesPlaced, ImageMade, StoreLocked
<1>7. CASE Truncate
  BY SMT, <1>7 DEF Truncate, Typed, JobFollowed, BinariesPlaced, ImageMade, StoreLocked
<1>8. CASE MakeFilesystem
  BY SMT, <1>8 DEF MakeFilesystem, Typed, JobFollowed, BinariesPlaced, ImageMade, StoreLocked
<1>9. CASE WriteFstab
  BY SMT, <1>9 DEF WriteFstab, Typed, JobFollowed, BinariesPlaced, ImageMade, StoreLocked
<1>10. CASE MountAll
  BY SMT, <1>10 DEF MountAll, Typed, JobFollowed, BinariesPlaced, ImageMade, StoreLocked
<1>11. CASE AllocateStore
  <2>1. /\ store' = Value(job.size.digits, 10) * multiplier(job.size.unit)
        /\ store' < image
    BY <1>11 DEF AllocateStore, padlock_parse_size
  <2> QED
    BY SMT, <1>11, <2>1
    DEF AllocateStore, Typed, JobFollowed, BinariesPlaced, ImageMade, StoreLocked
<1>12. CASE lock_disk_image
  BY SMT, <1>12 DEF lock_disk_image, Typed, JobFollowed, BinariesPlaced, ImageMade, StoreLocked
<1>13. CASE TruncateWrapper
  BY SMT, <1>13 DEF TruncateWrapper, Typed, JobFollowed, BinariesPlaced, ImageMade, StoreLocked
<1>14. CASE WriteWrapper
  BY SMT, <1>14 DEF WriteWrapper, Typed, JobFollowed, BinariesPlaced, ImageMade, StoreLocked
<1>15. CASE Done
  BY SMT, <1>15 DEF Done, Typed, JobFollowed, BinariesPlaced, ImageMade, StoreLocked
<1>16. CASE RemoveRule
  BY SMT, <1>16 DEF RemoveRule, Typed, JobFollowed, BinariesPlaced, ImageMade, StoreLocked
<1>17. CASE RemoveBin
  BY SMT, <1>17 DEF RemoveBin, Typed, JobFollowed, BinariesPlaced, ImageMade, StoreLocked
<1>22. CASE RemoveReal
  BY SMT, <1>22 DEF RemoveReal, Typed, JobFollowed, BinariesPlaced, ImageMade, StoreLocked
<1>23. CASE Unmount
  <2> USE <1>23 DEF Unmount
  <2>1. Typed'
    BY DEF Typed
  <2>2. JobFollowed' /\ BinariesPlaced'
    BY SMT DEF JobFollowed, BinariesPlaced
  <2>3. ImageMade'
    BY SMT DEF ImageMade
  <2>4. StoreLocked'
    BY DEF StoreLocked
  <2> QED
    BY <2>1, <2>2, <2>3, <2>4
<1>24. CASE Unlock
  <2> USE <1>24 DEF Unlock
  <2>1. Typed'
    BY DEF Typed
  <2>2. JobFollowed' /\ BinariesPlaced'
    BY SMT DEF JobFollowed, BinariesPlaced
  <2>3. ImageMade'
    BY SMT DEF ImageMade
  <2>4. StoreLocked'
    BY DEF StoreLocked
  <2> QED
    BY <2>1, <2>2, <2>3, <2>4
<1>25. CASE RemoveImage
  <2> USE <1>25 DEF RemoveImage
  <2>1. Typed'
    BY DEF Typed
  <2>2. JobFollowed' /\ BinariesPlaced' /\ StoreLocked'
    BY SMT DEF JobFollowed, BinariesPlaced, StoreLocked
  <2>3. ImageMade'
    BY SMT DEF ImageMade
  <2> QED
    BY <2>1, <2>2, <2>3
<1>18. CASE remove_system_accounts
  BY SMT, <1>18 DEF remove_system_accounts, Typed, JobFollowed, BinariesPlaced, ImageMade, StoreLocked
<1>19. CASE Fail
  BY SMT, <1>19 DEF Fail, Typed, JobFollowed, BinariesPlaced, ImageMade, StoreLocked
<1>20. CASE Reboot
  BY SMT, <1>20 DEF Reboot, Typed, JobFollowed, BinariesPlaced, ImageMade, StoreLocked
<1>21. CASE UNCHANGED vars
  BY SMT, <1>21 DEF vars, Typed, JobFollowed, BinariesPlaced, ImageMade, StoreLocked
<1> QED
  BY <1>1, <1>2, <1>3, <1>4, <1>5, <1>6, <1>7, <1>8, <1>9, <1>10, <1>11, <1>12, <1>13, <1>14,
     <1>15, <1>16, <1>17, <1>18, <1>19, <1>20, <1>21, <1>22, <1>23, <1>24, <1>25 DEF Next

(* The inductive invariant of the two scripts. *)
THEOREM InstallInvariant == Spec => []Inv
  BY InvInit, InvStep, PTL DEF Spec

(* The store of a finished --enclave installation is never cut, formatted  *)
(* or replaced, wherever a later run of install.sh fails, until an         *)
(* uninstall.sh has unlocked it: the image was locked last, and truncate   *)
(* and rm refuse a locked image.                                           *)
THEOREM StoreKept == Spec => []InstalledStoreKept
<1>1. Inv => InstalledStoreKept
  BY DEF Inv, StoreLocked, InstalledStoreKept
<1> QED
  BY <1>1, InstallInvariant, PTL

(* An --enclave installation that runs to its end has the store that was   *)
(* asked for, on a locked and mounted image, behind the wrapper, whatever  *)
(* size_to_bytes made of the size.                                         *)
THEOREM AsAsked == Spec => []EnclaveAsAsked
<1>1. ASSUME Inv, pc = "done", job.enclave
      PROVE  EnclaveAsAsked
  <2>1. EnclaveDone /\ job \in Jobs
    BY <1>1 DEF EnclaveDone, Inv, Typed, Installing
  <2>2. job.trust = TRUE
    <3>1. job \notin [enclave : {FALSE}, trust : BOOLEAN]
      BY <1>1
    <3>2. job \in [enclave : {TRUE}, trust : {TRUE}, size : Size]
      BY <2>1, <3>1 DEF Jobs
    <3> QED
      BY <3>2
  <2>3. rule = "trust" /\ bin = "wrapper"
    BY <1>1, <2>1, <2>2 DEF Inv, JobFollowed, BinariesPlaced
  <2> QED
    BY <1>1, <2>1, <2>3 DEF Inv, ImageMade, EnclaveAsAsked
<1>2. Inv => EnclaveAsAsked
  BY <1>1 DEF EnclaveAsAsked
<1> QED
  BY <1>2, InstallInvariant, PTL

(* The wrapper of install_enclave_wrapper always finds a binary at          *)
(* padlock.real and never itself.                                          *)
THEOREM WrapperFindsBinary == Spec => []WrapperRunsBinary
<1>1. Inv => WrapperRunsBinary
  BY DEF Inv, BinariesPlaced, WrapperRunsBinary
<1> QED
  BY <1>1, InstallInvariant, PTL
=============================================================================
