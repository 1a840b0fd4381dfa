----------------------------- MODULE Installer ------------------------------
(***************************************************************************)
(* src/install.sh and src/uninstall.sh on one machine: any sequence of     *)
(* installations, plain or --enclave, that fail anywhere, of               *)
(* uninstallations and of reboots.  The script runs under set -e, so the   *)
(* first command that fails ends it and undoes nothing.                    *)
(*                                                                         *)
(* A size is the decimal digits and the unit that the administrator typed. *)
(* install.sh and padlock parse it separately.  Kilo stands for 1024.      *)
(***************************************************************************)
EXTENDS Integers, Sequences, SequencesExt

CONSTANTS
  Digits,    \* the sequences of digits that are typed
  Unit,      \* the units that are typed, a subset of Units
  Kilo,      \* 1024
  Wide,      \* 2^64, the values of a 64-bit word
  MinSize,   \* PADLOCK_MIN_SIZE
  Margin,    \* DISK_IMAGE_MARGIN_BYTES
  Disk,      \* room on the disk
  None

Units == {"", "K", "M", "G", "T"}

ASSUME InstallerAssumption ==
  /\ Unit \subseteq Units
  /\ {Kilo, Wide, Margin, Disk} \subseteq Nat \ {0}

Size == [digits : Digits, unit : Unit]

Power == [u \in Units |-> CASE u = "" -> 0 [] u = "K" -> 1 [] u = "M" -> 2 [] u = "G" -> 3 [] u = "T" -> 4]

multiplier(u) == Kilo ^ Power[u]

Value(digits, base) == FoldLeft(LAMBDA n, d : base * n + d, 0, digits)

(* Mutant: a size is taken for octal everywhere. *)
padlock_parse_size_octal(size) == Value(size.digits, 8) * multiplier(size.unit)

(* strtoull in base 10; no unit T; None when it refuses the size. *)
padlock_parse_size(size) ==
  LET number == Value(size.digits, 10)
  IN  IF size.unit = "T" \/ number > (Wide - 1) \div multiplier(size.unit)
      THEN None
      ELSE number * multiplier(size.unit)

(* $((number * multiplier)): a leading 0 makes the number octal, an error  *)
(* when it has a digit above 7, and the product wraps in signed 64 bits.   *)
size_to_bytes(size) ==
  LET octal == Len(size.digits) > 1 /\ size.digits[1] = 0
      number == Value(size.digits, IF octal THEN 8 ELSE 10)
      product == (number * multiplier(size.unit)) % Wide
  IN  IF octal /\ \E n \in DOMAIN size.digits : size.digits[n] > 7
      THEN None
      ELSE IF 2 * product >= Wide THEN product - Wide ELSE product

VARIABLES
  rule,       \* /etc/pam.d/padlock: "absent", "empty", "unix" or "trust"
  bin,        \* /usr/local/bin/padlock: "absent", "binary", "empty" or "wrapper"
  real,       \* /usr/local/bin/padlock.real, likewise
  user,       \* the account enclave exists
  image,      \* the size of disk.img, 0 when there is none
  ext4,       \* it holds a file system
  store,      \* the size of the store in it, or None
  immutable,  \* it has the attribute of chattr +i
  fstab,      \* the lines of /etc/fstab for the image
  mounted,    \* at /enclave/keystore: "nothing", "image" or "deleted", an image since removed
  job,        \* what the running script was asked for, or None
  pc,         \* its next step
  installed   \* history: the size of the store that an --enclave installation finished with and
              \* that no uninstall.sh has unlocked since, or None

disk == <<image, ext4, store, immutable>>
vars == <<rule, bin, real, user, disk, fstab, mounted, job, pc, installed>>

Jobs == [enclave : {FALSE}, trust : BOOLEAN] \cup [enclave : {TRUE}, trust : {TRUE}, size : Size]

Init ==
  /\ rule = "absent" /\ bin = "absent" /\ real = "absent"
  /\ user = FALSE
  /\ image = 0 /\ ext4 = FALSE /\ store = None /\ immutable = FALSE
  /\ fstab = 0
  /\ mounted = "nothing"
  /\ job = None /\ pc = "idle"
  /\ installed = None

Step(from, to) == pc = from /\ pc' = to /\ UNCHANGED <<job, installed>>

-----------------------------------------------------------------------------
(* install.sh.  Steps that change nothing modelled here, such as the build, *)
(* the guard module (see GuardModule) and the TPM's permissions, are left   *)
(* out; that they can fail is part of Fail.                                 *)

Begin(j) ==
  /\ pc = "idle"
  /\ j.enclave => size_to_bytes(j.size) # None
  /\ job' = j
  /\ pc' = "pam"
  /\ UNCHANGED <<rule, bin, real, user, disk, fstab, mounted, installed>>

(* write_pam_service: tee truncates, then writes. *)
TruncateRule ==
  /\ Step("pam", "pam_write")
  /\ rule' = "empty"
  /\ UNCHANGED <<bin, real, user, disk, fstab, mounted>>

WriteRule ==
  /\ Step("pam_write", "install")
  /\ rule' = IF job.trust THEN "trust" ELSE "unix"
  /\ UNCHANGED <<bin, real, user, disk, fstab, mounted>>

(* Mutant: a file that is there is left alone. *)
CmakeInstallOnce ==
  /\ Step("install", IF job.enclave THEN "move" ELSE "done")
  /\ bin' = IF bin = "absent" THEN "binary" ELSE bin
  /\ UNCHANGED <<rule, real, user, disk, fstab, mounted>>

(* install_padlock: cmake --install overwrites what is there. *)
CmakeInstall ==
  /\ Step("install", IF job.enclave THEN "move" ELSE "done")
  /\ bin' = "binary"
  /\ UNCHANGED <<rule, real, user, disk, fstab, mounted>>

MoveBinary ==
  /\ Step("move", "user")
  /\ real' = bin
  /\ bin' = "absent"
  /\ UNCHANGED <<rule, user, disk, fstab, mounted>>

setup_enclave_user ==
  /\ Step("user", "truncate")
  /\ user' = TRUE
  /\ UNCHANGED <<rule, bin, real, disk, fstab, mounted>>

(* Mutant: the image of an earlier installation is unlocked first. *)
TruncateUnlocks ==
  /\ Step("truncate", "mkfs")
  /\ image' = size_to_bytes(job.size) + Margin
  /\ immutable' = FALSE
  /\ ext4' = (ext4 /\ image' >= image)
  /\ store' = IF image' >= image THEN store ELSE None
  /\ UNCHANGED <<rule, bin, real, user, fstab, mounted>>

(* create_disk_image: truncate refuses an immutable file, takes a negative  *)
(* size for a reduction, and what it cuts off a file system is lost.        *)
Truncate ==
  /\ Step("truncate", "mkfs")
  /\ ~immutable
  /\ LET bytes == size_to_bytes(job.size) + Margin
     IN  image' = IF bytes >= 0 THEN bytes ELSE IF image + bytes > 0 THEN image + bytes ELSE 0
  /\ ext4' = (ext4 /\ image' >= image)
  /\ store' = IF image' >= image THEN store ELSE None
  /\ UNCHANGED <<immutable, rule, bin, real, user, fstab, mounted>>

(* mkfs.ext4 with one -F refuses a mounted image. *)
MakeFilesystem ==
  /\ Step("mkfs", "fstab")
  /\ mounted # "image"
  /\ image > 0
  /\ ext4' = TRUE
  /\ store' = None
  /\ UNCHANGED <<image, immutable, rule, bin, real, user, fstab, mounted>>

WriteFstab ==
  /\ Step("fstab", "mount")
  /\ fstab' = IF fstab = 0 THEN 1 ELSE fstab
  /\ UNCHANGED <<rule, bin, real, user, disk, mounted>>

MountAll ==
  /\ Step("mount", "allocate")
  /\ mounted' = "image"
  /\ UNCHANGED <<rule, bin, real, user, disk, fstab>>

(* allocate_store_in_disk_image: padlock.real allocate, as enclave, without *)
(* a prompt.  The file system needs some of the image for itself.           *)
AllocateStore ==
  /\ Step("allocate", "lock")
  /\ real = "binary"
  /\ rule = "trust"
  /\ LET bytes == padlock_parse_size(job.size)
     IN  /\ bytes # None
         /\ bytes >= MinSize
         /\ bytes < image
         /\ bytes <= Disk
         /\ store' = bytes
  /\ UNCHANGED <<image, ext4, immutable, rule, bin, real, user, fstab, mounted>>

lock_disk_image ==
  /\ Step("lock", "wrap")
  /\ immutable' = TRUE
  /\ UNCHANGED <<image, ext4, store, rule, bin, real, user, fstab, mounted>>

(* install_enclave_wrapper: a padlock that is there becomes padlock.real;   *)
(* tee truncates, then writes the wrapper.                                  *)
TruncateWrapper ==
  /\ Step("wrap", "wrap_write")
  /\ bin # "absent" \/ real # "absent"
  /\ real' = IF bin # "absent" THEN bin ELSE real
  /\ bin' = "empty"
  /\ UNCHANGED <<rule, user, disk, fstab, mounted>>

WriteWrapper ==
  /\ Step("wrap_write", "done")
  /\ bin' = "wrapper"
  /\ UNCHANGED <<rule, real, user, disk, fstab, mounted>>

Done ==
  /\ pc = "done"
  /\ pc' = "idle"
  /\ job' = None
  /\ installed' = IF job.enclave THEN store ELSE installed
  /\ UNCHANGED <<rule, bin, real, user, disk, fstab, mounted>>

-----------------------------------------------------------------------------
(* uninstall.sh *)

RemoveRule ==
  /\ pc = "idle"
  /\ rule' = "absent"
  /\ pc' = "remove_bin"
  /\ UNCHANGED <<bin, real, user, disk, fstab, mounted, job, installed>>

RemoveBin ==
  /\ Step("remove_bin", "remove_real")
  /\ bin' = "absent"
  /\ UNCHANGED <<rule, real, user, disk, fstab, mounted>>

RemoveReal ==
  /\ Step("remove_real", "umount")
  /\ real' = "absent"
  /\ UNCHANGED <<rule, bin, user, disk, fstab, mounted>>

(* remove_enclave_disk_image: umount and chattr -i may fail, rm of a locked *)
(* image fails.  The line in /etc/fstab stays.                              *)
Unmount ==
  /\ Step("umount", "unlock")
  /\ mounted' \in {mounted, "nothing"}
  /\ UNCHANGED <<rule, bin, real, user, disk, fstab>>

Unlock ==
  /\ pc = "unlock"
  /\ immutable' \in {immutable, FALSE}
  /\ installed' = IF immutable' THEN installed ELSE None
  /\ pc' = "remove_image"
  /\ UNCHANGED <<image, ext4, store, rule, bin, real, user, fstab, mounted, job>>

RemoveImage ==
  /\ Step("remove_image", "remove_accounts")
  /\ ~immutable
  /\ image' = 0 /\ ext4' = FALSE /\ store' = None
  /\ mounted' = IF mounted = "image" THEN "deleted" ELSE mounted
  /\ UNCHANGED <<immutable, rule, bin, real, user, fstab>>

remove_system_accounts ==
  /\ pc = "remove_accounts"
  /\ user' \in {user, FALSE}
  /\ pc' = "idle"
  /\ UNCHANGED <<rule, bin, real, disk, fstab, mounted, job, installed>>

-----------------------------------------------------------------------------
(* A command of either script fails, or the script is interrupted. *)
Fail ==
  /\ pc # "idle"
  /\ pc' = "idle"
  /\ job' = None
  /\ UNCHANGED <<rule, bin, real, user, disk, fstab, mounted, installed>>

(* The machine restarts and mounts what /etc/fstab lists.  The line asks for *)
(* a writable loop device, which no locked image can back.                  *)
Reboot ==
  /\ mounted' = IF fstab > 0 /\ ext4 /\ ~immutable THEN "image" ELSE "nothing"
  /\ pc' = "idle"
  /\ job' = None
  /\ UNCHANGED <<rule, bin, real, user, disk, fstab, installed>>

Next ==
  \/ \E j \in Jobs : Begin(j)
  \/ TruncateRule \/ WriteRule \/ CmakeInstall \/ MoveBinary \/ setup_enclave_user
  \/ Truncate \/ MakeFilesystem \/ WriteFstab \/ MountAll \/ AllocateStore
  \/ lock_disk_image \/ TruncateWrapper \/ WriteWrapper \/ Done
  \/ RemoveRule \/ RemoveBin \/ RemoveReal \/ Unmount \/ Unlock \/ RemoveImage
  \/ remove_system_accounts
  \/ Fail \/ Reboot

Spec == Init /\ [][Next]_vars

-----------------------------------------------------------------------------
(* Properties *)

(* The store of a finished --enclave installation stays whole on its locked *)
(* image until an uninstall.sh has unlocked it: no later run of install.sh, *)
(* with whatever size and wherever it fails, cuts, formats or replaces it,  *)
(* and neither does an uninstall.sh that is interrupted before the unlock   *)
(* or whose umount or chattr fails.  (One interrupted between unlock and rm *)
(* leaves a store that the next install.sh does cut and format.)            *)
InstalledStoreKept ==
  installed # None =>
    /\ ext4
    /\ store = installed

(* What --enclave finishes with is what was asked for: a store of the size  *)
(* that was typed, in decimal, on a locked and mounted image that has room  *)
(* for it, behind the wrapper, under the rule that needs no prompt, although *)
(* the size is parsed by two programs that disagree on some inputs.         *)
EnclaveAsAsked ==
  (pc = "done" /\ job.enclave) =>
    /\ store = Value(job.size.digits, 10) * multiplier(job.size.unit)
    /\ store < image
    /\ immutable
    /\ mounted = "image"
    /\ bin = "wrapper"
    /\ rule = "trust"
    /\ user

(* padlock.real is never the wrapper, which would call itself for ever, and *)
(* no wrapper is without it: a later installation moves a padlock out of    *)
(* the way twice and may find the wrapper of an earlier one, and            *)
(* uninstall.sh may stop between removing the one and the other.            *)
WrapperRunsBinary ==
  /\ real \in {"absent", "binary"}
  /\ bin = "wrapper" => real = "binary"

(* A size that install.sh accepts, "a number with optional K, M, G, or T    *)
(* suffix" (src/install.sh, line 555), is one that padlock allocate accepts *)
(* once the image is made and mounted.                                      *)
AcceptedSizeParses == pc = "allocate" => padlock_parse_size(job.size) # None

-----------------------------------------------------------------------------
(* The inductive invariant behind the properties: what each step of        *)
(* --enclave has achieved when the next one runs.                           *)

(* The steps after the binary was moved, after mount, and all of --enclave alone. *)
Mounted == {"allocate", "lock", "wrap", "wrap_write"}
Moved == {"user", "truncate", "mkfs", "fstab", "mount"} \cup Mounted
Installing == {"pam", "pam_write", "install", "move", "done"} \cup Moved
Removing == {"remove_bin", "remove_real", "umount", "unlock", "remove_image", "remove_accounts"}
EnclaveDone == pc = "done" /\ job.enclave

Typed ==
  /\ pc \in Installing \cup {"idle"} \cup Removing
  /\ pc \in Installing => job \in Jobs
  /\ fstab \in {0, 1}
  /\ immutable \in BOOLEAN

(* Only --enclave gets past install_padlock, and it runs under its own rule. *)
JobFollowed ==
  /\ pc \in {"move"} \cup Moved => job.enclave
  /\ pc \in {"install", "move", "done"} \cup Moved => (job.trust => rule = "trust")

BinariesPlaced ==
  /\ real \in {"absent", "binary"}
  /\ bin = "wrapper" => real = "binary"
  /\ pc = "move" => bin = "binary"
  /\ pc \in Moved => real = "binary" /\ bin = (IF pc = "wrap_write" THEN "empty" ELSE "absent")
  /\ EnclaveDone => bin = "wrapper"
  /\ pc = "remove_real" => bin = "absent"

(* An image is locked last, so one that is being made is not an installed one. *)
ImageMade ==
  /\ pc \in Moved \ {"user"} \/ EnclaveDone => user
  /\ pc \in {"mkfs", "fstab", "mount", "allocate", "lock"} => ~immutable
  /\ pc \in {"fstab", "mount"} \cup Mounted \/ EnclaveDone => ext4
  /\ pc \in {"mount"} \cup Mounted \/ EnclaveDone => fstab = 1
  /\ pc \in Mounted \/ EnclaveDone => mounted = "image"
  /\ pc \in Mounted \ {"allocate"} \/ EnclaveDone =>
       /\ store = Value(job.size.digits, 10) * multiplier(job.size.unit)
       /\ store < image
  /\ pc \in {"wrap", "wrap_write"} \/ EnclaveDone => immutable

StoreLocked ==
  installed # None =>
    /\ ext4
    /\ store = installed
    /\ immutable

Inv == Typed /\ JobFollowed /\ BinariesPlaced /\ ImageMade /\ StoreLocked
=============================================================================
