# Padlock: TLA+ models and proofs

Padlock is a Linux keystore: a C library and command (`src/src`), a kernel
module that guards registered files (`src/kernel/guard`) and an installer. This
directory holds TLA+ models of its stateful parts, TLC configurations that check
them on small instances, and TLAPS proofs for every size. All line numbers are
lines of the repository; paths start at the directory above, so
`src/src/padlock.c` is the repository's `src/padlock.c`.

## Inventory

| Part | State | Operations | What is hard about it |
|---|---|---|---|
| Store (`padlock.c` 771-1381) | one file: a 4096-byte header (`total_size`, `write_offset`, sealed XTS key) and records | `padlock_allocate`, `padlock_set`, `padlock_get` | no lock between processes; several writes per set; kills between them; the file replaced by `rename` under open descriptors; stdio buffering |
| Record layout (62-97, 1200-1215, 1287-1320) | none | `align16`, `put_*`, `get_*` | 32-bit mask on a 64-bit length; scanning arbitrary bytes |
| Sealed secret (99-615) | `header-hmac.pub`, `header-hmac.priv` | create on first use, unseal afterwards | two files created without a lock and truncated in place; ignored `fclose`; TPM failures |
| Header password (658-734) | none | HMAC of the login password or of the user name | must be the same for ever, or the store cannot be opened |
| Guard table (`hardcode_padlock_guard.c` 29-520) | 64 entries, a hash table, write sessions | five ioctls, five probes | path resolved before the lock; decision before the write; exits, renames, inode numbers used again |
| Guard load (522-651) | device, probes, module reference | `padlock_guard_init`, `padlock_guard_exit` | failure at any step of init; users arriving during it; the self reference |
| Command line (`padlock_cli.c`) | none of its own | allocate, set, get after PAM | which login the header password comes from; the PAM file read twice, changed in between |
| Installer, uninstaller | PAM file, binaries, account, disk image, fstab, mount | shell steps under `set -e` | partial failure, second run with another size, two parsers of one size |

How they interact: the command line authenticates with PAM, calls a derive
function (sealed secret) and passes the header password to one store operation;
`PadlockCli` composes the three. The installer writes the PAM file the command
line reads, and runs `padlock allocate` on the image it has made.
The guard is independent: neither the library nor the command line uses its
device, so no module composes it with the store.

### Correctness properties by part

* Store: committed records stay where they are and readable (`CommittedIntact`);
  a get returns the latest value (`GetReturnsLatest`); no set moves an offset or
  writes outside the file (`InsideFile`); a set is turned away only when its record
  does not fit (`RefusedSetHadNoRoom`); the path names nothing or a whole store
  (`PathNamesWholeStore`); failed allocations leave nothing (`TempsAreOwned`);
  what is sealed in a header never changes (`SealedKeyIsStable`); calls return
  (`CallsReturn`); the store is an append-only log (`ImplementsAppendOnlyLog`);
  what one power failure left intact stays (`SurvivorsStay`).
* Command line: a login that sealed a store opens it for ever (`LoginOpens`);
  while PAM file and password stand, every command that could read the PAM file
  and reaches the store opens it (`StoreOpens`).
* Installer: a finished store is not cut, formatted or replaced before
  `uninstall.sh` has unlocked its image (`InstalledStoreKept`); `--enclave` ends
  with what was asked for (`EnclaveAsAsked`); the wrapper never runs itself
  (`WrapperRunsBinary`).
* Sealed secret: one header password per login password (`PasswordIsStable`); a
  secret that was used is never replaced (`UsedSecretIsKept`), both as long as
  `access` sees the files that are there; the two files belong together
  (`FilesMatch`); derivations succeed (`DerivationsSucceed`).
* Guard: table and slots agree (`TableSound`); sessions are not taken over
  (`SessionNotStolen`); writes happen inside sessions (`WritesInSession`); a
  loaded module has its hooks (`LiveIsGuarded`); wherever init fails, the label
  it jumps to undoes what was registered (`AbsentLeavesNothing`).

`PROJECT.json` lists the hazards, each at its line, with the properties that
would catch it.

## Modules

| Module | Models |
|---|---|
| `RecordLayout` | `align16` and the length of a record; `Word` is 2^32 |
| `PadlockStore` | the three store operations by any number of processes |
| `AppendOnlyLog` | the promise of the repository's `README.md` line 3: generations of a log that only grows |
| `StoreRefinement` | `PadlockStore` with the pairs decoded from the bytes, mapped to `AppendOnlyLog` |
| `StoreDurability` | `PadlockStore` on a machine that loses power |
| `SealedKey` | both derive functions, creation and unsealing of the secret |
| `PadlockGuard` | entries, sessions, ioctls and probes of the guard |
| `GuardModule` | init, exit, insmod, rmmod, users of the device |
| `PadlockCli` | the command line, composed of `SealedKey` and `PadlockStore` by `INSTANCE` |
| `Installer` | `install.sh` and `uninstall.sh`, both size parsers |
| `MC*` | small instances of the modules above for TLC |
| `PadlockStoreProofs`, `StoreLogProofs`, `StoreDurabilityProofs`, `SealedKeyProofs`, `PadlockCliProofs`, `PadlockGuardProofs`, `GuardModuleProofs`, `InstallerProofs` | theorems |

### PadlockStore and the code

*State.* `dir` is the inode the store path names, `temps` the inodes under a
`mkstemp` name, `header` and `data` the contents of each file. `pc`, `arg`, `fd`,
`hdr`, `cur`, `found` and `ret` are a call's program point, arguments, `FILE *`,
`padlock_header` local, position, `found` pointer and result. `log` and `since`
are history: the records whose header was written, and how many there were when
a call began. No action reads `log` or `since`.

*Steps.* A step is one system call that matters (open, read of the header, write
of one 16-byte block, write of the header, rename, unlink) with the computation
around it. Offsets are in blocks: every offset is a multiple of 16.

*Encryption.* `crypt_xts` encrypts a record as one unit whose tweak is its first
block, so a block decrypts only under the same key, for the same unit start and
at the same place. A block is a record of exactly these, or `Random`. What
`padlock_get` makes of blocks that decrypt to nothing (`GetGarbage`,
`GetCorrupt`) is every outcome the length checks allow.

*Abstractions.* The up to three reads of one round of the get loop are one
step: the bytes below the `write_offset` it read change only when sets overlap.
The 4096 bytes of the header are read and written at once; a short write of
them, after which a set that failed may still be committed, is left out. `mkstemp` or `fopen`
failing for want of a resource returns -1 before anything changed and is not a
separate action. Data of a failed set that `fclose` still flushes lies after
`write_offset`, where the block steps before the failure already put it.
`LengthAssumption` leaves out values within 275 bytes of 2^32, for which
`align16` wraps.

*Constants that choose the environment.* `SerialSets`: callers do not overlap two
sets. `HeaderBuffered`: `st_blksize` is above 4096, so `fwrite` of the header only
fills the stdio buffer. `Faults`: failing calls (`io`), dying processes (`kill`).

### StoreDurability and the code

A process writes to the page cache, which `PadlockStore` already models as the
file. `headers` and `blocks` hold, for each header and block, every content that
the disk may have of it; `fsync` (in `padlock_allocate` only) narrows them to the
current one. `names` is the sequence of what the path named; a power failure
undoes the last renames. `PowerLoss` picks one content for each block and header
independently, so the kernel's own write-back, in whatever order, is a special
case. A header is left whole: two headers of one file differ in the eight bytes
of `write_offset`, inside one sector. After the failure `log` is the prefix that
the header covers; its records need not be intact, and `survived` records those
that are.

### SealedKey and the code

A file holds the blob of a secret, nothing (`Absent`), or bytes `read_blob`
refuses (`Broken`). `Derive` is the test at line 593 on files that `access` sees as
they are. `DeriveMistaken` is the same test when `access` fails on a file that is
there, which the code takes for a missing one: it creates another secret over the
one in use. `mistaken` is history and records that this happened; the properties
are about the time before. `OpenPublic` and
`OpenPrivate` are the two `fopen "wb"` that truncate; `ClosePublic` and
`ClosePrivate` the two `fclose` calls that write the blobs (a blob fits the stdio
buffer); `ReadPublic` and `ReadPrivate` the unsealing. The two files are opened
before either is read; they are only ever truncated in place, so reading through
an earlier open sees the same bytes. `Esys_Load` (external) accepts a
pair of blobs of one object only. `SerialFirst` says that no derivation starts
while another one creates the secret.

`faults` is chosen once in a behaviour: the faults it may meet. `FilesMatch` and
`DerivationsSucceed` speak of the behaviours without any.

### PadlockCli and the code

`Start` is `main` up to the prompt, with the decision of
`pam_service_is_passwordless_for_user`; `Prompt` is `prompt_password`;
`Authenticate` is `authenticate_with_pam` with what PAM may answer (external);
then every step of `SealedKey` and of `PadlockStore` is a step of the process.
`rule` is the PAM file for this user: an empty one counts as passwordless, since
no line contradicts. With `io` among the faults the file may be there and not be read:
a failing `fopen` counts as a prompt, a failing `fgets` as passwordless. `RewriteRule`
and `ChangePassword` happen at any moment. `stale` is history: the commands and files
begun before the last such change, and the commands that misread the PAM file.
Wrong arguments, paths and messages end the program before anything has changed.
There is one user; other users have other sealed secrets and stores.

### Installer and the code

A step is one command that changes the PAM file, the binaries, the account, the
image, `/etc/fstab` or the mount. `Fail` ends the script before any of them, as
`set -e` does, or interrupts it; `tee` is two steps, truncation and writing.
`truncate` refuses an immutable image and cuts a file system it shortens; `mkfs`
refuses a mounted one. `uninstall.sh` is one step per file it removes; `umount`, `chattr -i`
and `rm` of the image are three, of which the first two may fail unnoticed, and `installed`
(history: the store of the last finished `--enclave` run) is given up with the unlock.
`Reboot` mounts what `/etc/fstab` lists, but not a locked image: the writable loop device the
line asks for cannot be set up on an immutable file. The size is what was typed, digits and a unit:
`size_to_bytes` and `padlock_parse_size` read it as the shell and as C do (octal
after a leading 0, signed wrap and suffix T in the one; decimal, an overflow test
and no T in the other). How much of the image ext4 takes for itself is left at
"some": whether an allocation has room is otherwise decided by `Fail`.

### PadlockGuard, GuardModule and the code

`entry` is `padlock_guard_entries`, `hashed` the slots in the hash table, `name`
the directory, `held` the inode a running call resolved. Register and unregister
are two steps, since they resolve the path before the lock; the other ioctls
resolve it under the lock and are one. A write is its probe (`WriteBegin`) and
its end. Symbolic and hard links are left out: a file has at most one name.
`path`, `start` and `length` of an entry are stored and reported only.
`overtaken` is history: the threads inside a write whose file was registered
again, or whose own process ended its session, since the probe let them pass.
`Creat`, `Exit`, `WriteEnd` are the kernel's.

`PadlockGuard` is one load of the module; `GuardModule` is the loading itself,
for every set of hooks a kernel may lack. A failing probe jumps to the label
`FailLabel` gives; from there, and in `padlock_guard_exit`, the probes are unregistered
one by one (`unregister_probe`) and then the device (`deregister_device`), with users
opening and closing it in between while init fails. `Rmmod` with force ignores the
references. `stranded` are the users who still have the device open when the module is gone.

## Runs

| Run | States | Shows |
|---|---|---|
| `store_appends` | 547,528 | records of one and two blocks, gets overlapping sets, failures, the header buffered until an `fclose` that may lose it, the store replaced, sets one at a time: the bytes of the files implement `AppendOnlyLog`, and no room is lost |
| `store_races` | 151,471 | overlapping sets, garbled records, failures, kills, an empty password, sizes too small and too large, a device with more room than the file: offsets and writes stay in the file, calls return |
| `store_durable` | 335,236 | power failures at any step, in a row; failures; the store replaced; the header flushed or lost in `fclose` |
| `store_overlap` | violation | two overlapping sets |
| `key_faults` | 155,644 | failures and kills at every step of a derivation, `access` failing included; success where nothing fails |
| `key_overlap` | violation | two overlapping first derivations |
| `guard_races` | 321,140 | two processes, two paths, three inodes, two slots |
| `guard_load` | 7,110 | every set of missing hooks, every failing step and its label, forced unloads |
| `guard_rmmod` | violation | `rmmod` of a loaded guard |
| `cli` | 861,522 | two commands, PAM file and password changing at any moment, the PAM file misread, failures and kills |
| `install` | 124,613 | any sequence of installations, failures, uninstallations interrupted anywhere and reboots |
| `install_size` | violation | a size with the suffix T |

*Bounds.* Two processes are enough for every hazard listed: each needs one call
that is overtaken by another. In
`store_appends` a store has one header block and three blocks of records, so that
one- and two-block records fit together, fill the file exactly and overflow it by
one; in `store_races` two blocks of one file, enough for a two-block record over
two of one block, on a device with room for one more, so that a write past `total_size`
would still find a block; in `store_durable` two records of one block fit, so that one can
survive while the other is lost, and in `cli` one, since its properties are about
headers. Two inodes allow one replacement, which is all that distinguishes an
old file from a new one. `Word` is 1024, above every length used. Three secrets
(two in `cli`) allow two creations. Three tokens are one in the table, an older
one that a thread still holds and a fresh one; when all are in use `BeginSession`
waits, which is the bound and not the code. Two slots could hold one inode twice, and
with three inodes the table is full. Threads of one process do not fit beside that:
`guard_races` has one thread in each process, and the proofs of its four properties cover any threads. In `install`, `Kilo` is 2 and a word 7 bits, so that five typed
numbers with four units are too small, fit, overflow the disk, the signed and the unsigned word, are
octal and are no octal number. Symmetry is over processes, inodes, secrets, passwords, tokens
and paths, none of which the specifications order, and is
used only in runs without liveness. `cli` has the constraint `NotMistaken`: behaviours
are not followed beyond the step at which `access` overlooks a file. Both its properties
say nothing of the states after it, and `mistaken` is never reset, so nothing they speak
of is cut off.

*Fairness.* `store_races` (`CallsReturn`) and `key_faults` (`DerivationsSucceed`)
assume weak fairness of the steps of a running call: the scheduler runs a process
that is ready, and no step waits for another process since the library takes no
lock. No fairness is assumed of new calls, failures or kills: `FairSpec` of the store
leaves the failing steps out, since a stuck call would otherwise be ended by a failure.
`DerivationsSucceed` is about behaviours without faults.

### Findings

* `store_overlap`: `padlock_set` reads the header, writes the record and writes
  the header back with no lock. Two calls that overlap use one offset; a record
  whose set returned 0 is overwritten, where the README says "Appends key/value
  pairs instead of overwriting them" (line 15).
* `key_overlap`: the test for the files at line 593 and their creation are not
  one step. The files may end as the halves of two secrets, where the README
  (372-373) describes the two blobs of "the sealed secret".
* `guard_rmmod`: init takes a reference on its own module (line 629), so the
  `rmmod` of README lines 114-118 is refused while nobody uses the device.
* `install_size`: `install.sh` takes a size in T (message at line 555, lines
  155-158), makes, lists and mounts the image, and then `padlock allocate` refuses
  the size (`padlock.c` 753-761 knows K, M and G).

### What the code does that no document denies

The models contain these steps, and the properties are worded around them.

* `padlock_set` ignores the result of `fclose` (line 1233). When the header is still in
  the stdio buffer and the flush fails, it returns 0 for a record that is not in the
  store (`SetCloseLost`). Earlier records and the room for later ones are not affected.
* A failing `access` (line 593) makes a derivation replace the secret in use
  (`DeriveMistaken`); stores sealed with it cannot be opened afterwards.
* A PAM file that cannot be opened or read is decided on as if it said something
  (`padlock_cli.c` 181 and 191): a store allocated meanwhile is sealed with the other login.
* A finished image is locked, so the boot after an installation does not mount it.
* An `uninstall.sh` interrupted between `chattr -i` and `rm` leaves the store unlocked,
  and the next `install.sh --enclave` cuts and formats it.
* A user who opened the guard's device while init was failing keeps it open on a module
  that is gone (`stranded`).

## Proofs

All theorems hold for every number of processes, files, keys, sizes, threads and
slots, every kernel's set of hooks and every choice of `Faults`.

*Assumptions.* `StoreAssumption`, `LengthAssumption`, `WordAssumption`,
`SealedKeyAssumption`, `CliAssumption`, `GuardAssumption`, `InstallerAssumption`: types of
constants, and `None`, `Random`, `Absent`, `Broken` different from what they are not.
`DecodeAssumption`: `Random` is not an encrypted block, and `None` not a sequence of pairs. Where a theorem needs
callers that do not overlap it says so (`ASSUME SerialSets`, `ASSUME
SerialFirst`); the violation runs show why it must.

*Store, any overlap* (`PadlockStoreProofs`). `InsideFile` is not
inductive: that a set stays inside the file needs to know that the header copy it
holds has the size of the file and that it passed the capacity check. `Shape`
adds, for each call, what its program point implies (`OwnsTemp`, `OpensPublished`,
`CopiedHeader`, `WritesInside`), that temporary files have one owner, and that
every header in a file is valid. Stale copies differ from the file in
`write_offset` only; this makes `SealedKeyIsStable` hold with overlapping sets.
From it: `StaysInside`, `WholeStore`, `SealedStable`. `NoStrayTemps` adds that every
temporary file has an owner.

*Store and power failures* (`StoreDurabilityProofs`). `DurableInv` adds to `Shape`
that every name the path may come back to is that of a published file
(`NamesWhole`), and that every header the disk may hold of a file past its `fsync`
is valid and seals what the current one does (`HeadersWhole`). It is kept because
rename follows `fsync`, and because a set's copy of the header differs from the
file's in `write_offset` only. From it: `WholeStoreOnDisk`, `SealedOnDisk`.
`SurvivorsNeverLost` needs serial sets and `SurvivorsInv`: a running set's copy is the
file's header (`CopiesCurrent`), the records of every file that the path may come back to
tile it, every header that the disk may hold of it ends a record of its log
(`HeadersEndRecords`), none ends before a survivor does, and each block of a survivor has
one content on the disk (`OnDisk`). A set writes at or after `write_offset`, so a power
failure has no choice left for a survivor. `HeadersEndRecords` also shows that the guard of
`Restart`, which asks for the prefix of the log that the header left covers, excludes no header.

*Store, serial sets* (`StoreLogProofs`). `Inv` adds that records tile the file
(`RecordsTile`), that the running set's copy is the file's header and its blocks
are in place (`SetIsCurrent`), and that a scanning get stands at the end of some
record m of a prefix n and has found the latest match among the first m
(`GetFollowsLog`). The central step is that a round of the loop on a record that
is intact decrypts to that record and no other. From it: `CommittedStayIntact`,
`GetsAreLatest`. `NoRoomLost` adds that only `SetReject` turns away a set that has the
file open, and that the end of the last record never moves back (`EndGrows`), so a set
that had no room when it was turned away has none later; that a record has at least one
block needs `LengthAssumption` (`BlocksPositive`).

*Refinement* (`StoreLogProofs`). `StoreImplementsLog`: with serial sets the pairs decoded
from the bytes behave as `AppendOnlyLog`. Under `Inv` the records tile the file and are
intact, so the recursive scan `Decoded` equals the pairs of `log` (`DecodedIsLog`). That is
an induction over the records, from the last one back, done without an induction theorem:
if the scan gave another answer from some record on, there would be a last such record
(`LeastNat`, from the well-foundedness of the naturals), and one round of the scan refutes
it (`WalkUnique`); that the recursive function exists is shown by its closed form
(`ClosedWalkWalks`). Then each action maps to a step:
`AllocRename` to `Allocate`, the write of the header, in `SetWriteHeader` or in `SetClose`,
to `Set`, and every other to a stutter (`RenameMaps`, `WriteMaps`, `QuietMaps`).

*Sealed secret* (`SealedKeyProofs`). `Inv` says that a creator is alone, that a
secret that was used is on both files with no creator running, and that a reader's
public blob is still the file's (`Undisturbed`), all of it until `access` overlooks a file;
`MistakenKept` says that this is never undone. From it: `StablePassword`, `KeptSecret`; with the
program points of a creator in a behaviour without faults, `MatchingFiles`. `KeyTyped`
needs no assumption on overlaps.

*Command line* (`PadlockCliProofs`). The theorems of the two components are used through
instances of their proof modules: every step of the program is a step of the store or
leaves it alone (`StoreStep`), and the same for the derivation (`KeyStep`), so `Shape` of
the store and `Inv` of the secret hold in the composition. `CliInv` adds what is between
them: a process is in at most one of the two calls and its other frame is clean
(`FrameClean`, `PhaseAgrees`), every password in a call or in a header was derived with the
one used secret (`Derived`), and what began since the last change of the configuration has
the login that the configuration gives (`LoginIsCurrent`, `FileInv`). From it:
`LoginAlwaysOpens`, `StoreAlwaysOpens`; both need `SerialFirst` only, sets may overlap.
`CliInv` itself holds after `access` has overlooked a file as well; that the passwords are
derived with one secret is what is lost then.

*Guard* (`PadlockGuardProofs`). `TableSound` is inductive with the types and
`HoldsInode`. `WritesInSession` is inductive on top: a write that was let pass stays
authorised because every step that changes its entry is kept away by the session
test or by the token, or puts it in `overtaken`. From it: `SoundTable`,
`SessionWrites`, `GuardTyped`, `SessionsKept`.

*Guard load* (`GuardModuleProofs`). `LoadInv`: at step n of init the registered
probes are those among the first n - 1 that the kernel has, and the first one has
been passed only when it was there. While a failure or exit is undone, what is left are
probes from the current step on (`UndoingInv`), which is empty at `fail_misc` only because
the required probe is the first. From it: `LiveGuarded`, `NothingLeft`.

*Installer* (`InstallerProofs`). `Inv` says what each step of `--enclave` has
achieved when the next one runs (binary moved, image made, listed, mounted, store
allocated), that a finished image is immutable until it is unlocked, which stops
`truncate` and `rm` before anything of it is touched, and that `uninstall.sh` removes the
wrapper before the binary. From it: `StoreKept`, `AsAsked`, `WrapperFindsBinary`.

*Only model-checked.* `CallsReturn` and `DerivationsSucceed`: liveness under fairness,
which the proof system does not reach. Every invariant and action property of the passing
runs, and the refinement, is also a theorem.

## Not modelled

* The byte codec of the header and of records (`put_*`, `get_*`), and value lengths
  within 275 bytes of 2^32, which `LengthAssumption` names.
* Default paths and creation of directories; messages of the command line; the
  terminal during the prompt.
* A header block torn by a short write or inside a sector.
* Of the installer: the build, packages, TPM groups, udev rules and the loading of
  the guard, which no later step depends on but by failing; how much of an image
  ext4 takes for itself (with the fixed 64 MB of `install.sh` line 20, a store of 2G
  does not fit its image, and the script ends in `AllocateStore`).
* The cryptography below what tells keys, tweaks and passwords apart.
* Sleeping in kprobe handlers; symbolic and hard links in the guard.
* The tests, build files and vendored headers.
