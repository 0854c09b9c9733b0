------------------------------- MODULE VMImage -------------------------------
(***************************************************************************)
(* The disk images of the build VM.  build_vm.sh of                        *)
(* src/tasks/core/build_vm keeps an installed image in cache/ under a key  *)
(* made from the files of that directory, and copies it to base.qcow2;     *)
(* _runtime_image() of src/common/lib/vm.py puts runtime.qcow2, what the   *)
(* VM writes, on top of that.  A build (make) starts with an empty work    *)
(* directory; a shell (make vm-shell) finds what is there and runs         *)
(* build_vm.sh unless the VM is up.                                        *)
(*                                                                         *)
(* Two installations are two images, even of the same files.  One process  *)
(* at a time runs build_vm.sh; it may be killed anywhere.                  *)
(***************************************************************************)
EXTENDS Naturals

CONSTANTS Versions,      \* of the files in tasks/core/build_vm
          MaxInstalls    \* bound on the number of installations

ASSUME MaxInstallsAssumption == MaxInstalls \in Nat

VARIABLES
  files,      \* the version there is now
  left,       \* history: the versions that were changed into another
  image,      \* cache/vm-base.qcow2
  key,        \* cache/vm-base.key
  base,       \* work/qemu-host/base.qcow2
  runtime,    \* the image that runtime.qcow2 was put on, NoImage if there is none,
              \* Torn if its making was cut off
  replaced,   \* history: files were changed or the cache deleted since build_vm.sh
              \* started to make the image for it
  pc,         \* where the process is: "idle" when there is none
  cacheKey,   \* CACHE_KEY
  built,      \* the image being installed
  installs,   \* how many there were
  up          \* the VM runs

vars == <<files, left, image, key, base, runtime, replaced, pc, cacheKey, built, installs, up>>
cache == <<image, key>>
disks == <<base, runtime>>

NoImage == [of |-> "none", number |-> 0]
Torn == [of |-> "torn", number |-> 0]        \* a file whose writing was cut off
NoKey == "none"

ASSUME VersionsAssumption == NoKey \notin Versions /\ "torn" \notin Versions

Init ==
  /\ files \in Versions /\ left = {}
  /\ image = NoImage /\ key = NoKey
  /\ base = NoImage /\ runtime = NoImage /\ replaced = FALSE
  /\ pc = "idle" /\ cacheKey = NoKey /\ built = NoImage /\ installs = 0 /\ up = FALSE
-----------------------------------------------------------------------------
(***************************************************************************)
(* The user.                                                               *)
(***************************************************************************)

Edit ==
  /\ files' \in Versions \ {files}
  /\ left' = left \cup {files} /\ replaced' = TRUE
  /\ UNCHANGED <<cache, disks, pc, cacheKey, built, installs, up>>

CleanCache ==        \* make clean-cache
  /\ pc = "idle"
  /\ image' = NoImage /\ key' = NoKey /\ replaced' = TRUE
  /\ UNCHANGED <<files, left, disks, pc, cacheKey, built, installs, up>>

StartBuild ==        \* make: clean.sh, then the task build_vm.sh; a VM loses its files
  /\ pc = "idle"
  /\ base' = NoImage /\ runtime' = NoImage /\ up' = FALSE
  /\ pc' = "key"
  /\ UNCHANGED <<files, left, cache, replaced, cacheKey, built, installs>>

StartShell ==        \* make vm-shell: ensure_vm_image()
  /\ pc = "idle"
  /\ pc' = IF up THEN "start" ELSE "key"
  /\ UNCHANGED <<files, left, cache, disks, replaced, cacheKey, built, installs, up>>

LoseVM ==            \* powered off, killed, or an abandoned one ended by start_vm()
  /\ up
  /\ up' = FALSE
  /\ UNCHANGED <<files, left, cache, disks, replaced, pc, cacheKey, built, installs>>
-----------------------------------------------------------------------------
(***************************************************************************)
(* build_vm.sh.                                                            *)
(***************************************************************************)

ComputeKey ==        \* gen_vm_cachekey.sh
  /\ pc = "key"
  /\ cacheKey' = files /\ pc' = "look"
  /\ replaced' = (replaced /\ runtime # NoImage)
  /\ UNCHANGED <<files, left, cache, disks, built, installs, up>>

\* Mutants: the key is not compared, or never equal.
AnyImage == image # NoImage
NeverInCache == FALSE

InCache == key = cacheKey /\ image # NoImage

UseCached ==
  /\ pc = "look" /\ InCache
  /\ pc' = "copy"
  /\ UNCHANGED <<files, left, cache, disks, replaced, cacheKey, built, installs, up>>

Install ==           \* the files are read, the installer runs; either may fail
  /\ pc = "look" /\ ~InCache
  /\ installs < MaxInstalls
  /\ installs' = installs + 1
  /\ built' = [of |-> files, number |-> installs + 1]
  /\ pc' \in {"move", "idle"}
  /\ UNCHANGED <<files, left, cache, disks, replaced, cacheKey, up>>

Move ==              \* mv, within one file system
  /\ pc = "move"
  /\ image' = built /\ pc' = "record"
  /\ UNCHANGED <<files, left, key, disks, replaced, cacheKey, built, installs, up>>

RecordKey ==
  /\ pc = "record"
  /\ key' = cacheKey /\ pc' = "copy"
  /\ UNCHANGED <<files, left, image, disks, replaced, cacheKey, built, installs, up>>

Copy ==              \* cp
  /\ pc = "copy"
  /\ base' = image /\ pc' = "start"
  /\ UNCHANGED <<files, left, cache, runtime, replaced, cacheKey, built, installs, up>>

\* start_vm() comes to make runtime.qcow2.
MakesDisk == pc = "start" /\ ~up /\ base # NoImage /\ runtime = NoImage

\* What a kill leaves of the file that is being written, or failed to be.
Kill ==
  /\ pc # "idle"
  /\ key' \in IF pc = "record" THEN {key, NoKey} ELSE {key}
  /\ base' \in IF pc = "copy" THEN {base, Torn} ELSE {base}
  /\ runtime' \in IF MakesDisk THEN {runtime, Torn, base} ELSE {runtime}
  /\ pc' = "idle"
  /\ UNCHANGED <<files, left, image, replaced, cacheKey, built, installs, up>>
-----------------------------------------------------------------------------
\* start_vm(), _runtime_image(): a disk that is there is kept, whatever it is.
\* qemu may refuse half a disk; to the images that is what a kill is.
StartVM ==
  /\ pc = "start" /\ ~up /\ base # NoImage
  /\ runtime' = IF runtime = NoImage THEN base ELSE runtime
  /\ up' = TRUE /\ pc' = "idle"
  /\ UNCHANGED <<files, left, cache, base, replaced, cacheKey, built, installs>>

JoinVM ==            \* it is up already
  /\ pc = "start" /\ up
  /\ pc' = "idle"
  /\ UNCHANGED <<files, left, cache, disks, replaced, cacheKey, built, installs, up>>

Next ==
  \/ Edit \/ CleanCache \/ StartBuild \/ StartShell \/ LoseVM
  \/ ComputeKey \/ UseCached \/ Install \/ Move \/ RecordKey \/ Copy \/ Kill
  \/ StartVM \/ JoinVM

Spec == Init /\ [][Next]_vars
-----------------------------------------------------------------------------
(***************************************************************************)
(* Properties.                                                             *)
(***************************************************************************)

\* Wherever a process was killed before, build_vm.sh ends with an image of the
\* files its key is of, unless these have been changed and changed back, or
\* changed while it ran (build_vm.sh:22, :24, :135).
NewFilesNewImage ==
  pc = "start" /\ ~up => base.of = cacheKey \/ cacheKey \in left

\* The VM runs on a whole image, and what it wrote stays on the image it was
\* written over, unless files were changed or the cache deleted meanwhile, or a
\* kill has left half a disk (_runtime_image(), which keeps runtime.qcow2 whatever
\* has become of it and of its base).
DiskStaysOnItsBase ==
  up => base # Torn /\ (runtime \in {base, Torn} \/ replaced)

=============================================================================
