---------------------------- MODULE VMImageProofs ----------------------------
(***************************************************************************)
(* Proofs about VMImage, for any versions of the files and any number of   *)
(* installations.  A key that was never left is that of the files there    *)
(* are now, and the image in the cache is one of them; so a look-up that   *)
(* fails means that there is no such image, and a file under a key that is *)
(* left does no harm until somebody goes back to it.                       *)
(***************************************************************************)
EXTENDS VMImage, TLAPS

Images == [of : Versions \cup {"none", "torn"}, number : Nat]

TypeOK ==
  /\ files \in Versions
  /\ image \in Images /\ base \in Images /\ runtime \in Images /\ built \in Images
  /\ key \in Versions \cup {NoKey} /\ cacheKey \in Versions \cup {NoKey}
  /\ installs \in Nat /\ up \in BOOLEAN /\ replaced \in BOOLEAN
  /\ pc \in {"idle", "key", "look", "move", "record", "copy", "start"}

\* The installer's and the cached image are whole.
Whole ==
  /\ image # Torn
  /\ pc = "move" => built.of \in Versions
  /\ pc \in {"record", "copy"} => image # NoImage
  /\ pc = "start" \/ up => base # Torn

\* A version that was never left is the present one.
OneIsPresent ==
  /\ key # NoKey => key = files \/ key \in left
  /\ pc \in {"look", "move", "record", "copy"} =>
       cacheKey # NoKey /\ (cacheKey = files \/ cacheKey \in left)

KeyIsTrue ==
  /\ key # NoKey => image # NoImage /\ (image.of = key \/ key \in left)
  /\ pc = "move" => /\ built.of = cacheKey \/ cacheKey \in left
                    /\ key = NoKey \/ built.of = key \/ key \in left
  /\ pc \in {"record", "copy"} => image.of = cacheKey \/ cacheKey \in left
  /\ pc = "start" \/ up => base.of = cacheKey \/ cacheKey \in left

\* No process is installing while a VM runs.
UpIsQuiet == up => pc \in {"idle", "start"} /\ runtime # NoImage

\* Until something is replaced, the image below the VM's disk is in the cache.
DiskIsCached ==
  ~replaced =>
    /\ runtime \notin {NoImage, Torn} => key = files /\ image = runtime /\ pc \notin {"move", "record"}
    /\ pc \in {"look", "move", "record", "copy"} => cacheKey = files
    /\ pc \in {"copy", "start"} => key = files
    /\ pc = "start" => base = image
    /\ up => runtime \in {base, Torn} /\ base = image /\ key = files

IInv == TypeOK /\ Whole /\ OneIsPresent /\ KeyIsTrue /\ UpIsQuiet /\ DiskIsCached
-----------------------------------------------------------------------------
LEMMA Marks ==
  /\ NoImage \in Images /\ Torn \in Images /\ NoImage # Torn
  /\ \A i \in Images : i.of \in Versions => i # NoImage /\ i # Torn
  BY VersionsAssumption DEF NoImage, Torn, Images, NoKey

LEMMA InitInvariant == Init => IInv
  <1> SUFFICES ASSUME Init PROVE IInv
    OBVIOUS
  <1> USE Marks DEF Init
  <1>1. TypeOK
    BY DEF TypeOK
  <1>2. Whole /\ OneIsPresent
    BY DEF Whole, OneIsPresent
  <1>3. KeyIsTrue /\ UpIsQuiet /\ DiskIsCached
    BY DEF KeyIsTrue, UpIsQuiet, DiskIsCached
  <1> QED
    BY <1>1, <1>2, <1>3 DEF IInv

LEMMA NextInvariant == IInv /\ [Next]_vars => IInv'
  <1> SUFFICES ASSUME IInv, [Next]_vars PROVE IInv'
    OBVIOUS
  <1> USE Marks DEF IInv, TypeOK, Whole, OneIsPresent, KeyIsTrue, UpIsQuiet, DiskIsCached,
                    cache, disks
  <1>1. CASE Edit
    BY <1>1 DEF Edit
  <1>2. CASE CleanCache
    BY <1>2 DEF CleanCache
  <1>3. CASE StartBuild
    BY <1>3 DEF StartBuild
  <1>4. CASE StartShell
    BY <1>4 DEF StartShell
  <1>5. CASE LoseVM
    BY <1>5 DEF LoseVM
  <1>6. CASE ComputeKey
    BY <1>6, VersionsAssumption DEF ComputeKey, NoKey
  <1>7. CASE UseCached
    BY <1>7 DEF UseCached, InCache
  <1>8. CASE Install
    <2>1. built' \in Images /\ built'.of = files /\ installs' \in Nat
      BY <1>8 DEF Install, Images
    <2>2. key = NoKey \/ key = files \/ key \in left
      OBVIOUS
    <2>3. ~replaced => runtime \in {NoImage, Torn}
      BY <1>8 DEF Install, InCache
    <2> QED
      BY <1>8, <2>1, <2>2, <2>3 DEF Install
  <1>9. CASE Move
    BY <1>9 DEF Move
  <1>10. CASE RecordKey
    BY <1>10 DEF RecordKey
  <1>11. CASE Copy
    BY <1>11 DEF Copy
  <1>12. CASE Kill
    BY <1>12 DEF Kill, MakesDisk
  <1>13. CASE StartVM
    BY <1>13 DEF StartVM
  <1>14. CASE JoinVM
    BY <1>14 DEF JoinVM
  <1>15. CASE UNCHANGED vars
    BY <1>15 DEF vars
  <1> QED
    BY <1>1, <1>2, <1>3, <1>4, <1>5, <1>6, <1>7, <1>8, <1>9, <1>10, <1>11, <1>12, <1>13,
       <1>14, <1>15 DEF Next

LEMMA Invariant == Spec => []IInv
  BY InitInvariant, NextInvariant, PTL DEF Spec

-----------------------------------------------------------------------------
\* Wherever processes were killed, build_vm.sh ends with an image of the files
\* its key is of, unless these were changed meanwhile, or back.
THEOREM ImageFitsFiles == Spec => []NewFilesNewImage
  <1>1. IInv => NewFilesNewImage
    BY DEF IInv, KeyIsTrue, NewFilesNewImage
  <1> QED
    BY <1>1, Invariant, PTL

\* The VM runs on a whole image, the one its disk was made on unless something
\* was replaced or the making of the disk was cut off.
THEOREM DiskFitsBase == Spec => []DiskStaysOnItsBase
  <1>1. IInv => DiskStaysOnItsBase
    BY DEF IInv, TypeOK, Whole, DiskIsCached, DiskStaysOnItsBase
  <1> QED
    BY <1>1, Invariant, PTL

=============================================================================
