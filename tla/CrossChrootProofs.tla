-------------------------- MODULE CrossChrootProofs --------------------------
(***************************************************************************)
(* The two invariants of CrossChroot for every set of targets.             *)
(***************************************************************************)
EXTENDS CrossChroot, TLAPS

InSetup == {"collect", "unmount", "remove", "make", "configure", "stamp"}

TypeOK ==
  /\ config \in Targets /\ target \in Targets /\ edited \in BOOLEAN
  /\ phase \in {"off", "lists", "ready", "tasks", "failed"}
  /\ pc \in {"idle", "check", "bind", "command"} \cup InSetup
  /\ script \in [kind : {"ready", "tasks", "shell"}, target : Targets,
                 lists : {"partial", "full"}]
  /\ mounts \subseteq Runtime \cup Shared

\* Scripts of the build are for its target, and they run only in their phase.
BuildScripts ==
  pc # "idle" /\ script.kind # "shell" => phase = script.kind /\ script.target = target

\* What a stamp stands for.
StampIsTrue ==
  /\ \A t \in stamps : root = "complete" /\ maker.target = t
  /\ root # "none" /\ maker.kind # "shell" => maker.lists = "full"
  /\ pc = "stamp" => root = "complete"
  /\ pc = "make" => stamps = {}
  /\ pc \in {"stamp", "configure"} => root # "none" /\ maker = script /\ stamps = {}
  /\ pc \in InSetup => ~HasStamp(script.target)
  /\ pc \in InSetup \ {"collect"} /\ script.kind # "shell" => script.lists = "full"

TaskPlace ==
  /\ pc = "bind" => script.kind = "tasks"
  /\ script.kind = "tasks" /\ pc \in {"bind", "command"} =>
       HasStamp(target) /\ Runtime \subseteq mounts
  /\ script.kind = "tasks" /\ pc = "command" => Shared \subseteq mounts
  /\ pc = "remove" => mounts \cap Runtime = {}
  /\ pc \in {"configure", "stamp"} => Runtime \subseteq mounts

\* With one target, the chroot that has shared directories in it has its stamp,
\* and nobody who has the VM meanwhile is setting it up.
NothingRemoved == ~edited => removed = {}
ScriptsForTarget ==
  ~edited /\ phase # "off" => config = target /\ (pc # "idle" => script.target = target)
SharedIsStamped ==
  ~edited /\ mounts \cap Shared # {} => phase # "off" /\ HasStamp(target)
OneTarget == NothingRemoved /\ ScriptsForTarget /\ SharedIsStamped

IInv == TypeOK /\ BuildScripts /\ StampIsTrue /\ TaskPlace /\ OneTarget
-----------------------------------------------------------------------------
LEMMA InitInv == Init => IInv
<1> SUFFICES ASSUME Init PROVE IInv
  OBVIOUS
<1>1. TypeOK
  BY DEF Init, TypeOK
<1>2. BuildScripts /\ StampIsTrue /\ TaskPlace /\ OneTarget
  BY DEF Init, BuildScripts, StampIsTrue, TaskPlace, OneTarget, NothingRemoved,
         ScriptsForTarget, SharedIsStamped, HasStamp, InSetup
<1> QED BY <1>1, <1>2 DEF IInv

LEMMA TypeStep ==
  ASSUME IInv, [Next]_vars
  PROVE  TypeOK'
<1> USE DEF IInv, TypeOK, InSetup
<1>1. CASE Reconfigure \/ StartBuild \/ ListsDone \/ EndBuild \/ LoseVM
  BY <1>1 DEF Reconfigure, StartBuild, ListsDone, EndBuild, LoseVM, VMDown
<1>2. CASE \E kind \in {"ready", "tasks", "shell"} : StartScript(kind)
  BY <1>2 DEF StartScript
<1>3. CASE CheckStamp \/ CollectPackages \/ Unmount
  BY <1>3 DEF CheckStamp, CollectPackages, Unmount, Unmounted, SetupDone, SetupFails
<1>4. CASE Remove \/ Make \/ Configure \/ Stamp
  BY <1>4 DEF Remove, Make, Configure, Stamp, SetupDone, SetupFails
<1>5. CASE BindShared \/ EndCommand \/ UNCHANGED vars
  BY <1>5 DEF BindShared, EndCommand, vars
<1> QED BY <1>1, <1>2, <1>3, <1>4, <1>5 DEF Next

\* A script of the build ends with its phase.
LEMMA ScriptsStep ==
  ASSUME IInv, [Next]_vars
  PROVE  BuildScripts'
<1> USE DEF IInv, TypeOK, BuildScripts, InSetup
<1>1. CASE Reconfigure \/ StartBuild \/ ListsDone \/ EndBuild \/ LoseVM
  BY <1>1 DEF Reconfigure, StartBuild, ListsDone, EndBuild, LoseVM, VMDown
<1>2. CASE \E kind \in {"ready", "tasks", "shell"} : StartScript(kind)
  BY <1>2 DEF StartScript
<1>3. CASE CheckStamp
  BY <1>3 DEF CheckStamp, SetupDone, SetupFails
<1>4. CASE CollectPackages \/ Unmount
  BY <1>4 DEF CollectPackages, Unmount, Unmounted, SetupFails
<1>5. CASE Remove \/ Make
  BY <1>5 DEF Remove, Make, SetupFails
<1>6. CASE Configure \/ Stamp
  BY <1>6 DEF Configure, Stamp, SetupDone, SetupFails
<1>7. CASE BindShared \/ EndCommand \/ UNCHANGED vars
  BY <1>7 DEF BindShared, EndCommand, vars
<1> QED BY <1>1, <1>2, <1>3, <1>4, <1>5, <1>6, <1>7 DEF Next

\* The stamp comes last, and goes with the chroot.
LEMMA StampStep ==
  ASSUME IInv, [Next]_vars
  PROVE  StampIsTrue'
<1> USE DEF IInv, TypeOK, BuildScripts, StampIsTrue, HasStamp, InSetup
<1>1. CASE Reconfigure \/ StartBuild \/ ListsDone \/ EndBuild \/ LoseVM
  BY <1>1 DEF Reconfigure, StartBuild, ListsDone, EndBuild, LoseVM, VMDown
<1>2. CASE \E kind \in {"ready", "tasks", "shell"} : StartScript(kind)
  BY <1>2 DEF StartScript
<1>3. CASE CheckStamp
  BY <1>3 DEF CheckStamp, SetupDone, SetupFails
<1>4. CASE CollectPackages \/ Unmount
  BY <1>4 DEF CollectPackages, Unmount, Unmounted, SetupFails
<1>5. CASE Remove \/ Make
  BY <1>5 DEF Remove, Make, SetupFails
<1>6. CASE Configure \/ Stamp
  BY <1>6 DEF Configure, Stamp, SetupDone, SetupFails
<1>7. CASE BindShared \/ EndCommand \/ UNCHANGED vars
  BY <1>7 DEF BindShared, EndCommand, vars
<1> QED BY <1>1, <1>2, <1>3, <1>4, <1>5, <1>6, <1>7 DEF Next

\* A task gets to its command through the stamp and the mounts.
LEMMA PlaceStep ==
  ASSUME IInv, [Next]_vars
  PROVE  TaskPlace'
<1> USE DEF IInv, TypeOK, BuildScripts, StampIsTrue, TaskPlace, HasStamp, InSetup
<1>1. CASE Reconfigure \/ StartBuild \/ ListsDone \/ EndBuild \/ LoseVM
  BY <1>1 DEF Reconfigure, StartBuild, ListsDone, EndBuild, LoseVM, VMDown
<1>2. CASE \E kind \in {"ready", "tasks", "shell"} : StartScript(kind)
  BY <1>2 DEF StartScript
<1>3. CASE CheckStamp
  BY <1>3 DEF CheckStamp, SetupDone, SetupFails
<1>4. CASE CollectPackages \/ Unmount
  BY <1>4 DEF CollectPackages, Unmount, Unmounted, SetupFails
<1>5. CASE Remove \/ Make
  BY <1>5 DEF Remove, Make, SetupFails
<1>6. CASE Configure \/ Stamp
  BY <1>6 DEF Configure, Stamp, SetupDone, SetupFails
<1>7. CASE BindShared \/ EndCommand \/ UNCHANGED vars
  BY <1>7 DEF BindShared, EndCommand, vars
<1> QED BY <1>1, <1>2, <1>3, <1>4, <1>5, <1>6, <1>7 DEF Next

LEMMA ScriptsForTargetStep ==
  ASSUME IInv, [Next]_vars
  PROVE  ScriptsForTarget'
<1> USE DEF ScriptsForTarget
<1>0. /\ ScriptsForTarget /\ BuildScripts
      /\ edited \in BOOLEAN /\ script.kind \in {"ready", "tasks", "shell"}
      /\ pc = "bind" => script.kind = "tasks"
  BY DEF IInv, OneTarget, TypeOK, TaskPlace
<1>1. CASE Reconfigure \/ StartBuild \/ ListsDone \/ EndBuild \/ LoseVM
  BY <1>0, <1>1 DEF Reconfigure, StartBuild, ListsDone, EndBuild, LoseVM, VMDown, BuildScripts
<1>2. CASE \E kind \in {"ready", "tasks", "shell"} : StartScript(kind)
  BY <1>0, <1>2 DEF StartScript
<1>3. CASE CheckStamp
  BY <1>0, <1>3 DEF CheckStamp, SetupDone, SetupFails, BuildScripts
<1>4. CASE CollectPackages
  <2>1. script'.target = script.target
    BY <1>4 DEF CollectPackages, IInv, TypeOK
  <2> QED BY <1>0, <1>4, <2>1 DEF CollectPackages, SetupFails, BuildScripts
<1>5. CASE Unmount \/ Remove \/ Make
  BY <1>0, <1>5 DEF Unmount, Remove, Make, SetupFails, BuildScripts
<1>6. CASE Configure \/ Stamp
  BY <1>0, <1>6 DEF Configure, Stamp, SetupDone, SetupFails, BuildScripts
<1>7. CASE BindShared \/ EndCommand \/ UNCHANGED vars
  BY <1>0, <1>7 DEF BindShared, EndCommand, vars, BuildScripts
<1> QED BY <1>1, <1>2, <1>3, <1>4, <1>5, <1>6, <1>7 DEF Next

\* Whoever sets up the chroot found no stamp, so that no directory is bound there.
LEMMA NoSharedInSetup ==
  ASSUME IInv, ~edited, pc \in InSetup
  PROVE  mounts \cap Shared = {}
BY DEF IInv, OneTarget, SharedIsStamped, ScriptsForTarget, StampIsTrue, InSetup, HasStamp

LEMMA NothingRemovedStep ==
  ASSUME IInv, [Next]_vars
  PROVE  NothingRemoved'
<1>0. NothingRemoved /\ edited \in BOOLEAN
  BY DEF IInv, OneTarget, TypeOK
<1>1. CASE Remove
  <2>1. SUFFICES ASSUME ~edited' PROVE removed' = {}
    BY DEF NothingRemoved
  <2>2. ~edited /\ pc = "remove"
    BY <1>1, <2>1 DEF Remove
  <2>3. mounts = {}
    BY <2>2, NoSharedInSetup DEF InSetup, IInv, TypeOK, TaskPlace
  <2> QED BY <1>0, <1>1, <2>2, <2>3 DEF Remove, NothingRemoved
<1>2. CASE ~Remove
  <2>1. removed' = removed
    BY <1>2 DEF Next, vars, Reconfigure, StartBuild, ListsDone, EndBuild, LoseVM, StartScript,
         CheckStamp, CollectPackages, Unmount, Make, Configure, Stamp, BindShared, EndCommand
  <2>2. ~edited' => ~edited
    BY DEF Next, vars, Reconfigure, StartBuild, ListsDone, EndBuild, LoseVM, StartScript,
         CheckStamp, CollectPackages, Unmount, Remove, Make, Configure, Stamp, BindShared,
         EndCommand
  <2> QED BY <1>0, <2>1, <2>2 DEF NothingRemoved
<1> QED BY <1>1, <1>2

LEMMA SharedIsStampedStep ==
  ASSUME IInv, [Next]_vars
  PROVE  SharedIsStamped'
<1> USE DEF SharedIsStamped, HasStamp
<1>0. SharedIsStamped /\ edited \in BOOLEAN
  BY DEF IInv, OneTarget, TypeOK
<1>1. CASE Reconfigure \/ StartBuild \/ ListsDone \/ EndBuild \/ LoseVM
  BY <1>0, <1>1 DEF Reconfigure, StartBuild, ListsDone, EndBuild, LoseVM, VMDown
<1>2. CASE \E kind \in {"ready", "tasks", "shell"} : StartScript(kind)
  BY <1>0, <1>2 DEF StartScript
<1>3. Runtime \cap Shared = {}
  BY DEF Runtime, Shared
<1>4. CASE CheckStamp
  <2>1. mounts' \cap Shared = mounts \cap Shared /\ target' = target /\ stamps' = stamps
    BY <1>3, <1>4 DEF CheckStamp
  <2>2. edited' = edited /\ (phase # "off" => phase' # "off")
    BY <1>4 DEF CheckStamp, SetupDone, SetupFails, IInv, TypeOK
  <2> QED BY <1>0, <2>1, <2>2
<1>5. CASE CollectPackages \/ Unmount \/ Remove \/ Make \/ Configure \/ Stamp
  <2>1. edited' = edited /\ pc \in InSetup
    BY <1>5 DEF CollectPackages, Unmount, Remove, Make, Configure, Stamp, InSetup
  <2>2. mounts' \subseteq mounts \cup Runtime
    BY <1>5 DEF CollectPackages, Unmount, Unmounted, Remove, Make, Configure, Stamp
  <2> QED BY <1>3, <2>1, <2>2, NoSharedInSetup
<1>6. CASE BindShared
  <2>1. script.kind = "tasks" /\ phase = "tasks" /\ target \in stamps
    BY <1>6 DEF BindShared, IInv, BuildScripts, TaskPlace
  <2>2. phase' # "off" /\ target' = target /\ stamps' = stamps
    BY <1>6, <2>1 DEF BindShared
  <2> QED BY <2>1, <2>2
<1>7. CASE EndCommand \/ UNCHANGED vars
  BY <1>0, <1>7 DEF EndCommand, vars, IInv, BuildScripts
<1> QED BY <1>1, <1>2, <1>4, <1>5, <1>6, <1>7 DEF Next

LEMMA InvariantHolds == Spec => []IInv
<1>1. IInv /\ [Next]_vars => IInv'
  BY TypeStep, ScriptsStep, StampStep, PlaceStep, ScriptsForTargetStep, NothingRemovedStep,
     SharedIsStampedStep DEF IInv, OneTarget
<1> QED BY <1>1, InitInv, PTL DEF Spec
-----------------------------------------------------------------------------
\* Whatever targets there are, and whichever shells, reboots and failures come
\* between: a cross task has the chroot of its build, whole.
THEOREM OwnRoot == Spec => []TaskRunsInItsRoot
<1>1. IInv => TaskRunsInItsRoot
  BY DEF IInv, TypeOK, BuildScripts, StampIsTrue, TaskPlace, TaskRunsInItsRoot, HasStamp
<1> QED BY <1>1, InvariantHolds, PTL

\* While the target of .config is left alone, making a chroot never deletes
\* what host, VM and chroot share.
THEOREM SharedAreSafe == Spec => []OnlyTheRootIsRemoved
<1>1. IInv => OnlyTheRootIsRemoved
  BY DEF IInv, OneTarget, NothingRemoved, OnlyTheRootIsRemoved
<1> QED BY <1>1, InvariantHolds, PTL

=============================================================================
