---------------------------- MODULE LocalPackages ----------------------------
(***************************************************************************)
(* From DS_OVERLAY to the target root file system: what a host, vm or      *)
(* cross task leaves in its overlay becomes a package input (Task.run and  *)
(* _stage_host_package_input of src/common/lib/task.py, run-vm-task.sh,    *)
(* run-cross-task.sh and stage-package-input.sh of src/common/vm), every   *)
(* input becomes a Debian package (build-packages.sh of                    *)
(* src/tasks/core/local_packages), and the packages are installed one by   *)
(* one (install-packages.sh).  The tasks are those of TaskStaging, which   *)
(* has the other half of Task.run.                                         *)
(*                                                                         *)
(* The content of a file is the id of the task that wrote it, 0 if there   *)
(* is no such file.  dpkg is external.                                     *)
(***************************************************************************)
EXTENDS TaskStaging

CONSTANT Files    \* paths in the target

OverlayType ==
  [data : SUBSET Files,                     \* what the task writes to DS_OVERLAY
   debian : {"none", "scripts", "control"}] \* and to DS_OVERLAY_PKG_DEBIAN

ASSUME OverlaysAssumption == Overlays \subseteq OverlayType
ASSUME NoFileAssumption == 0 \notin Ids

VARIABLES
  pc,         \* "run", "build", "install" or "done"
  inputs,     \* ids with a directory in work/package-inputs
  packages,   \* ids with a .deb in work/packages
  installed,  \* ids whose package has been installed
  files,      \* the target: the content of each file
  owner       \* dpkg's database: the name of the package that owns a file

target == <<packages, installed, files, owner>>
packageVars == <<pc, inputs, target>>

\* The Debian package of a task: the control file it wrote names it (no two
\* control files give one name here), or its config does, without the id.
Name(t) == IF tasks[t].overlay.debian = "control" THEN <<"control", t>>
           ELSE <<"config", tasks[t].config>>
NoName == <<"none", 0>>

PackagesInit ==
  /\ Init
  /\ pc = "run" /\ inputs = {} /\ packages = {} /\ installed = {}
  /\ files = [f \in Files |-> 0] /\ owner = [f \in Files |-> NoName]
-----------------------------------------------------------------------------
\* Only a host task's input may consist of Debian metadata alone.
HasInput(t) ==
  \/ tasks[t].overlay.data # {}
  \/ tasks[t].cmd_type = "host" /\ tasks[t].overlay.debian # "none"

RunTask(t) ==        \* the tasks of the list, in its order
  /\ pc = "run" /\ (RunHostTask(t) \/ RunVMTask(t))
  /\ inputs' = IF HasInput(t) THEN inputs \cup {t} ELSE inputs
  /\ UNCHANGED <<pc, target>>

StartBuild ==        \* install -d packages, rm -f packages/*.deb
  /\ pc = "run" /\ ran = Ids /\ ~failed
  /\ pc' = "build" /\ packages' = {}
  /\ UNCHANGED <<vars, inputs, installed, files, owner>>

\* Mutant: the inputs are taken in the order of their names, as text.
BeforeAsText(t, u) == LET key(i) == IF i < 10 THEN 10 * i ELSE i IN key(t) <= key(u)

\* sort -n of what package_sort_key() extracts: the number before the dash.
Before(t, u) == t <= u

BuildPackage(t) ==
  /\ pc = "build" /\ ~failed /\ t \in inputs \ packages
  /\ \A u \in inputs \ packages : Before(t, u)
  /\ packages' = packages \cup {t}
  /\ UNCHANGED <<vars, pc, inputs, installed, files, owner>>

StartInstall ==
  /\ pc = "build" /\ ~failed /\ packages = inputs
  /\ pc' = "install"
  /\ UNCHANGED <<vars, inputs, target>>

\* Mutant: the data is unpacked over the target, whatever was there.
UnpackOver(t) ==
  /\ files' = [f \in Files |-> IF f \in tasks[t].overlay.data THEN t ELSE files[f]]
  /\ owner' = [f \in Files |-> IF f \in tasks[t].overlay.data THEN Name(t) ELSE owner[f]]

\* dpkg -i --force-overwrite.  A package that is installed under the same name
\* is replaced: its files that the new one does not have are removed.
DpkgInstall(t) ==
  /\ files' = [f \in Files |-> IF f \in tasks[t].overlay.data THEN t
                               ELSE IF owner[f] = Name(t) THEN 0 ELSE files[f]]
  /\ owner' = [f \in Files |-> IF f \in tasks[t].overlay.data THEN Name(t)
                               ELSE IF owner[f] = Name(t) THEN NoName ELSE owner[f]]

InstallPackage(t) ==
  /\ pc = "install" /\ ~failed /\ t \in packages \ installed
  /\ \A u \in packages \ installed : Before(t, u)
  /\ DpkgInstall(t)
  /\ installed' = installed \cup {t}
  /\ UNCHANGED <<vars, pc, inputs, packages>>

Finish ==
  /\ pc = "install" /\ ~failed /\ installed = packages
  /\ pc' = "done"
  /\ UNCHANGED <<vars, inputs, target>>

\* Any command may fail, which ends the build: a task, an invalid version, a
\* maintainer script.
FailHere == pc # "done" /\ Fail /\ UNCHANGED packageVars

PackagesNext ==
  \/ \E t \in Ids : RunTask(t) \/ BuildPackage(t) \/ InstallPackage(t)
  \/ StartBuild \/ StartInstall \/ Finish \/ FailHere

PackagesSpec == PackagesInit /\ [][PackagesNext]_<<vars, packageVars>>
-----------------------------------------------------------------------------
(***************************************************************************)
(* Properties.                                                             *)
(***************************************************************************)

Writers(f) == {t \in Ids : f \in tasks[t].overlay.data}
LastWriter(f, t) == t \in Writers(f) /\ \A u \in Writers(f) : u <= t

DistinctNames == \A t, u \in Ids : t # u /\ HasInput(t) /\ HasInput(u) => Name(t) # Name(u)

\* While no two packages have one name, the packages end up in the target in
\* task order: a file has the content of the last task that wrote it
\* (install-packages.sh, the order of package_sort_key()).
LastTaskWins ==
  pc = "done" /\ DistinctNames =>
    \A f \in Files : IF Writers(f) = {} THEN files[f] = 0
                     ELSE \E t \in Ids : LastWriter(f, t) /\ files[f] = t

\* Whatever the names, a file that is in the target is in the package that dpkg
\* takes for its owner, and that package is the last one installed of its name:
\* nothing stale stays behind.
NoStaleFiles ==
  \A f \in Files :
    /\ (files[f] = 0) = (owner[f] = NoName)
    /\ files[f] # 0 => /\ owner[f] = Name(files[f])
                       /\ f \in tasks[files[f]].overlay.data
                       /\ \A t \in installed : Name(t) = Name(files[f]) => t <= files[f]

=============================================================================
