----------------------------- MODULE CrossChroot -----------------------------
(***************************************************************************)
(* The cross chroot below /tmp in the build VM: setup-cross.sh of          *)
(* src/tasks/core/cross_ready makes it once and leaves a stamp named for   *)
(* the distribution, release and architecture; run-cross-task.sh of        *)
(* src/common/vm binds the directories that host and VM share into it; a   *)
(* shell (interactive_shell of src/common/lib/vm.py) enters it.            *)
(*                                                                         *)
(* A build and shells share the VM, whose agent runs one script at a time. *)
(* The build's target is that of its .config when it started, a shell's    *)
(* that of the .config now.  Debian 13 keeps /tmp in memory: when the VM   *)
(* goes down the chroot and its mounts are gone.                           *)
(***************************************************************************)
CONSTANT Targets    \* distribution, release and architecture

Runtime == {"proc", "sys", "dev", "dev/pts"}
Shared == {"cache", "dl", "work", "src", "vm-work"}
ReadOnly == {"proc", "sys", "src"}       \* rm -rf takes nothing away there

VARIABLES
  config,   \* the target of .config
  edited,   \* history: the target was changed while a build ran
  phase,    \* of the build: "off", "lists", "ready", "tasks" or "failed"
  target,   \* of the build
  script,   \* what the agent runs: its kind, target, and the package lists it reads
  pc,       \* where it is, "idle" if nothing runs
  root,     \* the tree in CROSS_ROOT: "none", "made" or "complete"
  maker,    \* the script that made it
  stamps,   \* the targets with a stamp in it
  mounts,   \* what is mounted in it
  removed   \* history: the mounted directories that rm -rf went into

vars == <<config, edited, phase, target, script, pc, root, maker, stamps, mounts, removed>>

\* Mutant: a stamp without the target in its name.
HasAnyStamp(t) == stamps # {}

HasStamp(t) == t \in stamps

Init ==
  /\ config \in Targets /\ target \in Targets /\ edited = FALSE
  /\ phase = "off" /\ pc = "idle"
  /\ script = [kind |-> "shell", target |-> target, lists |-> "partial"]
  /\ root = "none" /\ maker = script /\ stamps = {} /\ mounts = {} /\ removed = {}
-----------------------------------------------------------------------------
Reconfigure ==
  /\ config' \in Targets \ {config}
  /\ edited' = (edited \/ phase # "off")
  /\ UNCHANGED <<phase, target, script, pc, root, maker, stamps, mounts, removed>>

VMDown ==
  /\ root' = "none" /\ stamps' = {} /\ mounts' = {} /\ pc' = "idle"
  /\ UNCHANGED <<script, maker>>

StartBuild ==        \* clean.sh removes the disks: the build gets a VM of its own
  /\ phase = "off"
  /\ phase' = "lists" /\ target' = config /\ VMDown
  /\ UNCHANGED <<config, edited, removed>>

ListsDone ==         \* the packagelist-cross tasks have run
  /\ phase = "lists"
  /\ phase' = "ready"
  /\ UNCHANGED <<config, edited, target, script, pc, root, maker, stamps, mounts, removed>>

EndBuild ==          \* done, failed or killed: stop_vm()
  /\ phase # "off"
  /\ phase' = "off" /\ VMDown
  /\ UNCHANGED <<config, edited, target, removed>>

LoseVM ==            \* qemu dies, or an abandoned one is ended and started again
  /\ VMDown
  /\ phase' = IF pc # "idle" /\ script.kind # "shell" THEN "failed" ELSE phase
  /\ UNCHANGED <<config, edited, target, removed>>

StartScript(kind) ==
  /\ pc = "idle"
  /\ kind \in {"ready", "tasks"} => phase = kind
  /\ script' = [kind |-> kind, target |-> IF kind = "shell" THEN config ELSE target,
                lists |-> "partial"]
  /\ pc' = "check"
  /\ UNCHANGED <<config, edited, phase, target, root, maker, stamps, mounts, removed>>
-----------------------------------------------------------------------------
(***************************************************************************)
(* setup-cross.sh.                                                         *)
(***************************************************************************)

\* Run by the build it was all there is to do, or the task follows; the
\* script of a shell goes on whether the setup succeeded or not.
SetupDone ==
  CASE script.kind = "ready" -> pc' = "idle" /\ phase' = "tasks"
    [] script.kind = "tasks" -> pc' = "bind" /\ phase' = phase
    [] script.kind = "shell" -> pc' = "command" /\ phase' = phase
SetupFails ==
  IF script.kind = "shell" THEN pc' = "command" /\ phase' = phase
  ELSE pc' = "idle" /\ phase' = "failed"

CheckStamp ==
  /\ pc = "check"
  /\ \/ HasStamp(script.target) /\ mounts' = mounts \cup Runtime /\ SetupDone
     \/ /\ HasStamp(script.target)                       \* mount_cross_runtime fails
        /\ mounts' \in {mounts \cup some : some \in SUBSET Runtime} /\ SetupFails
     \/ ~HasStamp(script.target) /\ mounts' = mounts /\ pc' = "collect" /\ phase' = phase
  /\ UNCHANGED <<config, edited, target, script, root, maker, stamps, removed>>

CollectPackages ==   \* and the checks of the distribution's own setup
  /\ pc = "collect"
  /\ script' = [script EXCEPT !.lists = IF phase = "lists" THEN "partial" ELSE "full"]
  /\ \/ pc' = "unmount" /\ phase' = phase
     \/ SetupFails
  /\ UNCHANGED <<config, edited, target, root, maker, stamps, mounts, removed>>

\* Mutant: /dev is forgotten.
UnmountedAllButDev(m) == m \ {"proc", "sys", "dev/pts"}

Unmounted(m) == m \ Runtime

Unmount ==           \* unmount_cross_runtime
  /\ pc = "unmount"
  /\ \/ mounts' = Unmounted(mounts) /\ pc' = "remove" /\ phase' = phase
     \/ mounts' \in {mounts \ gone : gone \in SUBSET Runtime} /\ SetupFails
  /\ UNCHANGED <<config, edited, target, script, root, maker, stamps, removed>>

Remove ==            \* rm -rf: a mount point is busy, but what is in it goes
  /\ pc = "remove"
  /\ removed' = removed \cup (mounts \ ReadOnly)
  /\ root' = "none" /\ stamps' = {}
  /\ IF mounts = {} THEN pc' = "make" /\ phase' = phase ELSE SetupFails
  /\ UNCHANGED <<config, edited, target, script, maker, mounts>>

Make ==              \* mmdebstrap, mount_cross_runtime
  /\ pc = "make"
  /\ root' = "made" /\ maker' = script
  /\ \/ mounts' = mounts \cup Runtime /\ pc' = "configure" /\ phase' = phase
     \/ mounts' \in {mounts \cup some : some \in SUBSET Runtime} /\ SetupFails
  /\ UNCHANGED <<config, edited, target, script, stamps, removed>>

Configure ==         \* sources, packages, environment, and then the stamp
  /\ pc = "configure"
  /\ \/ root' = "complete" /\ pc' = "stamp" /\ phase' = phase
     \/ root' = root /\ SetupFails
  /\ UNCHANGED <<config, edited, target, script, maker, stamps, mounts, removed>>

Stamp ==
  /\ pc = "stamp"
  /\ stamps' = stamps \cup {script.target}
  /\ SetupDone
  /\ UNCHANGED <<config, edited, target, script, root, maker, mounts, removed>>
-----------------------------------------------------------------------------
BindShared ==        \* the loop of run-cross-task.sh, one directory after the other
  /\ pc = "bind"
  /\ \/ mounts' = mounts \cup Shared /\ pc' = "command" /\ phase' = phase
     \/ /\ mounts' \in {mounts \cup some : some \in SUBSET Shared}
        /\ pc' = "idle" /\ phase' = "failed"
  /\ UNCHANGED <<config, edited, target, script, root, maker, stamps, removed>>

EndCommand ==        \* nothing is unmounted
  /\ pc = "command"
  /\ pc' = "idle"
  /\ phase' \in IF script.kind = "tasks" THEN {phase, "failed"} ELSE {phase}
  /\ UNCHANGED <<config, edited, target, script, root, maker, stamps, mounts, removed>>

Next ==
  \/ Reconfigure \/ StartBuild \/ ListsDone \/ EndBuild \/ LoseVM
  \/ \E kind \in {"ready", "tasks", "shell"} : StartScript(kind)
  \/ CheckStamp \/ CollectPackages \/ Unmount \/ Remove \/ Make \/ Configure \/ Stamp
  \/ BindShared \/ EndCommand

Spec == Init /\ [][Next]_vars
-----------------------------------------------------------------------------
(***************************************************************************)
(* Properties.                                                             *)
(***************************************************************************)

\* A cross task of the build runs in a chroot that was set up to the end, for
\* the build's target, with the shared directories in it; unless a shell made
\* it, all packages that the build's tasks listed are there (setup-cross.sh,
\* the stamp; run-cross-task.sh, set -e).
TaskRunsInItsRoot ==
  pc = "command" /\ script.kind = "tasks" =>
    /\ root = "complete" /\ maker.target = target
    /\ Runtime \cup Shared \subseteq mounts
    /\ maker.kind # "shell" => maker.lists = "full"

\* rm -rf of a chroot never goes into what is mounted there, as long as nobody
\* changes the target of .config while a build runs (unmount_cross_runtime).
OnlyTheRootIsRemoved == ~edited => removed = {}

=============================================================================
