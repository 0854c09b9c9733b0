------------------------------ MODULE VMSession ------------------------------
(***************************************************************************)
(* Who runs the build VM: start_vm(), stop_vm() and cleanup_abandoned_vm() *)
(* of src/common/lib/vm.py, called by builds (src/common/build.py) and by  *)
(* the shells of src/common/utils, which share the files qemu.pid,         *)
(* distro-seed.pid and control.sock below the work directory.              *)
(*                                                                         *)
(* A build first deletes the work directory, starts the VM for every task  *)
(* that needs it and stops it at exit.  A shell starts the VM and leaves   *)
(* it running.  Either may be interrupted or killed anywhere, the VM may   *)
(* crash, and process ids may be used again.                               *)
(***************************************************************************)
EXTENDS Naturals, FiniteSets

CONSTANTS Pids,           \* process ids
          NoPid,          \* the pid read from a file that is not there, or empty
          MaxSessions,    \* bound on the sessions started
          MaxAlive,       \* bound on the sessions at one time
          MaxCrashes,     \* bound on VM crashes
          Reuse           \* whether the pid of a dead process may be taken again

ASSUME PidsAssumption == NoPid \notin Pids /\ Reuse \subseteq BOOLEAN
ASSUME BoundsAssumption ==
  MaxSessions \in Nat /\ MaxAlive \in Nat /\ MaxCrashes \in Nat

VARIABLES
  proc,          \* what runs under each pid
  prog,          \* the program of a session
  pc,            \* where a session is
  exiting,       \* sessions in stop_vm()
  owner,         \* the distro-seed.pid a session has read
  target,        \* the process a session is ending
  qemu_pid, ds_pid, control_sock,   \* the files: a pid, or NoPid
  disk,          \* VMs that have the images of the present work directory open
  sessions, crashes,                \* counters for the bounds
  reused         \* whether dead processes' pids are taken again, fixed at the start

files == <<qemu_pid, ds_pid, control_sock>>
locals == <<owner, target>>
vars == <<proc, prog, pc, exiting, locals, files, disk, sessions, crashes, reused>>

\* A VM is "dying" from SIGTERM or a power-off until it has exited, "killed"
\* from SIGKILL until it is gone.
VM == {"qemu", "dying", "killed"}
Dead == IF reused THEN "free" ELSE "used"
_pid_alive(p) == p # NoPid /\ proc[p] \in VM \cup {"session", "other"}

Init ==
  /\ proc = [p \in Pids |-> "free"]
  /\ prog = [p \in Pids |-> "none"] /\ pc = [p \in Pids |-> "none"]
  /\ exiting = {}
  /\ owner = [p \in Pids |-> NoPid] /\ target = [p \in Pids |-> NoPid]
  /\ qemu_pid = NoPid /\ ds_pid = NoPid /\ control_sock = NoPid
  /\ disk = {} /\ sessions = 0 /\ crashes = 0 /\ reused \in Reuse
-----------------------------------------------------------------------------
At(p, label) == proc[p] = "session" /\ pc[p] = label
Goes(p, label) == pc' = [pc EXCEPT ![p] = label]

Ends(p) ==
  /\ proc' = [proc EXCEPT ![p] = Dead]
  /\ prog' = [prog EXCEPT ![p] = "none"]
  /\ Goes(p, "none") /\ exiting' = exiting \ {p}
  /\ owner' = [owner EXCEPT ![p] = NoPid] /\ target' = [target EXCEPT ![p] = NoPid]

StartSession(p) ==
  /\ proc[p] = "free" /\ sessions < MaxSessions
  /\ Cardinality({s \in Pids : proc[s] = "session"}) < MaxAlive
  /\ proc' = [proc EXCEPT ![p] = "session"] /\ Goes(p, "new")
  /\ \E kind \in {"build", "shell"} : prog' = [prog EXCEPT ![p] = kind]
  /\ exiting' = exiting \ {p} /\ sessions' = sessions + 1
  /\ UNCHANGED <<locals, files, disk, crashes, reused>>

CleanWork(p) ==      \* the first task of a build
  /\ At(p, "new") /\ prog[p] = "build"
  /\ qemu_pid' = NoPid /\ ds_pid' = NoPid /\ control_sock' = NoPid
  /\ disk' = {} /\ Goes(p, "work")
  /\ UNCHANGED <<proc, prog, exiting, locals, sessions, crashes, reused>>

StartVM(p) ==        \* for every vm, cross and target task; once for a shell
  /\ \/ At(p, "work") /\ prog[p] = "build"
     \/ At(p, "new") /\ prog[p] = "shell"
  /\ Goes(p, "cleanup")
  /\ UNCHANGED <<proc, prog, exiting, locals, files, disk, sessions, crashes, reused>>

\* An exception, or the end: a build has registered stop_vm() with atexit.
Fails(p) ==
  /\ IF prog[p] = "build" /\ p \notin exiting
     THEN /\ exiting' = exiting \cup {p} /\ Goes(p, "stop")
          /\ UNCHANGED <<proc, prog, locals>>
     ELSE Ends(p)
  /\ UNCHANGED <<files, disk, sessions, crashes, reused>>

\* By itself, by an error of what start_vm() calls, or by an interrupt.
Leave(p) == proc[p] = "session" /\ p \notin exiting /\ Fails(p)

Kill(p) ==           \* SIGKILL, or an interrupt in stop_vm()
  /\ proc[p] = "session" /\ Ends(p)
  /\ UNCHANGED <<files, disk, sessions, crashes, reused>>
-----------------------------------------------------------------------------
(***************************************************************************)
(* cleanup_abandoned_vm() and _kill_qemu()                                 *)
(***************************************************************************)

ReadOwner(p) ==
  /\ At(p, "cleanup") /\ Goes(p, "decide")
  /\ owner' = [owner EXCEPT ![p] = ds_pid]
  /\ UNCHANGED <<proc, prog, exiting, target, files, disk, sessions, crashes, reused>>

\* Mutant: a running VM is kept, whoever has started it.
IsKeptIfRunning(p) == qemu_pid = NoPid \/ _pid_alive(qemu_pid)

\* Mutant: a session does not know its own VM.
IsKeptForOthers(p) ==
  qemu_pid = NoPid \/ (owner[p] # p /\ _pid_alive(owner[p]) /\ _pid_alive(qemu_pid))

\* This session's VM, or one of another session that is alive.
IsKept(p) == qemu_pid = NoPid \/ (_pid_alive(owner[p]) /\ _pid_alive(qemu_pid))

KeepVM(p) ==
  /\ At(p, "decide") /\ IsKept(p)
  /\ Goes(p, "check")
  /\ UNCHANGED <<proc, prog, exiting, locals, files, disk, sessions, crashes, reused>>

AbandonedVM(p) ==
  /\ At(p, "decide") /\ ~IsKept(p)
  /\ target' = [target EXCEPT ![p] = qemu_pid] /\ Goes(p, "term")
  /\ UNCHANGED <<proc, prog, exiting, owner, files, disk, sessions, crashes, reused>>

\* A signal ends any process, a VM not at once.
Signalled(t, how) ==
  IF proc[t] \in VM THEN [proc EXCEPT ![t] = IF @ = "killed" THEN @ ELSE how]
  ELSE [proc EXCEPT ![t] = Dead]

Terminate(p) ==      \* SIGTERM, if the process is there
  /\ At(p, "term") /\ Goes(p, IF _pid_alive(target[p]) THEN "sigterm" ELSE "wait")
  /\ UNCHANGED <<proc, prog, exiting, locals, files, disk, sessions, crashes, reused>>

SigTerm(p) ==
  /\ At(p, "sigterm") /\ _pid_alive(target[p])
  /\ proc' = Signalled(target[p], "dying") /\ Goes(p, "wait")
  /\ UNCHANGED <<prog, exiting, locals, files, disk, sessions, crashes, reused>>

Gone(p) ==
  /\ At(p, "wait") /\ ~_pid_alive(target[p])
  /\ Goes(p, "unlink")
  /\ UNCHANGED <<proc, prog, exiting, locals, files, disk, sessions, crashes, reused>>

\* Mutant: a VM that ignores SIGTERM is left alone.
NotGoneLeft(p) ==
  /\ At(p, "wait") /\ _pid_alive(target[p])
  /\ Goes(p, "unlink")
  /\ UNCHANGED <<proc, prog, exiting, locals, files, disk, sessions, crashes, reused>>

NotGone(p) ==        \* after five seconds
  /\ At(p, "wait") /\ _pid_alive(target[p])
  /\ Goes(p, "sigkill")
  /\ UNCHANGED <<proc, prog, exiting, locals, files, disk, sessions, crashes, reused>>

SigKill(p) ==        \* nobody waits for its effect
  /\ At(p, "sigkill") /\ _pid_alive(target[p])
  /\ proc' = Signalled(target[p], "killed") /\ Goes(p, "unlink")
  /\ UNCHANGED <<prog, exiting, locals, files, disk, sessions, crashes, reused>>

NoSuchProcess(p) ==  \* it ended between the check and the signal: os.kill() raises
  /\ At(p, "sigterm") \/ At(p, "sigkill")
  /\ ~_pid_alive(target[p]) /\ Fails(p)

UnlinkPid(p) ==      \* qemu.pid is the first of the three
  /\ At(p, "unlink") /\ Goes(p, "unlinked")
  /\ qemu_pid' = NoPid
  /\ UNCHANGED <<proc, prog, exiting, locals, ds_pid, control_sock, disk, sessions, crashes, reused>>

UnlinkOwner(p) ==    \* then distro-seed.pid
  /\ At(p, "unlinked") /\ Goes(p, "disowned")
  /\ ds_pid' = NoPid
  /\ UNCHANGED <<proc, prog, exiting, locals, qemu_pid, control_sock, disk, sessions, crashes, reused>>

UnlinkSocket(p) ==
  /\ At(p, "disowned")
  /\ control_sock' = NoPid
  /\ IF p \in exiting THEN Ends(p)
     ELSE Goes(p, "check") /\ UNCHANGED <<proc, prog, exiting, locals>>
  /\ UNCHANGED <<qemu_pid, ds_pid, disk, sessions, crashes, reused>>
-----------------------------------------------------------------------------
(***************************************************************************)
(* The rest of start_vm()                                                  *)
(***************************************************************************)
AlreadyRunning(p) ==
  /\ At(p, "check") /\ _pid_alive(qemu_pid)
  /\ Goes(p, "work")
  /\ UNCHANGED <<proc, prog, exiting, locals, files, disk, sessions, crashes, reused>>

\* Mutant: qemu is launched whether or not the VM runs.
MakeWayAlways(p) ==
  /\ At(p, "check")
  /\ control_sock' = NoPid /\ Goes(p, "own")
  /\ UNCHANGED <<proc, prog, exiting, locals, qemu_pid, ds_pid, disk, sessions, crashes, reused>>

MakeWay(p) ==        \* control.sock is removed
  /\ At(p, "check") /\ ~_pid_alive(qemu_pid)
  /\ control_sock' = NoPid /\ Goes(p, "own")
  /\ UNCHANGED <<proc, prog, exiting, locals, qemu_pid, ds_pid, disk, sessions, crashes, reused>>

OpenRecord(p) ==     \* distro-seed.pid is opened, and empty
  /\ At(p, "own") /\ Goes(p, "record")
  /\ ds_pid' = NoPid
  /\ UNCHANGED <<proc, prog, exiting, locals, qemu_pid, control_sock, disk, sessions, crashes, reused>>

Record(p) ==
  /\ At(p, "record") /\ Goes(p, "launch")
  /\ ds_pid' = p
  /\ UNCHANGED <<proc, prog, exiting, locals, qemu_pid, control_sock, disk, sessions, crashes, reused>>

\* qemu locks its images; if they are in use it fails, which is a Leave.
Launch(p) ==
  /\ At(p, "launch") /\ disk = {}
  /\ \E q \in Pids :
       /\ proc[q] = "free"
       /\ proc' = [proc EXCEPT ![q] = "qemu"]
       /\ qemu_pid' = q /\ control_sock' = q /\ disk' = {q}
  /\ Goes(p, "ready")
  /\ UNCHANGED <<prog, exiting, locals, ds_pid, sessions, crashes, reused>>

WaitReady(p) ==
  /\ At(p, "ready") /\ control_sock # NoPid /\ proc[control_sock] = "qemu"
  /\ Goes(p, "work")
  /\ UNCHANGED <<proc, prog, exiting, locals, files, disk, sessions, crashes, reused>>
-----------------------------------------------------------------------------
(***************************************************************************)
(* stop_vm().  The exchange with the agent is that of ControlChannel: it   *)
(* has the guest power off, or it fails.                                   *)
(***************************************************************************)
Poweroff(p) ==
  /\ At(p, "stop") /\ _pid_alive(qemu_pid)
  /\ control_sock # NoPid /\ proc[control_sock] = "qemu"
  /\ proc' = [proc EXCEPT ![control_sock] = "dying"] /\ Goes(p, "stopwait")
  /\ UNCHANGED <<prog, exiting, locals, files, disk, sessions, crashes, reused>>

NoPoweroff(p) ==
  /\ At(p, "stop") /\ Goes(p, "stopwait")
  /\ UNCHANGED <<proc, prog, exiting, locals, files, disk, sessions, crashes, reused>>

NothingToStop(p) ==
  /\ At(p, "stopwait") /\ qemu_pid = NoPid
  /\ Goes(p, "unlink")
  /\ UNCHANGED <<proc, prog, exiting, locals, files, disk, sessions, crashes, reused>>

WaitForExit(p) ==
  /\ At(p, "stopwait") /\ qemu_pid # NoPid
  /\ target' = [target EXCEPT ![p] = qemu_pid] /\ Goes(p, "stopping")
  /\ UNCHANGED <<proc, prog, exiting, owner, files, disk, sessions, crashes, reused>>

Stopped(p) ==
  /\ At(p, "stopping") /\ ~_pid_alive(target[p])
  /\ Goes(p, "unlink")
  /\ UNCHANGED <<proc, prog, exiting, locals, files, disk, sessions, crashes, reused>>

\* Mutant: the wait for the VM has no deadline.
NoDeadline(p) ==
  /\ At(p, "stopping") /\ _pid_alive(target[p])
  /\ UNCHANGED vars

Deadline(p) ==       \* VM_SHUTDOWN_TIMEOUT_SEC
  /\ At(p, "stopping") /\ _pid_alive(target[p])
  /\ Goes(p, "term")
  /\ UNCHANGED <<proc, prog, exiting, locals, files, disk, sessions, crashes, reused>>
-----------------------------------------------------------------------------
\* qemu may remove its own pid file and socket when it exits by itself.
QemuExits(q) ==
  /\ proc[q] \in {"dying", "killed"}
  /\ proc' = [proc EXCEPT ![q] = Dead] /\ disk' = disk \ {q}
  /\ \/ UNCHANGED files
     \/ /\ proc[q] = "dying" /\ q \in disk
        /\ qemu_pid' = NoPid /\ control_sock' = NoPid /\ UNCHANGED ds_pid
  /\ UNCHANGED <<prog, pc, exiting, locals, sessions, crashes, reused>>

QemuCrashes(q) ==
  /\ proc[q] = "qemu" /\ crashes < MaxCrashes
  /\ proc' = [proc EXCEPT ![q] = Dead] /\ disk' = disk \ {q}
  /\ crashes' = crashes + 1
  /\ UNCHANGED <<prog, pc, exiting, locals, files, sessions, reused>>

OtherProcess(p) ==   \* some other process starts or ends
  /\ reused
  /\ \/ proc[p] = "free" /\ proc' = [proc EXCEPT ![p] = "other"]
     \/ proc[p] = "other" /\ proc' = [proc EXCEPT ![p] = "free"]
  /\ UNCHANGED <<prog, pc, exiting, locals, files, disk, sessions, crashes, reused>>
-----------------------------------------------------------------------------
\* What a session does when left alone.
SessionStep(p) ==
  \/ CleanWork(p) \/ StartVM(p) \/ ReadOwner(p) \/ KeepVM(p) \/ AbandonedVM(p)
  \/ Terminate(p) \/ SigTerm(p) \/ Gone(p) \/ NotGone(p) \/ SigKill(p) \/ NoSuchProcess(p)
  \/ UnlinkPid(p) \/ UnlinkOwner(p) \/ UnlinkSocket(p)
  \/ AlreadyRunning(p) \/ MakeWay(p) \/ OpenRecord(p) \/ Record(p)
  \/ Launch(p) \/ WaitReady(p)
  \/ Poweroff(p) \/ NoPoweroff(p) \/ NothingToStop(p) \/ WaitForExit(p)
  \/ Stopped(p) \/ Deadline(p)

Next == \E p \in Pids :
  \/ StartSession(p) \/ SessionStep(p) \/ Leave(p) \/ Kill(p)
  \/ QemuExits(p) \/ QemuCrashes(p) \/ OtherProcess(p)

Spec == Init /\ [][Next]_vars

\* Sessions run, waits have deadlines, and a task, a prompt or a failing launch
\* comes to its end.  Nothing is assumed of qemu.
Fairness == \A p \in Pids :
  /\ WF_vars(SessionStep(p))
  /\ WF_vars(Leave(p) /\ pc[p] \in {"new", "work", "launch", "ready"})
FairSpec == Spec /\ Fairness
-----------------------------------------------------------------------------
(***************************************************************************)
(* Properties.                                                             *)
(***************************************************************************)

\* Whatever session was killed where, a VM with the images of the work
\* directory open is found by the next session: qemu.pid names it, and
\* control.sock until it goes down.  A build that has removed qemu.pid at its
\* exit leaves no such VM.
VMIsOnRecord ==
  \A q \in disk : /\ proc[q] \in {"qemu", "dying"} => qemu_pid = q
                  /\ proc[q] = "qemu" => control_sock = q

\* When start_vm() comes to launch qemu, the images are free, unless the VM
\* that has them was sent a SIGKILL, which nobody waits for.
ImagesAreFree ==
  \A p \in Pids : At(p, "launch") => \A q \in disk : proc[q] = "killed"

\* As long as pids are not used again, the VM a session works with is marked as
\* its own: a VM left by another session is replaced, and nobody takes this one
\* for abandoned.
WorkingVMIsOwned ==
  ~reused => \A p \in Pids :
    At(p, "work") => \A q \in disk : proc[q] = "qemu" => ds_pid = p

\* As long as pids are not used again, only a VM is ever sent a signal, and
\* never the one that the session itself has launched, before its exit.
OnlyAbandonedVMsAreEnded ==
  ~reused => \A p \in Pids : At(p, "sigterm") =>
    /\ proc[target[p]] \in VM \cup {"used"}
    /\ p \notin exiting /\ ds_pid = p => proc[target[p]] # "qemu"

\* stop_vm() comes to its end even if the guest hangs and qemu ignores SIGTERM;
\* so does start_vm() up to the launch.
SessionsEnd == \A p \in Pids :
  /\ p \in exiting /\ At(p, "stop") ~> proc[p] # "session"
  /\ At(p, "cleanup") ~> proc[p] # "session" \/ pc[p] \in {"launch", "work", "stop"}
=============================================================================
