--------------------------- MODULE VMSessionProofs ---------------------------
(***************************************************************************)
(* The four invariants of VMSession for any number of pids, sessions and   *)
(* crashes, as long as no two sessions are alive at one time: start_vm()   *)
(* and stop_vm() take no lock, and with two sessions none of them holds.   *)
(* What is said of pids that are not used again holds for any number.      *)
(***************************************************************************)
EXTENDS VMSession, FiniteSetTheorems, TLAPS

Labels == {"none", "new", "work", "cleanup", "decide", "term", "sigterm", "wait",
           "sigkill", "unlink", "unlinked", "disowned", "check", "own", "record",
           "launch", "ready", "stop", "stopwait", "stopping"}

TypeOK ==
  /\ proc \in [Pids -> {"free", "used", "session", "other"} \cup VM]
  /\ prog \in [Pids -> {"none", "build", "shell"}]
  /\ pc \in [Pids -> Labels]
  /\ exiting \subseteq Pids
  /\ owner \in [Pids -> Pids \cup {NoPid}] /\ target \in [Pids -> Pids \cup {NoPid}]
  /\ qemu_pid \in Pids \cup {NoPid} /\ ds_pid \in Pids \cup {NoPid}
  /\ control_sock \in Pids \cup {NoPid}
  /\ disk \subseteq Pids /\ reused \in BOOLEAN
  /\ sessions \in 0..MaxSessions

\* What a pid in a file or a variable stands for when pids are not used again.
IsSession(p) == p # NoPid => proc[p] \in {"session", "used"}
IsVM(p) == p # NoPid => proc[p] \in VM \cup {"used"}
PidsAreKept == ~reused =>
  /\ IsSession(ds_pid) /\ IsVM(qemu_pid)
  /\ \A p \in Pids : IsSession(owner[p]) /\ IsVM(target[p])

\* A session has a process to end when it comes to do so.
Ending == {"term", "sigterm", "wait", "sigkill", "stopping"}
TargetIsSet == \A p \in Pids :
  proc[p] = "session" /\ pc[p] \in Ending => target[p] # NoPid

\* A session stops the VM at its exit.
StopsAtExit == \A p \in Pids :
  proc[p] = "session" /\ pc[p] \in {"stop", "stopwait", "stopping"} => p \in exiting

\* All this is true of any number of sessions.
EachInv == TypeOK /\ PidsAreKept /\ TargetIsSet /\ StopsAtExit

\* No two sessions at one time.
OneSession == \A p, s \in Pids : proc[p] = "session" /\ proc[s] = "session" => p = s

\* The locks of qemu let one VM have the images.
OneVM == \A q, r \in disk : q = r /\ proc[q] \in VM

\* A session that ends a VM ends the one that has the images.
TargetHasImages == \A p \in Pids :
  proc[p] = "session" /\ pc[p] \in Ending =>
    \A q \in disk : proc[q] \in {"qemu", "dying"} => target[p] = q

\* The files are only removed, and qemu launched, when it has been ended.
ImagesAreLeft == \A p \in Pids :
  proc[p] = "session" /\ pc[p] \in {"unlink", "unlinked", "disowned", "own", "record", "launch"} =>
    \A q \in disk : proc[q] = "killed"

\* From its decision on a session has a VM of its own, or ends another's.
OwnVM == ~reused => \A p \in Pids : proc[p] = "session" =>
  /\ pc[p] = "decide" => owner[p] = ds_pid
  /\ pc[p] \in {"launch", "ready"} => ds_pid = p
  /\ pc[p] \in {"check", "work"} => \A q \in disk : proc[q] = "qemu" => ds_pid = p
  /\ pc[p] \in {"term", "sigterm"} /\ p \notin exiting /\ ds_pid = p =>
       proc[target[p]] \notin VM

IInv == EachInv /\ OneVM /\ VMIsOnRecord /\ TargetHasImages /\ ImagesAreLeft /\ OwnVM
-----------------------------------------------------------------------------
\* The steps that only move a session on, and the others.
Moves(p) ==
  \/ StartVM(p) \/ KeepVM(p) \/ Terminate(p) \/ Gone(p) \/ NotGone(p)
  \/ AlreadyRunning(p) \/ WaitReady(p) \/ NoPoweroff(p) \/ NothingToStop(p)
  \/ Stopped(p) \/ Deadline(p)
Signals(p) == SigTerm(p) \/ SigKill(p) \/ Poweroff(p)
Unlinks(p) == UnlinkPid(p) \/ UnlinkOwner(p) \/ UnlinkSocket(p)
Records(p) == MakeWay(p) \/ OpenRecord(p) \/ Record(p)
Files(p) == CleanWork(p) \/ Unlinks(p) \/ Records(p)
Picks(p) == ReadOwner(p) \/ AbandonedVM(p) \/ WaitForExit(p)
Failures(p) == Leave(p) \/ Kill(p) \/ NoSuchProcess(p)
Processes(p) == QemuExits(p) \/ QemuCrashes(p) \/ OtherProcess(p)

\* Every step is one of these, of one pid.
LEMMA Steps ==
  ASSUME Next
  PROVE  \E p \in Pids :
           \/ Moves(p) \/ Signals(p) \/ Files(p) \/ Picks(p) \/ Failures(p)
           \/ Processes(p) \/ StartSession(p) \/ Launch(p)
  BY DEF Next, SessionStep, Moves, Signals, Files, Unlinks, Records, Picks,
     Failures, Processes

\* How a session leaves a program: it turns to stop_vm(), or it ends.
LEMMA FailuresAre ==
  ASSUME NEW p \in Pids, Failures(p)
  PROVE  /\ proc[p] = "session"
         /\ UNCHANGED <<files, disk, sessions, crashes, reused>>
         /\ \/ /\ p \notin exiting /\ exiting' = exiting \cup {p} /\ Goes(p, "stop")
               /\ UNCHANGED <<proc, prog, locals>>
            \/ Ends(p)
  BY DEF Failures, Leave, Kill, NoSuchProcess, Fails, At

\* The strengthening holds before the first session.
LEMMA InitInvariant == Init => IInv
<1> SUFFICES ASSUME Init PROVE IInv
  OBVIOUS
<1>1. TypeOK
  BY BoundsAssumption, PidsAssumption DEF Init, TypeOK, Labels
<1>2. PidsAreKept /\ TargetIsSet /\ OneVM /\ VMIsOnRecord
  BY DEF Init, PidsAreKept, TargetIsSet, IsSession, IsVM, OneVM, VMIsOnRecord
<1>3. TargetHasImages /\ ImagesAreLeft /\ StopsAtExit /\ OwnVM
  BY DEF Init, TargetHasImages, ImagesAreLeft, StopsAtExit, OwnVM
<1> QED
  BY <1>1, <1>2, <1>3 DEF IInv, EachInv

\* Every step keeps the types.
LEMMA TypeStep ==
  ASSUME TypeOK, [Next]_vars
  PROVE  TypeOK'
<1> USE DEF TypeOK, Labels, VM
<1>1. CASE UNCHANGED vars
  BY <1>1 DEF vars, locals, files
<1>2. ASSUME NEW p \in Pids, Moves(p) PROVE TypeOK'
  BY <1>2 DEF Moves, StartVM, KeepVM, Terminate, Gone, NotGone, AlreadyRunning,
     WaitReady, NoPoweroff, NothingToStop, Stopped, Deadline, Goes, locals, files
<1>3. ASSUME NEW p \in Pids, Signals(p) PROVE TypeOK'
  BY <1>3 DEF Signals, SigTerm, SigKill, Poweroff, Signalled, Dead, Goes, locals, files
<1>4. ASSUME NEW p \in Pids, Files(p) PROVE TypeOK'
  BY <1>4 DEF Files, CleanWork, Unlinks, UnlinkPid, UnlinkOwner, UnlinkSocket,
     Records, MakeWay, OpenRecord, Record, Ends, Dead, Goes, locals
<1>5. ASSUME NEW p \in Pids, Picks(p) PROVE TypeOK'
  BY <1>5 DEF Picks, ReadOwner, AbandonedVM, WaitForExit, Goes, files
<1>6. ASSUME NEW p \in Pids, Failures(p) PROVE TypeOK'
  BY <1>6, FailuresAre DEF Ends, Dead, Goes, locals, files
<1>7. ASSUME NEW p \in Pids, Processes(p) PROVE TypeOK'
  BY <1>7 DEF Processes, QemuExits, QemuCrashes, OtherProcess, Dead, locals, files
<1>8. ASSUME NEW p \in Pids, StartSession(p) PROVE TypeOK'
  BY <1>8, BoundsAssumption DEF StartSession, Goes, locals, files
<1>9. ASSUME NEW p \in Pids, Launch(p) PROVE TypeOK'
  BY <1>9 DEF Launch, Goes, locals
<1> QED
  BY <1>1, <1>2, <1>3, <1>4, <1>5, <1>6, <1>7, <1>8, <1>9, Steps

\* This needs nothing said of how many sessions there are.
LEMMA PidsStep ==
  ASSUME TypeOK, PidsAreKept, [Next]_vars
  PROVE  PidsAreKept'
<1> USE DEF TypeOK, PidsAreKept, IsSession, IsVM, VM
<1>1. CASE UNCHANGED vars
  BY <1>1 DEF vars, locals, files
<1>2. ASSUME NEW p \in Pids, Moves(p) PROVE PidsAreKept'
  BY <1>2 DEF Moves, StartVM, KeepVM, Terminate, Gone, NotGone, AlreadyRunning,
     WaitReady, NoPoweroff, NothingToStop, Stopped, Deadline, locals, files
<1>3. ASSUME NEW p \in Pids, Signals(p) PROVE PidsAreKept'
  BY <1>3 DEF Signals, SigTerm, SigKill, Poweroff, Signalled, Dead, locals, files
<1>4. ASSUME NEW p \in Pids, Files(p) PROVE PidsAreKept'
  BY <1>4 DEF Files, CleanWork, Unlinks, UnlinkPid, UnlinkOwner, UnlinkSocket,
     Records, MakeWay, OpenRecord, Record, Ends, Dead, At, locals
<1>5. ASSUME NEW p \in Pids, Picks(p) PROVE PidsAreKept'
  BY <1>5 DEF Picks, ReadOwner, AbandonedVM, WaitForExit, files
<1>6. ASSUME NEW p \in Pids, Failures(p) PROVE PidsAreKept'
  BY <1>6, FailuresAre DEF Ends, Dead, locals, files
<1>7. ASSUME NEW p \in Pids, Processes(p) PROVE PidsAreKept'
  BY <1>7 DEF Processes, QemuExits, QemuCrashes, OtherProcess, Dead, locals, files
<1>8. ASSUME NEW p \in Pids, StartSession(p) PROVE PidsAreKept'
  BY <1>8 DEF StartSession, locals, files
<1>9. ASSUME NEW p \in Pids, Launch(p) PROVE PidsAreKept'
  BY <1>9 DEF Launch, locals
<1> QED
  BY <1>1, <1>2, <1>3, <1>4, <1>5, <1>6, <1>7, <1>8, <1>9, Steps

\* A session turns to ending a VM only with the pid it has read.
LEMMA TargetIsSetStep ==
  ASSUME EachInv, [Next]_vars
  PROVE  TargetIsSet'
<1> USE DEF EachInv, TypeOK, Labels, VM, StopsAtExit, Ending, TargetIsSet
<1>1. CASE UNCHANGED vars
  BY <1>1 DEF vars, locals
<1>2. ASSUME NEW p \in Pids, Moves(p) PROVE TargetIsSet'
  BY <1>2 DEF Moves, StartVM, KeepVM, Terminate, Gone, NotGone, AlreadyRunning,
     WaitReady, NoPoweroff, NothingToStop, Stopped, Deadline, Goes, At, locals
<1>3. ASSUME NEW p \in Pids, Signals(p) PROVE TargetIsSet'
  BY <1>3 DEF Signals, SigTerm, SigKill, Poweroff, Signalled, Dead, Goes, _pid_alive,
     locals
<1>4. ASSUME NEW p \in Pids, Files(p) PROVE TargetIsSet'
  BY <1>4 DEF Files, CleanWork, Unlinks, UnlinkPid, UnlinkOwner, UnlinkSocket,
     Records, MakeWay, OpenRecord, Record, Ends, Dead, Goes, locals
<1>5. ASSUME NEW p \in Pids, Picks(p) PROVE TargetIsSet'
  BY <1>5 DEF Picks, ReadOwner, AbandonedVM, WaitForExit, Goes, IsKept
<1>6. ASSUME NEW p \in Pids, Failures(p) PROVE TargetIsSet'
  BY <1>6, FailuresAre DEF Ends, Dead, Goes, locals
<1>7. ASSUME NEW p \in Pids, Processes(p) PROVE TargetIsSet'
  BY <1>7 DEF Processes, QemuExits, QemuCrashes, OtherProcess, Dead, locals
<1>8. ASSUME NEW p \in Pids, StartSession(p) PROVE TargetIsSet'
  BY <1>8 DEF StartSession, Goes, locals
<1>9. ASSUME NEW p \in Pids, Launch(p) PROVE TargetIsSet'
  BY <1>9 DEF Launch, Goes, locals
<1> QED
  BY <1>1, <1>2, <1>3, <1>4, <1>5, <1>6, <1>7, <1>8, <1>9, Steps

\* Only the exit of a session leads to stop_vm().
LEMMA ExitStep ==
  ASSUME EachInv, [Next]_vars
  PROVE  StopsAtExit'
<1> USE DEF EachInv, TypeOK, Labels, VM, StopsAtExit
<1>1. CASE UNCHANGED vars
  BY <1>1 DEF vars
<1>2. ASSUME NEW p \in Pids, Moves(p) PROVE StopsAtExit'
  BY <1>2 DEF Moves, StartVM, KeepVM, Terminate, Gone, NotGone, AlreadyRunning,
     WaitReady, NoPoweroff, NothingToStop, Stopped, Deadline, Goes, At
<1>3. ASSUME NEW p \in Pids, Signals(p) PROVE StopsAtExit'
  BY <1>3 DEF Signals, SigTerm, SigKill, Poweroff, Signalled, Dead, Goes, At
<1>4. ASSUME NEW p \in Pids, Files(p) PROVE StopsAtExit'
  BY <1>4 DEF Files, CleanWork, Unlinks, UnlinkPid, UnlinkOwner, UnlinkSocket,
     Records, MakeWay, OpenRecord, Record, Ends, Dead, Goes
<1>5. ASSUME NEW p \in Pids, Picks(p) PROVE StopsAtExit'
  BY <1>5 DEF Picks, ReadOwner, AbandonedVM, WaitForExit, Goes, At
<1>6. ASSUME NEW p \in Pids, Failures(p) PROVE StopsAtExit'
  BY <1>6, FailuresAre DEF Ends, Dead, Goes
<1>7. ASSUME NEW p \in Pids, Processes(p) PROVE StopsAtExit'
  BY <1>7 DEF Processes, QemuExits, QemuCrashes, OtherProcess, Dead
<1>8. ASSUME NEW p \in Pids, StartSession(p) PROVE StopsAtExit'
  BY <1>8 DEF StartSession, Goes
<1>9. ASSUME NEW p \in Pids, Launch(p) PROVE StopsAtExit'
  BY <1>9 DEF Launch, Goes
<1> QED
  BY <1>1, <1>2, <1>3, <1>4, <1>5, <1>6, <1>7, <1>8, <1>9, Steps

\* What is true of any number of sessions stays true.
LEMMA EachStep ==
  ASSUME EachInv, [Next]_vars
  PROVE  EachInv'
  BY TypeStep, PidsStep, TargetIsSetStep, ExitStep DEF EachInv

\* qemu starts only when no process has the images open.
LEMMA OneVMStep ==
  ASSUME IInv, OneSession, [Next]_vars
  PROVE  OneVM'
<1> USE DEF IInv, EachInv, TypeOK, Labels, VM, OneSession, OneVM
<1>1. CASE UNCHANGED vars
  BY <1>1 DEF vars
<1>2. ASSUME NEW p \in Pids, Moves(p) PROVE OneVM'
  BY <1>2 DEF Moves, StartVM, KeepVM, Terminate, Gone, NotGone, AlreadyRunning,
     WaitReady, NoPoweroff, NothingToStop, Stopped, Deadline
<1>3. ASSUME NEW p \in Pids, Signals(p) PROVE OneVM'
  BY <1>3 DEF Signals, SigTerm, SigKill, Poweroff, Signalled, Dead
<1>4. ASSUME NEW p \in Pids, Files(p) PROVE OneVM'
  BY <1>4 DEF Files, CleanWork, Unlinks, UnlinkPid, UnlinkOwner, UnlinkSocket,
     Records, MakeWay, OpenRecord, Record, Ends, Dead, At
<1>5. ASSUME NEW p \in Pids, Picks(p) PROVE OneVM'
  BY <1>5 DEF Picks, ReadOwner, AbandonedVM, WaitForExit
<1>6. ASSUME NEW p \in Pids, Failures(p) PROVE OneVM'
  BY <1>6, FailuresAre DEF Ends, Dead
<1>7. ASSUME NEW p \in Pids, Processes(p) PROVE OneVM'
  BY <1>7 DEF Processes, QemuExits, QemuCrashes, OtherProcess, Dead
<1>8. ASSUME NEW p \in Pids, StartSession(p) PROVE OneVM'
  BY <1>8 DEF StartSession
<1>9. ASSUME NEW p \in Pids, Launch(p) PROVE OneVM'
  BY <1>9 DEF Launch
<1> QED
  BY <1>1, <1>2, <1>3, <1>4, <1>5, <1>6, <1>7, <1>8, <1>9, Steps

\* The pid file is written by a qemu that starts, and removed when none is left.
LEMMA RecordStep ==
  ASSUME IInv, OneSession, [Next]_vars
  PROVE  VMIsOnRecord'
<1> USE DEF IInv, EachInv, TypeOK, Labels, VM, OneSession, OneVM, VMIsOnRecord,
            ImagesAreLeft
<1>1. CASE UNCHANGED vars
  BY <1>1 DEF vars, files
<1>2. ASSUME NEW p \in Pids, Moves(p) PROVE VMIsOnRecord'
  BY <1>2 DEF Moves, StartVM, KeepVM, Terminate, Gone, NotGone, AlreadyRunning,
     WaitReady, NoPoweroff, NothingToStop, Stopped, Deadline, files
<1>3. ASSUME NEW p \in Pids, Signals(p) PROVE VMIsOnRecord'
  BY <1>3 DEF Signals, SigTerm, SigKill, Poweroff, Signalled, Dead, files
<1>4. ASSUME NEW p \in Pids, Files(p) PROVE VMIsOnRecord'
  BY <1>4 DEF Files, CleanWork, Unlinks, UnlinkPid, UnlinkOwner, UnlinkSocket,
     Records, MakeWay, OpenRecord, Record, Ends, Dead, At,
     _pid_alive
<1>5. ASSUME NEW p \in Pids, Picks(p) PROVE VMIsOnRecord'
  BY <1>5 DEF Picks, ReadOwner, AbandonedVM, WaitForExit, files
<1>6. ASSUME NEW p \in Pids, Failures(p) PROVE VMIsOnRecord'
  BY <1>6, FailuresAre DEF Ends, Dead, files
<1>7. ASSUME NEW p \in Pids, Processes(p) PROVE VMIsOnRecord'
  BY <1>7 DEF Processes, QemuExits, QemuCrashes, OtherProcess, Dead, files
<1>8. ASSUME NEW p \in Pids, StartSession(p) PROVE VMIsOnRecord'
  BY <1>8 DEF StartSession, files
<1>9. ASSUME NEW p \in Pids, Launch(p) PROVE VMIsOnRecord'
  BY <1>9 DEF Launch
<1> QED
  BY <1>1, <1>2, <1>3, <1>4, <1>5, <1>6, <1>7, <1>8, <1>9, Steps

\* The VM that a session finds on record is the one that has the images.
LEMMA TargetStep ==
  ASSUME IInv, OneSession, [Next]_vars
  PROVE  TargetHasImages'
<1> USE DEF IInv, EachInv, TypeOK, Labels, VM, OneSession, OneVM, VMIsOnRecord,
            TargetHasImages, TargetIsSet, Ending
<1>1. CASE UNCHANGED vars
  BY <1>1 DEF vars, locals
<1>2. ASSUME NEW p \in Pids, Moves(p) PROVE TargetHasImages'
  BY <1>2 DEF Moves, StartVM, KeepVM, Terminate, Gone, NotGone, AlreadyRunning,
     WaitReady, NoPoweroff, NothingToStop, Stopped, Deadline, Goes, At, locals
<1>3. ASSUME NEW p \in Pids, Signals(p) PROVE TargetHasImages'
  BY <1>3 DEF Signals, SigTerm, SigKill, Poweroff, Signalled, Dead, Goes, At, locals
<1>4. ASSUME NEW p \in Pids, Files(p) PROVE TargetHasImages'
  BY <1>4 DEF Files, CleanWork, Unlinks, UnlinkPid, UnlinkOwner, UnlinkSocket,
     Records, MakeWay, OpenRecord, Record, Ends, Dead, Goes, locals
<1>5. ASSUME NEW p \in Pids, Picks(p) PROVE TargetHasImages'
  BY <1>5 DEF Picks, ReadOwner, AbandonedVM, WaitForExit, Goes
<1>6. ASSUME NEW p \in Pids, Failures(p) PROVE TargetHasImages'
  BY <1>6, FailuresAre DEF Ends, Dead, Goes
<1>7. ASSUME NEW p \in Pids, Processes(p) PROVE TargetHasImages'
  BY <1>7 DEF Processes, QemuExits, QemuCrashes, OtherProcess, Dead, locals
<1>8. ASSUME NEW p \in Pids, StartSession(p) PROVE TargetHasImages'
  BY <1>8 DEF StartSession, Goes, locals
<1>9. ASSUME NEW p \in Pids, Launch(p) PROVE TargetHasImages'
  BY <1>9 DEF Launch, Goes, At
<1> QED
  BY <1>1, <1>2, <1>3, <1>4, <1>5, <1>6, <1>7, <1>8, <1>9, Steps

\* A session removes the files, or launches qemu, after the VM has been ended.
LEMMA ImagesStep ==
  ASSUME IInv, OneSession, [Next]_vars
  PROVE  ImagesAreLeft'
<1> USE DEF IInv, EachInv, TypeOK, Labels, VM, OneSession, OneVM, VMIsOnRecord,
            TargetIsSet, Ending, TargetHasImages, ImagesAreLeft
<1>1. CASE UNCHANGED vars
  BY <1>1 DEF vars
<1>2. ASSUME NEW p \in Pids, Moves(p) PROVE ImagesAreLeft'
  <2>1. CASE Gone(p) \/ Stopped(p)
    <3>1. \A q \in disk : proc[q] = "killed"
      BY <2>1 DEF Gone, Stopped, At, _pid_alive
    <3> QED
      BY <2>1, <3>1 DEF Gone, Stopped
  <2>2. CASE NothingToStop(p)
    <3>1. \A q \in disk : proc[q] = "killed"
      BY <2>2, PidsAssumption DEF NothingToStop
    <3> QED
      BY <2>2, <3>1 DEF NothingToStop
  <2>3. CASE StartVM(p) \/ KeepVM(p) \/ Terminate(p) \/ NotGone(p)
    BY <2>3 DEF StartVM, KeepVM, Terminate, NotGone, Goes
  <2>4. CASE AlreadyRunning(p) \/ WaitReady(p) \/ NoPoweroff(p) \/ Deadline(p)
    BY <2>4 DEF AlreadyRunning, WaitReady, NoPoweroff, Deadline, Goes
  <2> QED
    BY <1>2, <2>1, <2>2, <2>3, <2>4 DEF Moves
<1>3. ASSUME NEW p \in Pids, Signals(p) PROVE ImagesAreLeft'
  BY <1>3 DEF Signals, SigTerm, SigKill, Poweroff, Signalled, Dead, Goes, At
<1>4. ASSUME NEW p \in Pids, Files(p) PROVE ImagesAreLeft'
  <2>1. CASE CleanWork(p)
    BY <2>1 DEF CleanWork
  <2>2. CASE Unlinks(p)
    BY <2>2 DEF Unlinks, UnlinkPid, UnlinkOwner, UnlinkSocket, Ends, Dead, Goes, At
  <2>3. CASE MakeWay(p)
    <3>1. \A q \in disk : proc[q] = "killed"
      BY <2>3, PidsAssumption DEF MakeWay, _pid_alive
    <3> QED
      BY <2>3, <3>1 DEF MakeWay
  <2>4. CASE OpenRecord(p) \/ Record(p)
    BY <2>4 DEF OpenRecord, Record, Goes, At
  <2> QED
    BY <1>4, <2>1, <2>2, <2>3, <2>4 DEF Files, Records
<1>5. ASSUME NEW p \in Pids, Picks(p) PROVE ImagesAreLeft'
  BY <1>5 DEF Picks, ReadOwner, AbandonedVM, WaitForExit, Goes
<1>6. ASSUME NEW p \in Pids, Failures(p) PROVE ImagesAreLeft'
  BY <1>6, FailuresAre DEF Ends, Dead, Goes
<1>7. ASSUME NEW p \in Pids, Processes(p) PROVE ImagesAreLeft'
  BY <1>7 DEF Processes, QemuExits, QemuCrashes, OtherProcess, Dead
<1>8. ASSUME NEW p \in Pids, StartSession(p) PROVE ImagesAreLeft'
  BY <1>8 DEF StartSession, Goes
<1>9. ASSUME NEW p \in Pids, Launch(p) PROVE ImagesAreLeft'
  BY <1>9 DEF Launch, Goes, At
<1> QED
  BY <1>1, <1>2, <1>3, <1>4, <1>5, <1>6, <1>7, <1>8, <1>9, Steps

\* A session works with the VM it has launched or taken over.
LEMMA OwnStep ==
  ASSUME IInv, OneSession, [Next]_vars
  PROVE  OwnVM'
<1> USE DEF IInv, EachInv, TypeOK, Labels, VM, OneSession, PidsAreKept, IsSession,
            IsVM, OneVM, VMIsOnRecord, ImagesAreLeft, TargetIsSet, Ending,
            StopsAtExit, OwnVM
<1>1. CASE UNCHANGED vars
  BY <1>1 DEF vars, locals, files
<1>2. ASSUME NEW p \in Pids, Moves(p) PROVE OwnVM'
  <2>1. CASE KeepVM(p)
    <3>1. ~reused => \A q \in disk : proc[q] = "qemu" => ds_pid = p
      BY <2>1, PidsAssumption DEF KeepVM, IsKept, At, _pid_alive
    <3> QED
      BY <2>1, <3>1 DEF KeepVM, Goes, locals, files
  <2>2. CASE WaitReady(p) \/ AlreadyRunning(p)
    BY <2>2 DEF WaitReady, AlreadyRunning, At, Goes, files
  <2>3. CASE Terminate(p)
    BY <2>3 DEF Terminate, At, Goes, locals, files
  <2>4. CASE Deadline(p)
    BY <2>4 DEF Deadline, At, Goes
  <2>5. CASE StartVM(p) \/ Gone(p) \/ NotGone(p) \/ NoPoweroff(p)
    BY <2>5 DEF StartVM, Gone, NotGone, NoPoweroff, Goes, locals, files
  <2>6. CASE NothingToStop(p) \/ Stopped(p)
    BY <2>6 DEF NothingToStop, Stopped, Goes, locals, files
  <2> QED
    BY <1>2, <2>1, <2>2, <2>3, <2>4, <2>5, <2>6 DEF Moves
<1>3. ASSUME NEW p \in Pids, Signals(p) PROVE OwnVM'
  BY <1>3 DEF Signals, SigTerm, SigKill, Poweroff, Signalled, Dead, Goes, locals, files
<1>4. ASSUME NEW p \in Pids, Files(p) PROVE OwnVM'
  BY <1>4 DEF Files, CleanWork, Unlinks, UnlinkPid, UnlinkOwner, UnlinkSocket,
     Records, MakeWay, OpenRecord, Record, Ends, Dead, Goes, At
<1>5. ASSUME NEW p \in Pids, Picks(p) PROVE OwnVM'
  <2>1. CASE ReadOwner(p)
    BY <2>1 DEF ReadOwner, Goes, files
  <2>2. CASE AbandonedVM(p)
    <3>1. ~reused /\ ds_pid = p => proc[qemu_pid] \notin VM
      BY <2>2, PidsAssumption DEF AbandonedVM, IsKept, At, _pid_alive
    <3> QED
      BY <2>2, <3>1 DEF AbandonedVM, Goes, files
  <2>3. CASE WaitForExit(p)
    BY <2>3 DEF WaitForExit, Goes, files
  <2> QED
    BY <1>5, <2>1, <2>2, <2>3 DEF Picks
<1>6. ASSUME NEW p \in Pids, Failures(p) PROVE OwnVM'
  BY <1>6, FailuresAre DEF Ends, Dead, Goes
<1>7. ASSUME NEW p \in Pids, Processes(p) PROVE OwnVM'
  <2>1. CASE QemuExits(p)
    BY <2>1 DEF QemuExits, Dead, locals, files
  <2>2. CASE QemuCrashes(p)
    BY <2>2 DEF QemuCrashes, Dead, locals, files
  <2>3. CASE OtherProcess(p)
    BY <2>3 DEF OtherProcess
  <2> QED
    BY <1>7, <2>1, <2>2, <2>3 DEF Processes
<1>8. ASSUME NEW p \in Pids, StartSession(p) PROVE OwnVM'
  BY <1>8 DEF StartSession, Goes, locals, files
<1>9. ASSUME NEW p \in Pids, Launch(p) PROVE OwnVM'
  BY <1>9 DEF Launch, Goes, At
<1> QED
  BY <1>1, <1>2, <1>3, <1>4, <1>5, <1>6, <1>7, <1>8, <1>9, Steps
-----------------------------------------------------------------------------
\* Types, targets and the meaning of recorded pids hold of any number of sessions.
LEMMA EachInvariant == Spec => []EachInv
<1>1. Init => EachInv
  BY InitInvariant DEF IInv
<1>2. EachInv /\ [Next]_vars => EachInv'
  BY EachStep
<1> QED
  BY <1>1, <1>2, PTL DEF Spec

\* With one session at a time the whole strengthening holds.
LEMMA Invariant == Spec /\ []OneSession => []IInv
<1>1. Init => IInv
  BY InitInvariant
<1>2. IInv /\ OneSession /\ [Next]_vars => IInv'
  <2> SUFFICES ASSUME IInv, OneSession, [Next]_vars
               PROVE  IInv'
    OBVIOUS
  <2>1. EachInv'
    BY EachStep DEF IInv
  <2> QED
    BY <2>1, OneVMStep, RecordStep, TargetStep, ImagesStep, OwnStep DEF IInv
<1> QED
  BY <1>1, <1>2, PTL DEF Spec
-----------------------------------------------------------------------------
\* The condition of the theorems is met when sessions are started one at a time.
THEOREM OneAtATime ==
  ASSUME MaxAlive = 1
  PROVE  Spec => []OneSession
<1> DEFINE Alive == {s \in Pids : proc[s] = "session"}
<1>1. Init => OneSession
  BY DEF Init, OneSession
<1>2. EachInv /\ OneSession /\ [Next]_vars => OneSession'
  <2> SUFFICES ASSUME EachInv, OneSession, [Next]_vars
               PROVE  OneSession'
    OBVIOUS
  <2> USE DEF EachInv, TypeOK, OneSession, VM
  <2>1. CASE UNCHANGED vars
    BY <2>1 DEF vars
  <2>2. ASSUME NEW p \in Pids, StartSession(p) PROVE OneSession'
    <3>1. IsFiniteSet(Alive)
      <4>1. CASE Alive = {}
        BY <4>1, FS_EmptySet
      <4>2. CASE Alive # {}
        <5>1. PICK s \in Pids : s \in Alive
          BY <4>2
        <5>2. Alive = {s}
          BY <5>1
        <5>3. IsFiniteSet({s})
          BY FS_Singleton
        <5> QED
          BY <5>2, <5>3
      <4> QED
        BY <4>1, <4>2
    <3>2. Cardinality(Alive) < 1
      BY <2>2, MaxAlive = 1 DEF StartSession
    <3>3. Alive = {}
      <4> HIDE DEF Alive
      <4>1. Cardinality(Alive) = 0
        BY <3>1, <3>2, FS_CardinalityType
      <4> QED
        BY <3>1, <4>1, FS_EmptySet
    <3>4. \A s \in Pids : proc[s] # "session"
      BY <3>3
    <3> QED
      BY <2>2, <3>4 DEF StartSession
  <2>3. ASSUME NEW p \in Pids, Moves(p) \/ Files(p) \/ Picks(p) PROVE OneSession'
    <3>1. CASE Moves(p)
      BY <3>1 DEF Moves, StartVM, KeepVM, Terminate, Gone, NotGone, AlreadyRunning,
         WaitReady, NoPoweroff, NothingToStop, Stopped, Deadline
    <3>2. CASE Files(p)
      BY <3>2 DEF Files, CleanWork, Unlinks, UnlinkPid, UnlinkOwner, UnlinkSocket,
     Records, MakeWay, OpenRecord, Record, Ends, Dead
    <3>3. CASE Picks(p)
      BY <3>3 DEF Picks, ReadOwner, AbandonedVM, WaitForExit
    <3> QED
      BY <2>3, <3>1, <3>2, <3>3
  <2>4. ASSUME NEW p \in Pids, Signals(p) \/ Failures(p) PROVE OneSession'
    BY <2>4, FailuresAre DEF Signals, SigTerm, SigKill, Poweroff, Signalled, Dead, Ends,
       _pid_alive
  <2>5. ASSUME NEW p \in Pids, Processes(p) \/ Launch(p) PROVE OneSession'
    BY <2>5 DEF Processes, QemuExits, QemuCrashes, OtherProcess, Launch, Dead
  <2> QED
    BY <2>1, <2>2, <2>3, <2>4, <2>5, Steps
<1> QED
  BY <1>1, <1>2, EachInvariant, PTL DEF Spec

\* Whatever session is killed where, and whatever becomes of the VM, the next
\* session finds a VM that has the images.
THEOREM VMOnRecord == Spec /\ []OneSession => []VMIsOnRecord
<1>1. IInv => VMIsOnRecord
  BY DEF IInv
<1> QED
  BY <1>1, Invariant, PTL

\* start_vm() launches qemu only when nothing but a VM that was sent a SIGKILL
\* can have the images.
THEOREM ImagesFree == Spec /\ []OneSession => []ImagesAreFree
<1>1. IInv => ImagesAreFree
  BY DEF IInv, ImagesAreLeft, ImagesAreFree, At
<1> QED
  BY <1>1, Invariant, PTL

\* The VM of a session is marked as its own while it works.
THEOREM VMOwned == Spec /\ []OneSession => []WorkingVMIsOwned
<1>1. IInv => WorkingVMIsOwned
  BY DEF IInv, OwnVM, WorkingVMIsOwned, At
<1> QED
  BY <1>1, Invariant, PTL

\* Only a VM is sent a signal, and never the one a session has launched, before
\* its exit.
THEOREM OnlyAbandonedEnded == Spec /\ []OneSession => []OnlyAbandonedVMsAreEnded
<1>1. IInv => OnlyAbandonedVMsAreEnded
  BY DEF IInv, EachInv, TypeOK, PidsAreKept, IsVM, TargetIsSet, Ending, OwnVM, VM, At,
     OnlyAbandonedVMsAreEnded
<1> QED
  BY <1>1, Invariant, PTL

\* However many sessions there are, none of them signals a process that is not
\* a VM, unless pids are used again.
THEOREM OnlyVMsSignalled ==
  Spec => [][~reused => \A p \in Pids : SigTerm(p) \/ SigKill(p) =>
                          target[p] \in Pids /\ proc[target[p]] \in VM]_vars
<1> DEFINE Signalling == ~reused => \A p \in Pids : SigTerm(p) \/ SigKill(p) =>
                           target[p] \in Pids /\ proc[target[p]] \in VM
<1>1. EachInv /\ [Next]_vars => [Signalling]_vars
  BY DEF EachInv, TypeOK, PidsAreKept, IsVM, VM, SigTerm, SigKill, _pid_alive
<1> QED
  BY <1>1, EachInvariant, PTL DEF Spec
=============================================================================
