----------------------------- MODULE TaskStaging -----------------------------
(***************************************************************************)
(* DS_TASK_WORK, the directory that the tasks of one config share, and its *)
(* way from the host into the VM: Task.run, _staging_env and               *)
(* _stage_host_staging of src/common/lib/task.py, sync-staging.sh,         *)
(* run-vm-task.sh and run-cross-task.sh of src/common/vm.                  *)
(*                                                                         *)
(* The content of a directory is the set of the ids of the tasks that have *)
(* written to it.  A "host" task stands for packagelist tasks too, a "vm"  *)
(* task for cross tasks.                                                   *)
(***************************************************************************)
EXTENDS Naturals, FiniteSets

CONSTANTS Ids,       \* the ids of the tasks, in the order of execution
          Configs,   \* their configs
          Provides,  \* what they may provide
          Nothing,   \* no name: the task provides nothing
          Overlays,  \* what it may leave in its overlays (LocalPackages)
          TaskLists  \* the functions from Ids to tasks considered

Names == Configs \cup Provides
TaskType == [config : Configs, provides : Provides \cup {Nothing},
             cmd_type : {"host", "vm"}, writes : BOOLEAN, overlay : Overlays]

ASSUME IdsAssumption == Ids \subseteq Nat /\ IsFiniteSet(Ids)
ASSUME NothingAssumption == Nothing \notin Names
ASSUME TaskListsAssumption == TaskLists \subseteq [Ids -> TaskType]

VARIABLES
  tasks,    \* the list of this build
  failed,   \* a task has failed
  ran,      \* ids of the tasks that have run
  staging,  \* work/staging/<config> on the host
  archive,  \* work/staging-archives/<config>.tar, {} if there is none
  vmDirs,   \* the configs with a directory in /vm-work/staging
  vmWork,   \* /vm-work/staging/<config>, {} if there is none
  seen      \* what a task found in the directory each name led it to

vars == <<tasks, failed, ran, staging, archive, vmDirs, vmWork, seen>>

Init ==
  /\ tasks \in TaskLists /\ failed = FALSE /\ ran = {}
  /\ staging = [c \in Configs |-> {}] /\ archive = [c \in Configs |-> {}]
  /\ vmDirs = {} /\ vmWork = [c \in Configs |-> {}]
  /\ seen = [t \in Ids |-> [n \in Names |-> {}]]
-----------------------------------------------------------------------------
EnabledConfigs == {tasks[t].config : t \in Ids}
Providers(n) == {t \in Ids : tasks[t].provides = n}

\* Mutant: the entries of the configs come last.
LeadsConfigFirst(n, c) ==
  IF n \in EnabledConfigs THEN c = n
  ELSE \E t \in Providers(n) : c = tasks[t].config /\ \A u \in Providers(n) : u <= t

\* The config that DS_TASK_WORK_<n> leads to, in a dictionary filled in the
\* order of the tasks, after the configs' own entries.
Leads(n, c) ==
  IF Providers(n) # {}
  THEN \E t \in Providers(n) : c = tasks[t].config /\ \A u \in Providers(n) : u <= t
  ELSE n \in EnabledConfigs /\ c = n

\* What a task finds below root, a function from configs to contents.
Found(root) == [n \in Names |-> UNION {root[c] : c \in {d \in Configs : Leads(n, d)}}]
Written(t) == IF tasks[t].writes THEN {t} ELSE {}

IsNext(t) == ~failed /\ t \notin ran /\ \A u \in Ids \ ran : t <= u

\* _stage_host_staging: nothing to do for an empty directory, else the archive
\* is written again as a whole.
Archived(old, dir) == IF dir = {} THEN old ELSE dir

RunHostTask(t) ==
  LET c == tasks[t].config
      dir == staging[c] \cup Written(t) IN
  /\ IsNext(t) /\ tasks[t].cmd_type = "host"
  /\ seen' = [seen EXCEPT ![t] = Found(staging)]
  /\ staging' = [staging EXCEPT ![c] = dir]
  /\ archive' = [archive EXCEPT ![c] = Archived(@, dir)]
  /\ ran' = ran \cup {t}
  /\ UNCHANGED <<tasks, failed, vmDirs, vmWork>>

\* Mutant: every archive is unpacked into a directory that is made new.
AllArchives == {c \in Configs : archive[c] # {}}

\* sync-staging.sh: the archives that have no directory yet.
NewArchives == {c \in Configs : archive[c] # {} /\ c \notin vmDirs}

Synced == [c \in Configs |-> IF c \in NewArchives THEN archive[c] ELSE vmWork[c]]

RunVMTask(t) ==
  LET c == tasks[t].config IN
  /\ IsNext(t) /\ tasks[t].cmd_type = "vm"
  /\ vmDirs' = vmDirs \cup NewArchives \cup {c}
  /\ seen' = [seen EXCEPT ![t] = Found(Synced)]
  /\ vmWork' = [Synced EXCEPT ![c] = @ \cup Written(t)]
  /\ ran' = ran \cup {t}
  /\ UNCHANGED <<tasks, failed, staging, archive>>

Fail ==              \* the build ends; the next one starts with an empty work directory
  /\ ~failed
  /\ failed' = TRUE
  /\ UNCHANGED <<tasks, ran, staging, archive, vmDirs, vmWork, seen>>

Next == Fail \/ \E t \in Ids : RunHostTask(t) \/ RunVMTask(t)

Spec == Init /\ [][Next]_vars
-----------------------------------------------------------------------------
(***************************************************************************)
(* Properties.                                                             *)
(***************************************************************************)
\* Every variable keeps its type, and an archive has nothing that is not in
\* the directory it was made from.
TypeOK ==
  /\ tasks \in TaskLists /\ failed \in BOOLEAN /\ ran \in SUBSET Ids
  /\ staging \in [Configs -> SUBSET ran]
  /\ archive \in [Configs -> SUBSET ran]
  /\ \A c \in Configs : archive[c] \subseteq staging[c]
  /\ vmDirs \in SUBSET Configs /\ vmWork \in [Configs -> SUBSET ran]
  /\ \A c \in Configs \ vmDirs : vmWork[c] = {}
  /\ seen \in [Ids -> [Names -> SUBSET ran]]

IsHost(t) == tasks[t].cmd_type = "host"
SameConfig(t, u) == tasks[t].config = tasks[u].config

\* The VM made its directory for the config of t before t ran: a task of the
\* config ran in the VM, or any task did when there was an archive to unpack.
DirBefore(t) ==
  \E u \in Ids : /\ u < t /\ ~IsHost(u)
                 /\ \/ SameConfig(u, t)
                    \/ \E g \in Ids : g < u /\ IsHost(g) /\ SameConfig(g, t) /\ tasks[g].writes

\* A name leads to the directory of t: its config does, or what it provides,
\* while no task of another config provides that name.
NameOf(n, t) ==
  /\ n \in {tasks[t].config, tasks[t].provides}
  /\ \A u \in Providers(n) : SameConfig(u, t)

\* What a task wrote is found by every later one in the same environment, and
\* what a host task wrote is found in the VM, if the VM did not have a
\* directory of that config by then; under the config's name and under what
\* the task provides (_staging_env(), _stage_host_staging(), sync-staging.sh).
WorkIsSeen ==
  \A t, u \in ran : \A n \in Names :
    t < u /\ tasks[t].writes /\ NameOf(n, t)
    /\ (IsHost(t) = IsHost(u) \/ (IsHost(t) /\ ~DirBefore(t)))
      => t \in seen[u][n]

\* The only work a task can find is that of a task before it, in a directory
\* the name leads to: a name that is provided leads to its provider.
NothingElseIsSeen ==
  \A u \in ran : \A n \in Names : \A t \in seen[u][n] :
    /\ t < u /\ tasks[t].writes
    /\ IF Providers(n) = {} THEN n = tasks[t].config
       ELSE \E p \in Providers(n) : SameConfig(p, t)

\* What a task finds under a name is the work it should find there.
RightWorkIsSeen == WorkIsSeen /\ NothingElseIsSeen

\* Work done in the VM is never taken back: no archive replaces what a task
\* has left in the VM's directory (sync-staging.sh:20).
VMWorkStays == [][\A c \in Configs : vmWork[c] \subseteq vmWork'[c]]_vars

=============================================================================
