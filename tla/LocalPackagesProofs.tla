------------------------- MODULE LocalPackagesProofs -------------------------
(***************************************************************************)
(* What a task finds in the work directories, and what the packages leave  *)
(* in the target, for every list of tasks.                                 *)
(***************************************************************************)
EXTENDS LocalPackages, FiniteSetTheorems, WellFoundedInduction, TLAPS

(***************************************************************************)
(* The work directories (TaskStaging).                                     *)
(***************************************************************************)
\* The tasks run in the order of their ids.
RanInOrder == \A t \in ran : \A u \in Ids \ ran : t < u

\* On the host a directory has all the work of its config, and its archive too.
HostWork(c) == {t \in ran : IsHost(t) /\ tasks[t].config = c /\ tasks[t].writes}
HostInv == \A c \in Configs : staging[c] = HostWork(c) /\ archive[c] = staging[c]

\* Why the VM has a directory for c.
HasDir(c) ==
  \E u \in ran : /\ ~IsHost(u)
                 /\ \/ tasks[u].config = c
                    \/ \E g \in ran : /\ g < u /\ IsHost(g)
                                      /\ tasks[g].config = c /\ tasks[g].writes
DirInv == \A c \in vmDirs : HasDir(c)

\* The work that a directory of the VM has: all that was done there, and that
\* of host tasks before it was made.
VMWorkInv ==
  \A t \in ran :
    tasks[t].writes =>
      /\ ~IsHost(t) => tasks[t].config \in vmDirs /\ t \in vmWork[tasks[t].config]
      /\ IsHost(t) /\ ~DirBefore(t) /\ tasks[t].config \in vmDirs
           => t \in vmWork[tasks[t].config]
VMOwnWork == \A c \in Configs : \A t \in vmWork[c] : tasks[t].config = c /\ tasks[t].writes

PlaceInv == RanInOrder /\ HostInv /\ DirInv /\ VMWorkInv /\ VMOwnWork
StagingInv == TypeOK /\ PlaceInv /\ WorkIsSeen /\ NothingElseIsSeen
-----------------------------------------------------------------------------
\* A set of ids has a last element.
LEMMA LastId ==
  ASSUME NEW P \in SUBSET Ids, P # {}
  PROVE  \E t \in P : \A u \in P : u <= t
<1> DEFINE After(t) == {u \in P : t < u}
           T == {After(t) : t \in P}
<1>1. P \subseteq Nat /\ IsFiniteSet(P)
  BY IdsAssumption, FS_Subset
<1>2. T \subseteq FiniteSubsetsOf(P) /\ T # {}
  <2>1. \A t \in P : After(t) \in SUBSET P /\ IsFiniteSet(After(t))
    BY <1>1, FS_Subset
  <2> QED BY <2>1 DEF FiniteSubsetsOf
<1>3. IsWellFoundedOn(StrictSubsetOrdering(P), FiniteSubsetsOf(P))
  BY FS_StrictSubsetOrderingWellFounded
<1>4. PICK X \in T : \A Y \in T : <<Y, X>> \notin StrictSubsetOrdering(P)
  <2> HIDE DEF T
  <2> QED BY <1>2, <1>3, WFMin
<1>5. PICK t \in P : X = After(t)
  OBVIOUS
<1>6. ASSUME NEW u \in P, t < u PROVE FALSE
  <2>1. t \in Nat /\ u \in Nat
    BY <1>1, <1>6
  <2>2. /\ \A v \in P : u < v => t < v
        /\ u \in After(t) /\ u \notin After(u)
    BY <1>1, <1>6, <2>1
  <2>3. <<After(u), After(t)>> \in StrictSubsetOrdering(P)
    <3>1. After(u) \subseteq After(t) /\ After(t) \subseteq P
      BY <2>2
    <3> QED BY <2>2, <3>1 DEF StrictSubsetOrdering
  <2> QED BY <1>4, <1>5, <2>3
<1> QED BY <1>1, <1>6

\* What the types say of one task.
LEMMA TaskOfList ==
  ASSUME TypeOK, NEW t \in Ids
  PROVE  /\ tasks[t].config \in Configs /\ tasks[t].provides \in Provides \cup {Nothing}
         /\ tasks[t].cmd_type \in {"host", "vm"} /\ tasks[t].writes \in BOOLEAN
<1>1. tasks \in [Ids -> TaskType]
  BY TaskListsAssumption DEF TypeOK
<1> QED BY <1>1 DEF TaskType

\* A name of a task leads to its config, and to no other (_staging_env()).
LEMMA NameLeads ==
  ASSUME TypeOK, NEW t \in Ids, NEW n \in Names, NameOf(n, t)
  PROVE  Leads(n, tasks[t].config)
<1>1. CASE Providers(n) = {}
  <2>1. n # tasks[t].provides
    BY <1>1 DEF Providers
  <2> QED BY <1>1, <2>1 DEF NameOf, Leads, EnabledConfigs
<1>2. CASE Providers(n) # {}
  <2>1. PICK p \in Providers(n) : \A u \in Providers(n) : u <= p
    BY <1>2, LastId DEF Providers
  <2>2. tasks[p].config = tasks[t].config
    BY <2>1 DEF NameOf, SameConfig
  <2> QED BY <1>2, <2>1, <2>2 DEF Leads
<1> QED BY <1>1, <1>2
-----------------------------------------------------------------------------
\* The strengthening holds when a build starts.
LEMMA StagingInit == Init => StagingInv
<1> SUFFICES ASSUME Init PROVE StagingInv
  OBVIOUS
<1>1. TypeOK
  BY DEF Init, TypeOK
<1>2. PlaceInv
  BY DEF Init, PlaceInv, RanInOrder, HostInv, HostWork, DirInv, VMWorkInv, VMOwnWork
<1> QED BY <1>1, <1>2 DEF Init, StagingInv, WorkIsSeen, NothingElseIsSeen

\* What a task finds is a part of what the directories have.
LEMMA FoundType ==
  ASSUME NEW S, NEW root \in [Configs -> SUBSET S]
  PROVE  Found(root) \in [Names -> SUBSET S]
BY DEF Found

\* What the VM's directories have once a task has synced them.
LEMMA SyncedType ==
  ASSUME TypeOK
  PROVE  /\ Synced \in [Configs -> SUBSET ran]
         /\ NewArchives \subseteq Configs
         /\ \A c \in Configs : Synced[c] = IF c \in NewArchives THEN archive[c] ELSE vmWork[c]
BY DEF TypeOK, Synced, NewArchives

\* Every step keeps the types.
LEMMA TypeStep == TypeOK /\ [Next]_vars => TypeOK'
<1> SUFFICES ASSUME TypeOK, [Next]_vars PROVE TypeOK'
  OBVIOUS
<1>1. ASSUME NEW t \in Ids, RunHostTask(t) PROVE TypeOK'
  <2> DEFINE c == tasks[t].config
             dir == staging[c] \cup Written(t)
  <2>1. c \in Configs /\ Written(t) \subseteq ran'
    BY <1>1, TaskOfList DEF RunHostTask, Written
  <2>2. ran \subseteq ran' /\ ran' \in SUBSET Ids /\ dir \in SUBSET ran'
    BY <1>1, <2>1 DEF RunHostTask, TypeOK
  <2>3. /\ staging' = [staging EXCEPT ![c] = dir]
        /\ archive' = [archive EXCEPT ![c] = Archived(archive[c], dir)]
        /\ seen' = [seen EXCEPT ![t] = Found(staging)]
        /\ UNCHANGED <<tasks, failed, vmDirs, vmWork>>
    BY <1>1 DEF RunHostTask
  <2> HIDE DEF c
  <2>4. staging \in [Configs -> SUBSET ran'] /\ staging' \in [Configs -> SUBSET ran']
    BY <2>1, <2>2, <2>3 DEF TypeOK
  <2>5. Archived(archive[c], dir) \in SUBSET ran' /\ Archived(archive[c], dir) \subseteq dir
    BY <2>1, <2>2 DEF Archived, TypeOK
  <2>6. archive' \in [Configs -> SUBSET ran'] /\ \A d \in Configs : archive'[d] \subseteq staging'[d]
    <3> HIDE DEF dir
    <3> QED BY <2>1, <2>2, <2>3, <2>5 DEF TypeOK
  <2>7. Found(staging) \in [Names -> SUBSET ran']
    BY <2>4, FoundType
  <2>8. seen' \in [Ids -> [Names -> SUBSET ran']]
    BY <2>2, <2>3, <2>7 DEF TypeOK
  <2>9. vmWork' \in [Configs -> SUBSET ran']
    BY <2>2, <2>3 DEF TypeOK
  <2> QED BY <2>2, <2>3, <2>4, <2>6, <2>8, <2>9 DEF TypeOK
<1>2. ASSUME NEW t \in Ids, RunVMTask(t) PROVE TypeOK'
  <2> DEFINE c == tasks[t].config
  <2>1. c \in Configs /\ Written(t) \subseteq ran'
    BY <1>2, TaskOfList DEF RunVMTask, Written
  <2>2. ran \subseteq ran' /\ ran' \in SUBSET Ids
    BY <1>2, <2>1 DEF RunVMTask, TypeOK
  <2>3. /\ vmWork' = [Synced EXCEPT ![c] = Synced[c] \cup Written(t)]
        /\ vmDirs' = vmDirs \cup NewArchives \cup {c}
        /\ seen' = [seen EXCEPT ![t] = Found(Synced)]
        /\ UNCHANGED <<tasks, failed, staging, archive>>
    BY <1>2 DEF RunVMTask
  <2> HIDE DEF c
  <2>4. Synced \in [Configs -> SUBSET ran'] /\ vmDirs' \in SUBSET Configs
    BY <2>1, <2>2, <2>3, SyncedType DEF TypeOK
  <2>5. vmWork' \in [Configs -> SUBSET ran']
    BY <2>1, <2>2, <2>3, <2>4
  <2>6. \A d \in Configs \ vmDirs' : vmWork'[d] = {}
    BY <2>1, <2>3, <2>4, SyncedType DEF TypeOK
  <2>7. Found(Synced) \in [Names -> SUBSET ran']
    BY <2>4, FoundType
  <2>8. seen' \in [Ids -> [Names -> SUBSET ran']]
    BY <2>2, <2>3, <2>7 DEF TypeOK
  <2>9. staging' \in [Configs -> SUBSET ran'] /\ archive' \in [Configs -> SUBSET ran']
    BY <2>2, <2>3 DEF TypeOK
  <2> QED BY <2>2, <2>3, <2>4, <2>5, <2>6, <2>8, <2>9 DEF TypeOK
<1>3. CASE Fail
  BY <1>3 DEF Fail, TypeOK
<1>4. CASE UNCHANGED vars
  BY <1>4 DEF vars, TypeOK
<1> QED BY <1>1, <1>2, <1>3, <1>4 DEF Next

\* The task that runs is the first that has not run.
LEMMA NextRuns ==
  ASSUME TypeOK, RanInOrder, NEW t \in Ids, IsNext(t), ran' = ran \cup {t}, tasks' = tasks
  PROVE  /\ RanInOrder'
         /\ t \notin ran /\ \A u \in ran : u < t /\ ~(t < u)
         /\ \A u \in Ids : u < t => u \in ran
<1>1. Ids \subseteq Nat /\ ran \subseteq Ids
  BY IdsAssumption DEF TypeOK
<1>2. \A u \in Ids \ ran : t <= u
  BY DEF IsNext
<1>3. t \notin ran /\ \A u \in ran : u < t
  BY DEF IsNext, RanInOrder
<1>4. \A u \in ran : ~(t < u)
  BY <1>1, <1>3
<1>5. \A u \in Ids : u < t => u \in ran
  BY <1>1, <1>2
<1>6. RanInOrder'
  BY <1>1, <1>2, <1>3 DEF RanInOrder
<1> QED BY <1>3, <1>4, <1>5, <1>6

\* Before t has run, the VM has a directory for its config only if DirBefore
\* says so.
LEMMA DirIsBefore ==
  ASSUME TypeOK, DirInv, NEW t \in Ids, tasks[t].config \in vmDirs,
         \A u \in ran : u < t
  PROVE  DirBefore(t)
<1>1. PICK u \in ran : /\ ~IsHost(u)
                       /\ \/ tasks[u].config = tasks[t].config
                          \/ \E g \in ran : /\ g < u /\ IsHost(g)
                                            /\ tasks[g].config = tasks[t].config /\ tasks[g].writes
  BY DEF DirInv, HasDir
<1>2. ran \subseteq Ids
  BY DEF TypeOK
<1> QED BY <1>1, <1>2 DEF DirBefore, SameConfig

\* A host task keeps the directories, and what is said of the VM's.
LEMMA HostPlaceStep ==
  ASSUME TypeOK, PlaceInv, NEW t \in Ids, RunHostTask(t)
  PROVE  PlaceInv'
<1> DEFINE c == tasks[t].config
           dir == staging[c] \cup Written(t)
<1>1. /\ IsNext(t) /\ IsHost(t) /\ ran' = ran \cup {t}
      /\ staging' = [staging EXCEPT ![c] = dir]
      /\ archive' = [archive EXCEPT ![c] = Archived(archive[c], dir)]
      /\ UNCHANGED <<tasks, vmDirs, vmWork>>
  BY DEF RunHostTask, IsHost
<1>2. /\ RanInOrder' /\ t \notin ran
      /\ \A u \in ran : u < t /\ ~(t < u)
  BY <1>1, NextRuns DEF PlaceInv
<1>3. c \in Configs /\ ran \subseteq Ids /\ tasks[t].writes \in BOOLEAN
  BY TaskOfList DEF TypeOK
<1>4. HostInv'
  <2> SUFFICES ASSUME NEW d \in Configs
               PROVE  staging'[d] = HostWork(d)' /\ archive'[d] = staging'[d]
    BY DEF HostInv
  <2>1. /\ staging[d] = HostWork(d) /\ archive[d] = staging[d]
        /\ staging \in [Configs -> SUBSET ran] /\ archive \in [Configs -> SUBSET ran]
    BY DEF PlaceInv, HostInv, TypeOK
  <2>2. CASE d = c
    <3>1. staging'[d] = dir /\ archive'[d] = Archived(archive[c], dir)
      BY <1>1, <1>3, <2>1, <2>2
    <3>2. Archived(archive[c], dir) = dir
      BY <2>1, <2>2 DEF Archived
    <3>3. HostWork(d)' = HostWork(d) \cup Written(t)
      BY <1>1, <2>2 DEF HostWork, IsHost, Written
    <3> QED BY <2>1, <2>2, <3>1, <3>2, <3>3
  <2>3. CASE d # c
    <3>1. staging'[d] = staging[d] /\ archive'[d] = archive[d]
      BY <1>1, <1>3, <2>1, <2>3
    <3>2. HostWork(d)' = HostWork(d)
      BY <1>1, <2>3 DEF HostWork, IsHost
    <3> QED BY <2>1, <3>1, <3>2
  <2> QED BY <2>2, <2>3
<1>5. DirInv'
  BY <1>1 DEF PlaceInv, DirInv, HasDir, IsHost
<1>6. VMWorkInv'
  <2> SUFFICES ASSUME NEW u \in ran', tasks[u].writes
               PROVE  /\ ~IsHost(u) => tasks[u].config \in vmDirs /\ u \in vmWork[tasks[u].config]
                      /\ IsHost(u) /\ ~DirBefore(u) /\ tasks[u].config \in vmDirs
                           => u \in vmWork[tasks[u].config]
    BY <1>1 DEF VMWorkInv, IsHost, DirBefore, SameConfig
  <2>1. CASE u = t
    BY <1>1, <1>2, <2>1, DirIsBefore DEF PlaceInv
  <2>2. CASE u \in ran
    BY <2>2 DEF PlaceInv, VMWorkInv
  <2> QED BY <1>1, <2>1, <2>2
<1>7. VMOwnWork'
  BY <1>1 DEF PlaceInv, VMOwnWork
<1> QED BY <1>2, <1>4, <1>5, <1>6, <1>7 DEF PlaceInv

\* sync-staging.sh never takes work out of a directory (VMWorkStays).
LEMMA SyncedGrows ==
  ASSUME TypeOK, NEW c \in Configs
  PROVE  vmWork[c] \subseteq Synced[c]
<1>1. CASE c \in vmDirs
  BY <1>1, SyncedType DEF NewArchives
<1>2. CASE c \notin vmDirs
  BY <1>2 DEF TypeOK
<1> QED BY <1>1, <1>2

\* What a task in the VM does to the directories there.
LEMMA VMWorkAfter ==
  ASSUME TypeOK, NEW t \in Ids, RunVMTask(t), NEW c \in Configs
  PROVE  /\ Synced[c] \subseteq vmWork'[c]
         /\ vmWork'[c] = IF c = tasks[t].config THEN Synced[c] \cup Written(t) ELSE Synced[c]
BY SyncedType DEF RunVMTask

\* A task in the VM keeps what is said of the directories.
LEMMA VMPlaceStep ==
  ASSUME TypeOK, PlaceInv, NEW t \in Ids, RunVMTask(t)
  PROVE  PlaceInv'
<1> DEFINE c == tasks[t].config
<1>1. /\ IsNext(t) /\ ~IsHost(t) /\ ran' = ran \cup {t}
      /\ vmDirs' = vmDirs \cup NewArchives \cup {c}
      /\ UNCHANGED <<tasks, staging, archive>>
  BY DEF RunVMTask, IsHost
<1>2. /\ RanInOrder' /\ t \notin ran
      /\ \A u \in ran : u < t /\ ~(t < u)
  BY <1>1, NextRuns DEF PlaceInv
<1>3. c \in Configs /\ ran \subseteq Ids
  BY TaskOfList DEF TypeOK
<1>4. HostInv'
  BY <1>1 DEF PlaceInv, HostInv, HostWork, IsHost
<1>5. \A d \in NewArchives : d \in Configs /\ archive[d] # {} /\ archive[d] = HostWork(d)
  BY DEF NewArchives, PlaceInv, HostInv
<1>6. DirInv'
  <2> SUFFICES ASSUME NEW d \in vmDirs' PROVE HasDir(d)'
    BY DEF DirInv
  <2>1. CASE d \in vmDirs
    BY <1>1, <2>1 DEF PlaceInv, DirInv, HasDir, IsHost
  <2>2. CASE d \in NewArchives
    <3>1. PICK g \in ran : IsHost(g) /\ tasks[g].config = d /\ tasks[g].writes
      BY <1>5, <2>2 DEF HostWork
    <3>2. g < t
      BY <1>2, <3>1
    <3> QED BY <1>1, <3>1, <3>2 DEF HasDir, IsHost
  <2>3. CASE d = c
    BY <1>1, <2>3 DEF HasDir, IsHost
  <2> QED BY <1>1, <2>1, <2>2, <2>3
<1>7. VMWorkInv'
  <2> SUFFICES ASSUME NEW u \in ran', tasks[u].writes
               PROVE  /\ ~IsHost(u) => tasks[u].config \in vmDirs' /\ u \in vmWork'[tasks[u].config]
                      /\ IsHost(u) /\ ~DirBefore(u) /\ tasks[u].config \in vmDirs'
                           => u \in vmWork'[tasks[u].config]
    BY <1>1 DEF VMWorkInv, IsHost, DirBefore, SameConfig
  <2> DEFINE d == tasks[u].config
  <2>1. u \in Ids /\ d \in Configs
    BY <1>1, <1>3, TaskOfList
  <2>2. vmWork[d] \subseteq vmWork'[d] /\ Synced[d] \subseteq vmWork'[d]
    BY <2>1, SyncedGrows, VMWorkAfter
  <2>3. CASE u = t
    <3>1. u \in Written(t)
      BY <2>3 DEF Written
    <3>2. vmWork'[c] = Synced[c] \cup Written(t)
      BY <1>3, VMWorkAfter
    <3>3. u \in vmWork'[d]
      BY <2>3, <3>1, <3>2
    <3> QED BY <1>1, <2>3, <3>3
  <2>4. CASE u \in ran /\ ~IsHost(u)
    BY <1>1, <2>2, <2>4 DEF PlaceInv, VMWorkInv
  <2>5. CASE u \in ran /\ IsHost(u) /\ ~DirBefore(u) /\ d \in vmDirs'
    <3>1. CASE d \in vmDirs
      BY <2>2, <2>5, <3>1 DEF PlaceInv, VMWorkInv
    <3>2. CASE d \notin vmDirs
      <4>1. u \in archive[d]
        BY <2>1, <2>5 DEF PlaceInv, HostInv, HostWork
      <4>2. d \in NewArchives
        BY <2>1, <3>2, <4>1 DEF NewArchives
      <4>3. Synced[d] = archive[d]
        BY <2>1, <4>2, SyncedType
      <4> QED BY <2>2, <2>5, <4>1, <4>3
    <3> QED BY <3>1, <3>2
  <2> QED BY <1>1, <2>3, <2>4, <2>5
<1>8. VMOwnWork'
  <2> SUFFICES ASSUME NEW d \in Configs, NEW u \in vmWork'[d]
               PROVE  tasks[u].config = d /\ tasks[u].writes
    BY <1>1 DEF VMOwnWork
  <2>1. CASE u \in Synced[d]
    <3>1. CASE d \in NewArchives
      BY <1>5, <2>1, <3>1, SyncedType DEF HostWork
    <3>2. CASE d \notin NewArchives
      BY <2>1, <3>2, SyncedType DEF PlaceInv, VMOwnWork
    <3> QED BY <3>1, <3>2
  <2>2. CASE d = c /\ u \in Written(t)
    BY <2>2 DEF Written
  <2>3. vmWork'[d] = IF d = c THEN Synced[d] \cup Written(t) ELSE Synced[d]
    BY VMWorkAfter
  <2>4. u \in Synced[d] \/ (d = c /\ u \in Written(t))
    BY <2>3
  <2> QED BY <2>1, <2>2, <2>4
<1> QED BY <1>2, <1>4, <1>6, <1>7, <1>8 DEF PlaceInv
\* Every step keeps what is said of the directories.
LEMMA PlaceStep == TypeOK /\ PlaceInv /\ [Next]_vars => PlaceInv'
<1> SUFFICES ASSUME TypeOK, PlaceInv, [Next]_vars PROVE PlaceInv'
  OBVIOUS
<1>1. ASSUME NEW t \in Ids, RunHostTask(t) PROVE PlaceInv'
  BY <1>1, HostPlaceStep
<1>2. ASSUME NEW t \in Ids, RunVMTask(t) PROVE PlaceInv'
  BY <1>2, VMPlaceStep
<1>3. ASSUME UNCHANGED <<tasks, ran, staging, archive, vmDirs, vmWork>> PROVE PlaceInv'
  BY <1>3 DEF PlaceInv, RanInOrder, HostInv, HostWork, DirInv, HasDir, VMWorkInv, VMOwnWork,
              IsHost, DirBefore, SameConfig
<1> QED BY <1>1, <1>2, <1>3 DEF Next, Fail, vars
-----------------------------------------------------------------------------
\* What the task that runs next finds below root: all the work that is there,
\* under each of its names, and nothing else.
LEMMA SeenAfter ==
  ASSUME TypeOK, RanInOrder, WorkIsSeen, NothingElseIsSeen,
         NEW t \in Ids, IsNext(t), ran' = ran \cup {t}, tasks' = tasks,
         NEW root \in [Configs -> SUBSET ran], seen' = [seen EXCEPT ![t] = Found(root)],
         \A a \in ran :
           tasks[a].writes /\ (IsHost(a) = IsHost(t) \/ (IsHost(a) /\ ~DirBefore(a)))
             => a \in root[tasks[a].config],
         \A d \in Configs : \A a \in root[d] : tasks[a].config = d /\ tasks[a].writes
  PROVE  WorkIsSeen' /\ NothingElseIsSeen'
<1>1. t \notin ran /\ \A u \in ran : u < t /\ ~(t < u)
  BY NextRuns
<1>2. ran \subseteq Ids /\ ~(t < t)
  BY IdsAssumption DEF TypeOK
<1>3. seen'[t] = Found(root) /\ \A u \in ran : seen'[u] = seen[u]
  BY <1>1 DEF TypeOK
<1>4. WorkIsSeen'
  <2> SUFFICES ASSUME NEW a \in ran', NEW u \in ran', NEW n \in Names,
                      a < u, tasks[a].writes, NameOf(n, a),
                      IsHost(a) = IsHost(u) \/ (IsHost(a) /\ ~DirBefore(a))
               PROVE  a \in seen'[u][n]
    BY DEF WorkIsSeen, NameOf, Providers, IsHost, DirBefore, SameConfig
  <2>1. a \in ran
    BY <1>1, <1>2
  <2>2. CASE u \in ran
    BY <1>3, <2>1, <2>2 DEF WorkIsSeen
  <2>3. CASE u = t
    <3>1. tasks[a].config \in Configs /\ Leads(n, tasks[a].config)
      BY <1>2, <2>1, TaskOfList, NameLeads
    <3>2. a \in root[tasks[a].config]
      BY <2>1, <2>3
    <3>3. a \in Found(root)[n]
      BY <3>1, <3>2 DEF Found
    <3> QED BY <1>3, <2>3, <3>3
  <2> QED BY <2>2, <2>3
<1>5. NothingElseIsSeen'
  <2> SUFFICES ASSUME NEW u \in ran', NEW n \in Names, NEW a \in seen'[u][n]
               PROVE  /\ a < u /\ tasks[a].writes
                      /\ IF Providers(n) = {} THEN n = tasks[a].config
                         ELSE \E p \in Providers(n) : SameConfig(p, a)
    BY DEF NothingElseIsSeen, Providers, SameConfig
  <2>1. CASE u \in ran
    BY <1>3, <2>1 DEF NothingElseIsSeen
  <2>2. CASE u = t
    <3>1. PICK d \in Configs : Leads(n, d) /\ a \in root[d]
      BY <1>3, <2>2 DEF Found
    <3>2. a \in ran /\ tasks[a].config = d /\ tasks[a].writes
      BY <3>1
    <3>3. IF Providers(n) = {} THEN n = d ELSE \E p \in Providers(n) : tasks[p].config = d
      BY <3>1 DEF Leads
    <3> QED BY <1>1, <2>2, <3>2, <3>3 DEF SameConfig
  <2> QED BY <2>1, <2>2
<1> QED BY <1>4, <1>5

\* Every step keeps what the tasks have found.
LEMMA SeenStep == StagingInv /\ [Next]_vars => WorkIsSeen' /\ NothingElseIsSeen'
<1> SUFFICES ASSUME StagingInv, [Next]_vars PROVE WorkIsSeen' /\ NothingElseIsSeen'
  OBVIOUS
<1>1. TypeOK /\ PlaceInv /\ WorkIsSeen /\ NothingElseIsSeen /\ RanInOrder
  BY DEF StagingInv, PlaceInv
<1>2. \A a \in ran : a \in Ids /\ tasks[a].config \in Configs
  BY <1>1, TaskOfList DEF TypeOK
<1>3. ASSUME NEW t \in Ids, RunHostTask(t) PROVE WorkIsSeen' /\ NothingElseIsSeen'
  <2>1. /\ IsNext(t) /\ IsHost(t) /\ ran' = ran \cup {t} /\ tasks' = tasks
        /\ seen' = [seen EXCEPT ![t] = Found(staging)]
    BY <1>3 DEF RunHostTask, IsHost
  <2>2. staging \in [Configs -> SUBSET ran]
    BY <1>1 DEF TypeOK
  <2>3. \A d \in Configs : staging[d] = HostWork(d)
    BY <1>1 DEF PlaceInv, HostInv
  <2>4. \A a \in ran :
          tasks[a].writes /\ (IsHost(a) = IsHost(t) \/ (IsHost(a) /\ ~DirBefore(a)))
            => a \in staging[tasks[a].config]
    BY <1>2, <2>1, <2>3 DEF HostWork
  <2>5. \A d \in Configs : \A a \in staging[d] : tasks[a].config = d /\ tasks[a].writes
    BY <2>3 DEF HostWork
  <2> QED BY <1>1, <2>1, <2>2, <2>4, <2>5, SeenAfter
<1>4. ASSUME NEW t \in Ids, RunVMTask(t) PROVE WorkIsSeen' /\ NothingElseIsSeen'
  <2>1. /\ IsNext(t) /\ ~IsHost(t) /\ ran' = ran \cup {t} /\ tasks' = tasks
        /\ seen' = [seen EXCEPT ![t] = Found(Synced)]
    BY <1>4 DEF RunVMTask, IsHost
  <2>2. /\ Synced \in [Configs -> SUBSET ran]
        /\ \A d \in Configs : Synced[d] = IF d \in NewArchives THEN archive[d] ELSE vmWork[d]
    BY <1>1, SyncedType
  <2>3. \A d \in Configs : archive[d] = HostWork(d)
    BY <1>1 DEF PlaceInv, HostInv
  <2>4. ASSUME NEW a \in ran, tasks[a].writes,
               ~IsHost(a) \/ (IsHost(a) /\ ~DirBefore(a))
        PROVE  a \in Synced[tasks[a].config]
    <3>1. CASE tasks[a].config \in vmDirs
      <4>1. a \in vmWork[tasks[a].config]
        BY <1>1, <2>4, <3>1 DEF PlaceInv, VMWorkInv
      <4> QED BY <1>1, <1>2, <4>1, SyncedGrows
    <3>2. CASE tasks[a].config \notin vmDirs
      <4>1. IsHost(a)
        BY <1>1, <2>4, <3>2 DEF PlaceInv, VMWorkInv
      <4>2. a \in archive[tasks[a].config]
        BY <1>2, <2>3, <2>4, <4>1 DEF HostWork
      <4>3. tasks[a].config \in NewArchives
        BY <1>2, <3>2, <4>2 DEF NewArchives
      <4>4. Synced[tasks[a].config] = archive[tasks[a].config]
        BY <1>2, <2>2, <4>3
      <4> QED BY <4>2, <4>4
    <3> QED BY <3>1, <3>2
  <2>5. ASSUME NEW d \in Configs, NEW a \in Synced[d]
        PROVE  tasks[a].config = d /\ tasks[a].writes
    <3>1. CASE d \in NewArchives
      BY <2>2, <2>3, <2>5, <3>1 DEF HostWork
    <3>2. CASE d \notin NewArchives
      BY <1>1, <2>2, <2>5, <3>2 DEF PlaceInv, VMOwnWork
    <3> QED BY <3>1, <3>2
  <2>6. \A a \in ran :
          tasks[a].writes /\ (IsHost(a) = IsHost(t) \/ (IsHost(a) /\ ~DirBefore(a)))
            => a \in Synced[tasks[a].config]
    BY <2>1, <2>4
  <2> QED BY <1>1, <2>1, <2>2, <2>5, <2>6, SeenAfter
<1>5. ASSUME UNCHANGED <<tasks, ran, seen>> PROVE WorkIsSeen' /\ NothingElseIsSeen'
  BY <1>1, <1>5 DEF WorkIsSeen, NothingElseIsSeen, NameOf, Providers, IsHost, DirBefore, SameConfig
<1> QED BY <1>3, <1>4, <1>5 DEF Next, Fail, vars

\* Every step keeps the strengthening.
LEMMA StagingStep == StagingInv /\ [Next]_vars => StagingInv'
<1> SUFFICES ASSUME StagingInv, [Next]_vars PROVE StagingInv'
  OBVIOUS
<1>1. TypeOK' /\ PlaceInv'
  BY TypeStep, PlaceStep DEF StagingInv
<1> QED BY <1>1, SeenStep DEF StagingInv

\* The strengthening is an invariant.
LEMMA StagingInvariance == Spec => []StagingInv
BY StagingInit, StagingStep, PTL DEF Spec
-----------------------------------------------------------------------------
\* Whatever the list of tasks, the directories, the archives and what the
\* tasks find have only the work of tasks that have run, and an archive has
\* nothing that is not in the directory it was made from.
THEOREM StagingTypeCorrect == Spec => []TypeOK
<1>1. StagingInv => TypeOK
  BY DEF StagingInv
<1> QED BY <1>1, StagingInvariance, PTL

\* Whatever the list of tasks, a task finds what every task before it wrote in
\* the same environment, and what a host task wrote before the VM had a
\* directory of its config (Task.run(), sync-staging.sh).
THEOREM WorkIsFound == Spec => []WorkIsSeen
<1>1. StagingInv => WorkIsSeen
  BY DEF StagingInv
<1> QED BY <1>1, StagingInvariance, PTL

\* Whatever the list of tasks, a name leads to no work but that of a provider's
\* config, or of the config itself (_staging_env()).
THEOREM NamesNotMixed == Spec => []NothingElseIsSeen
<1>1. StagingInv => NothingElseIsSeen
  BY DEF StagingInv
<1> QED BY <1>1, StagingInvariance, PTL

\* Whatever the list of tasks, a task finds what it should, and nothing else.
THEOREM RightWorkIsFound == Spec => []RightWorkIsSeen
  BY WorkIsFound, NamesNotMixed, PTL DEF RightWorkIsSeen

\* Whatever the list of tasks, no step takes work out of a directory of the VM
\* (sync-staging.sh:20).
THEOREM VMWorkKept == Spec => VMWorkStays
<1>1. ASSUME TypeOK, [Next]_vars, NEW c \in Configs PROVE vmWork[c] \subseteq vmWork'[c]
  <2>1. ASSUME NEW t \in Ids, RunVMTask(t) PROVE vmWork[c] \subseteq vmWork'[c]
    BY <1>1, <2>1, SyncedGrows, VMWorkAfter
  <2>2. CASE UNCHANGED vmWork
    BY <2>2
  <2> QED BY <1>1, <2>1, <2>2 DEF Next, RunHostTask, Fail, vars
<1>2. TypeOK /\ [Next]_vars => [\A c \in Configs : vmWork[c] \subseteq vmWork'[c]]_vars
  BY <1>1
<1> QED BY <1>2, StagingTypeCorrect, PTL DEF Spec, VMWorkStays
-----------------------------------------------------------------------------
(***************************************************************************)
(* The packages (LocalPackages), for every set of ids, configs and files,  *)
(* and every set of task lists.  The argument is one invariant: the phases *)
(* follow each other (Phases), the installed packages are a prefix of the  *)
(* packages (InOrder), what dpkg knows of a file is true (NoStaleFiles),   *)
(* and, as long as no two packages have one name, the target is always     *)
(* what the prefix makes it (LatestSoFar).                                 *)
(***************************************************************************)
PackagesTypeOK ==
  /\ tasks \in [Ids -> TaskType]
  /\ pc \in {"run", "build", "install", "done"}
  /\ ran \subseteq Ids /\ inputs \subseteq Ids
  /\ packages \subseteq Ids /\ installed \subseteq Ids
  /\ files \in [Files -> {0} \cup Ids]
  /\ DOMAIN owner = Files /\ owner = [f \in Files |-> owner[f]]

\* Packages are made of the inputs of all tasks, and installed once all are made.
Phases ==
  /\ inputs = {t \in ran : HasInput(t)}
  /\ pc \in {"build", "install", "done"} => ran = Ids
  /\ pc \in {"install", "done"} => packages = inputs
  /\ pc \in {"run", "build"} => installed = {} /\ files = [f \in Files |-> 0]
  /\ pc = "done" => installed = packages
  /\ installed \subseteq packages /\ (installed # {} => packages = inputs)
  /\ pc = "build" => packages \subseteq inputs

InOrder == \A t \in installed, u \in packages \ installed : t < u

LatestSoFar ==
  DistinctNames => \A f \in Files :
    IF files[f] = 0 THEN installed \cap Writers(f) = {}
    ELSE /\ files[f] \in installed \cap Writers(f)
         /\ \A u \in installed \cap Writers(f) : u <= files[f]

IInv == PackagesTypeOK /\ Phases /\ InOrder /\ NoStaleFiles /\ LatestSoFar

-----------------------------------------------------------------------------
\* The names of packages are not the name of no package, and ids are not 0.
LEMMA NamesAreNames == \A t \in Ids : Name(t) # NoName /\ t # 0
BY NoFileAssumption DEF Name, NoName

LEMMA InitInv == PackagesInit => IInv
<1> SUFFICES ASSUME PackagesInit PROVE IInv
  OBVIOUS
<1> USE DEF PackagesInit, Init
<1>1. PackagesTypeOK
  BY TaskListsAssumption DEF PackagesTypeOK
<1>2. Phases
  BY DEF Phases
<1>3. InOrder /\ NoStaleFiles /\ LatestSoFar
  BY DEF InOrder, NoStaleFiles, LatestSoFar
<1> QED BY <1>1, <1>2, <1>3 DEF IInv

\* No step but an installation touches the target, and none the list of tasks.
LEMMA TargetKept ==
  ASSUME IInv, UNCHANGED <<tasks, installed, files, owner>>
  PROVE  NoStaleFiles' /\ LatestSoFar'
<1>1. NoStaleFiles'
  BY DEF IInv, NoStaleFiles, Name
<1>2. LatestSoFar'
  BY DEF IInv, LatestSoFar, DistinctNames, HasInput, Name, Writers
<1> QED BY <1>1, <1>2

LEMMA InstallStep ==
  ASSUME IInv, NEW t \in Ids, InstallPackage(t)
  PROVE  IInv'
<1> USE DEF IInv
<1>1. /\ t \in packages \ installed /\ HasInput(t)
      /\ installed' = installed \cup {t} /\ UNCHANGED <<vars, pc, inputs, packages>>
      /\ UNCHANGED <<tasks, ran>>
      /\ pc = "install" /\ t \in Nat /\ installed \subseteq Nat
      /\ \A u \in installed : u < t
  BY IdsAssumption DEF InstallPackage, InOrder, Phases, PackagesTypeOK, vars
<1>2. \A f \in Files :
        /\ f \in tasks[t].overlay.data => files'[f] = t /\ owner'[f] = Name(t)
        /\ f \notin tasks[t].overlay.data /\ owner[f] = Name(t) => files'[f] = 0 /\ owner'[f] = NoName
        /\ f \notin tasks[t].overlay.data /\ owner[f] # Name(t)
             => files'[f] = files[f] /\ owner'[f] = owner[f]
  BY DEF InstallPackage, DpkgInstall
<1>3. \A u : Name(u)' = Name(u) /\ HasInput(u)' = HasInput(u)
  BY <1>1 DEF Name, HasInput
<1>4. PackagesTypeOK'
  BY <1>1 DEF PackagesTypeOK, InstallPackage, DpkgInstall
<1>5. Phases'
  BY <1>1, <1>3 DEF Phases
<1>6. InOrder'
  BY <1>1, IdsAssumption DEF InOrder, InstallPackage, Before, PackagesTypeOK
<1>7. NoStaleFiles'
  <2> SUFFICES ASSUME NEW f \in Files
               PROVE  /\ (files'[f] = 0) = (owner'[f] = NoName)
                      /\ files'[f] # 0 =>
                           /\ owner'[f] = Name(files'[f]) /\ f \in tasks[files'[f]].overlay.data
                           /\ \A u \in installed' : Name(u) = Name(files'[f]) => u <= files'[f]
    BY <1>1, <1>3 DEF NoStaleFiles
  <2>1. CASE f \in tasks[t].overlay.data
    BY <2>1, <1>1, <1>2, NamesAreNames
  <2>2. CASE f \notin tasks[t].overlay.data /\ owner[f] = Name(t)
    BY <2>2, <1>2
  <2>3. CASE f \notin tasks[t].overlay.data /\ owner[f] # Name(t)
    BY <2>3, <1>1, <1>2 DEF NoStaleFiles
  <2> QED BY <2>1, <2>2, <2>3
<1>8. LatestSoFar'
  <2> SUFFICES ASSUME DistinctNames, NEW f \in Files
               PROVE  IF files'[f] = 0 THEN installed' \cap Writers(f) = {}
                      ELSE /\ files'[f] \in installed' \cap Writers(f)
                           /\ \A u \in installed' \cap Writers(f) : u <= files'[f]
    BY <1>1, <1>3 DEF LatestSoFar, DistinctNames, Writers
  <2>1. CASE f \in tasks[t].overlay.data
    <3>1. files'[f] = t /\ t # 0 /\ t \in installed' \cap Writers(f)
      BY <2>1, <1>1, <1>2, NamesAreNames DEF Writers
    <3>2. \A u \in installed' : u <= t
      BY <1>1
    <3> QED BY <3>1, <3>2
  <2>2. ASSUME f \notin tasks[t].overlay.data PROVE owner[f] # Name(t)
    \* The owner has another name, since it is another package.
    <3>1. CASE files[f] = 0
      BY <3>1, NamesAreNames DEF NoStaleFiles
    <3>2. CASE files[f] # 0
      <4>1. /\ files[f] \in installed /\ files[f] \in Ids /\ owner[f] = Name(files[f])
            /\ files[f] # t
        BY <3>2, <1>1 DEF LatestSoFar, NoStaleFiles, PackagesTypeOK
      <4>2. HasInput(files[f])
        BY <4>1 DEF Phases
      <4> QED BY <4>1, <4>2, <1>1 DEF DistinctNames
    <3> QED BY <3>1, <3>2
  <2>3. CASE f \notin tasks[t].overlay.data
    BY <2>2, <2>3, <1>1, <1>2 DEF LatestSoFar, Writers
  <2> QED BY <2>1, <2>3
<1> QED BY <1>4, <1>5, <1>6, <1>7, <1>8

\* A task of the list keeps the target and the list, and adds its own input.
LEMMA RunStep ==
  ASSUME IInv, NEW t \in Ids, RunTask(t)
  PROVE  IInv'
<1> USE DEF IInv
<1>1. /\ UNCHANGED <<tasks, packages, installed, files, owner>> /\ pc' = pc /\ pc = "run"
      /\ ran' = ran \cup {t}
      /\ inputs' = IF HasInput(t) THEN inputs \cup {t} ELSE inputs
  BY DEF RunTask, RunHostTask, RunVMTask, target
<1>2. \A u : HasInput(u)' = HasInput(u)
  BY <1>1 DEF HasInput
<1>3. PackagesTypeOK'
  BY <1>1 DEF PackagesTypeOK
<1>4. Phases'
  BY <1>1, <1>2 DEF Phases
<1>5. InOrder'
  BY <1>1 DEF Phases, InOrder
<1> QED BY <1>1, <1>3, <1>4, <1>5, TargetKept

LEMMA StepInv == IInv /\ [PackagesNext]_<<vars, packageVars>> => IInv'
<1> SUFFICES ASSUME IInv, [PackagesNext]_<<vars, packageVars>> PROVE IInv'
  OBVIOUS
<1> USE DEF IInv, vars
<1>2. ASSUME NEW t \in Ids, BuildPackage(t) PROVE IInv'
  <2>1. UNCHANGED <<tasks, pc, ran, inputs, installed, files, owner>> /\ pc = "build"
    BY <1>2 DEF BuildPackage
  <2>2. PackagesTypeOK' /\ Phases' /\ InOrder'
    BY <1>2, <2>1 DEF BuildPackage, PackagesTypeOK, Phases, InOrder, HasInput
  <2> QED BY <2>1, <2>2, TargetKept
<1>3. ASSUME StartBuild PROVE IInv'
  <2>1. UNCHANGED <<tasks, installed, files, owner>> /\ installed = {}
    BY <1>3 DEF StartBuild, Phases
  <2>2. PackagesTypeOK' /\ Phases' /\ InOrder'
    BY <1>3, <2>1 DEF StartBuild, PackagesTypeOK, Phases, InOrder, HasInput
  <2> QED BY <2>1, <2>2, TargetKept
<1>4. ASSUME StartInstall \/ Finish \/ FailHere PROVE IInv'
  <2>1. UNCHANGED <<tasks, ran, inputs, packages, installed, files, owner>>
    BY <1>4 DEF StartInstall, Finish, FailHere, Fail, packageVars, target
  <2>2. PackagesTypeOK' /\ InOrder'
    BY <1>4, <2>1 DEF StartInstall, Finish, FailHere, packageVars, PackagesTypeOK, InOrder
  <2>3. Phases'
    BY <1>4, <2>1 DEF StartInstall, Finish, FailHere, packageVars, Phases, HasInput
  <2> QED BY <2>1, <2>2, <2>3, TargetKept
<1>5. ASSUME UNCHANGED <<vars, packageVars>> PROVE IInv'
  <2>1. UNCHANGED <<tasks, pc, ran, inputs, packages, installed, files, owner>>
    BY <1>5 DEF packageVars, target
  <2>2. PackagesTypeOK' /\ Phases' /\ InOrder'
    BY <2>1 DEF PackagesTypeOK, Phases, InOrder, HasInput
  <2> QED BY <2>1, <2>2, TargetKept
<1> QED BY <1>2, <1>3, <1>4, <1>5, RunStep, InstallStep DEF PackagesNext
-----------------------------------------------------------------------------
LEMMA InvariantHolds == PackagesSpec => []IInv
BY InitInv, StepInv, PTL DEF PackagesSpec

\* With packages the tasks do what they do without: all that is proved of the
\* work directories holds of the whole of Task.run.
THEOREM PackagesKeepStaging == PackagesSpec => Spec
<1>1. PackagesInit => Init
  BY DEF PackagesInit
<1>2. [PackagesNext]_<<vars, packageVars>> => [Next]_vars
  BY DEF PackagesNext, RunTask, BuildPackage, InstallPackage, StartBuild, StartInstall, Finish,
         FailHere, Next
<1> QED BY <1>1, <1>2, PTL DEF PackagesSpec, Spec

\* However many tasks of however many configs write whatever files: what is in
\* the target belongs to the latest installed package of its name.
THEOREM NothingStale == PackagesSpec => []NoStaleFiles
<1>1. IInv => NoStaleFiles
  BY DEF IInv
<1> QED BY <1>1, InvariantHolds, PTL

\* A finished build with distinct package names leaves every file with the
\* content of the last task of the list that wrote it.
THEOREM TargetInTaskOrder == PackagesSpec => []LastTaskWins
<1>1. IInv => LastTaskWins
  <2> SUFFICES ASSUME IInv, pc = "done", DistinctNames, NEW f \in Files
               PROVE  IF Writers(f) = {} THEN files[f] = 0
                      ELSE \E t \in Ids : LastWriter(f, t) /\ files[f] = t
    BY DEF LastTaskWins
  <2> USE DEF IInv
  <2>1. Writers(f) \subseteq installed
    BY DEF Phases, HasInput, Writers
  <2>2. IF files[f] = 0 THEN Writers(f) = {}
        ELSE files[f] \in Writers(f) /\ \A u \in Writers(f) : u <= files[f]
    BY <2>1 DEF LatestSoFar
  <2>3. CASE files[f] = 0
    BY <2>2, <2>3
  <2>4. CASE files[f] # 0
    <3>1. files[f] \in Ids /\ LastWriter(f, files[f])
      BY <2>2, <2>4 DEF LastWriter, Writers
    <3> QED BY <2>2, <2>4, <3>1
  <2> QED BY <2>3, <2>4
<1> QED BY <1>1, InvariantHolds, PTL

=============================================================================
