------------------------------ MODULE TaskGraph ------------------------------
(***************************************************************************)
(* The task graph of distro-seed: src/common/lib/task_manager.py.          *)
(*                                                                         *)
(* build.py hands the enabled tasks of all manifests to sort(), which      *)
(* builds a dependency graph, adds the automatic reverse dependencies,     *)
(* rejects a cyclic graph, orders the tasks by topological generations     *)
(* and renumbers them; write_tasks_mmd() then builds the graph again from  *)
(* the sorted list.  The machine below runs both, on any of the task       *)
(* lists of Manifests.                                                     *)
(*                                                                         *)
(* A config or provides name is a positive integer, so that the string     *)
(* order sort_generation() uses is <.  The predecessors of a node are a    *)
(* sequence because networkx keeps them in the order they were added and   *)
(* find_edge_to_parent() depends on it; its successors need no order of    *)
(* their own, the loops of create_task_graph() add them by ascending id.   *)
(***************************************************************************)
EXTENDS Integers, Sequences, FiniteSets

CONSTANTS Names,      \* config and provides names
          Manifests,  \* the task lists build.py may pass to sort()
          MaxQueue    \* bound on the search queue (it grows without one)

NoName == 0           \* provides: "" of a task that provides nothing

TaskRecord == [config: Names, provides: Names \cup {NoName},
               dependencies: Seq(Names), auto_create_rdepends: BOOLEAN]

ASSUME NamesAssumption == Names \subseteq Nat \ {NoName}
ASSUME ManifestsAssumption == Manifests \subseteq Seq(TaskRecord)
ASSUME MaxQueueAssumption == MaxQueue \in Nat

VARIABLES
  tasks,         \* the list being sorted; a task's id is its position
  pass,          \* "sort": sort() runs; "mmd": write_tasks_mmd() runs
  pc,            \* where the running function is
  pred,          \* graph.predecessors(id), in insertion order
  task, dep, subtask, found,   \* loop variables of create_task_graph()
  node, queue,   \* loop variables of find_edge_to_parent() and its caller
  edges_to_add,  \* the automatic edges, added after the leaf loop
  generation,    \* tasks of the current generation not yet yielded
  discovered,    \* discovery number of a task in topological_generations()
  sorted_ids     \* ids yielded by topological_sort()

vars == <<tasks, pass, pc, pred, task, dep, subtask, found, node, queue,
          edges_to_add, generation, discovered, sorted_ids>>

connectVars == <<task, dep, subtask, found>>
searchVars == <<node, queue, edges_to_add>>
orderVars == <<generation, discovered, sorted_ids>>
-----------------------------------------------------------------------------
N == Len(tasks)
Nodes == 1..N
Elems(s) == {s[i] : i \in DOMAIN s}

Predecessors(v) == Elems(pred[v])
Successors(u) == {v \in Nodes : u \in Predecessors(v)}

\* Does task u satisfy a dependency on name d?
Provides(u, d) == tasks[u].config = d \/ tasks[u].provides = d

IsAuto(v) == tasks[v].auto_create_rdepends

\* A cycle exists iff some set of nodes is closed under "has a predecessor in
\* the set": simple_cycles() lists the cycles, only their existence matters.
Cyclic == \E S \in SUBSET Nodes :
            S # {} /\ \A v \in S : Predecessors(v) \cap S # {}
-----------------------------------------------------------------------------
Init ==
  /\ tasks \in Manifests
  /\ pass = "sort" /\ pc = "connect"
  /\ pred = [v \in Nodes |-> << >>]
  /\ task = 1 /\ dep = 1 /\ subtask = 1 /\ found = FALSE
  /\ node = 1 /\ queue = << >> /\ edges_to_add = << >>
  /\ generation = {} /\ discovered = [v \in Nodes |-> 0]
  /\ sorted_ids = << >>

(***************************************************************************)
(* create_task_graph(), first loop: one step per task, dependency and      *)
(* subtask.                                                                *)
(***************************************************************************)
Connecting == pc = "connect" /\ task \in Nodes
Scanning == Connecting /\ dep <= Len(tasks[task].dependencies)
Dependency == tasks[task].dependencies[dep]

AddEdge ==          \* adding an edge that is there already changes nothing
  /\ Scanning /\ subtask \in Nodes
  /\ Provides(subtask, Dependency)
  /\ pred' = IF subtask \in Predecessors(task) THEN pred
             ELSE [pred EXCEPT ![task] = Append(@, subtask)]
  /\ found' = TRUE /\ subtask' = subtask + 1
  /\ UNCHANGED <<tasks, pass, pc, task, dep, searchVars, orderVars>>

SkipSubtask ==
  /\ Scanning /\ subtask \in Nodes
  /\ ~Provides(subtask, Dependency)
  /\ subtask' = subtask + 1
  /\ UNCHANGED <<tasks, pass, pc, pred, task, dep, found, searchVars, orderVars>>

\* Mutant: an unprovided dependency is passed over.
NextDependencyUnchecked ==
  /\ Scanning /\ subtask > N
  /\ dep' = dep + 1 /\ subtask' = 1 /\ found' = FALSE
  /\ UNCHANGED <<tasks, pass, pc, pred, task, searchVars, orderVars>>

NextDependency ==
  /\ Scanning /\ subtask > N /\ found
  /\ dep' = dep + 1 /\ subtask' = 1 /\ found' = FALSE
  /\ UNCHANGED <<tasks, pass, pc, pred, task, searchVars, orderVars>>

Unsatisfied ==      \* raise ValueError: nothing provides the dependency
  /\ Scanning /\ subtask > N /\ ~found
  /\ pc' = "unsatisfied"
  /\ UNCHANGED <<tasks, pass, pred, connectVars, searchVars, orderVars>>

NextTask ==
  /\ Connecting /\ dep > Len(tasks[task].dependencies)
  /\ task' = task + 1 /\ dep' = 1
  /\ UNCHANGED <<tasks, pass, pc, pred, subtask, found, searchVars, orderVars>>

Connected ==
  /\ pc = "connect" /\ task > N
  /\ pc' = "leaves"
  /\ UNCHANGED <<tasks, pass, pred, connectVars, searchVars, orderVars>>

(***************************************************************************)
(* create_task_graph(), second loop: every task without successors that is *)
(* not itself automatic searches its ancestors, breadth first, for one     *)
(* with an automatic child.                                                *)
(***************************************************************************)
Leaf(v) == Successors(v) = {} /\ ~IsAuto(v)

SkipNode ==
  /\ pc = "leaves" /\ node \in Nodes /\ ~Leaf(node)
  /\ node' = node + 1
  /\ UNCHANGED <<tasks, pass, pc, pred, connectVars, queue, edges_to_add, orderVars>>

StartSearch ==
  /\ pc = "leaves" /\ node \in Nodes /\ Leaf(node)
  /\ queue' = pred[node] /\ pc' = "search"
  /\ UNCHANGED <<tasks, pass, pred, connectVars, node, edges_to_add, orderVars>>

\* Children of u that may take the automatic edge from v.
Candidates(u, v) == {c \in Successors(u) \ (Predecessors(v) \cup {v}) : IsAuto(c)}

SearchFinds ==      \* the first automatic child, in ascending order of ids
  /\ pc = "search" /\ queue # << >>
  /\ \E c \in Candidates(Head(queue), node) :
       /\ \A d \in Candidates(Head(queue), node) : c <= d
       /\ edges_to_add' = Append(edges_to_add, <<node, c>>)
  /\ queue' = << >> /\ node' = node + 1 /\ pc' = "leaves"
  /\ UNCHANGED <<tasks, pass, pred, connectVars, orderVars>>

SearchAncestors ==  \* no visited set: an ancestor is queued once per path
  /\ pc = "search" /\ queue # << >>
  /\ Candidates(Head(queue), node) = {}
  /\ Len(queue) <= MaxQueue
  /\ queue' = Tail(queue) \o pred[Head(queue)]
  /\ UNCHANGED <<tasks, pass, pc, pred, connectVars, node, edges_to_add, orderVars>>

\* Mutant: a failed search does not move on to the next task.
SearchFailsInPlace ==
  /\ pc = "search" /\ queue = << >>
  /\ pc' = "leaves"
  /\ UNCHANGED <<tasks, pass, pred, connectVars, searchVars, orderVars>>

SearchFails ==
  /\ pc = "search" /\ queue = << >>
  /\ node' = node + 1 /\ pc' = "leaves"
  /\ UNCHANGED <<tasks, pass, pred, connectVars, queue, edges_to_add, orderVars>>

LeavesDone ==
  /\ pc = "leaves" /\ node > N
  /\ pc' = "link"
  /\ UNCHANGED <<tasks, pass, pred, connectVars, searchVars, orderVars>>

LinkEdge ==         \* "add all edges at once"
  /\ pc = "link" /\ edges_to_add # << >>
  /\ LET e == Head(edges_to_add) IN pred' = [pred EXCEPT ![e[2]] = Append(@, e[1])]
  /\ edges_to_add' = Tail(edges_to_add)
  /\ UNCHANGED <<tasks, pass, pc, connectVars, node, queue, orderVars>>

(***************************************************************************)
(* detect_cycles()                                                         *)
(***************************************************************************)
FindCycle ==        \* raise ValueError('Invalid dependencies')
  /\ pc = "link" /\ edges_to_add = << >> /\ Cyclic
  /\ pc' = "invalid"
  /\ UNCHANGED <<tasks, pass, pred, connectVars, searchVars, orderVars>>

NoCycle ==
  /\ pc = "link" /\ edges_to_add = << >> /\ ~Cyclic
  /\ pc' = IF pass = "sort" THEN "order" ELSE "written"
  /\ UNCHANGED <<tasks, pass, pred, connectVars, searchVars, orderVars>>

(***************************************************************************)
(* topological_sort(): networkx yields the generations, each in the order  *)
(* its members lost their last predecessor; sort_generation() sorts one    *)
(* stably by config; the tasks are yielded one by one.                     *)
(***************************************************************************)
Ready == {v \in Nodes \ Elems(sorted_ids) : Predecessors(v) \subseteq Elems(sorted_ids)}

\* Number of the predecessor visited last; a member of the first generation
\* has none.
Visited(v) == {0} \cup {discovered[u] : u \in Predecessors(v)}
LastVisited(v) == CHOOSE r \in Visited(v) : \A s \in Visited(v) : s <= r
DiscoveredBefore(w, v) == \/ LastVisited(w) < LastVisited(v)
                          \/ LastVisited(w) = LastVisited(v) /\ w < v

\* Mutant: the tasks are sorted by config without regard to generations.
NextGenerationOfAll ==
  /\ pc = "order" /\ generation = {} /\ Ready # {}
  /\ generation' = Nodes
  /\ UNCHANGED <<tasks, pass, pc, pred, connectVars, searchVars, discovered, sorted_ids>>

NextGeneration ==
  /\ pc = "order" /\ generation = {} /\ Ready # {}
  /\ generation' = Ready
  /\ discovered' = [v \in Nodes |->
       IF v \in Ready
       THEN Len(sorted_ids) + 1 + Cardinality({w \in Ready : DiscoveredBefore(w, v)})
       ELSE discovered[v]]
  /\ UNCHANGED <<tasks, pass, pc, pred, connectVars, searchVars, sorted_ids>>

\* Mutant: the sort by config reverses equal tasks.
SortsBeforeReversed(w, v) == \/ tasks[w].config < tasks[v].config
                             \/ /\ tasks[w].config = tasks[v].config
                                /\ discovered[w] >= discovered[v]

SortsBefore(w, v) == \/ tasks[w].config < tasks[v].config
                     \/ /\ tasks[w].config = tasks[v].config
                        /\ discovered[w] <= discovered[v]

YieldTask(v) ==
  /\ pc = "order" /\ v \in generation
  /\ \A w \in generation : SortsBefore(v, w)
  /\ generation' = generation \ {v}
  /\ sorted_ids' = Append(sorted_ids, v)
  /\ UNCHANGED <<tasks, pass, pc, pred, connectVars, searchVars, discovered>>

(***************************************************************************)
(* The end of sort(): the list in its final order, ids renumbered.  Back   *)
(* in build.py, write_tasks_mmd() starts over from the sorted list.        *)
(***************************************************************************)

Renumber ==
  /\ pc = "order" /\ generation = {} /\ Elems(sorted_ids) = Nodes
  /\ tasks' = [i \in Nodes |-> tasks[sorted_ids[i]]]
  /\ pass' = "mmd" /\ pc' = "connect"
  /\ pred' = [v \in Nodes |-> << >>]
  /\ task' = 1 /\ dep' = 1 /\ subtask' = 1 /\ found' = FALSE
  /\ node' = 1 /\ queue' = << >>
  /\ UNCHANGED <<edges_to_add, orderVars>>

Stopped == pc \in {"unsatisfied", "invalid", "written"}
Done == Stopped /\ UNCHANGED vars

Next ==
  \/ AddEdge \/ SkipSubtask \/ NextDependency \/ Unsatisfied \/ NextTask \/ Connected
  \/ SkipNode \/ StartSearch \/ SearchFinds \/ SearchAncestors \/ SearchFails
  \/ LeavesDone \/ LinkEdge \/ FindCycle \/ NoCycle
  \/ NextGeneration \/ \E v \in Nodes : YieldTask(v)
  \/ Renumber \/ Done

Spec == Init /\ [][Next]_vars
FairSpec == Spec /\ WF_vars(Next)
-----------------------------------------------------------------------------
(***************************************************************************)
(* Properties.  Once pass is "mmd", sort() has returned and tasks is the   *)
(* order build.py executes; sorted_ids[i] is then the place in the         *)
(* original list of the task that runs i-th.                               *)
(***************************************************************************)
IsSorted == pass = "mmd"

\* Every variable keeps its type.
GraphTypeOK ==
  /\ tasks \in Seq(TaskRecord)
  /\ pass \in {"sort", "mmd"}
  /\ pc \in {"connect", "unsatisfied", "leaves", "search", "link", "invalid",
             "order", "written"}
  /\ pred \in [Nodes -> Seq(Nodes)]
CursorTypeOK ==
  /\ task \in 1..N + 1 /\ dep \in Nat \ {0} /\ subtask \in 1..N + 1
  /\ found \in BOOLEAN
SearchTypeOK ==
  /\ node \in 1..N + 1 /\ queue \in Seq(Nodes)
  /\ edges_to_add \in Seq(Nodes \X Nodes)
OrderTypeOK ==
  /\ generation \in SUBSET Nodes
  /\ discovered \in [Nodes -> Nat]
  /\ sorted_ids \in Seq(Nodes)
TypeOK == /\ GraphTypeOK /\ CursorTypeOK /\ SearchTypeOK /\ OrderTypeOK
          /\ pc = "search" => node \in Nodes

\* In the order build.py executes, every dependency of a task is provided by
\* some task, and every task that provides it runs earlier (sort()).
DependenciesRunFirst ==
  IsSorted => \A j \in Nodes : \A k \in DOMAIN tasks[j].dependencies :
    LET providers == {i \in Nodes : Provides(i, tasks[j].dependencies[k])}
    IN  providers # {} /\ \A i \in providers : i < j

\* The order topological_sort() yields so far lists no task twice and never
\* one before a task it has an edge from, automatic edges included.
OrderIsTopological ==
  pc = "order" => \A i, j \in DOMAIN sorted_ids : i <= j =>
    /\ sorted_ids[j] \notin Predecessors(sorted_ids[i])
    /\ sorted_ids[i] = sorted_ids[j] => i = j

\* A graph that passed detect_cycles() can always be ordered completely: some
\* task is ready until all are ordered, so topological_generations() never
\* raises NetworkXUnfeasible, which sort() does not expect.
OrderNeverStuck ==
  pc = "order" => generation # {} \/ Ready # {} \/ Elems(sorted_ids) = Nodes

\* What sort() relies on.
SortSucceeds == OrderIsTopological /\ OrderNeverStuck

\* Tasks of one config with the same dependencies run in the order the
\* manifest lists them, as long as none of them is automatic: the sort is
\* stable in the discovery order of networkx (sort_generation()).
SiblingsKeepListOrder ==
  IsSorted => \A i, j \in Nodes :
    /\ i < j
    /\ tasks[i].config = tasks[j].config
    /\ tasks[i].dependencies = tasks[j].dependencies
    /\ ~IsAuto(i) /\ ~IsAuto(j)
    => sorted_ids[i] < sorted_ids[j]

DeclaredParent(p, c) ==
  \E k \in DOMAIN tasks[c].dependencies : Provides(p, tasks[c].dependencies[k])

\* A loop of the dependencies the manifests declare: a set of tasks of which each
\* one needs another.
DeclaredLoop ==
  \E S \in SUBSET Nodes :
    S # {} /\ \A c \in S : \E p \in S : DeclaredParent(p, c)

\* A list with a dependency loop is reported (detect_cycles()).
LoopsAreReported == [](DeclaredLoop => <>(pc \in {"unsatisfied", "invalid"}))

\* sort() and write_tasks_mmd() return or raise, for every list without a loop
\* of declared dependencies.
Terminates == DeclaredLoop \/ <>Stopped
=============================================================================
