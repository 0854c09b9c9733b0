--------------------------- MODULE TaskGraphProofs ---------------------------
(***************************************************************************)
(* What sort() guarantees for every task list: the order build.py executes *)
(* respects every dependency, and a graph without cycles is always ordered *)
(* completely.                                                             *)
(***************************************************************************)
EXTENDS TaskGraph, FiniteSetTheorems, SequenceTheorems, WellFoundedInduction, TLAPS

\* Dependency k of task v is provided, and by predecessors of v only.
Linked(v, k) ==
  /\ \E u \in Nodes : Provides(u, tasks[v].dependencies[k])
  /\ \A u \in Nodes : Provides(u, tasks[v].dependencies[k]) => u \in Predecessors(v)

\* The loops of create_task_graph(): what lies before the cursor is linked.
LinkedSoFar ==
  \A v \in Nodes : \A k \in DOMAIN tasks[v].dependencies :
    v < task \/ (v = task /\ k < dep) => Linked(v, k)
ScannedSoFar ==
  task \in Nodes /\ dep \in DOMAIN tasks[task].dependencies =>
    \A u \in Nodes : u < subtask /\ Provides(u, Dependency) => u \in Predecessors(task)
CursorInv ==
  /\ found => /\ task \in Nodes /\ dep \in DOMAIN tasks[task].dependencies
              /\ \E u \in Nodes : Provides(u, Dependency)
  /\ subtask # 1 => task \in Nodes /\ dep \in DOMAIN tasks[task].dependencies
  /\ pc \notin {"connect", "unsatisfied"} => task = N + 1
ConnectInv == LinkedSoFar /\ ScannedSoFar /\ CursorInv

\* topological_sort(): every yielded task follows its predecessors, and those
\* of the current generation have all been yielded.
OrderInv ==
  /\ pc = "order" => pass = "sort" /\ ~Cyclic
  /\ pass = "sort" /\ pc # "order" => sorted_ids = << >> /\ generation = {}
  /\ \A i, j \in DOMAIN sorted_ids : sorted_ids[i] = sorted_ids[j] => i = j
  /\ generation \cap Elems(sorted_ids) = {}
  /\ pc = "order" =>
       /\ \A i \in DOMAIN sorted_ids : \A u \in Predecessors(sorted_ids[i]) :
            \E j \in DOMAIN sorted_ids : j < i /\ sorted_ids[j] = u
       /\ \A v \in generation : Predecessors(v) \subseteq Elems(sorted_ids)

\* The edges of a task that is not automatic are those of its dependencies:
\* find_edge_to_parent() adds edges to automatic tasks only.
EdgesAreDeclared ==
  /\ \A v \in Nodes : ~IsAuto(v) => \A u \in Predecessors(v) : DeclaredParent(u, v)
  /\ \A i \in DOMAIN edges_to_add : IsAuto(edges_to_add[i][2])
  /\ pc = "order" => edges_to_add = << >>

\* Task v stands before task w in a manifest's list and has what w has.
Siblings(v, w) ==
  /\ v < w /\ tasks[v].config = tasks[w].config
  /\ tasks[v].dependencies = tasks[w].dependencies
  /\ ~IsAuto(v) /\ ~IsAuto(w)

\* Siblings come into one generation, are discovered and yielded in order.
SiblingsInv ==
  pc = "order" => \A v, w \in Nodes : Siblings(v, w) =>
    /\ v \in generation \cup Elems(sorted_ids) <=> w \in generation \cup Elems(sorted_ids)
    /\ v \in generation /\ w \in generation => discovered[v] < discovered[w]
    /\ \A j \in DOMAIN sorted_ids :
         sorted_ids[j] = w => \E i \in DOMAIN sorted_ids : i < j /\ sorted_ids[i] = v

IInv == /\ TypeOK /\ ConnectInv /\ OrderInv /\ DependenciesRunFirst
        /\ EdgesAreDeclared /\ SiblingsInv /\ SiblingsKeepListOrder
-----------------------------------------------------------------------------
\* What the types say of the nodes: they number the entries of the task list.
LEMMA NodesType == TypeOK => N \in Nat /\ Nodes = 1..N /\ DOMAIN tasks = Nodes
  BY DEF TypeOK, GraphTypeOK, N, Nodes

\* Appending adds one element, in the order of build.py's lists.
LEMMA ElemsOfAppend ==
  ASSUME NEW S, NEW s \in Seq(S), NEW e \in S
  PROVE  /\ Append(s, e) \in Seq(S)
         /\ Len(Append(s, e)) = Len(s) + 1
         /\ DOMAIN Append(s, e) = 1..Len(s) + 1
         /\ \A i \in 1..Len(s) : Append(s, e)[i] = s[i]
         /\ Append(s, e)[Len(s) + 1] = e
         /\ Elems(Append(s, e)) = Elems(s) \cup {e}
<1>1. /\ Append(s, e) \in Seq(S)
      /\ Len(Append(s, e)) = Len(s) + 1
      /\ DOMAIN Append(s, e) = 1..Len(s) + 1
      /\ \A i \in 1..Len(s) : Append(s, e)[i] = s[i]
      /\ Append(s, e)[Len(s) + 1] = e
  OBVIOUS
<1>2. Len(s) \in Nat /\ DOMAIN s = 1..Len(s)
  OBVIOUS
<1>3. Elems(Append(s, e)) = {Append(s, e)[i] : i \in 1..Len(s) + 1}
  BY <1>1 DEF Elems
<1>4. 1..Len(s) + 1 = 1..Len(s) \cup {Len(s) + 1}
  BY <1>2
<1>5. Elems(Append(s, e)) = Elems(s) \cup {e}
  BY <1>1, <1>2, <1>3, <1>4 DEF Elems
<1> QED BY <1>1, <1>5

\* A list without repetition whose elements are the nodes has N elements.
LEMMA FullOrderLength ==
  ASSUME NEW n \in Nat, NEW s \in Seq(1..n), Elems(s) = 1..n,
         \A i, j \in DOMAIN s : s[i] = s[j] => i = j
  PROVE  Len(s) = n
<1>1. Len(s) \in Nat /\ DOMAIN s = 1..Len(s) /\ s \in [1..Len(s) -> 1..n]
  BY LenProperties
<1>2. s \in Bijection(1..Len(s), 1..n)
  BY <1>1 DEF Bijection, Injection, IsInjective, Surjection, Elems
<1>3. ExistsBijection(1..Len(s), 1..n)
  BY <1>2 DEF ExistsBijection
<1>4. Cardinality(1..n) = Len(s)
  BY <1>1, <1>3, FS_CountingElements
<1>5. Cardinality(1..n) = n
  BY FS_Interval
<1> QED BY <1>4, <1>5
-----------------------------------------------------------------------------
\* A step that changes none of the variables of a part keeps its type.
LEMMA TypeFrame ==
  ASSUME TypeOK, tasks' = tasks
  PROVE  /\ N' = N /\ Nodes' = Nodes
         /\ UNCHANGED connectVars => CursorTypeOK'
         /\ UNCHANGED searchVars => SearchTypeOK'
         /\ UNCHANGED orderVars => OrderTypeOK'
         /\ pred' = pred /\ pass' = pass /\ pc' \in {pc, "connect", "unsatisfied", "leaves",
                "search", "link", "invalid", "order", "written"} => GraphTypeOK'
<1>1. N' = N /\ Nodes' = Nodes
  BY DEF N, Nodes
<1>2. UNCHANGED connectVars => CursorTypeOK'
  BY <1>1 DEF TypeOK, CursorTypeOK, connectVars
<1>3. UNCHANGED searchVars => SearchTypeOK'
  BY <1>1 DEF TypeOK, SearchTypeOK, searchVars
<1>4. UNCHANGED orderVars => OrderTypeOK'
  BY <1>1 DEF TypeOK, OrderTypeOK, orderVars
<1>5. pred' = pred /\ pass' = pass /\ pc' \in {pc, "connect", "unsatisfied", "leaves",
         "search", "link", "invalid", "order", "written"} => GraphTypeOK'
  BY <1>1 DEF TypeOK, GraphTypeOK
<1> QED BY <1>1, <1>2, <1>3, <1>4, <1>5

\* Every step of the loop over dependencies keeps the types.
LEMMA ConnectType ==
  TypeOK /\ (AddEdge \/ SkipSubtask \/ NextDependency \/ Unsatisfied \/ NextTask \/ Connected)
    => TypeOK'
<1> SUFFICES ASSUME TypeOK,
                    AddEdge \/ SkipSubtask \/ NextDependency \/ Unsatisfied \/ NextTask \/ Connected
             PROVE  TypeOK'
  OBVIOUS
<1>1. tasks' = tasks /\ pass' = pass /\ UNCHANGED searchVars /\ UNCHANGED orderVars
  BY DEF AddEdge, SkipSubtask, NextDependency, Unsatisfied, NextTask, Connected
<1>2. SearchTypeOK' /\ OrderTypeOK' /\ N' = N /\ Nodes' = Nodes
  BY <1>1, TypeFrame
<1>3. N \in Nat /\ Nodes = 1..N
  BY NodesType
<1>4. CursorTypeOK'
  <2>1. CASE AddEdge
    <3>1. subtask \in Nodes /\ subtask' = subtask + 1 /\ found' = TRUE /\ UNCHANGED <<task, dep>>
      BY <2>1 DEF AddEdge
    <3> QED BY <3>1, <1>2, <1>3 DEF TypeOK, CursorTypeOK
  <2>2. CASE SkipSubtask
    BY <2>2, <1>2, <1>3 DEF TypeOK, CursorTypeOK, SkipSubtask, Scanning, Connecting
  <2>3. CASE NextDependency
    <3>1. subtask' = 1 /\ dep' = dep + 1 /\ found' = FALSE /\ task' = task
      BY <2>3 DEF NextDependency
    <3>2. found' \in BOOLEAN
      BY <3>1
    <3>3. task' \in 1..N' + 1 /\ dep' \in Nat \ {0} /\ subtask' \in 1..N' + 1
      BY <3>1, <1>2, <1>3 DEF TypeOK, CursorTypeOK
    <3> QED BY <3>2, <3>3 DEF CursorTypeOK
  <2>4. CASE NextTask
    BY <2>4, <1>2, <1>3 DEF TypeOK, CursorTypeOK, NextTask, Connecting
  <2>5. CASE Unsatisfied \/ Connected
    BY <2>5, <1>1, TypeFrame DEF Unsatisfied, Connected
  <2> QED BY <2>1, <2>2, <2>3, <2>4, <2>5
<1>5. GraphTypeOK'
  <2>1. CASE AddEdge
    <3>1. \A s \in Seq(Nodes) : Append(s, subtask) \in Seq(Nodes)
      BY <2>1 DEF AddEdge
    <3>2. pred' \in [Nodes -> Seq(Nodes)]
      BY <2>1, <3>1 DEF TypeOK, GraphTypeOK, AddEdge, Scanning, Connecting
    <3> QED BY <2>1, <3>2, <1>1, <1>2 DEF TypeOK, GraphTypeOK, AddEdge
  <2>2. CASE ~AddEdge
    <3>1. pred' = pred /\ pc' \in {pc, "unsatisfied", "leaves"}
      BY <2>2 DEF SkipSubtask, NextDependency, Unsatisfied, NextTask, Connected
    <3> QED BY <3>1, <1>1, TypeFrame
  <2> QED BY <2>1, <2>2
<1>6. pc' # "search"
  BY DEF AddEdge, SkipSubtask, NextDependency, Unsatisfied, NextTask, Connected, Scanning, Connecting
<1> QED BY <1>2, <1>4, <1>5, <1>6 DEF TypeOK

\* Every step of the search for automatic edges keeps the types.
LEMMA SearchType ==
  TypeOK /\ (\/ SkipNode \/ StartSearch \/ SearchFinds \/ SearchAncestors
             \/ SearchFails \/ LeavesDone \/ LinkEdge)
    => TypeOK'
<1> SUFFICES ASSUME TypeOK,
                    \/ SkipNode \/ StartSearch \/ SearchFinds \/ SearchAncestors
                    \/ SearchFails \/ LeavesDone \/ LinkEdge
             PROVE  TypeOK'
  OBVIOUS
<1>1. tasks' = tasks /\ pass' = pass /\ UNCHANGED connectVars /\ UNCHANGED orderVars
  BY DEF SkipNode, StartSearch, SearchFinds, SearchAncestors, SearchFails, LeavesDone, LinkEdge
<1>2. CursorTypeOK' /\ OrderTypeOK' /\ N' = N /\ Nodes' = Nodes
  BY <1>1, TypeFrame
<1>3. N \in Nat /\ Nodes = 1..N
  BY NodesType
<1>4. \A v \in Nodes : pred[v] \in Seq(Nodes)
  BY DEF TypeOK, GraphTypeOK
<1>5. node \in Nat /\ (node \in Nodes => node + 1 \in 1..N + 1)
  BY <1>3 DEF TypeOK, SearchTypeOK
<1>6. pc = "search" => node \in Nodes
  BY DEF TypeOK
<1>7. GraphTypeOK'
  <2>1. CASE LinkEdge
    <3>1. Head(edges_to_add)[1] \in Nodes
      BY <2>1 DEF LinkEdge, TypeOK, SearchTypeOK
    <3>2. \A s \in Seq(Nodes) : Append(s, Head(edges_to_add)[1]) \in Seq(Nodes)
      BY <3>1
    <3>3. pred' \in [Nodes -> Seq(Nodes)]
      BY <2>1, <3>2 DEF TypeOK, GraphTypeOK, LinkEdge
    <3> QED BY <2>1, <3>3, <1>1, <1>2 DEF TypeOK, GraphTypeOK, LinkEdge
  <2>2. CASE ~LinkEdge
    <3>1. pred' = pred /\ pc' \in {pc, "search", "leaves", "link"}
      BY <2>2 DEF SkipNode, StartSearch, SearchFinds, SearchAncestors, SearchFails, LeavesDone
    <3> QED BY <3>1, <1>1, TypeFrame
  <2> QED BY <2>1, <2>2
<1>8. SearchTypeOK'
  <2>1. CASE SkipNode
    BY <2>1, <1>2, <1>5 DEF TypeOK, SearchTypeOK, SkipNode
  <2>2. CASE StartSearch
    BY <2>2, <1>2, <1>4 DEF TypeOK, SearchTypeOK, StartSearch
  <2>3. CASE SearchFails
    BY <2>3, <1>2, <1>5, <1>6 DEF TypeOK, SearchTypeOK, SearchFails
  <2>4. CASE LeavesDone
    BY <2>4, <1>1, TypeFrame DEF LeavesDone
  <2>5. CASE LinkEdge
    <3>1. edges_to_add' \in Seq(Nodes \X Nodes)
      BY <2>5 DEF TypeOK, SearchTypeOK, LinkEdge
    <3> QED BY <2>5, <3>1, <1>2 DEF TypeOK, SearchTypeOK, LinkEdge
  <2>6. CASE SearchAncestors
    <3>1. Head(queue) \in Nodes /\ Tail(queue) \in Seq(Nodes)
      BY <2>6 DEF TypeOK, SearchTypeOK, SearchAncestors
    <3>2. queue' \in Seq(Nodes)
      BY <2>6, <1>4, <3>1, ConcatProperties DEF SearchAncestors
    <3> QED BY <2>6, <3>2, <1>2 DEF TypeOK, SearchTypeOK, SearchAncestors
  <2>7. CASE SearchFinds
    <3>1. PICK c \in Candidates(Head(queue), node) : edges_to_add' = Append(edges_to_add, <<node, c>>)
      BY <2>7 DEF SearchFinds
    <3>2. c \in Nodes
      BY DEF Candidates, Successors
    <3>3. edges_to_add' \in Seq(Nodes \X Nodes)
      BY <3>1, <3>2, <1>6, <2>7 DEF TypeOK, SearchTypeOK, SearchFinds
    <3> QED BY <2>7, <3>3, <1>2, <1>5, <1>6 DEF TypeOK, SearchTypeOK, SearchFinds
  <2> QED BY <2>1, <2>2, <2>3, <2>4, <2>5, <2>6, <2>7
<1>9. pc' = "search" => node' \in Nodes
  BY <1>6 DEF SkipNode, StartSearch, SearchFinds, SearchAncestors, SearchFails, LeavesDone, LinkEdge
<1> QED BY <1>2, <1>7, <1>8, <1>9 DEF TypeOK

\* The length of a complete order: Renumber indexes it by the nodes.
LEMMA CompleteOrder ==
  ASSUME TypeOK, OrderInv, Elems(sorted_ids) = Nodes
  PROVE  /\ DOMAIN sorted_ids = Nodes
         /\ \A i \in Nodes : sorted_ids[i] \in Nodes
<1>1. N \in Nat /\ Nodes = 1..N /\ sorted_ids \in Seq(Nodes)
  BY NodesType DEF TypeOK, OrderTypeOK
<1>2. Len(sorted_ids) = N
  BY <1>1, FullOrderLength DEF OrderInv
<1> QED BY <1>1, <1>2

\* Every step from detect_cycles() on keeps the types.
LEMMA OrderType ==
  /\ TypeOK /\ OrderInv
  /\ \/ FindCycle \/ NoCycle \/ NextGeneration \/ (\E v \in Nodes : YieldTask(v))
     \/ Renumber \/ Done
  => TypeOK'
<1> SUFFICES ASSUME TypeOK, OrderInv,
                    \/ FindCycle \/ NoCycle \/ NextGeneration
                    \/ (\E v \in Nodes : YieldTask(v)) \/ Renumber \/ Done
             PROVE  TypeOK'
  OBVIOUS
<1>1. N \in Nat /\ Nodes = 1..N
  BY NodesType
<1>2. CASE FindCycle \/ NoCycle \/ Done
  <2>1. /\ tasks' = tasks /\ pass' = pass /\ pred' = pred
        /\ UNCHANGED connectVars /\ UNCHANGED searchVars /\ UNCHANGED orderVars
        /\ pc' \in {pc, "invalid", "order", "written"}
    BY <1>2 DEF FindCycle, NoCycle, Done, vars, connectVars, searchVars, orderVars
  <2>2. GraphTypeOK' /\ CursorTypeOK' /\ SearchTypeOK' /\ OrderTypeOK' /\ Nodes' = Nodes
    BY <2>1, TypeFrame
  <2>3. pc' = "search" => node' \in Nodes
    BY <1>2 DEF TypeOK, FindCycle, NoCycle, Done, vars, searchVars
  <2> QED BY <2>2, <2>3 DEF TypeOK
<1>3. CASE NextGeneration \/ \E v \in Nodes : YieldTask(v)
  <2>1. /\ tasks' = tasks /\ pass' = pass /\ pred' = pred /\ pc' = pc /\ pc = "order"
        /\ UNCHANGED connectVars /\ UNCHANGED searchVars
    BY <1>3 DEF NextGeneration, YieldTask
  <2>2. GraphTypeOK' /\ CursorTypeOK' /\ SearchTypeOK' /\ Nodes' = Nodes
    BY <2>1, TypeFrame
  <2>3. OrderTypeOK'
    <3>1. CASE NextGeneration
      <4>1. \A v \in Nodes : Cardinality({w \in Ready : DiscoveredBefore(w, v)}) \in Nat
        <5> SUFFICES ASSUME NEW v \in Nodes
                     PROVE  Cardinality({w \in Ready : DiscoveredBefore(w, v)}) \in Nat
          OBVIOUS
        <5>1. {w \in Ready : DiscoveredBefore(w, v)} \subseteq Nodes /\ IsFiniteSet(Nodes)
          BY <1>1, FS_Interval DEF Ready
        <5> QED BY <5>1, FS_Subset, FS_CardinalityType
      <4>2. Len(sorted_ids) \in Nat
        BY DEF TypeOK, OrderTypeOK
      <4> DEFINE number(v) == Len(sorted_ids) + 1 + Cardinality({w \in Ready : DiscoveredBefore(w, v)})
      <4>3. \A v \in Nodes : number(v) \in Nat
        BY <4>1, <4>2
      <4>4. discovered' = [v \in Nodes |-> IF v \in Ready THEN number(v) ELSE discovered[v]]
        BY <3>1 DEF NextGeneration
      <4> HIDE DEF number
      <4>5. discovered' \in [Nodes -> Nat]
        BY <4>3, <4>4 DEF TypeOK, OrderTypeOK
      <4>6. generation' \subseteq Nodes /\ sorted_ids' = sorted_ids
        BY <3>1 DEF NextGeneration, Ready
      <4> QED BY <2>2, <4>5, <4>6 DEF TypeOK, OrderTypeOK
    <3>2. CASE \E v \in Nodes : YieldTask(v)
      <4>1. PICK v \in Nodes : YieldTask(v)
        BY <3>2
      <4>2. sorted_ids' \in Seq(Nodes)
        BY <4>1 DEF TypeOK, OrderTypeOK, YieldTask
      <4> QED BY <2>2, <4>1, <4>2 DEF TypeOK, OrderTypeOK, YieldTask
    <3> QED BY <1>3, <3>1, <3>2
  <2> QED BY <2>1, <2>2, <2>3 DEF TypeOK
<1>4. CASE Renumber
  <2>1. \A i \in Nodes : sorted_ids[i] \in Nodes
    BY <1>4, CompleteOrder DEF Renumber
  <2>2. \A i \in Nodes : tasks[sorted_ids[i]] \in TaskRecord
    BY <2>1, NodesType DEF TypeOK, GraphTypeOK
  <2>3. tasks' \in Seq(TaskRecord) /\ Len(tasks') = N
    BY <1>1, <1>4, <2>2 DEF Renumber
  <2>4. N' = N /\ Nodes' = Nodes
    BY <2>3 DEF N, Nodes
  <2>5. GraphTypeOK'
    <3>1. pred' \in [Nodes -> Seq(Nodes)]
      BY <1>4 DEF Renumber
    <3> QED BY <1>4, <2>3, <2>4, <3>1 DEF Renumber, GraphTypeOK
  <2>6. CursorTypeOK'
    <3>1. task' = 1 /\ dep' = 1 /\ subtask' = 1 /\ found' = FALSE
      BY <1>4 DEF Renumber
    <3>2. found' \in BOOLEAN
      BY <3>1
    <3>3. task' \in 1..N' + 1 /\ dep' \in Nat \ {0} /\ subtask' \in 1..N' + 1
      BY <1>1, <2>4, <3>1
    <3> QED BY <3>2, <3>3 DEF CursorTypeOK
  <2>7. SearchTypeOK'
    BY <1>1, <1>4, <2>4 DEF Renumber, TypeOK, SearchTypeOK
  <2>8. OrderTypeOK'
    BY <1>4, <2>4 DEF Renumber, TypeOK, OrderTypeOK, orderVars
  <2>9. pc' # "search"
    BY <1>4 DEF Renumber
  <2> QED BY <2>5, <2>6, <2>7, <2>8, <2>9 DEF TypeOK
<1> QED BY <1>2, <1>3, <1>4

\* Every step of sort(), and of write_tasks_mmd() after it, keeps the types.
LEMMA TypeStep == TypeOK /\ OrderInv /\ [Next]_vars => TypeOK'
<1>1. TypeOK /\ UNCHANGED vars => TypeOK'
  <2> SUFFICES ASSUME TypeOK, UNCHANGED vars PROVE TypeOK'
    OBVIOUS
  <2>1. GraphTypeOK' /\ CursorTypeOK' /\ SearchTypeOK' /\ OrderTypeOK' /\ Nodes' = Nodes
    BY TypeFrame DEF vars, connectVars, searchVars, orderVars
  <2> QED BY <2>1 DEF TypeOK, vars
<1> QED BY <1>1, ConnectType, SearchType, OrderType DEF Next
-----------------------------------------------------------------------------
\* Adding edges keeps what is linked.
LEMMA LinkedGrows ==
  ASSUME TypeOK, tasks' = tasks,
         \A v \in Nodes : Predecessors(v) \subseteq Predecessors(v)',
         NEW v \in Nodes, NEW k \in DOMAIN tasks[v].dependencies, Linked(v, k)
  PROVE  Linked(v, k)'
BY DEF Linked, Provides, Nodes, N

\* The only steps that change an edge set add to it, or end sort().
LEMMA EdgesGrow ==
  ASSUME TypeOK, AddEdge \/ LinkEdge
  PROVE  /\ \A v \in Nodes : Predecessors(v) \subseteq Predecessors(v)'
         /\ AddEdge => subtask \in Predecessors(task)'
<1>1. \A v \in Nodes : pred[v] \in Seq(Nodes)
  BY DEF TypeOK, GraphTypeOK
<1>2. CASE AddEdge
  <2>1. subtask \in Nodes /\ task \in Nodes
    BY <1>2 DEF AddEdge, Scanning, Connecting
  <2>2. CASE subtask \in Predecessors(task)
    BY <1>2, <2>2 DEF AddEdge, Predecessors
  <2>3. CASE subtask \notin Predecessors(task)
    <3>1. pred' = [pred EXCEPT ![task] = Append(@, subtask)]
      BY <1>2, <2>3 DEF AddEdge
    <3>2. \A v \in Nodes : pred'[v] = IF v = task THEN Append(pred[v], subtask) ELSE pred[v]
      BY <3>1 DEF TypeOK, GraphTypeOK
    <3>3. Elems(Append(pred[task], subtask)) = Elems(pred[task]) \cup {subtask}
      BY <1>1, <2>1, ElemsOfAppend
    <3>4. \A v \in Nodes : Elems(pred'[v]) = IF v = task THEN Elems(pred[v]) \cup {subtask} ELSE Elems(pred[v])
      BY <3>2, <3>3
    <3>5. \A v \in Nodes : Elems(pred[v]) \subseteq Elems(pred'[v])
      BY <3>4
    <3>6. \A v \in Nodes : Predecessors(v) \subseteq Predecessors(v)'
      BY <3>5 DEF Predecessors, Elems
    <3>7. subtask \in Elems(pred'[task])
      BY <2>1, <3>4
    <3>8. task' = task /\ subtask' = subtask + 1
      BY <1>2 DEF AddEdge
    <3>9. subtask \in Predecessors(task)'
      BY <3>7, <3>8 DEF Predecessors, Elems
    <3> QED BY <3>6, <3>9
  <2> QED BY <2>2, <2>3
<1>3. CASE LinkEdge
  <2> DEFINE e == Head(edges_to_add)
  <2>1. e \in Nodes \X Nodes
    BY <1>3 DEF LinkEdge, TypeOK, SearchTypeOK
  <2>2. pred' = [pred EXCEPT ![e[2]] = Append(@, e[1])]
    BY <1>3 DEF LinkEdge
  <2> HIDE DEF e
  <2>3. \A v \in Nodes : pred'[v] = IF v = e[2] THEN Append(pred[v], e[1]) ELSE pred[v]
    BY <2>2 DEF TypeOK, GraphTypeOK
  <2>4. Elems(Append(pred[e[2]], e[1])) = Elems(pred[e[2]]) \cup {e[1]}
    BY <1>1, <2>1, ElemsOfAppend
  <2>5. \A v \in Nodes : Elems(pred[v]) \subseteq Elems(pred'[v])
    BY <2>3, <2>4
  <2>6. ~AddEdge
    BY <1>3 DEF LinkEdge, AddEdge, Scanning, Connecting
  <2> QED BY <2>5, <2>6 DEF Predecessors, Elems
<1> QED BY <1>2, <1>3

\* A step that leaves the graph and the cursor alone keeps ConnectInv.
LEMMA ConnectFrame ==
  ASSUME TypeOK, ConnectInv, tasks' = tasks, UNCHANGED connectVars,
         \A v \in Nodes : Predecessors(v) \subseteq Predecessors(v)',
         pc' \in {"connect", "unsatisfied"} \/ task = N + 1
  PROVE  ConnectInv'
<1>1. N' = N /\ Nodes' = Nodes /\ Dependency' = Dependency
  BY DEF N, Nodes, Dependency, connectVars
<1>2. LinkedSoFar'
  BY <1>1, LinkedGrows DEF ConnectInv, LinkedSoFar, connectVars
<1>3. ScannedSoFar'
  BY <1>1 DEF ConnectInv, ScannedSoFar, connectVars, Provides
<1>4. CursorInv'
  BY <1>1 DEF ConnectInv, CursorInv, connectVars, Provides
<1> QED BY <1>2, <1>3, <1>4 DEF ConnectInv

\* At every step create_task_graph() has linked the dependencies behind its
\* cursor and only those, and the graph it leaves behind has them all.
LEMMA ConnectStep == TypeOK /\ OrderInv /\ ConnectInv /\ [Next]_vars => ConnectInv'
<1> SUFFICES ASSUME TypeOK, OrderInv, ConnectInv, [Next]_vars PROVE ConnectInv'
  OBVIOUS
<1>1. N \in Nat /\ Nodes = 1..N /\ tasks \in Seq(TaskRecord)
  BY NodesType DEF TypeOK, GraphTypeOK
<1>2. \A v \in Nodes : /\ tasks[v].dependencies \in Seq(Names)
                       /\ DOMAIN tasks[v].dependencies = 1..Len(tasks[v].dependencies)
                       /\ Len(tasks[v].dependencies) \in Nat
  <2> SUFFICES ASSUME NEW v \in Nodes
               PROVE  tasks[v].dependencies \in Seq(Names)
    BY LenProperties
  <2>1. tasks[v] \in TaskRecord
    BY <1>1, NodesType
  <2> QED BY <2>1 DEF TaskRecord
<1>3. task \in 1..N + 1 /\ dep \in Nat \ {0} /\ subtask \in 1..N + 1
  BY DEF TypeOK, CursorTypeOK
<1>4. LinkedSoFar /\ ScannedSoFar /\ CursorInv
  BY DEF ConnectInv
<1>5. CASE AddEdge \/ SkipSubtask
  <2>1. /\ task \in Nodes /\ subtask \in Nodes /\ dep \in DOMAIN tasks[task].dependencies
        /\ pc = "connect" /\ pc' = pc /\ tasks' = tasks /\ task' = task /\ dep' = dep
        /\ subtask' = subtask + 1
    BY <1>2, <1>3, <1>5 DEF AddEdge, SkipSubtask, Scanning, Connecting
  <2>2. N' = N /\ Nodes' = Nodes /\ Dependency' = Dependency
    BY <2>1 DEF N, Nodes, Dependency
  <2>3. \A v \in Nodes : Predecessors(v) \subseteq Predecessors(v)'
    BY <1>5, EdgesGrow DEF SkipSubtask, Predecessors, Elems
  <2>4. Provides(subtask, Dependency) => subtask \in Predecessors(task)'
    BY <1>5, EdgesGrow DEF SkipSubtask
  <2>5. LinkedSoFar'
    BY <1>4, <2>1, <2>2, <2>3, LinkedGrows DEF LinkedSoFar
  <2>6. ScannedSoFar'
    BY <1>1, <1>4, <2>1, <2>2, <2>3, <2>4 DEF ScannedSoFar, Provides
  <2>7. CursorInv'
    BY <1>1, <1>4, <1>5, <2>1, <2>2 DEF CursorInv, Provides, AddEdge, SkipSubtask
  <2> QED BY <2>5, <2>6, <2>7 DEF ConnectInv
<1>6. CASE NextDependency
  <2>1. /\ task \in Nodes /\ subtask > N /\ dep \in DOMAIN tasks[task].dependencies /\ found
        /\ pc = "connect" /\ pc' = pc /\ tasks' = tasks /\ pred' = pred
        /\ task' = task /\ dep' = dep + 1 /\ subtask' = 1 /\ found' = FALSE
    BY <1>2, <1>3, <1>6 DEF NextDependency, Scanning, Connecting
  <2>2. N' = N /\ Nodes' = Nodes
    BY <2>1 DEF N, Nodes
  <2>3. Linked(task, dep)
    BY <1>1, <1>3, <1>4, <2>1 DEF Linked, ScannedSoFar, CursorInv, Dependency
  <2>4. \A v \in Nodes : \A k \in DOMAIN tasks[v].dependencies : Linked(v, k)' <=> Linked(v, k)
    BY <2>1, <2>2 DEF Linked, Provides, Predecessors
  <2>5. LinkedSoFar'
    <3> SUFFICES ASSUME NEW v \in Nodes, NEW k \in DOMAIN tasks[v].dependencies,
                        v < task \/ (v = task /\ k < dep + 1)
                 PROVE  Linked(v, k)
      BY <2>1, <2>2, <2>4 DEF LinkedSoFar
    <3>1. k \in Nat
      BY <1>2
    <3>2. v < task \/ (v = task /\ k < dep) \/ (v = task /\ k = dep)
      BY <1>3, <3>1
    <3> QED BY <1>4, <2>3, <3>2 DEF LinkedSoFar
  <2>6. ScannedSoFar'
    BY <1>1, <2>1, <2>2 DEF ScannedSoFar
  <2>7. CursorInv'
    BY <2>1 DEF CursorInv
  <2> QED BY <2>5, <2>6, <2>7 DEF ConnectInv
<1>7. CASE NextTask
  <2>1. /\ task \in Nodes /\ dep > Len(tasks[task].dependencies)
        /\ pc = "connect" /\ pc' = pc /\ tasks' = tasks /\ pred' = pred
        /\ task' = task + 1 /\ dep' = 1 /\ subtask' = subtask /\ found' = found
    BY <1>7 DEF NextTask, Connecting
  <2>2. N' = N /\ Nodes' = Nodes
    BY <2>1 DEF N, Nodes
  <2>3. dep \notin DOMAIN tasks[task].dependencies
    BY <1>2, <1>3, <2>1
  <2>4. ~found /\ subtask = 1
    BY <1>4, <2>1, <2>3 DEF CursorInv
  <2>5. \A v \in Nodes : \A k \in DOMAIN tasks[v].dependencies : Linked(v, k)' <=> Linked(v, k)
    BY <2>1, <2>2 DEF Linked, Provides, Predecessors
  <2>6. LinkedSoFar'
    <3> SUFFICES ASSUME NEW v \in Nodes, NEW k \in DOMAIN tasks[v].dependencies,
                        v < task + 1 \/ (v = task + 1 /\ k < 1)
                 PROVE  Linked(v, k)
      BY <2>1, <2>2, <2>5 DEF LinkedSoFar
    <3>1. k \in Nat \ {0} /\ k <= Len(tasks[v].dependencies)
      BY <1>2
    <3>2. v < task \/ (v = task /\ k < dep)
      BY <1>1, <1>2, <1>3, <2>1, <3>1
    <3> QED BY <1>4, <3>2 DEF LinkedSoFar
  <2>7. ScannedSoFar'
    BY <1>1, <2>1, <2>2, <2>4 DEF ScannedSoFar
  <2>8. CursorInv'
    BY <2>1, <2>4 DEF CursorInv
  <2> QED BY <2>6, <2>7, <2>8 DEF ConnectInv
<1>8. CASE Renumber
  <2>1. /\ task' = 1 /\ dep' = 1 /\ subtask' = 1 /\ found' = FALSE /\ pc' = "connect"
    BY <1>8 DEF Renumber
  <2>2. Nodes' \subseteq Nat \ {0}
    BY <1>8, TypeStep DEF Nodes
  <2>3. \A v \in Nodes' : DOMAIN tasks'[v].dependencies \subseteq Nat \ {0}
    <3> SUFFICES ASSUME NEW v \in Nodes' PROVE DOMAIN tasks'[v].dependencies \subseteq Nat \ {0}
      OBVIOUS
    <3>1. TypeOK'
      BY <1>8, TypeStep
    <3>2. tasks' \in Seq(TaskRecord) /\ Nodes' = 1..Len(tasks')
      BY <3>1 DEF TypeOK, GraphTypeOK, Nodes, N
    <3>3. tasks'[v] \in TaskRecord
      BY <3>2
    <3> QED BY <3>3 DEF TaskRecord
  <2>4. LinkedSoFar' /\ ScannedSoFar' /\ CursorInv'
    BY <2>1, <2>2, <2>3 DEF LinkedSoFar, ScannedSoFar, CursorInv
  <2> QED BY <2>4 DEF ConnectInv
<1>9. CASE LinkEdge
  <2>1. task = N + 1
    BY <1>4, <1>9 DEF CursorInv, LinkEdge
  <2>2. tasks' = tasks /\ UNCHANGED connectVars
    BY <1>9 DEF LinkEdge
  <2> QED BY <1>9, <2>1, <2>2, ConnectFrame, EdgesGrow
<1>10. CASE ~\/ AddEdge \/ SkipSubtask \/ NextDependency \/ NextTask \/ Renumber \/ LinkEdge
  <2>1. /\ tasks' = tasks /\ pred' = pred /\ UNCHANGED connectVars
        /\ \/ pc' \in {"connect", "unsatisfied"}
           \/ pc \notin {"connect", "unsatisfied"}
           \/ Connected
    BY <1>10 DEF Next, vars, connectVars, Unsatisfied, Connected, SkipNode, StartSearch, SearchFinds,
         SearchAncestors, SearchFails, LeavesDone, FindCycle, NoCycle, NextGeneration,
         YieldTask, Done
  <2>2. pc' \in {"connect", "unsatisfied"} \/ task = N + 1
    BY <1>1, <1>3, <1>4, <2>1 DEF CursorInv, Connected
  <2>3. \A v \in Nodes : Predecessors(v) \subseteq Predecessors(v)'
    BY <2>1 DEF Predecessors, Elems
  <2> QED BY <2>1, <2>2, <2>3, ConnectFrame
<1> QED BY <1>5, <1>6, <1>7, <1>8, <1>9, <1>10
-----------------------------------------------------------------------------
\* Whether there is a cycle depends on nothing but the edges.
LEMMA CyclicFrame ==
  ASSUME tasks' = tasks, pred' = pred
  PROVE  Cyclic' <=> Cyclic
BY DEF Cyclic, Nodes, N, Predecessors, Elems

\* Generations are complete: what is ordered has no predecessor outside the
\* order, and once detect_cycles() has passed the edges stay acyclic.
LEMMA OrderStep == TypeOK /\ OrderInv /\ [Next]_vars => OrderInv'
<1> SUFFICES ASSUME TypeOK, OrderInv, [Next]_vars PROVE OrderInv'
  OBVIOUS
<1>1. sorted_ids \in Seq(Nodes) /\ DOMAIN sorted_ids = 1..Len(sorted_ids) /\ Len(sorted_ids) \in Nat
  BY LenProperties DEF TypeOK, OrderTypeOK
<1>2. CASE NextGeneration
  <2>1. /\ pc = "order" /\ pc' = pc /\ pass' = pass /\ tasks' = tasks /\ pred' = pred
        /\ sorted_ids' = sorted_ids /\ generation' = Ready
    BY <1>2 DEF NextGeneration
  <2>2. Ready \cap Elems(sorted_ids) = {}
        /\ \A v \in Ready : Predecessors(v) \subseteq Elems(sorted_ids)
    BY DEF Ready
  <2> QED BY <2>1, <2>2, CyclicFrame DEF OrderInv, Predecessors, Elems
<1>3. CASE \E v \in Nodes : YieldTask(v)
  <2>1. PICK v \in Nodes : YieldTask(v)
    BY <1>3
  <2>2. /\ pc = "order" /\ pc' = pc /\ pass' = pass /\ tasks' = tasks /\ pred' = pred
        /\ v \in generation /\ generation' = generation \ {v}
        /\ sorted_ids' = Append(sorted_ids, v)
    BY <2>1 DEF YieldTask
  <2> DEFINE L == Len(sorted_ids)
  <2>3. /\ DOMAIN sorted_ids' = 1..L + 1
        /\ \A i \in 1..L : sorted_ids'[i] = sorted_ids[i]
        /\ sorted_ids'[L + 1] = v
        /\ Elems(sorted_ids)' = Elems(sorted_ids) \cup {v}
    <3>1. Elems(Append(sorted_ids, v)) = Elems(sorted_ids) \cup {v}
      BY <1>1, ElemsOfAppend
    <3> QED BY <1>1, <2>2, <3>1, ElemsOfAppend DEF Elems
  <2>4. v \notin Elems(sorted_ids)
    BY <2>2 DEF OrderInv
  <2>5. \A u : Predecessors(u)' = Predecessors(u)
    BY <2>2 DEF Predecessors, Elems
  <2>6. pc' = "order" => pass' = "sort" /\ ~Cyclic'
    BY <2>2, CyclicFrame DEF OrderInv
  <2>7. \A i, j \in DOMAIN sorted_ids' : sorted_ids'[i] = sorted_ids'[j] => i = j
    <3>1. \A i \in 1..L : sorted_ids[i] # v
      BY <1>1, <2>4 DEF Elems
    <3>2. \A i \in 1..L + 1 : i \in 1..L \/ i = L + 1
      BY <1>1
    <3> QED BY <1>1, <2>3, <3>1, <3>2 DEF OrderInv
  <2>8. generation' \cap Elems(sorted_ids)' = {}
    BY <2>2, <2>3 DEF OrderInv
  <2>9. \A i \in DOMAIN sorted_ids' : \A u \in Predecessors(sorted_ids'[i]) :
          \E j \in DOMAIN sorted_ids' : j < i /\ sorted_ids'[j] = u
    <3> SUFFICES ASSUME NEW i \in 1..L + 1, NEW u \in Predecessors(sorted_ids'[i])
                 PROVE  \E j \in 1..L + 1 : j < i /\ sorted_ids'[j] = u
      BY <2>3
    <3>1. CASE i \in 1..L
      <4>1. PICK j \in 1..L : j < i /\ sorted_ids[j] = u
        BY <1>1, <2>2, <2>3, <3>1 DEF OrderInv
      <4> QED BY <1>1, <2>3, <4>1
    <3>2. CASE i = L + 1
      <4>1. PICK j \in 1..L : sorted_ids[j] = u
        BY <1>1, <2>2, <2>3, <3>2 DEF OrderInv, Elems
      <4> QED BY <1>1, <2>3, <3>2, <4>1
    <3> QED BY <1>1, <3>1, <3>2
  <2>10. \A w \in generation' : Predecessors(w)' \subseteq Elems(sorted_ids)'
    BY <2>2, <2>3, <2>5 DEF OrderInv
  <2>11. \A i \in DOMAIN sorted_ids' : \A u \in Predecessors(sorted_ids[i])' :
          \E j \in DOMAIN sorted_ids' : j < i /\ sorted_ids'[j] = u
    <3>1. \A i : Predecessors(sorted_ids[i])' = Predecessors(sorted_ids'[i])
      BY <2>2 DEF Predecessors, Elems
    <3> QED BY <2>9, <3>1
  <2> QED BY <2>2, <2>6, <2>7, <2>8, <2>10, <2>11 DEF OrderInv
<1>4. CASE Renumber
  BY <1>4 DEF OrderInv, Renumber, orderVars, Elems
<1>5. CASE NoCycle
  <2>1. tasks' = tasks /\ pred' = pred /\ pass' = pass /\ UNCHANGED orderVars
        /\ pc = "link" /\ ~Cyclic /\ pc' = (IF pass = "sort" THEN "order" ELSE "written")
    BY <1>5 DEF NoCycle
  <2>2. CASE pass = "sort"
    <3>1. sorted_ids' = << >> /\ generation' = {}
      BY <2>1, <2>2 DEF OrderInv, orderVars
    <3> QED BY <2>1, <2>2, <3>1, CyclicFrame DEF OrderInv, Elems
  <2>3. CASE pass # "sort"
    BY <2>1, <2>3 DEF OrderInv, orderVars, Elems
  <2> QED BY <2>2, <2>3
<1>6. CASE ~\/ NextGeneration \/ (\E v \in Nodes : YieldTask(v)) \/ Renumber \/ NoCycle
  <2>1. pass' = pass /\ UNCHANGED orderVars
        /\ (pc' = "order" => pc = "order" /\ tasks' = tasks /\ pred' = pred)
        /\ (pc = "order" => pc' = "order")
    BY <1>6 DEF Next, vars, orderVars, AddEdge, SkipSubtask, NextDependency, Unsatisfied, NextTask,
         Connected, SkipNode, StartSearch, SearchFinds, SearchAncestors, SearchFails, LeavesDone,
         LinkEdge, FindCycle, Done, Scanning, Connecting
  <2>2. CASE pc = "order"
    BY <2>1, <2>2, CyclicFrame DEF OrderInv, orderVars, Predecessors, Elems
  <2>3. CASE pc # "order"
    BY <2>1, <2>3 DEF OrderInv, orderVars, Elems
  <2> QED BY <2>2, <2>3
<1> QED BY <1>2, <1>3, <1>4, <1>5, <1>6

\* The order that sort() returns respects every declared dependency.
LEMMA DependenciesStep ==
  TypeOK /\ OrderInv /\ ConnectInv /\ DependenciesRunFirst /\ [Next]_vars
    => DependenciesRunFirst'
<1> SUFFICES ASSUME TypeOK, OrderInv, ConnectInv, DependenciesRunFirst, [Next]_vars
             PROVE  DependenciesRunFirst'
  OBVIOUS
<1>1. CASE ~Renumber
  <2>1. tasks' = tasks /\ pass' = pass
    BY <1>1 DEF Next, vars, AddEdge, SkipSubtask, NextDependency, Unsatisfied, NextTask, Connected,
         SkipNode, StartSearch, SearchFinds, SearchAncestors, SearchFails, LeavesDone, LinkEdge,
         FindCycle, NoCycle, NextGeneration, YieldTask, Done
  <2> QED BY <2>1 DEF DependenciesRunFirst, IsSorted, Nodes, N, Provides
<1>2. CASE Renumber
  <2>1. N \in Nat /\ Nodes = 1..N
    BY NodesType
  <2>2. /\ pc = "order" /\ Elems(sorted_ids) = Nodes
        /\ tasks' = [i \in Nodes |-> tasks[sorted_ids[i]]]
    BY <1>2 DEF Renumber
  <2>3. DOMAIN sorted_ids = Nodes /\ \A i \in Nodes : sorted_ids[i] \in Nodes
    BY <2>2, CompleteOrder
  <2>4. N' = N /\ Nodes' = Nodes
    BY <2>1, <2>2 DEF N, Nodes
  <2>5. \A v \in Nodes : \A k \in DOMAIN tasks[v].dependencies : Linked(v, k)
    BY <2>1, <2>2 DEF ConnectInv, LinkedSoFar, CursorInv
  <2> SUFFICES ASSUME NEW j \in Nodes, NEW k \in DOMAIN tasks[sorted_ids[j]].dependencies
               PROVE  LET d == tasks[sorted_ids[j]].dependencies[k]
                      IN  /\ \E i \in Nodes : Provides(sorted_ids[i], d)
                          /\ \A i \in Nodes : Provides(sorted_ids[i], d) => i < j
    BY <2>2, <2>4 DEF DependenciesRunFirst, Provides
  <2> DEFINE d == tasks[sorted_ids[j]].dependencies[k]
  <2>6. /\ \E u \in Nodes : Provides(u, d)
        /\ \A u \in Nodes : Provides(u, d) => u \in Predecessors(sorted_ids[j])
    BY <2>3, <2>5 DEF Linked
  <2> HIDE DEF d
  <2>7. \E i \in Nodes : Provides(sorted_ids[i], d)
    BY <2>2, <2>3, <2>6 DEF Elems
  <2>8. ASSUME NEW i \in Nodes, Provides(sorted_ids[i], d) PROVE i < j
    <3>1. sorted_ids[i] \in Predecessors(sorted_ids[j])
      BY <2>3, <2>6, <2>8
    <3>2. PICK m \in Nodes : m < j /\ sorted_ids[m] = sorted_ids[i]
      BY <2>2, <2>3, <3>1 DEF OrderInv
    <3>3. m = i
      BY <2>3, <3>2 DEF OrderInv
    <3> QED BY <3>2, <3>3
  <2> QED BY <2>7, <2>8 DEF d
<1> QED BY <1>1, <1>2
-----------------------------------------------------------------------------
\* A finite set of numbers has a greatest one.
LEMMA GreatestOfMany ==
  ASSUME NEW S \in SUBSET Nat, IsFiniteSet(S), S # {}
  PROVE  \E r \in S : \A s \in S : s <= r
<1> DEFINE Above(r) == {s \in S : r < s}
           T == {Above(r) : r \in S}
<1>1. T \subseteq FiniteSubsetsOf(S) /\ T # {}
  <2>1. \A r \in S : Above(r) \in SUBSET S /\ IsFiniteSet(Above(r))
    BY FS_Subset
  <2> QED BY <2>1 DEF FiniteSubsetsOf
<1>2. IsWellFoundedOn(StrictSubsetOrdering(S), FiniteSubsetsOf(S))
  BY FS_StrictSubsetOrderingWellFounded
<1>3. PICK X \in T : \A Y \in T : <<Y, X>> \notin StrictSubsetOrdering(S)
  <2> HIDE DEF T
  <2> QED BY <1>1, <1>2, WFMin
<1>4. PICK r \in S : X = Above(r)
  OBVIOUS
<1>5. ASSUME NEW s \in S, r < s PROVE FALSE
  <2>1. /\ \A t \in S : s < t => r < t
        /\ s \in Above(r) /\ s \notin Above(s)
    BY <1>5
  <2>2. <<Above(s), Above(r)>> \in StrictSubsetOrdering(S)
    <3>1. Above(s) \subseteq Above(r) /\ Above(r) \subseteq S
      BY <2>1
    <3> QED BY <2>1, <3>1 DEF StrictSubsetOrdering
  <2> QED BY <1>3, <1>4, <2>2
<1> QED BY <1>5

\* The predecessor visited last has a discovery number.
LEMMA LastVisitedType ==
  ASSUME TypeOK, NEW v \in Nodes
  PROVE  LastVisited(v) \in Nat
<1>1. Predecessors(v) \subseteq Nodes /\ IsFiniteSet(Nodes)
  <2>1. Predecessors(v) \subseteq Nodes
    BY DEF TypeOK, GraphTypeOK, Predecessors, Elems
  <2> QED BY <2>1, NodesType, FS_Interval
<1>2. discovered \in [Nodes -> Nat]
  BY DEF TypeOK, OrderTypeOK
<1> DEFINE numbers == {discovered[u] : u \in Predecessors(v)}
<1>3. IsFiniteSet(Predecessors(v))
  BY <1>1, FS_Subset
<1>4. IsFiniteSet(numbers)
  <2> DEFINE f == [u \in Predecessors(v) |-> discovered[u]]
  <2>1. f \in Surjection(Predecessors(v), numbers)
    BY DEF Surjection
  <2> HIDE DEF f, numbers
  <2> QED BY <1>3, <2>1, FS_Surjection
<1>5. Visited(v) = numbers \cup {0}
  BY DEF Visited
<1>6. IsFiniteSet(Visited(v))
  <2> HIDE DEF numbers
  <2> QED BY <1>4, <1>5, FS_AddElement
<1>7. Visited(v) \in SUBSET Nat /\ Visited(v) # {}
  BY <1>1, <1>2, <1>5
<1>8. \E r \in Visited(v) : \A s \in Visited(v) : s <= r
  BY <1>6, <1>7, GreatestOfMany
<1>9. LastVisited(v) \in Visited(v)
  BY <1>8 DEF LastVisited
<1> QED BY <1>7, <1>9

\* Of two ready tasks with the same predecessors networkx discovers the first
\* one first.
LEMMA DiscoveredInOrder ==
  ASSUME TypeOK, NextGeneration, NEW v \in Ready, NEW w \in Ready,
         v < w, Predecessors(v) = Predecessors(w)
  PROVE  discovered'[v] < discovered'[w]
<1> DEFINE before(x) == {y \in Ready : DiscoveredBefore(y, x)}
<1>1. N \in Nat /\ Nodes = 1..N /\ Ready \subseteq Nodes
  BY NodesType DEF Ready
<1>2. LastVisited(v) = LastVisited(w)
  BY DEF LastVisited, Visited
<1>3. \A x \in Ready : LastVisited(x) \in Nat /\ x \in Nat
  BY <1>1, LastVisitedType
<1>4. /\ \A y \in Ready : DiscoveredBefore(y, v) => DiscoveredBefore(y, w)
      /\ DiscoveredBefore(v, w) /\ ~DiscoveredBefore(v, v)
  <2> DEFINE last(x) == LastVisited(x)
  <2>1. \A x \in Ready : last(x) \in Nat /\ x \in Nat
    BY <1>3
  <2>2. last(v) = last(w)
    BY <1>2
  <2>3. \A x, y : DiscoveredBefore(y, x) <=>
          last(y) < last(x) \/ (last(y) = last(x) /\ y < x)
    BY DEF DiscoveredBefore
  <2> HIDE DEF last
  <2> QED BY <2>1, <2>2, <2>3
<1>5. before(v) \subseteq before(w) /\ v \in before(w) /\ v \notin before(v)
  BY <1>4
<1>6. IsFiniteSet(before(v)) /\ IsFiniteSet(before(w))
  <2>1. before(v) \subseteq Nodes /\ before(w) \subseteq Nodes
    BY <1>1
  <2>2. IsFiniteSet(Nodes)
    BY <1>1, FS_Interval
  <2> QED BY <2>1, <2>2, FS_Subset
<1>7. discovered'[v] = Len(sorted_ids) + 1 + Cardinality(before(v))
      /\ discovered'[w] = Len(sorted_ids) + 1 + Cardinality(before(w))
  BY <1>1 DEF NextGeneration
<1>8. Len(sorted_ids) \in Nat
  BY DEF TypeOK, OrderTypeOK
<1> HIDE DEF before
<1>9. Cardinality(before(v)) < Cardinality(before(w))
      /\ Cardinality(before(v)) \in Nat /\ Cardinality(before(w)) \in Nat
  BY <1>5, <1>6, FS_Subset, FS_CardinalityType
<1> QED BY <1>7, <1>8, <1>9

\* Once the graph is made, siblings have the same predecessors.
LEMMA SiblingsSharePredecessors ==
  ASSUME TypeOK, ConnectInv, EdgesAreDeclared, pc = "order",
         NEW v \in Nodes, NEW w \in Nodes, Siblings(v, w)
  PROVE  Predecessors(v) = Predecessors(w)
<1>1. task = N + 1 /\ N \in Nat /\ Nodes = 1..N
  BY NodesType DEF ConnectInv, CursorInv
<1>2. \A x \in Nodes : \A k \in DOMAIN tasks[x].dependencies : Linked(x, k)
  BY <1>1 DEF ConnectInv, LinkedSoFar
<1>3. \A x \in Nodes : Predecessors(x) \subseteq Nodes
  BY DEF TypeOK, GraphTypeOK, Predecessors, Elems
<1>4. \A x \in Nodes : ~IsAuto(x) =>
        Predecessors(x) = {u \in Nodes : DeclaredParent(u, x)}
  BY <1>2, <1>3 DEF EdgesAreDeclared, DeclaredParent, Linked
<1>5. \A u \in Nodes : DeclaredParent(u, v) <=> DeclaredParent(u, w)
  BY DEF Siblings, DeclaredParent
<1> QED BY <1>4, <1>5 DEF Siblings

\* Edges that no manifest declares lead to automatic tasks.
LEMMA DeclaredStep ==
  TypeOK /\ OrderInv /\ EdgesAreDeclared /\ [Next]_vars => EdgesAreDeclared'
<1> SUFFICES ASSUME TypeOK, OrderInv, EdgesAreDeclared, [Next]_vars
             PROVE  EdgesAreDeclared'
  OBVIOUS
<1>1. edges_to_add \in Seq(Nodes \X Nodes)
      /\ DOMAIN edges_to_add = 1..Len(edges_to_add) /\ Len(edges_to_add) \in Nat
  BY LenProperties DEF TypeOK, SearchTypeOK
<1>2. \A v \in Nodes : pred[v] \in Seq(Nodes)
  BY DEF TypeOK, GraphTypeOK
<1>3. CASE Renumber
  <2>1. pc = "order" /\ pc' = "connect" /\ edges_to_add' = edges_to_add /\ N \in Nat
        /\ pred' = [v \in Nodes |-> << >>]
        /\ tasks' = [i \in Nodes |-> tasks[sorted_ids[i]]]
    BY <1>3, NodesType DEF Renumber
  <2>2. Nodes' = Nodes
    BY <2>1, NodesType DEF N, Nodes
  <2>3. \A v \in Nodes : pred'[v] = << >>
    BY <2>1
  <2>4. \A v \in Nodes : Predecessors(v)' = {}
    BY <2>3 DEF Predecessors, Elems
  <2> QED BY <2>1, <2>2, <2>4 DEF EdgesAreDeclared
<1>4. CASE AddEdge
  <2>1. /\ tasks' = tasks /\ edges_to_add' = edges_to_add /\ pc' = pc /\ pc = "connect"
        /\ task \in Nodes /\ subtask \in Nodes /\ dep <= Len(tasks[task].dependencies)
        /\ Provides(subtask, Dependency)
        /\ pred' = IF subtask \in Predecessors(task) THEN pred
                   ELSE [pred EXCEPT ![task] = Append(@, subtask)]
    BY <1>4 DEF AddEdge, Scanning, Connecting, searchVars
  <2>2. Nodes' = Nodes
    BY <2>1 DEF Nodes, N
  <2>3. DeclaredParent(subtask, task)
    <3>1. tasks[task] \in TaskRecord
      BY <2>1, NodesType DEF TypeOK, GraphTypeOK
    <3>2. dep \in DOMAIN tasks[task].dependencies
      BY <2>1, <3>1 DEF TypeOK, CursorTypeOK, TaskRecord
    <3> QED BY <2>1, <3>2 DEF DeclaredParent, Dependency
  <2>4. \A v \in Nodes : pred'[v] = pred[v] \/ (v = task /\ pred'[v] = Append(pred[v], subtask))
    BY <2>1 DEF TypeOK, GraphTypeOK
  <2>5. Elems(Append(pred[task], subtask)) = Elems(pred[task]) \cup {subtask}
    BY <1>2, <2>1, ElemsOfAppend
  <2>6. \A v \in Nodes : \A u \in Predecessors(v)' :
          u \in Predecessors(v) \/ (v = task /\ u = subtask)
    BY <2>4, <2>5 DEF Predecessors, Elems
  <2>7. \A u, v : DeclaredParent(u, v)' <=> DeclaredParent(u, v)
    BY <2>1 DEF DeclaredParent, Provides
  <2> QED BY <2>1, <2>2, <2>3, <2>6, <2>7 DEF EdgesAreDeclared, IsAuto
<1>5. CASE LinkEdge
  <2> DEFINE e == Head(edges_to_add)
  <2>1. /\ tasks' = tasks /\ edges_to_add' = Tail(edges_to_add) /\ pc' = pc /\ pc = "link"
        /\ edges_to_add # << >>
        /\ pred' = [pred EXCEPT ![e[2]] = Append(@, e[1])]
    BY <1>5 DEF LinkEdge
  <2>2. Nodes' = Nodes
    BY <2>1 DEF Nodes, N
  <2>3. e \in Nodes \X Nodes /\ IsAuto(e[2])
    BY <1>1, <2>1 DEF EdgesAreDeclared
  <2> HIDE DEF e
  <2>4. \A v \in Nodes : ~IsAuto(v) => pred'[v] = pred[v]
    BY <2>1, <2>3 DEF TypeOK, GraphTypeOK
  <2>5. \A i \in DOMAIN edges_to_add' : IsAuto(edges_to_add'[i][2])
    BY <1>1, <2>1 DEF EdgesAreDeclared
  <2>6. \A u, v : DeclaredParent(u, v)' <=> DeclaredParent(u, v)
    BY <2>1 DEF DeclaredParent, Provides
  <2>7. \A v \in Nodes : ~IsAuto(v) => Predecessors(v)' = Predecessors(v)
    BY <2>4 DEF Predecessors, Elems
  <2> QED BY <2>1, <2>2, <2>5, <2>6, <2>7 DEF EdgesAreDeclared, IsAuto
<1>6. CASE SearchFinds
  <2>1. PICK c \in Candidates(Head(queue), node) :
          edges_to_add' = Append(edges_to_add, <<node, c>>)
    BY <1>6 DEF SearchFinds
  <2>2. tasks' = tasks /\ pred' = pred /\ pc' = "leaves" /\ node \in Nodes
    BY <1>6 DEF SearchFinds, TypeOK
  <2>3. IsAuto(c) /\ c \in Nodes
    BY DEF Candidates, Successors
  <2>4. \A i \in DOMAIN edges_to_add' : IsAuto(edges_to_add'[i][2])
    <3>1. /\ DOMAIN edges_to_add' = 1..Len(edges_to_add) + 1
          /\ edges_to_add'[Len(edges_to_add) + 1] = <<node, c>>
          /\ \A i \in 1..Len(edges_to_add) : edges_to_add'[i] = edges_to_add[i]
      BY <1>1, <2>1, <2>2, <2>3, ElemsOfAppend
    <3> QED BY <1>1, <2>3, <3>1 DEF EdgesAreDeclared
  <2> QED BY <2>2, <2>4
       DEF EdgesAreDeclared, IsAuto, DeclaredParent, Provides, Predecessors, Elems, Nodes, N
<1>7. CASE ~\/ AddEdge \/ SearchFinds \/ LinkEdge \/ Renumber
  <2>1. /\ tasks' = tasks /\ pred' = pred /\ edges_to_add' = edges_to_add
        /\ pc' = "order" => pc = "order" \/ edges_to_add = << >>
    BY <1>7 DEF Next, vars, searchVars, SkipSubtask, NextDependency, Unsatisfied, NextTask,
         Connected, SkipNode, StartSearch, SearchAncestors, SearchFails, LeavesDone,
         FindCycle, NoCycle, NextGeneration, YieldTask, Done
  <2> QED BY <2>1
       DEF EdgesAreDeclared, IsAuto, DeclaredParent, Provides, Predecessors, Elems, Nodes, N
<1> QED BY <1>3, <1>4, <1>5, <1>6, <1>7

\* Siblings are ready together, and the stable sort of sort_generation() keeps
\* the order in which they were discovered.
LEMMA SiblingsStep ==
  ASSUME TypeOK, ConnectInv, OrderInv, EdgesAreDeclared, SiblingsInv, [Next]_vars
  PROVE  SiblingsInv'
<1> DEFINE L == Len(sorted_ids)
<1>1. sorted_ids \in Seq(Nodes) /\ DOMAIN sorted_ids = 1..L /\ L \in Nat
  BY LenProperties DEF TypeOK, OrderTypeOK
<1>2. CASE pc = "order" /\ pc' = "order" /\ tasks' = tasks
  <2>1. Nodes' = Nodes /\ \A v, w : Siblings(v, w)' <=> Siblings(v, w)
    BY <1>2 DEF Nodes, N, Siblings, IsAuto
  <2> SUFFICES ASSUME NEW v \in Nodes, NEW w \in Nodes, Siblings(v, w)
               PROVE  /\ v \in generation' \cup Elems(sorted_ids)'
                           <=> w \in generation' \cup Elems(sorted_ids)'
                      /\ v \in generation' /\ w \in generation'
                           => discovered'[v] < discovered'[w]
                      /\ \A j \in DOMAIN sorted_ids' : sorted_ids'[j] = w =>
                           \E i \in DOMAIN sorted_ids' : i < j /\ sorted_ids'[i] = v
    BY <2>1 DEF SiblingsInv
  <2>2. /\ v \in generation \cup Elems(sorted_ids) <=> w \in generation \cup Elems(sorted_ids)
        /\ v \in generation /\ w \in generation => discovered[v] < discovered[w]
        /\ \A j \in 1..L : sorted_ids[j] = w => \E i \in 1..L : i < j /\ sorted_ids[i] = v
    BY <1>1, <1>2 DEF SiblingsInv
  <2>3. CASE NextGeneration
    <3>1. generation = {} /\ generation' = Ready /\ sorted_ids' = sorted_ids
      BY <2>3 DEF NextGeneration
    <3>2. Predecessors(v) = Predecessors(w)
      BY <1>2, SiblingsSharePredecessors
    <3>3. v \in Ready <=> w \in Ready
      BY <2>2, <3>1, <3>2 DEF Ready
    <3>4. v \in Ready => discovered'[v] < discovered'[w]
      BY <2>3, <3>2, <3>3, DiscoveredInOrder DEF Siblings
    <3> QED BY <1>1, <2>2, <3>1, <3>3, <3>4 DEF Elems
  <2>4. CASE \E x \in Nodes : YieldTask(x)
    <3>1. PICK x \in Nodes : YieldTask(x)
      BY <2>4
    <3>2. /\ x \in generation /\ generation' = generation \ {x} /\ discovered' = discovered
          /\ sorted_ids' = Append(sorted_ids, x)
          /\ \A y \in generation : SortsBefore(x, y)
      BY <3>1 DEF YieldTask
    <3>3. /\ DOMAIN sorted_ids' = 1..L + 1 /\ sorted_ids'[L + 1] = x
          /\ \A i \in 1..L : sorted_ids'[i] = sorted_ids[i]
          /\ Elems(sorted_ids') = Elems(sorted_ids) \cup {x}
      BY <1>1, <3>2, ElemsOfAppend
    <3>4. Elems(sorted_ids)' = Elems(sorted_ids) \cup {x}
      BY <3>3 DEF Elems
    <3>5. ASSUME x = w PROVE v \in Elems(sorted_ids)
      <4>1. ASSUME v \in generation PROVE FALSE
        <5>1. SortsBefore(w, v) /\ discovered[v] < discovered[w]
          BY <2>2, <3>2, <3>5, <4>1
        <5>2. tasks[w].config = tasks[v].config
              /\ tasks[v].config \in Nat /\ discovered[v] \in Nat /\ discovered[w] \in Nat
          <6>1. tasks[v] \in TaskRecord
            BY NodesType DEF TypeOK, GraphTypeOK
          <6>2. tasks[v].config \in Nat
            BY <6>1, NamesAssumption DEF TaskRecord
          <6> QED BY <6>2 DEF TypeOK, OrderTypeOK, Siblings
        <5> QED BY <5>1, <5>2 DEF SortsBefore
      <4> QED BY <2>2, <3>2, <3>5, <4>1
    <3>6. \A j \in 1..L + 1 : sorted_ids'[j] = w =>
            \E i \in 1..L + 1 : i < j /\ sorted_ids'[i] = v
      <4> SUFFICES ASSUME NEW j \in 1..L + 1, sorted_ids'[j] = w
                   PROVE  \E i \in 1..L + 1 : i < j /\ sorted_ids'[i] = v
        OBVIOUS
      <4>1. CASE j \in 1..L
        BY <1>1, <2>2, <3>3, <4>1
      <4>2. CASE j = L + 1
        <5>1. PICK i \in 1..L : sorted_ids[i] = v
          BY <1>1, <3>3, <3>5, <4>2 DEF Elems
        <5> QED BY <1>1, <3>3, <4>2, <5>1
      <4> QED BY <1>1, <4>1, <4>2
    <3>7. v \in generation' \cup Elems(sorted_ids)' <=> w \in generation' \cup Elems(sorted_ids)'
      BY <2>2, <3>2, <3>4
    <3> QED BY <2>2, <3>2, <3>3, <3>6, <3>7
  <2>5. CASE UNCHANGED orderVars
    BY <1>1, <2>2, <2>5 DEF orderVars, Elems
  <2> QED BY <1>2, <2>3, <2>4, <2>5
       DEF Next, vars, orderVars, AddEdge, SkipSubtask, NextDependency, Unsatisfied, NextTask,
         Connected, SkipNode, StartSearch, SearchFinds, SearchAncestors, SearchFails, LeavesDone,
         LinkEdge, FindCycle, NoCycle, Renumber, Done, Scanning, Connecting
<1>3. CASE pc # "order" /\ pc' = "order"
  <2>1. sorted_ids' = << >> /\ generation' = {}
    BY <1>3 DEF OrderInv, Next, vars, orderVars, AddEdge, SkipSubtask, NextDependency,
         Unsatisfied, NextTask, Connected, SkipNode, StartSearch, SearchFinds, SearchAncestors,
         SearchFails, LeavesDone, LinkEdge, FindCycle, NoCycle, NextGeneration, YieldTask,
         Renumber, Done, Scanning, Connecting
  <2> QED BY <2>1 DEF SiblingsInv, Elems
<1>4. CASE pc' # "order"
  BY <1>4 DEF SiblingsInv
<1>5. pc = "order" /\ pc' = "order" => tasks' = tasks
  BY DEF Next, vars, AddEdge, SkipSubtask, NextDependency, Unsatisfied, NextTask, Connected,
       SkipNode, StartSearch, SearchFinds, SearchAncestors, SearchFails, LeavesDone, LinkEdge,
       FindCycle, NoCycle, NextGeneration, YieldTask, Renumber, Done
<1> QED BY <1>2, <1>3, <1>4, <1>5

\* The order that sort() returns keeps siblings as the manifest lists them.
LEMMA ListOrderStep ==
  ASSUME TypeOK, OrderInv, SiblingsInv, SiblingsKeepListOrder, [Next]_vars
  PROVE  SiblingsKeepListOrder'
<1>1. CASE Renumber
  <2>1. N \in Nat /\ Nodes = 1..N
    BY NodesType
  <2>2. /\ pc = "order" /\ Elems(sorted_ids) = Nodes /\ sorted_ids' = sorted_ids
        /\ tasks' = [i \in Nodes |-> tasks[sorted_ids[i]]]
    BY <1>1 DEF Renumber, orderVars
  <2>3. DOMAIN sorted_ids = Nodes /\ \A i \in Nodes : sorted_ids[i] \in Nodes
    BY <2>2, CompleteOrder
  <2>4. Nodes' = Nodes
    BY <2>1, <2>2 DEF N, Nodes
  <2> SUFFICES ASSUME NEW i \in Nodes, NEW j \in Nodes, i < j,
                      tasks'[i].config = tasks'[j].config,
                      tasks'[i].dependencies = tasks'[j].dependencies,
                      ~IsAuto(i)', ~IsAuto(j)'
               PROVE  sorted_ids'[i] < sorted_ids'[j]
    BY <2>4 DEF SiblingsKeepListOrder
  <2> DEFINE v == sorted_ids[j]
             w == sorted_ids[i]
  <2>5. v \in Nodes /\ w \in Nodes /\ v # w
    <3>1. \A k, m \in Nodes : sorted_ids[k] = sorted_ids[m] => k = m
      BY <2>3 DEF OrderInv
    <3>2. i # j
      BY <2>1
    <3> QED BY <2>3, <3>1, <3>2
  <2>6. v < w => Siblings(v, w)
    <3>1. tasks'[i] = tasks[w] /\ tasks'[j] = tasks[v]
      BY <2>2
    <3> HIDE DEF v, w
    <3> QED BY <3>1 DEF Siblings, IsAuto
  <2>7. ASSUME v < w PROVE FALSE
    <3>1. PICK m \in Nodes : m < i /\ sorted_ids[m] = v
      BY <2>2, <2>3, <2>5, <2>6, <2>7 DEF SiblingsInv
    <3>2. m = j
      BY <2>3, <3>1 DEF OrderInv
    <3> QED BY <2>1, <3>1, <3>2
  <2> QED BY <2>1, <2>2, <2>5, <2>7
<1>2. CASE ~Renumber
  <2>1. /\ tasks' = tasks /\ pass' = pass
        /\ pass = "mmd" => sorted_ids' = sorted_ids
    BY <1>2 DEF OrderInv, Next, vars, orderVars, AddEdge, SkipSubtask, NextDependency,
         Unsatisfied, NextTask, Connected, SkipNode, StartSearch, SearchFinds, SearchAncestors,
         SearchFails, LeavesDone, LinkEdge, FindCycle, NoCycle, NextGeneration, YieldTask, Done
  <2> QED BY <2>1 DEF SiblingsKeepListOrder, IsSorted, Nodes, N, IsAuto
<1> QED BY <1>1, <1>2
-----------------------------------------------------------------------------
\* The strengthening holds before the first step of sort().
LEMMA InitInv == Init => IInv
<1> SUFFICES ASSUME Init PROVE IInv
  OBVIOUS
<1>1. tasks \in Seq(TaskRecord) /\ N \in Nat /\ Nodes = 1..N
  BY ManifestsAssumption DEF Init, N, Nodes
<1>2. GraphTypeOK
  BY <1>1 DEF Init, GraphTypeOK
<1>3. CursorTypeOK
  <2>1. found \in BOOLEAN
    BY DEF Init
  <2>2. task \in 1..N + 1 /\ dep \in Nat \ {0} /\ subtask \in 1..N + 1
    BY <1>1 DEF Init
  <2> QED BY <2>1, <2>2 DEF CursorTypeOK
<1>4. SearchTypeOK /\ OrderTypeOK /\ pc # "search"
  BY <1>1 DEF Init, SearchTypeOK, OrderTypeOK
<1>5. \A v \in Nodes : DOMAIN tasks[v].dependencies \subseteq Nat \ {0}
  <2> SUFFICES ASSUME NEW v \in Nodes PROVE DOMAIN tasks[v].dependencies \subseteq Nat \ {0}
    OBVIOUS
  <2>1. tasks[v] \in TaskRecord
    BY <1>1 DEF N
  <2> QED BY <2>1 DEF TaskRecord
<1>6. ConnectInv
  BY <1>1, <1>5 DEF Init, ConnectInv, LinkedSoFar, ScannedSoFar, CursorInv
<1>7. OrderInv /\ DependenciesRunFirst /\ SiblingsInv /\ SiblingsKeepListOrder
  BY DEF Init, OrderInv, Elems, DependenciesRunFirst, IsSorted, SiblingsInv,
       SiblingsKeepListOrder
<1>8. EdgesAreDeclared
  BY DEF Init, EdgesAreDeclared, Predecessors, Elems
<1> QED BY <1>2, <1>3, <1>4, <1>6, <1>7, <1>8 DEF IInv, TypeOK

\* Every step of sort() and of write_tasks_mmd() preserves the strengthening.
LEMMA StepInv == IInv /\ [Next]_vars => IInv'
BY TypeStep, ConnectStep, OrderStep, DependenciesStep, DeclaredStep, SiblingsStep, ListOrderStep
   DEF IInv

\* The strengthening is an invariant of task_manager.py's graph code.
LEMMA Invariance == Spec => []IInv
BY InitInv, StepInv, PTL DEF Spec

\* Every variable keeps its type, whatever the task list.
THEOREM TypeCorrect == Spec => []TypeOK
<1>1. IInv => TypeOK
  BY DEF IInv
<1> QED BY <1>1, Invariance, PTL

\* Whatever the manifests, build.py executes every task after all the tasks
\* that provide one of its dependencies, and each dependency has a provider.
THEOREM DependenciesFirst == Spec => []DependenciesRunFirst
<1>1. IInv => DependenciesRunFirst
  BY DEF IInv
<1> QED BY <1>1, Invariance, PTL

\* The order topological_sort() yields respects every edge of the graph,
\* automatic ones included, and lists no task twice.
THEOREM TopologicalOrder == Spec => []OrderIsTopological
<1>1. IInv => OrderIsTopological
  <2> SUFFICES ASSUME IInv, pc = "order",
                      NEW i \in DOMAIN sorted_ids, NEW j \in DOMAIN sorted_ids, i <= j
               PROVE  /\ sorted_ids[j] \notin Predecessors(sorted_ids[i])
                      /\ sorted_ids[i] = sorted_ids[j] => i = j
    BY DEF OrderIsTopological
  <2>1. sorted_ids[i] = sorted_ids[j] => i = j
    BY DEF IInv, OrderInv
  <2>2. ASSUME sorted_ids[j] \in Predecessors(sorted_ids[i]) PROVE FALSE
    <3>1. PICK m \in DOMAIN sorted_ids : m < i /\ sorted_ids[m] = sorted_ids[j]
      BY <2>2 DEF IInv, OrderInv
    <3>2. m = j
      BY <3>1 DEF IInv, OrderInv
    <3>3. i \in Nat /\ j \in Nat
      BY LenProperties DEF IInv, TypeOK, OrderTypeOK
    <3> QED BY <3>1, <3>2, <3>3
  <2> QED BY <2>1, <2>2
<1> QED BY <1>1, Invariance, PTL

\* Once detect_cycles() has passed, some task is ready until all are ordered:
\* the sort never fails half way.
THEOREM NeverStuck == Spec => []OrderNeverStuck
<1>1. IInv => OrderNeverStuck
  <2> SUFFICES ASSUME IInv, pc = "order", generation = {}, Ready = {}, Elems(sorted_ids) # Nodes
               PROVE  FALSE
    BY DEF OrderNeverStuck
  <2> DEFINE S == Nodes \ Elems(sorted_ids)
  <2>1. Elems(sorted_ids) \subseteq Nodes
    BY DEF IInv, TypeOK, OrderTypeOK, Elems
  <2>2. S # {} /\ S \in SUBSET Nodes
    BY <2>1
  <2>3. \A v \in Nodes : Predecessors(v) \subseteq Nodes
    BY DEF IInv, TypeOK, GraphTypeOK, Predecessors, Elems
  <2>4. \A v \in S : Predecessors(v) \cap S # {}
    BY <2>3 DEF Ready
  <2>5. Cyclic
    BY <2>2, <2>4 DEF Cyclic
  <2> QED BY <2>5 DEF IInv, OrderInv
<1> QED BY <1>1, Invariance, PTL

\* A sort that detect_cycles() let start comes out complete and in order.
THEOREM SortWorks == Spec => []SortSucceeds
  BY TopologicalOrder, NeverStuck, PTL DEF SortSucceeds

\* Tasks of one config with the same dependencies are executed in the order in
\* which the manifest lists them, unless they are automatic.
THEOREM ListOrderKept == Spec => []SiblingsKeepListOrder
<1>1. IInv => SiblingsKeepListOrder
  BY DEF IInv
<1> QED BY <1>1, Invariance, PTL
=============================================================================
