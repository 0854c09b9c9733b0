---------------------------- MODULE TaskGraphMC ----------------------------
EXTENDS TaskGraph

Task(c, p, d, a) ==
  [config |-> c, provides |-> p, dependencies |-> d, auto_create_rdepends |-> a]

\* Dependency lists of up to two distinct names of S, in both orders.
Lists(S) == {<< >>} \cup {<<a>> : a \in S} \cup
            {l \in {<<a, b>> : a \in S, b \in S} : l[1] # l[2]}

AllNames == 1..4
TinyTasks == {Task(c, p, d, a) : c \in 1..2, p \in {0, 3}, d \in Lists(1..3), a \in BOOLEAN}
\* Every list of one or two tasks: loops, self-dependencies, shared configs and
\* names that nobody provides included.
Tiny == [1..1 -> TinyTasks] \cup [1..2 -> TinyTasks]

\* A root and four tasks below it, two of one config, listed in any order
\* relative to their names, with an automatic task at any place: deep enough
\* for a search past the direct parents.
Root == Task(1, 0, << >>, FALSE)
NamedBy(m, p, c) == \E k \in DOMAIN m[c].dependencies :
                      m[c].dependencies[k] \in {m[p].config, m[p].provides}
LoopFree(m) == ~\E S \in SUBSET DOMAIN m :
                  S # {} /\ \A c \in S : \E p \in S : NamedBy(m, p, c)
Deeper(c) == {Task(c, 0, d, a) : a \in BOOLEAN,
                d \in {<<1>>, <<2>>, <<3>>, <<4>>, <<1, 2>>, <<1, 3>>, <<3, 1>>}}
Deep == {m \in {<<Root, w, x, y, z>> : w \in Deeper(3), x \in Deeper(4),
                                       y \in Deeper(2), z \in Deeper(3)} : LoopFree(m)}

TinyAndDeep == Tiny \cup Deep

\* A loop of two tasks with a third task below it, which nothing depends on.
LoopAndLeaf == {<<Task(1, 0, <<2>>, FALSE), Task(2, 0, <<1>>, FALSE), Task(3, 0, <<2>>, FALSE)>>}
=============================================================================
