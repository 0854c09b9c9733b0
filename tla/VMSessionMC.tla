---------------------------- MODULE VMSessionMC ----------------------------
EXTENDS VMSession, TLC

CONSTANTS p1, p2, p3, p4, p5

ThreePids == {p1, p2, p3}
FivePids == {p1, p2, p3, p4, p5}
Either == {TRUE, FALSE}
Never == {FALSE}
AnyFive == Permutations(FivePids)

\* Which of the free pids a process gets makes no difference where none is
\* used again: they are taken in order.
InOrder == <<p1, p2, p3, p4, p5>>
PidsInOrder ==
  \A i \in DOMAIN InOrder : \A j \in 1..i - 1 :
    InOrder[i] \in Pids /\ proc[InOrder[i]] = "free" /\ proc[InOrder[j]] = "free" =>
      proc'[InOrder[i]] = "free"
OrderedFairSpec == Init /\ [][Next /\ PidsInOrder]_vars /\ Fairness
=============================================================================
