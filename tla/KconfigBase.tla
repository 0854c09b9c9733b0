------------------------------ MODULE KconfigBase ------------------------------
(***************************************************************************)
(* What the Kconfig modules share.                                         *)
(***************************************************************************)
EXTENDS Integers, Sequences, FiniteSets

CONSTANT None  \* no value

Elems(s) == {s[i] : i \in DOMAIN s}

\* The element of a set of one (TLC evaluates it once, however often it is used).
Only(S) == CHOOSE x \in S : TRUE
=============================================================================
