----------------------------- MODULE KconfigLines -----------------------------
(***************************************************************************)
(* The lines of configuration files: what loading them sets and what of a  *)
(* configuration is written.                                               *)
(*                                                                         *)
(* A file is a sequence of lines <<name, value>>; `# CONFIG_FOO is not     *)
(* set' is <<"FOO", "n">>, which it means for a bool or tristate symbol.   *)
(* Of another type the code skips it, and writes none: no file has one.    *)
(***************************************************************************)
EXTENDS KconfigValues

LOCAL Ext == INSTANCE SequencesExt
-----------------------------------------------------------------------------
(***************************************************************************)
(* Loading.                                                                *)
(***************************************************************************)
\* _load_config(), one line: y or m to a symbol of a choice sets the mode.
Fits(s, v) == s \in Syms /\ (OrigType(s) \in BoolTri => IsValid(s, v))
LoadValue(k, s, v) ==
  IF ~Fits(s, v) THEN k
  ELSE SetSymValue(IF InChoice(s) /\ v # "n" THEN SetChoiceValue(k, ChoiceOf(s), v) ELSE k, s, v)
LoadLine(k, line) == Only({LoadValue(j, line[1], line[2]) : j \in {k}})

\* What the file does not set is unset, the symbols first.
UnsetOthers(k) == Settled(Unset(k, {i \in Items : ~k.was_set[i]}, 1))
Load(k, lines) == Only({UnsetOthers(j) : j \in {Ext!FoldLeft(LoadLine, Settled(k), lines)}})

-----------------------------------------------------------------------------
(***************************************************************************)
(* What is written.                                                        *)
(***************************************************************************)
InOrder == SelectSeq(defs.order, LAMBDA i : i \in Syms)
LinesOf(k, ss) == [p \in DOMAIN ss |-> <<ss[p], Str(k, ss[p])>>]

ConfigContents(k) == LinesOf(k, SelectSeq(InOrder, LAMBDA s : WriteToConf(k, s)))

\* The value without a user value: what selects and implies counts, the
\* dependencies of what is implied do not.
TriDefault(k, s, val) == IF val = 1 /\ Type(k, s) = "bool" THEN "y" ELSE TriStr(val)
RevDeps(k, s) == Or(ExprValue(k, defs.sym[s].rev_dep), ExprValue(k, defs.sym[s].weak_rev_dep))
StrDefault(k, s) ==
  IF OrigType(s) \notin BoolTri THEN DefaultStr(k, s)
  ELSE IF InChoice(s) THEN "n"
  ELSE TriDefault(k, s, Or(RevDeps(k, s), DefaultTri(k, s)))

Fixed(k, s) == ~InChoice(s) /\ Vis(k, s) <= ExprValue(k, defs.sym[s].rev_dep)
SelectedByDefault(k, s) ==
  /\ InChoice(s) /\ OrigType(s) = "bool" /\ Tri(k, s) = 2
  /\ ~defs.choice[ChoiceOf(s)].optional
  /\ SelectionFromDefaults(k, ChoiceOf(s)) = s


MinContents(k) ==
  LinesOf(k, SelectSeq(InOrder, LAMBDA s :
    ~Fixed(k, s) /\ Str(k, s) # StrDefault(k, s) /\ ~SelectedByDefault(k, s) /\ WriteToConf(k, s)))

ValuesOf(k) == [s \in Syms |-> Str(k, s)]
-----------------------------------------------------------------------------
(***************************************************************************)
(* What a file does not bring back.                                        *)
(***************************************************************************)
\* A default or an imply may exceed the visibility of a tristate symbol, a user
\* value may not: the symbol does not get back what a full configuration has.
AboveVis(k, s) ==
  OrigType(s) = "tristate" /\ Vis(k, s) # 0
  /\ Tri(k, s) > Or(Vis(k, s), ExprValue(k, defs.sym[s].rev_dep))

\* A tristate choice is in y mode only if a line says so; the minimal
\* configuration has none if a bool symbol is selected by default.
LosesMode(k, s) == SelectedByDefault(k, s) /\ Type(k, ChoiceOf(s)) = "tristate"
=============================================================================
