---------------------------- MODULE KconfigValues ----------------------------
(***************************************************************************)
(* The values of the symbols and choices of a configuration, as the        *)
(* Symbol and Choice classes of src/common/lib/kconfiglib/kconfiglib.py    *)
(* calculate, cache and invalidate them.                                   *)
(*                                                                         *)
(* A symbol table is what parsing leaves: defs.sym and defs.choice are the *)
(* properties of each item after the propagation of dependencies, defs.    *)
(* order is unique_defined_syms.  An expression is <<"SYM", name>>,        *)
(* <<"NOT", e>>, <<"AND", e, f>>, <<"OR", e, f>> or a relation of two      *)
(* names.  A user value is a text or None, for bool and tristate symbols   *)
(* "n", "m" or "y".  A cache entry is <<>> or <<value>>.                   *)
(***************************************************************************)
EXTENDS KconfigBase

CONSTANTS Kconfigs,  \* the symbol tables considered
          Texts,     \* the strings that occur, in the order of strcmp
          NumOf,     \* the numbers that some of them stand for
          UserTexts, \* the strings that users give to a string symbol
          Readable   \* the values that clients read

ASSUME TextsAssumption == DOMAIN NumOf \subseteq {Texts[i] : i \in DOMAIN Texts}
ASSUME NoneAssumption == None \notin {Texts[i] : i \in DOMAIN Texts}

VARIABLES
  defs,  \* the symbol table
  conf   \* user values and caches

Syms == DOMAIN defs.sym
Choices == DOMAIN defs.choice
Items == Syms \cup Choices
BoolTri == {"bool", "tristate"}
Attrs == {"str", "tri", "vis", "assignable", "selection"}
TriOf(v) == CASE v = "y" -> 2 [] v = "m" -> 1 [] OTHER -> 0
TriStr(t) == <<"n", "m", "y">>[t + 1]
And(a, b) == IF a < b THEN a ELSE b
Or(a, b) == IF a < b THEN b ELSE a

\* Undefined and constant symbols have no type, but for n, m and y.
OrigType(i) ==
  IF i \in Syms THEN defs.sym[i].type
  ELSE IF i \in Choices THEN defs.choice[i].type
  ELSE IF i \in {"n", "m", "y"} THEN "tristate" ELSE "unknown"
ChoiceOf(i) == IF i \in Syms THEN defs.sym[i].choice ELSE None
InChoice(i) == ChoiceOf(i) # None
Prompts(i) == IF i \in Syms THEN defs.sym[i].prompts ELSE defs.choice[i].prompts

NoCache == [i \in Items |-> [a \in Attrs |-> <<>>]]
Pristine ==
  [user_value     |-> [i \in Items |-> None],
   user_selection |-> [c \in Choices |-> None],
   was_set        |-> [i \in Items |-> FALSE],
   cache          |-> NoCache,
   write_to_conf  |-> [s \in Syms |-> FALSE]]
-----------------------------------------------------------------------------
(***************************************************************************)
(* The values, as the properties calculate them in a state k: what is      *)
(* cached is not calculated again.  The properties call each other, through *)
(* Value; "mode", of a choice, and "expr" have no cache.                   *)
(***************************************************************************)
RECURSIVE Value(_, _, _)
ExprValue(k, e) == Value(k, e, "expr")
Vis(k, i) == Value(k, i, "vis")
Tri(k, s) == Value(k, s, "tri")
Str(k, s) == Value(k, s, "str")
ChoiceTri(k, c) == Value(k, c, "mode")
Selection(k, c) == Value(k, c, "selection")
Assignable(k, i) == Value(k, i, "assignable")

Cached(k, i, a) == i \in Items /\ k.cache[i][a] # <<>>
Hit(k, i, a) == k.cache[i][a][1]

Place(v) == CHOOSE p \in DOMAIN Texts : Texts[p] = v
Highest(vals) == Only({CHOOSE v \in S : \A w \in S : w <= v : S \in {vals \cup {0}}})
First(places) ==
  Only({IF S = {} THEN 0 ELSE CHOOSE p \in S : \A q \in S : p <= q : S \in {places}})

\* _sym_to_num(): <<>> for ValueError.
NumberOf(v) == IF v \in DOMAIN NumOf THEN <<NumOf[v]>> ELSE <<>>
SymToNum(k, s) == IF OrigType(s) \in BoolTri THEN <<Tri(k, s)>> ELSE NumberOf(Str(k, s))
Pair(a, b) == IF a = <<>> \/ b = <<>> THEN <<>> ELSE a \o b
AsNumbers(k, s, t) ==
  IF OrigType(s) = "string" /\ OrigType(t) = "string" THEN <<>>
  ELSE Pair(SymToNum(k, s), SymToNum(k, t))
Difference(k, s, t, nums) ==
  IF nums # <<>> THEN nums[1] - nums[2] ELSE Place(Str(k, s)) - Place(Str(k, t))
Compared(k, s, t) == Difference(k, s, t, AsNumbers(k, s, t))
Holds(relation, comp) ==
  CASE relation = "="  -> comp = 0
    [] relation = "!=" -> comp # 0
    [] relation = "<"  -> comp < 0
    [] relation = "<=" -> comp <= 0
    [] relation = ">"  -> comp > 0
    [] relation = ">=" -> comp >= 0

expr_value(k, e) ==
  CASE e[1] = "SYM" -> IF e[2] \in Choices THEN ChoiceTri(k, e[2]) ELSE Tri(k, e[2])
    [] e[1] = "NOT" -> 2 - ExprValue(k, e[2])
    [] e[1] = "AND" -> And(ExprValue(k, e[2]), ExprValue(k, e[3]))
    [] e[1] = "OR"  -> Or(ExprValue(k, e[2]), ExprValue(k, e[3]))
    [] OTHER -> IF Holds(e[1], Compared(k, e[2], e[3])) THEN 2 ELSE 0

\* The type changes with the choice's mode and with MODULES.
Type(k, i) ==
  IF OrigType(i) = "tristate"
     /\ \/ i \in Syms /\ InChoice(i) /\ ChoiceTri(k, ChoiceOf(i)) = 2
        \/ Tri(k, defs.modules) = 0
  THEN "bool" ELSE OrigType(i)

\* A bool symbol of a tristate choice is visible in y mode only, a tristate
\* symbol with visibility m is not visible there.
PromptVis(k, i) == Highest({ExprValue(k, Prompts(i)[p]) : p \in DOMAIN Prompts(i)})
HiddenByMode(k, i, vis) ==
  /\ InChoice(i)
  /\ \/ /\ OrigType(ChoiceOf(i)) = "tristate" /\ OrigType(i) # "tristate"
        /\ ChoiceTri(k, ChoiceOf(i)) # 2
     \/ OrigType(i) = "tristate" /\ vis = 1 /\ ChoiceTri(k, ChoiceOf(i)) = 2
Visibility(k, i, vis) ==
  IF HiddenByMode(k, i, vis) THEN 0
  ELSE IF vis = 1 /\ Type(k, i) # "tristate" THEN 2
  ELSE vis
_visibility(k, i) == IF i \in Items THEN Only({Visibility(k, i, vis) : vis \in {PromptVis(k, i)}}) ELSE 0

\* The first default whose condition is met, 0 if there is none.
Defaults(i) == IF i \in Syms THEN defs.sym[i].defaults ELSE defs.choice[i].defaults
ActiveDefault(k, i) ==
  First({d \in DOMAIN Defaults(i) : /\ ExprValue(k, Defaults(i)[d].cond) # 0
                                    /\ i \in Choices => Vis(k, Defaults(i)[d].sym) # 0})

HasUserValue(k, i) == k.user_value[i] # None /\ Vis(k, i) # 0
ImpliedTo(k, s) ==
  IF ExprValue(k, defs.sym[s].direct_dep) = 0 THEN 0 ELSE ExprValue(k, defs.sym[s].weak_rev_dep)
DefaultTriAt(k, s, d) ==
  IF d = 0 THEN 0 ELSE And(ExprValue(k, Defaults(s)[d].val), ExprValue(k, Defaults(s)[d].cond))
DefaultTri(k, s) == DefaultTriAt(k, s, ActiveDefault(k, s))

\* A symbol outside a choice: the user value, else the default and what is
\* implied; what selects the symbol counts in either case.
OwnTri(k, s) ==
  IF HasUserValue(k, s) THEN And(TriOf(k.user_value[s]), Vis(k, s))
  ELSE Or(DefaultTri(k, s), ImpliedTo(k, s))
NoM(k, s) == Type(k, s) = "bool" \/ ExprValue(k, defs.sym[s].weak_rev_dep) = 2
Promoted(k, s, val) == IF val = 1 /\ NoM(k, s) THEN 2 ELSE val
PlainTri(k, s) ==
  Only({Promoted(k, s, Or(rev, own)) : rev \in {ExprValue(k, defs.sym[s].rev_dep)}, own \in {OwnTri(k, s)}})
tri_value(k, s) ==
  IF s \notin Syms THEN (IF s \in {"n", "m", "y"} THEN TriOf(s) ELSE 0)
  ELSE IF OrigType(s) \notin BoolTri THEN 0
  ELSE IF ~InChoice(s) THEN PlainTri(k, s)
  ELSE CASE Vis(k, s) = 2 -> IF Selection(k, ChoiceOf(s)) = s THEN 2 ELSE 0
         [] Vis(k, s) = 1 /\ k.user_value[s] \in {"m", "y"} -> 1
         [] OTHER -> 0

\* The first range whose condition is met, as numbers; <<>> if there is none.
Number(v) == IF v \in DOMAIN NumOf THEN NumOf[v] ELSE 0
FirstRange(k, s) ==
  First({r \in DOMAIN defs.sym[s].ranges : ExprValue(k, defs.sym[s].ranges[r].cond) # 0})
Bounds(k, s, r) ==
  IF r = 0 THEN <<>>
  ELSE <<Number(Str(k, defs.sym[s].ranges[r].low)), Number(Str(k, defs.sym[s].ranges[r].high))>>
ActiveRange(k, s) == Bounds(k, s, FirstRange(k, s))
InRange(range, n) == range = <<>> \/ (range[1] <= n /\ n <= range[2])
TextOf(n) == CHOOSE v \in DOMAIN NumOf : NumOf[v] = n
DefaultStrAt(k, s, d) == IF d = 0 THEN "" ELSE Str(k, Defaults(s)[d].val[2])
DefaultStr(k, s) == DefaultStrAt(k, s, ActiveDefault(k, s))

UsesUserNumber(k, s) ==
  /\ k.user_value[s] \notin {None, ""} /\ Vis(k, s) # 0
  /\ InRange(ActiveRange(k, s), NumOf[k.user_value[s]])
Clamped(range, default) ==
  IF InRange(range, Number(default)) THEN default
  ELSE IF Number(default) < range[1] THEN TextOf(range[1]) ELSE TextOf(range[2])
IntStr(k, s) ==
  IF UsesUserNumber(k, s) THEN k.user_value[s] ELSE Clamped(ActiveRange(k, s), DefaultStr(k, s))

str_value(k, s) ==
  IF s \notin Syms THEN s
  ELSE CASE OrigType(s) \in BoolTri -> TriStr(Tri(k, s))
         [] OrigType(s) = "int" -> IntStr(k, s)
         [] OrigType(s) = "string" ->
              IF HasUserValue(k, s) THEN k.user_value[s] ELSE DefaultStr(k, s)
         [] OTHER -> s

\* The symbol has a line in .config: it is visible, or its value comes from a
\* default, an imply or a select.
WriteToConf(k, s) ==
  CASE OrigType(s) \in BoolTri ->
         \/ Vis(k, s) # 0
         \/ ~InChoice(s) /\ \/ ExprValue(k, defs.sym[s].rev_dep) # 0
                            \/ DefaultTri(k, s) # 0 \/ ImpliedTo(k, s) # 0
    [] OrigType(s) \in {"int", "string"} ->
         ~defs.sym[s].env /\ (Vis(k, s) # 0 \/ ActiveDefault(k, s) # 0)
    [] OTHER -> FALSE
-----------------------------------------------------------------------------
\* The mode of a choice: at least m unless it is optional.
LeastMode(c) == IF defs.choice[c].optional THEN 0 ELSE 1
UserMode(k, c) == IF k.user_value[c] = None THEN 0 ELSE TriOf(k.user_value[c])
ModeOf(k, c, val) == IF val = 1 /\ Type(k, c) = "bool" THEN 2 ELSE val
choice_tri_value(k, c) == ModeOf(k, c, And(Or(LeastMode(c), UserMode(k, c)), Vis(k, c)))

FirstVisible(k, c) ==
  First({p \in DOMAIN defs.choice[c].syms : Vis(k, defs.choice[c].syms[p]) # 0})
SelectionAt(c, d, p) ==
  CASE d # 0 -> Defaults(c)[d].sym
    [] d = 0 /\ p # 0 -> defs.choice[c].syms[p]
    [] OTHER -> None
SelectionFromDefaults(k, c) == SelectionAt(c, ActiveDefault(k, c), FirstVisible(k, c))

\* Mutant: a selected symbol that is no longer visible stays selected.
SelectionUnseen(k, c) ==
  IF ChoiceTri(k, c) # 2 THEN None
  ELSE IF k.user_selection[c] # None THEN k.user_selection[c] ELSE SelectionFromDefaults(k, c)

_selection(k, c) ==
  IF ChoiceTri(k, c) # 2 THEN None
  ELSE IF k.user_selection[c] # None /\ Vis(k, k.user_selection[c]) # 0 THEN k.user_selection[c]
  ELSE SelectionFromDefaults(k, c)

\* The values a user may give.
SymAssignableIn(k, s, vis, rev) ==
  IF OrigType(s) \notin BoolTri \/ vis = 0 THEN {}
  ELSE CASE vis = 2 /\ InChoice(s) -> {2}
         [] vis = 2 /\ ~InChoice(s) -> {v \in 0..2 : rev <= v /\ (v = 1 => ~NoM(k, s))}
         [] vis = 1 /\ rev = 0 -> {0, IF ExprValue(k, defs.sym[s].weak_rev_dep) = 2 THEN 2 ELSE 1}
         [] OTHER -> {rev}
SymAssignable(k, s) == SymAssignableIn(k, s, Vis(k, s), ExprValue(k, defs.sym[s].rev_dep))
ChoiceAssignable(k, c) ==
  {v \in 0..Vis(k, c) : /\ v = 0 => Vis(k, c) # 0 /\ defs.choice[c].optional
                        /\ v = 1 => Vis(k, c) = 1 \/ Type(k, c) # "bool"}

Value(k, i, a) ==
  IF a \in Attrs /\ Cached(k, i, a) THEN Hit(k, i, a)
  ELSE CASE a = "expr" -> expr_value(k, i)
         [] a = "mode" -> choice_tri_value(k, i)
         [] a = "vis"  -> _visibility(k, i)
         [] a = "tri"  -> tri_value(k, i)
         [] a = "str"  -> str_value(k, i)
         [] a = "selection"  -> _selection(k, i)
         [] a = "assignable" -> IF i \in Choices THEN ChoiceAssignable(k, i) ELSE SymAssignable(k, i)
-----------------------------------------------------------------------------
(***************************************************************************)
(* What the calculation of a value reads, conditions that are not          *)
(* evaluated left out: each of them is cached too.                         *)
(***************************************************************************)
RECURSIVE Reads(_, _, _)
ExprReads(k, e) == Reads(k, e, "expr")
TypeReads(k, i) == Reads(k, i, "type")
ChoiceTriReads(k, c) == Reads(k, c, "mode")

SymReads(s, a) == IF s \in Syms THEN {<<s, a>>} ELSE {}

ReadsOfExpr(k, e) ==
  CASE e[1] = "SYM" -> IF e[2] \in Choices THEN ChoiceTriReads(k, e[2]) ELSE SymReads(e[2], "tri")
    [] e[1] = "NOT" -> ExprReads(k, e[2])
    [] e[1] = "AND" -> ExprReads(k, e[2])
                       \cup (IF ExprValue(k, e[2]) = 0 THEN {} ELSE ExprReads(k, e[3]))
    [] e[1] = "OR"  -> ExprReads(k, e[2])
                       \cup (IF ExprValue(k, e[2]) = 2 THEN {} ELSE ExprReads(k, e[3]))
    [] OTHER -> UNION {SymReads(s, IF AsNumbers(k, e[2], e[3]) # <<>> /\ OrigType(s) \in BoolTri
                                   THEN "tri" ELSE "str") : s \in {e[2], e[3]}}

ReadsOfType(k, i) ==
  IF OrigType(i) # "tristate" THEN {}
  ELSE IF InChoice(i)
       THEN ChoiceTriReads(k, ChoiceOf(i))
            \cup (IF ChoiceTri(k, ChoiceOf(i)) = 2 THEN {} ELSE SymReads(defs.modules, "tri"))
       ELSE SymReads(defs.modules, "tri")

\* The mode itself is not cached.
ReadsOfMode(k, c) ==
  {<<c, "vis">>} \cup (IF Vis(k, c) # 0 THEN TypeReads(k, c) ELSE {})

\* The choice's mode is looked at, whatever it is.
LooksAtMode(i, vis) ==
  /\ InChoice(i)
  /\ \/ OrigType(ChoiceOf(i)) = "tristate" /\ OrigType(i) # "tristate"
     \/ OrigType(i) = "tristate" /\ vis = 1
VisReadsAt(k, i, vis) ==
  (IF LooksAtMode(i, vis) THEN ChoiceTriReads(k, ChoiceOf(i)) ELSE {})
  \cup (IF vis = 1 /\ ~HiddenByMode(k, i, vis) THEN TypeReads(k, i) ELSE {})
VisReads(k, i) ==
  UNION {ExprReads(k, Prompts(i)[p]) : p \in DOMAIN Prompts(i)} \cup VisReadsAt(k, i, PromptVis(k, i))

\* The conditions up to the first that is met, and the value that goes with it.
UpTo(first, n) == 1..(IF first = 0 THEN n ELSE first)
CondsReads(k, props, first) == UNION {ExprReads(k, props[d].cond) : d \in UpTo(first, Len(props))}
DefaultReadsAt(k, s, d) ==
  CondsReads(k, Defaults(s), d)
  \cup CASE d = 0 -> {}
         [] d # 0 /\ OrigType(s) \in BoolTri -> ExprReads(k, Defaults(s)[d].val)
         [] OTHER -> SymReads(Defaults(s)[d].val[2], "str")
DefaultReads(k, s) == DefaultReadsAt(k, s, ActiveDefault(k, s))
BoundsReads(k, s, r) ==
  CondsReads(k, defs.sym[s].ranges, r)
  \cup (IF r = 0 THEN {}
        ELSE SymReads(defs.sym[s].ranges[r].low, "str") \cup SymReads(defs.sym[s].ranges[r].high, "str"))
RangeReads(k, s) == BoundsReads(k, s, FirstRange(k, s))

\* The warning about a select that does not respect the dependencies reads the
\* selecting symbols.
RECURSIVE SplitOr(_)
SplitOr(e) == IF e[1] = "OR" THEN SplitOr(e[2]) \cup SplitOr(e[3]) ELSE {e}
WhoSelects(k, s, direct) ==
  {IF e[1] = "AND" THEN e[2][2] ELSE e[2] :
     e \in {e \in SplitOr(defs.sym[s].rev_dep) : ExprValue(k, e) > direct}} \cap Syms
WarnReads(k, s) ==
  UNION {{<<t, "str">>} \cup ExprReads(k, defs.sym[t].direct_dep) :
           t \in WhoSelects(k, s, ExprValue(k, defs.sym[s].direct_dep))}

PromotedReads(k, s, val) ==
  IF val # 1 THEN {}
  ELSE TypeReads(k, s)
       \cup (IF Type(k, s) = "bool" THEN {} ELSE ExprReads(k, defs.sym[s].weak_rev_dep))
PlainTriReads(k, s) ==
  (IF HasUserValue(k, s) THEN {}
   ELSE DefaultReads(k, s) \cup ExprReads(k, defs.sym[s].weak_rev_dep)
        \cup (IF ExprValue(k, defs.sym[s].weak_rev_dep) = 0 THEN {}
              ELSE ExprReads(k, defs.sym[s].direct_dep)))
  \cup ExprReads(k, defs.sym[s].rev_dep)
  \cup (IF ExprValue(k, defs.sym[s].rev_dep) = 0 THEN {}
        ELSE ExprReads(k, defs.sym[s].direct_dep) \cup WarnReads(k, s))
  \cup PromotedReads(k, s, Or(ExprValue(k, defs.sym[s].rev_dep), OwnTri(k, s)))
TriReads(k, s) ==
  {<<s, "vis">>}
  \cup CASE ~InChoice(s) -> PlainTriReads(k, s)
         [] InChoice(s) /\ Vis(k, s) = 2 -> {<<ChoiceOf(s), "selection">>}
         [] OTHER -> {}
StrReads(k, s) ==
  CASE OrigType(s) \in BoolTri -> {<<s, "tri">>}
    [] OrigType(s) = "int" -> {<<s, "vis">>} \cup RangeReads(k, s)
                              \cup (IF UsesUserNumber(k, s) THEN {} ELSE DefaultReads(k, s))
    [] OrigType(s) = "string" -> {<<s, "vis">>} \cup (IF HasUserValue(k, s) THEN {} ELSE DefaultReads(k, s))
    [] OTHER -> {}

SymAssignableReads(k, s, vis, rev) ==
  ExprReads(k, defs.sym[s].rev_dep)
  \cup (IF vis = 2 /\ ~InChoice(s) /\ rev # 2 THEN TypeReads(k, s) ELSE {})
  \cup (IF \/ vis = 2 /\ ~InChoice(s) /\ rev # 2 /\ Type(k, s) # "bool"
           \/ vis = 1 /\ rev = 0
        THEN ExprReads(k, defs.sym[s].weak_rev_dep) ELSE {})
AssignableReads(k, i) ==
  {<<i, "vis">>}
  \cup CASE Vis(k, i) = 0 -> {}
         [] Vis(k, i) # 0 /\ i \in Syms ->
              SymAssignableReads(k, i, Vis(k, i), ExprValue(k, defs.sym[i].rev_dep))
         [] OTHER -> IF Vis(k, i) = 2 THEN TypeReads(k, i) ELSE {}

\* _selection(): the default symbols and the symbols themselves are tried in
\* their order.
FromDefaultsReads(k, c, d) ==
  CondsReads(k, Defaults(c), d)
  \cup {<<Defaults(c)[e].sym, "vis">> :
          e \in {e \in UpTo(d, Len(Defaults(c))) : ExprValue(k, Defaults(c)[e].cond) # 0}}
  \cup (IF d # 0 THEN {}
        ELSE {<<defs.choice[c].syms[p], "vis">> :
                p \in UpTo(FirstVisible(k, c), Len(defs.choice[c].syms))})
UserSelectionReads(k, c, user) ==
  (IF user = None THEN {} ELSE {<<user, "vis">>})
  \cup (IF user # None /\ Vis(k, user) # 0 THEN {} ELSE FromDefaultsReads(k, c, ActiveDefault(k, c)))
SelectionReads(k, c) ==
  ChoiceTriReads(k, c)
  \cup (IF ChoiceTri(k, c) = 2 THEN UserSelectionReads(k, c, k.user_selection[c]) ELSE {})

Reads(k, i, a) ==
  CASE a = "expr" -> ReadsOfExpr(k, i)
    [] a = "type" -> ReadsOfType(k, i)
    [] a = "mode" -> ReadsOfMode(k, i)
    [] a = "vis" -> VisReads(k, i)
    [] a = "selection" -> SelectionReads(k, i)
    [] a = "str" -> StrReads(k, i)
    [] a = "tri" -> IF OrigType(i) \in BoolTri THEN TriReads(k, i) ELSE {}
    [] a = "assignable" -> IF OrigType(i) \in BoolTri THEN AssignableReads(k, i) ELSE {}

AttrsOf(i) == IF i \in Syms THEN {"str", "tri", "vis", "assignable"}
              ELSE {"vis", "assignable", "selection"}
Values == {<<i, a>> \in Items \X Attrs : a \in AttrsOf(i)}

RECURSIVE Touched(_, _, _)
Touched(k, S, more) ==
  IF more \subseteq S THEN S
  ELSE LET n == CHOOSE n \in more \ S : TRUE IN
       Touched(k, S \cup {n}, more \cup IF Cached(k, n[1], n[2]) THEN {} ELSE Reads(k, n[1], n[2]))
Calculated(k, wanted) == {n \in Touched(k, {}, wanted) : ~Cached(k, n[1], n[2])}

\* Reading values leaves them in the caches, with all that was read for them.
Keep(k, T) ==
  [k EXCEPT
     !.cache = [i \in Items |-> [a \in Attrs |->
                  IF <<i, a>> \in T THEN <<Value(k, i, a)>> ELSE @[i][a]]],
     !.write_to_conf = [s \in Syms |->
                  IF <<s, IF OrigType(s) \in BoolTri THEN "tri" ELSE "str">> \in T
                  THEN WriteToConf(k, s) ELSE @[s]]]
Read(k, wanted) == Keep(k, Calculated(k, wanted))
-----------------------------------------------------------------------------
(***************************************************************************)
(* Invalidation.                                                           *)
(***************************************************************************)
RECURSIVE Mentioned(_)
Mentioned(e) ==
  CASE e[1] = "SYM" -> {e[2]} \cap Items
    [] e[1] = "NOT" -> Mentioned(e[2])
    [] e[1] \in {"AND", "OR"} -> Mentioned(e[2]) \cup Mentioned(e[3])
    [] OTHER -> {e[2], e[3]} \cap Items
MentionedIn(exprs) == UNION {Mentioned(e) : e \in exprs}

\* _build_dep() and _add_choice_deps(): what an item depends on.
DependsOn(i) ==
  MentionedIn(Elems(Prompts(i)))
  \cup IF i \in Choices
       THEN MentionedIn({d.cond : d \in Elems(defs.choice[i].defaults)}) \cup Elems(defs.choice[i].syms)
       ELSE LET sym == defs.sym[i] IN
            MentionedIn({d.val : d \in Elems(sym.defaults)} \cup {d.cond : d \in Elems(sym.defaults)})
            \cup MentionedIn({sym.rev_dep, sym.weak_rev_dep, sym.direct_dep})
            \cup UNION {Mentioned(r.cond) \cup ({r.low, r.high} \cap Items) : r \in Elems(sym.ranges)}

\* Mutant: only an item with a cached tristate value is asked for dependents.
AffectedIfTri(k, S) ==
  {j \in Items : Cached(k, j, "tri") /\ DependsOn(j) \cap (S \ {defs.modules}) # {}}

\* Only an item with a cached visibility has dependents with cached values.
\* _write_to_conf is read only after the value has been calculated again, the
\* model forgets it together with the value.
Affected(k, S) ==
  {j \in Items : Cached(k, j, "vis") /\ DependsOn(j) \cap (S \ {defs.modules}) # {}}

RECURSIVE Spread(_, _, _)
Spread(k, S, more) ==
  IF more \subseteq S THEN S ELSE Only({Spread(k, T, Affected(k, T)) : T \in {S \cup more}})
Reached(k, S) == Spread(k, S, Affected(k, S))

Uncached(k, S) ==
  [k EXCEPT !.cache = [i \in Items |-> IF i \in S THEN [a \in Attrs |-> <<>>] ELSE @[i]],
            !.write_to_conf = [s \in Syms |-> s \notin S /\ @[s]]]

\* Mutant: MODULES is like any other symbol.
RecInvalidatePlain(k, i) == Uncached(k, Reached(k, {i}))

RecInvalidate(k, i) ==
  Only({Uncached(j, IF defs.modules \in S THEN Items ELSE S) : j \in {k}, S \in {Reached(k, {i})}})
RecInvalidateIfHasPrompt(k, s) == IF Prompts(s) = <<>> THEN k ELSE RecInvalidate(k, s)
-----------------------------------------------------------------------------
(***************************************************************************)
(* Giving and taking user values.                                          *)
(***************************************************************************)
IsValid(s, v) ==
  CASE OrigType(s) = "bool" -> v \in {"n", "y"}
    [] OrigType(s) = "tristate" -> v \in {"n", "m", "y"}
    [] OrigType(s) = "int" -> v \in DOMAIN NumOf
    [] OTHER -> OrigType(s) = "string"

\* In a choice, y makes the symbol the selection.
WithUserValue(k, s, v) ==
  IF InChoice(s) /\ v = "y"
  THEN RecInvalidate([k EXCEPT !.user_value[s] = v, !.user_selection[ChoiceOf(s)] = s,
                               !.was_set[s] = TRUE, !.was_set[ChoiceOf(s)] = TRUE], ChoiceOf(s))
  ELSE RecInvalidateIfHasPrompt([k EXCEPT !.user_value[s] = v, !.was_set[s] = TRUE], s)

\* Mutant: an equal value is never set again, in a choice neither.
SetSymValueOnce(k, s, v) ==
  IF v = k.user_value[s] \/ ~IsValid(s, v) THEN k ELSE WithUserValue(k, s, v)

\* Symbol.set_value(): a symbol of a choice is set even when it has the value.
SetSymValue(k, s, v) ==
  IF v = k.user_value[s] /\ ~InChoice(s) THEN [k EXCEPT !.was_set[s] = TRUE]
  ELSE IF ~IsValid(s, v) THEN k
  ELSE WithUserValue(k, s, v)
UnsetSymValue(k, s) ==
  IF k.user_value[s] = None THEN k
  ELSE RecInvalidateIfHasPrompt([k EXCEPT !.user_value[s] = None], s)

SetChoiceValue(k, c, v) ==
  IF v = k.user_value[c] THEN [k EXCEPT !.was_set[c] = TRUE]
  ELSE IF ~IsValid(c, v) THEN k
  ELSE RecInvalidate([k EXCEPT !.user_value[c] = v, !.was_set[c] = TRUE], c)
UnsetChoiceValue(k, c) ==
  IF k.user_value[c] = None /\ k.user_selection[c] = None THEN k
  ELSE RecInvalidate([k EXCEPT !.user_value[c] = None, !.user_selection[c] = None], c)

\* The symbols, then the choices, of a set, in the order they were defined.
UnsetItem(k, i) == IF i \in Syms THEN UnsetSymValue(k, i) ELSE UnsetChoiceValue(k, i)
RECURSIVE Unset(_, _, _)
Unset(k, S, from) ==
  IF from > Len(defs.order) THEN k
  ELSE Only({Unset(j, S, from + 1) :
               j \in {IF defs.order[from] \in S THEN UnsetItem(k, defs.order[from]) ELSE k}})
UnsetValues(k) == Unset(k, Items, 1)
-----------------------------------------------------------------------------
Init == defs \in Kconfigs /\ conf = Pristine

\* _was_set means something only while a file is loaded.
Settled(k) == [k EXCEPT !.was_set = [i \in Items |-> FALSE]]

\* A client of the class reads an attribute of an item.
ReadAttr(i, a) == conf' = Read(conf, {<<i, a>>}) /\ UNCHANGED defs

\* A user gives a value to a symbol or sets the mode of a choice.
SetValue(i, v) ==
  /\ conf' = Settled(IF i \in Syms THEN SetSymValue(conf, i, v) ELSE SetChoiceValue(conf, i, v))
  /\ UNCHANGED defs
UnsetValue(i) ==
  /\ conf' = UnsetItem(conf, i)
  /\ UNCHANGED defs

\* Without a prompt any value does as well: none has an effect.
UserValues(i) ==
  CASE OrigType(i) \in BoolTri -> IF Prompts(i) = <<>> THEN {"n"} ELSE {"n", "m", "y"}
    [] OrigType(i) = "int" -> DOMAIN NumOf
    [] OTHER -> UserTexts

Next ==
  \/ \E n \in Values \cap Readable : ReadAttr(n[1], n[2])
  \/ \E i \in Items : UnsetValue(i) \/ \E v \in UserValues(i) : SetValue(i, v)
  \/ conf' = UnsetValues(conf) /\ UNCHANGED defs

Spec == Init /\ [][Next]_<<defs, conf>>
-----------------------------------------------------------------------------
(***************************************************************************)
(* Properties.                                                             *)
(***************************************************************************)

\* A state without caches: what the values are.
Fresh(k) == [k EXCEPT !.cache = NoCache]

\* At most one symbol of a choice is y, and one is if the choice is in y mode
\* and has a symbol to offer (Choice._selection()).
OneSelection ==
  \A k \in {Fresh(conf)} : \A c \in Choices :
    LET syms == Elems(defs.choice[c].syms)
        chosen == {s \in syms : Tri(k, s) = 2}
    IN /\ Cardinality(chosen) <= 1
       /\ ChoiceTri(k, c) = 2 /\ (\E s \in syms : Vis(k, s) # 0) => chosen # {}
       /\ chosen # {} => \A s \in syms \ chosen : Tri(k, s) = 0

\* What a user is offered takes effect: an assignable value, once set, is the
\* value (Symbol.assignable).
OfferedIsHeld ==
  \A k \in {Fresh(conf)} : \A s \in Syms : \A v \in Assignable(k, s) :
    \A set \in {SetSymValue(k, s, TriStr(v))} : Tri(set, s) = v
=============================================================================
