---------------------------- MODULE KconfigTables ----------------------------
(***************************************************************************)
(* Small symbol tables: five for programs that use the classes, four for   *)
(* the tools.                                                              *)
(***************************************************************************)
EXTENDS KconfigValues, TLC

Y == <<"SYM", "y">>
N == <<"SYM", "n">>
S(s) == <<"SYM", s>>
Both(a, b) == <<"AND", a, b>>
Plain(type) == [type |-> type, choice |-> None, prompts |-> <<Y>>, defaults |-> <<>>, ranges |-> <<>>,
                rev_dep |-> N, weak_rev_dep |-> N, direct_dep |-> Y, env |-> FALSE]

-----------------------------------------------------------------------------
\* B depends on A and is selected by C, which is on by default if B's own
\* dependency is not met.
Selects ==
  [sym |-> [A |-> Plain("bool"),
            B |-> [Plain("bool") EXCEPT !.prompts = <<S("A")>>, !.direct_dep = S("A"),
                     !.defaults = <<[val |-> Y, cond |-> S("A")]>>, !.rev_dep = S("C")],
            C |-> Plain("bool")],
   choice |-> <<>>, modules |-> "MODULES", order |-> <<"A", "B", "C">>]

\* A choice of bool symbols, one of which depends on A.
BoolChoice ==
  [sym |-> [A |-> Plain("bool"),
            P |-> [Plain("bool") EXCEPT !.choice = "K", !.prompts = <<Both(S("K"), S("A"))>>,
                     !.direct_dep = Both(S("K"), S("A"))],
            R |-> [Plain("bool") EXCEPT !.choice = "K", !.prompts = <<S("K")>>, !.direct_dep = S("K")]],
   choice |-> [K |-> [type |-> "bool", optional |-> FALSE, prompts |-> <<Y>>,
                      defaults |-> <<[sym |-> "P", cond |-> Y]>>,
                      syms |-> <<"P", "R">>]],
   modules |-> "MODULES", order |-> <<"A", "P", "R", "K">>]

\* Tristate symbols and MODULES: W implies T, which selects U if it is visible.
Modules ==
  [sym |-> [M |-> Plain("bool"),
            W |-> Plain("tristate"),
            T |-> [Plain("tristate") EXCEPT !.weak_rev_dep = S("W"), !.prompts = <<S("W")>>]],
   choice |-> <<>>, modules |-> "M", order |-> <<"M", "W", "T">>]

\* A tristate choice with a bool and a tristate symbol.
TriChoice ==
  [sym |-> [M |-> [Plain("bool") EXCEPT !.defaults = <<[val |-> Y, cond |-> Y]>>, !.prompts = <<>>],
            P |-> [Plain("tristate") EXCEPT !.choice = "K", !.prompts = <<S("K")>>, !.direct_dep = S("K")],
            Q |-> [Plain("bool") EXCEPT !.choice = "K", !.prompts = <<S("K")>>, !.direct_dep = S("K")]],
   choice |-> [K |-> [type |-> "tristate", optional |-> TRUE, prompts |-> <<Y>>,
                      defaults |-> <<>>, syms |-> <<"P", "Q">>]],
   modules |-> "M", order |-> <<"M", "P", "Q", "K">>]

\* An int with a range that another symbol decides, and a string that is
\* shown for one of its values.
Numbers ==
  [sym |-> [A |-> Plain("bool"),
            I |-> [Plain("int") EXCEPT
                     !.defaults = <<[val |-> S("9"), cond |-> Y]>>,
                     !.ranges = <<[low |-> "2", high |-> "5", cond |-> S("A")]>>],
            V |-> [Plain("string") EXCEPT !.prompts = <<<<">", "I", "2">>>>,
                     !.defaults = <<[val |-> S("v"), cond |-> <<"=", "I", "5">>]>>]],
   choice |-> <<>>, modules |-> "MODULES", order |-> <<"A", "I", "V">>]

-----------------------------------------------------------------------------
\* A choice whose default depends on A, a symbol that A selects, and where the
\* configuration came from.
Chosen ==
  [sym |-> [DS_DEFCONFIG |-> [Plain("string") EXCEPT !.defaults = <<[val |-> S(""), cond |-> Y]>>],
            A |-> Plain("bool"),
            B |-> [Plain("bool") EXCEPT !.rev_dep = S("A"), !.defaults = <<[val |-> S("P"), cond |-> Y]>>],
            P |-> [Plain("bool") EXCEPT !.choice = "K", !.prompts = <<S("K")>>, !.direct_dep = S("K")],
            R |-> [Plain("bool") EXCEPT !.choice = "K", !.prompts = <<S("K")>>, !.direct_dep = S("K")]],
   choice |-> [K |-> [type |-> "bool", optional |-> FALSE, prompts |-> <<Y>>,
                      defaults |-> <<[sym |-> "R", cond |-> S("A")]>>, syms |-> <<"P", "R">>]],
   modules |-> "MODULES", order |-> <<"DS_DEFCONFIG", "A", "B", "P", "R", "K">>]

\* An optional choice, an int with a default out of its range.
Optional ==
  [sym |-> [DS_DEFCONFIG |-> [Plain("string") EXCEPT !.defaults = <<[val |-> S(""), cond |-> Y]>>],
            I |-> [Plain("int") EXCEPT !.prompts = <<S("P")>>, !.defaults = <<[val |-> S("9"), cond |-> Y]>>,
                     !.ranges = <<[low |-> "2", high |-> "5", cond |-> S("P")]>>],
            P |-> [Plain("bool") EXCEPT !.choice = "K", !.prompts = <<S("K")>>, !.direct_dep = S("K")]],
   choice |-> [K |-> [type |-> "bool", optional |-> TRUE, prompts |-> <<Y>>,
                      defaults |-> <<>>, syms |-> <<"P">>]],
   modules |-> "MODULES", order |-> <<"DS_DEFCONFIG", "I", "P", "K">>]

\* W limits a tristate symbol with a default, and one that is implied.
Limited ==
  [sym |-> [DS_DEFCONFIG |-> [Plain("string") EXCEPT !.defaults = <<[val |-> S(""), cond |-> Y]>>],
            MODULES |-> [Plain("bool") EXCEPT !.defaults = <<[val |-> Y, cond |-> Y]>>],
            W |-> Plain("tristate"),
            T |-> [Plain("tristate") EXCEPT !.prompts = <<S("W")>>, !.defaults = <<[val |-> Y, cond |-> Y]>>],
            U |-> [Plain("tristate") EXCEPT !.weak_rev_dep = S("T"), !.prompts = <<S("W")>>,
                     !.direct_dep = S("W")]],
   choice |-> <<>>, modules |-> "MODULES", order |-> <<"DS_DEFCONFIG", "MODULES", "W", "T", "U">>]

\* A tristate choice that is not optional, with a bool symbol as its default.
Moded ==
  [sym |-> [DS_DEFCONFIG |-> [Plain("string") EXCEPT !.defaults = <<[val |-> S(""), cond |-> Y]>>],
            MODULES |-> [Plain("bool") EXCEPT !.defaults = <<[val |-> Y, cond |-> Y]>>, !.prompts = <<>>],
            P |-> [Plain("tristate") EXCEPT !.choice = "K", !.prompts = <<S("K")>>, !.direct_dep = S("K")],
            Q |-> [Plain("bool") EXCEPT !.choice = "K", !.prompts = <<S("K")>>, !.direct_dep = S("K")]],
   choice |-> [K |-> [type |-> "tristate", optional |-> FALSE, prompts |-> <<Y>>,
                      defaults |-> <<[sym |-> "Q", cond |-> Y]>>, syms |-> <<"P", "Q">>]],
   modules |-> "MODULES", order |-> <<"DS_DEFCONFIG", "MODULES", "P", "Q", "K">>]

MCClients == {Selects, BoolChoice, Modules, TriChoice, Numbers}
MCTools == {Chosen, Optional}
MCTristates == {Limited, Moded}
MCReadable == UNION {(DOMAIN d.sym) \X {"str"} : d \in MCClients}
              \cup {<<"B", "assignable">>, <<"T", "assignable">>}
MCTexts == <<"", "2", "5", "9", "defconfig", "m", "n", "v", "x_defconfig", "y">>
MCNumOf == ("2" :> 2) @@ ("5" :> 5) @@ ("9" :> 9)
=============================================================================
