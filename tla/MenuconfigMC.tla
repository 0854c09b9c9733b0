----------------------------- MODULE MenuconfigMC -----------------------------
(***************************************************************************)
(* Small stocks of statements, and menu trees with the files that a        *)
(* session starts from.                                                    *)
(***************************************************************************)
EXTENDS Menuconfig, TLC

S(s) == <<"SYM", s>>
Both(a, b) == <<"AND", a, b>>
-----------------------------------------------------------------------------
Statement(kw, s, props) == [kw |-> kw, item |-> s, props |-> << <<"type", "bool">> >> \o props]
Config(s, props) == Statement("config", s, props)
Comment(props) == [kw |-> "comment", item |-> None, props |-> props]
If(e) == [kw |-> "if", item |-> None, props |-> << <<"depends", e>> >>]
Menu(props) == [kw |-> "menu", item |-> None, props |-> props]
Choice(c, props) == [kw |-> "choice", item |-> c, props |-> props]
Source(found, obligatory) == [kw |-> "source", files |-> found, obligatory |-> obligatory]
Prompt == <<"prompt", Y>>
Depends(e) == <<"depends", e>>

\* Implicit menus: C follows B, B follows A, a second definition of B.
Submenus ==
  {Config("A", <<Prompt>>), Config("B", <<Depends(S("A"))>>),
   Config("C", <<Prompt, Depends(Both(S("B"), <<"!=", "A", "n">>))>>),
   Config("B", <<Prompt, <<"default", Y, S("C")>>>>),
   If(<<"OR", S("A"), S("C")>>)}

\* Blocks in blocks, a file, selects.
Blocks ==
  {Config("A", <<Prompt, <<"select", "B", Y>>>>), Config("B", <<Prompt, <<"default", Y, Y>>>>),
   Menu(<<Depends(S("C")), <<"visible", S("A")>>>>), If(S("C")),
   Source(<<"f">>, TRUE), Config("C", <<>>)}

\* A choice, its symbols and what they depend on.
ChosenFrom ==
  {Choice("K", <<<<"prompt", S("X")>>, <<"default", S("P"), Y>>>>),
   Config("P", <<Prompt>>), Config("Q", <<Prompt, Depends(S("P"))>>),
   Config("X", <<Prompt>>), If(S("Q"))}

\* A choice that is defined in two places, symbols without a type, an imply.
Named ==
  {Choice("K", <<<<"optional">>, Prompt, <<"default", S("P"), S("A")>>>>),
   Choice("K", <<Depends(S("A"))>>),
   [Config("P", <<Prompt>>) EXCEPT !.props = Tail(@)], Config("R", <<Prompt, Depends(<<"=", "P", "y">>)>>),
   Config("A", <<Prompt, <<"imply", "R", Y>>>>)}

\* Files that source files, and lines that are errors.
Sourced ==
  {Source(<<"f", "g">>, TRUE), Source(<<"f">>, FALSE), Source(<<>>, FALSE), Source(<<>>, TRUE),
   Menu(<<Depends(S("S"))>>), Comment(<<Depends(S("S"))>>), Comment(<<<<"select", "S", Y>>>>),
   Config("S", <<<<"type", "string">>, Prompt, <<"default", Both(S("S"), S("S")), Y>>>>)}

\* Symbols of a choice that depend on each other, one with a detour.
Rivals ==
  {Choice("K", <<Prompt>>), Config("P", <<Prompt>>), Config("Q", <<Prompt, Depends(S("P"))>>),
   Config("Z", <<Prompt, Depends(S("Q"))>>), Comment(<<Depends(S("Z"))>>)}

\* A condition with `!=', which makes an implicit menu, or a menu that A opens.
Unequal == {Config("A", <<Prompt>>), Statement("menuconfig", "A", <<Prompt>>),
            Config("B", <<Prompt, Depends(<<"!=", "A", "y">>)>>)}

AllStocks == {Submenus, Unequal, Blocks, ChosenFrom, Rivals, Named, Sourced}
-----------------------------------------------------------------------------
Plain(type) == [type |-> type, choice |-> None, prompts |-> <<Y>>, defaults |-> <<>>, ranges |-> <<>>,
                rev_dep |-> N, weak_rev_dep |-> N, direct_dep |-> Y, env |-> FALSE]
Below(type, dep) == [Plain(type) EXCEPT !.prompts = <<dep>>, !.direct_dep = dep]
Node(kind, item, prompt, parent, next, list) ==
  [kind |-> kind, item |-> item, prompt |-> prompt, visibility |-> Y,
   menuconfig |-> kind \in {"menu", "choice"}, parent |-> parent, next |-> next, list |-> list]
TopNode(list) == Node("menu", None, <<Y>>, 0, 0, list)
Table(sym, choice, order) == [sym |-> sym, choice |-> choice, modules |-> "MODULES", order |-> order]

\* A menu with `visible if V' that holds a comment and A; B comes below A, in
\* an implicit menu, C has a menu of its own and depends on B.
Hidden ==
  [defs |-> Table([V |-> Plain("bool"),
                   A |-> [Plain("bool") EXCEPT !.prompts = <<S("V")>>],
                   B |-> [Below("bool", S("A")) EXCEPT !.prompts = <<Both(S("A"), S("V"))>>,
                            !.defaults = <<[val |-> Y, cond |-> S("A")]>>]],
                  <<>>, <<"V", "A", "B">>),
   nodes |-> <<TopNode(2), Node("symbol", "V", <<Y>>, 1, 3, 0),
               [Node("menu", None, <<Y>>, 1, 0, 4) EXCEPT !.visibility = S("V")],
               Node("comment", None, <<Y>>, 3, 5, 0),
               Node("symbol", "A", <<S("V")>>, 3, 0, 6),
               Node("symbol", "B", <<Both(S("A"), S("V"))>>, 5, 0, 0)>>,
   configs |-> {None, << <<"V", "y">>, <<"A", "y">>, <<"B", "n">> >>},
   others |-> {<< <<"V", "n">>, <<"GONE", "y">> >>}]

\* A choice at two places, the second of which is there if X is set; P is at
\* both of them.
Twice ==
  LET sym(prompts) == [Plain("bool") EXCEPT !.choice = "K", !.direct_dep = S("K"), !.prompts = prompts]
      second == Both(S("K"), S("X"))
  IN
  [defs |-> Table([X |-> Plain("bool"), P |-> sym(<<S("K"), second>>), R |-> sym(<<second>>)],
                  [K |-> [type |-> "bool", optional |-> FALSE, prompts |-> <<Y, S("X")>>,
                          defaults |-> <<>>, syms |-> <<"P", "R">>]],
                  <<"X", "P", "R", "K">>),
   nodes |-> <<TopNode(2), Node("symbol", "X", <<Y>>, 1, 3, 0),
               Node("choice", "K", <<Y>>, 1, 5, 4), Node("symbol", "P", <<S("K")>>, 3, 0, 0),
               Node("choice", "K", <<S("X")>>, 1, 0, 6), Node("symbol", "P", <<second>>, 5, 7, 0),
               Node("symbol", "R", <<second>>, 5, 0, 0)>>,
   configs |-> {<< <<"X", "y">>, <<"P", "n">>, <<"R", "y">> >>},
   others |-> {<< <<"X", "n">>, <<"P", "y">> >>}]

\* A symbol with a menu of its own, at a place where it cannot be changed and
\* again at the end; what is in the menu depends on it.
Again ==
  [defs |-> Table([X |-> Plain("bool"),
                   A |-> [Plain("bool") EXCEPT !.prompts = <<S("X"), Y>>],
                   B |-> Below("bool", S("A")), C |-> Below("bool", S("B"))],
                  <<>>, <<"X", "A", "B", "C">>),
   nodes |-> <<TopNode(2), Node("symbol", "X", <<Y>>, 1, 3, 0),
               [Node("symbol", "A", <<S("X")>>, 1, 6, 4) EXCEPT !.menuconfig = TRUE],
               Node("symbol", "B", <<S("A")>>, 3, 0, 5), Node("symbol", "C", <<S("B")>>, 4, 0, 0),
               Node("symbol", "A", <<Y>>, 1, 0, 0)>>,
   configs |-> {None, << <<"A", "y">>, <<"B", "y">> >>},
   others |-> {<< <<"X", "y">>, <<"A", "n">> >>}]

\* T is offered up to M, its default is y; an int with a range.
Above ==
  [defs |-> Table([MODULES |-> Plain("bool"), M |-> Plain("tristate"),
                   T |-> [Plain("tristate") EXCEPT !.prompts = <<S("M")>>,
                            !.defaults = <<[val |-> Y, cond |-> Y]>>],
                   I |-> [Plain("int") EXCEPT !.defaults = <<[val |-> S("9"), cond |-> Y]>>,
                            !.ranges = <<[low |-> "2", high |-> "5", cond |-> S("M")]>>]],
                  <<>>, <<"MODULES", "M", "T", "I">>),
   nodes |-> <<TopNode(2), Node("symbol", "MODULES", <<Y>>, 1, 3, 0), Node("symbol", "M", <<Y>>, 1, 4, 0),
               Node("symbol", "T", <<S("M")>>, 1, 5, 0), Node("symbol", "I", <<Y>>, 1, 0, 0)>>,
   configs |-> {<< <<"MODULES", "y">>, <<"M", "m">> >>},
   others |-> {<< <<"M", "y">>, <<"I", "9">> >>}]

MCMenus == {Hidden, Twice, Again, Above}
MCKconfigs == {m.defs : m \in MCMenus}
MCTexts == <<"", "2", "5", "9", "A", "P", "m", "n", "y">>
MCNumOf == ("2" :> 2) @@ ("5" :> 5) @@ ("9" :> 9)
MCBudgets == {[edits |-> 2, files |-> 0], [edits |-> 1, files |-> 1], [edits |-> 0, files |-> 2]}
MCFirstLook == [edits |-> 1, files |-> 0]
=============================================================================
