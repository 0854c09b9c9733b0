----------------------------- MODULE KconfigTree -----------------------------
(***************************************************************************)
(* From the text of Kconfig files to a menu tree and a symbol table: how   *)
(* the Kconfig class of src/common/lib/kconfiglib/kconfiglib.py parses     *)
(* blocks, propagates dependencies, makes implicit menus and looks for     *)
(* dependency loops.  The table is one of those KconfigValues starts from. *)
(*                                                                         *)
(* Any text that can be put together from a stock of statements is parsed. *)
(* A statement comes with its property lines; an expression is one of      *)
(* KconfigValues, a condition that is not there is y.  A node of the menu  *)
(* tree is a place in nodes, 0 is no node, 1 the top node.                 *)
(***************************************************************************)
EXTENDS KconfigValues

LOCAL Ext == INSTANCE SequencesExt

CONSTANT Stocks  \* sets of statements

VARIABLES
  stock,  \* the statements that are not used yet
  nodes,  \* the menu nodes, in the order of their definitions
  open,   \* the files and blocks being parsed: _parse_block() calls
  text,   \* the statement of each node and the blocks around it
  phase   \* how far Kconfig.__init__() is

treeVars == <<defs, conf, stock, nodes, open, text, phase>>

Y == <<"SYM", "y">>
N == <<"SYM", "n">>
Item(i) == <<"SYM", i>>

MakeAnd(e, f) ==
  IF e = Y THEN f ELSE IF f = Y THEN e ELSE IF e = N \/ f = N THEN N ELSE <<"AND", e, f>>
MakeOr(e, f) ==
  IF e = N THEN f ELSE IF f = N THEN e ELSE IF e = Y \/ f = Y THEN Y ELSE <<"OR", e, f>>
-----------------------------------------------------------------------------
(***************************************************************************)
(* Parsing.                                                                *)
(***************************************************************************)
NewSymbol ==
  [type |-> "unknown", choice |-> None, prompts |-> <<>>, defaults |-> <<>>, ranges |-> <<>>,
   rev_dep |-> N, weak_rev_dep |-> N, direct_dep |-> N, env |-> FALSE]
NewChoice ==
  [type |-> "unknown", optional |-> FALSE, prompts |-> <<>>, defaults |-> <<>>,
   direct_dep |-> N, syms |-> <<>>]
NewNode(kind, item, parent) ==
  [kind |-> kind, item |-> item, menuconfig |-> kind \in {"menu", "choice"},
   prompt |-> <<>>, dep |-> Y, visibility |-> Y,
   defaults |-> <<>>, ranges |-> <<>>, selects |-> <<>>, implies |-> <<>>,
   parent |-> parent, next |-> 0, list |-> 0]
NoTable == [sym |-> <<>>, choice |-> <<>>, modules |-> "MODULES", order |-> <<>>]

Innermost == open[Len(open)]
Put(f, x, v) == [y \in DOMAIN f \cup {x} |-> IF y = x THEN v ELSE f[y]]

\* KconfigError: there is no Kconfig object.
Refuse(why) ==
  /\ phase' = why
  /\ stock' = {} /\ nodes' = <<>> /\ open' = <<>> /\ text' = <<>>
  /\ defs' = NoTable

\* One property line.  p.sc is the symbol or choice of the node.
PropLine(p, line) ==
  CASE line[1] = "type"     -> [p EXCEPT !.sc.type = line[2]]
    [] line[1] = "prompt"   -> [p EXCEPT !.node.prompt = <<line[2]>>]
    [] line[1] = "depends"  -> [p EXCEPT !.node.dep = MakeAnd(@, line[2])]
    [] line[1] = "visible"  -> [p EXCEPT !.node.visibility = MakeAnd(@, line[2])]
    [] line[1] = "default"  -> [p EXCEPT !.node.defaults = Append(@, [val |-> line[2], cond |-> line[3]])]
    [] line[1] = "range"    -> [p EXCEPT !.node.ranges =
                                  Append(@, [low |-> line[2], high |-> line[3], cond |-> line[4]])]
    [] line[1] = "select"   -> [p EXCEPT !.bad = @ \/ p.node.kind # "symbol",
                                         !.node.selects = Append(@, [target |-> line[2], cond |-> line[3]])]
    [] line[1] = "imply"    -> [p EXCEPT !.bad = @ \/ p.node.kind # "symbol",
                                         !.node.implies = Append(@, [target |-> line[2], cond |-> line[3]])]
    [] line[1] = "optional" -> IF p.node.kind = "choice" THEN [p EXCEPT !.sc.optional = TRUE]
                               ELSE [p EXCEPT !.bad = TRUE]
ParseProps(node, sc, lines) ==
  Ext!FoldLeft(PropLine, [node |-> node, sc |-> sc, bad |-> FALSE], lines)

Used(st) ==
  /\ phase = "parsing" /\ st \in stock
  /\ stock' = stock \ {st}
  /\ UNCHANGED phase
Recorded(st) ==
  text' = Append(text, [st |-> st, blocks |-> {open[o].node : o \in DOMAIN open} \ {1}])

\* `prev.next = prev = node' for a node that is complete.
AddLeaf(node) ==
  LET new == Len(nodes) + 1 IN
  /\ nodes' = Append([nodes EXCEPT ![Innermost.prev].next = new], node)
  /\ open' = [open EXCEPT ![Len(open)].prev = new]
\* The contents are linked to the node itself until the block ends.
AddBlock(node, end) ==
  /\ nodes' = Append(nodes, node)
  /\ open' = Append(open, [end |-> end, node |-> Len(nodes) + 1, prev |-> Len(nodes) + 1,
                           name |-> None, rest |-> <<>>])

Parsing(kw) == {st \in stock : phase = "parsing" /\ st.kw = kw}

ParseConfig(st) ==
  LET sym == IF st.item \in Syms THEN defs.sym[st.item] ELSE NewSymbol
      node == [NewNode("symbol", st.item, Innermost.node) EXCEPT !.menuconfig = st.kw = "menuconfig"]
      p == ParseProps(node, sym, st.props)
  IN IF p.bad THEN Refuse("syntax")
     ELSE /\ Used(st) /\ Recorded(st) /\ AddLeaf(p.node)
          /\ defs' = [defs EXCEPT !.sym = Put(@, st.item, p.sc)]
ParseComment(st) ==
  LET p == ParseProps([NewNode("comment", None, Innermost.node) EXCEPT !.prompt = <<Y>>], None, st.props)
  IN IF p.bad THEN Refuse("syntax")
     ELSE Used(st) /\ Recorded(st) /\ AddLeaf(p.node) /\ UNCHANGED defs

ParseIf(st) ==
  /\ Used(st) /\ Recorded(st)
  /\ AddBlock([NewNode("if", None, Innermost.node) EXCEPT !.dep = st.props[1][2]], "endif")
  /\ UNCHANGED defs
ParseMenu(st) ==
  LET p == ParseProps([NewNode("menu", None, Innermost.node) EXCEPT !.prompt = <<Y>>], None, st.props)
  IN IF p.bad THEN Refuse("syntax")
     ELSE Used(st) /\ Recorded(st) /\ AddBlock(p.node, "endmenu") /\ UNCHANGED defs
\* A named choice may have several definitions.
ParseChoice(st) ==
  LET choice == IF st.item \in Choices THEN defs.choice[st.item] ELSE NewChoice
      p == ParseProps(NewNode("choice", st.item, Innermost.node), choice, st.props)
  IN IF p.bad THEN Refuse("syntax")
     ELSE /\ Used(st) /\ Recorded(st) /\ AddBlock(p.node, "endchoice")
          /\ defs' = [defs EXCEPT !.choice = Put(@, st.item, p.sc)]

\* A file that is being read may not be read again.
BeingRead == {open[o].name : o \in DOMAIN open} \ {None}
EnterFile(below, files) ==
  /\ open' = Append(below, [end |-> "eof", node |-> below[Len(below)].node, prev |-> below[Len(below)].prev,
                            name |-> Head(files), rest |-> Tail(files)])
  /\ UNCHANGED <<nodes, text, defs>>
\* st.files are the files that the pattern of the statement matches.
ParseSource(st) ==
  IF st.files = <<>>
  THEN IF st.obligatory THEN Refuse("not found")
       ELSE Used(st) /\ UNCHANGED <<nodes, open, text, defs>>
  ELSE IF Head(st.files) \in BeingRead THEN Refuse("recursive source")
       ELSE Used(st) /\ EnterFile(open, st.files)

Ends == {"endif", "endmenu", "endchoice"}
\* The chain of nodes that was linked to the node becomes its list.
CloseBlock ==
  LET n == Innermost.node
      ended == [nodes EXCEPT ![Innermost.prev].next = 0]
      outer == Len(open) - 1
  IN /\ nodes' = [[ended EXCEPT ![n].list = ended[n].next] EXCEPT ![open[outer].prev].next = n]
     /\ open' = [Ext!Front(open) EXCEPT ![outer].prev = n]
     /\ UNCHANGED <<stock, text, defs, phase>>
ParseEnd(kw) ==
  /\ phase = "parsing"
  /\ IF Innermost.end = kw THEN CloseBlock ELSE Refuse("syntax")

\* The end of a file that another one sources, then of the top file.
LeaveFile ==
  LET outer == Len(open) - 1
      below == [Ext!Front(open) EXCEPT ![outer].prev = Innermost.prev]
      rest == Innermost.rest
  IN /\ UNCHANGED <<stock, phase>>
     /\ IF rest = <<>> THEN open' = below /\ UNCHANGED <<nodes, text, defs>>
        ELSE EnterFile(below, rest)
FinishParsing ==
  LET ended == [nodes EXCEPT ![Innermost.prev].next = 0] IN
  /\ nodes' = [ended EXCEPT ![1].list = ended[1].next, ![1].next = 0]
  /\ phase' = "parsed" /\ open' = <<>> /\ stock' = {}
  /\ UNCHANGED <<text, defs>>
EndOfFile ==
  /\ phase = "parsing"
  /\ IF Innermost.end # "eof" THEN Refuse("syntax")
     ELSE IF Len(open) = 1 THEN FinishParsing
     ELSE IF Innermost.rest # <<>> /\ Head(Innermost.rest) \in BeingRead \ {Innermost.name}
          THEN Refuse("recursive source")
     ELSE LeaveFile
-----------------------------------------------------------------------------
(***************************************************************************)
(* Finalizing.  h holds the nodes and the symbols and choices.             *)
(***************************************************************************)
RECURSIVE ExprDependsOn(_, _), Finalize(_, _, _), FinalizeList(_, _, _), AutoMenu(_, _, _, _),
          PropagateDeps(_, _, _, _), Flatten(_, _), LastOf(_, _), ListOf(_, _)

\* The nodes from n on.
ListOf(ns, n) == IF n = 0 THEN <<>> ELSE <<n>> \o ListOf(ns, ns[n].next)
LastOf(ns, n) == IF ns[n].next = 0 THEN n ELSE LastOf(ns, ns[n].next)

\* Mutant: either side of an `or' will do.
ExprDependsOnEither(e, s) ==
  CASE e[1] = "SYM" -> e[2] = s
    [] e[1] \in {"AND", "OR"} -> ExprDependsOn(e[2], s) \/ ExprDependsOn(e[3], s)
    [] OTHER -> FALSE

\* `!= y' counts as `= y' does: the precedence of `and' and `or' in
\* kconfiglib.py:6463.
ExprDependsOn(e, s) ==
  CASE e[1] = "SYM" -> e[2] = s
    [] e[1] \in {"=", "!="} ->
         LET other == IF e[3] = s THEN e[2] ELSE e[3] IN
         /\ s \in {e[2], e[3]}
         /\ other = "y" \/ (e[1] = "=" /\ other = "m") \/ (e[1] = "!=" /\ other = "n")
    [] e[1] = "AND" -> ExprDependsOn(e[2], s) \/ ExprDependsOn(e[3], s)
    [] OTHER -> FALSE
AutoMenuDep(ns, n, m) ==
  ExprDependsOn(IF ns[m].prompt # <<>> THEN ns[m].prompt[1] ELSE ns[m].dep, ns[n].item)

\* The node's dependencies, or the choice, become dependencies of its children.
WithCond(props, dep) == [p \in DOMAIN props |-> [props[p] EXCEPT !.cond = MakeAnd(@, dep)]]

\* Mutant: dependencies are not propagated to selects.
WithDepsButSelects(node, basedep, visible) ==
  LET dep == MakeAnd(node.dep, basedep) IN
  [node EXCEPT !.dep = dep,
               !.prompt = IF @ = <<>> THEN @ ELSE <<MakeAnd(@[1], MakeAnd(visible, dep))>>,
               !.defaults = WithCond(@, dep), !.implies = WithCond(@, dep)]

WithDeps(node, basedep, visible) ==
  LET dep == MakeAnd(node.dep, basedep) IN
  IF node.kind \in {"symbol", "choice"}
  THEN [node EXCEPT !.dep = dep,
                    !.prompt = IF @ = <<>> THEN @ ELSE <<MakeAnd(@[1], MakeAnd(visible, dep))>>,
                    !.defaults = WithCond(@, dep), !.ranges = WithCond(@, dep),
                    !.selects = WithCond(@, dep), !.implies = WithCond(@, dep)]
  ELSE [node EXCEPT !.dep = dep,
                    !.prompt = IF @ = <<>> THEN @ ELSE <<MakeAnd(@[1], dep)>>]
PropagateDeps(ns, n, child, visible) ==
  IF child = 0 THEN ns
  ELSE LET basedep == IF ns[n].kind = "choice" THEN Item(ns[n].item) ELSE ns[n].dep IN
       PropagateDeps([ns EXCEPT ![child] = WithDeps(@, basedep, visible)], n, ns[child].next, visible)

\* _add_props_to_sym(): what a symbol selects or implies is a symbol of its own.
Reverse(sym, s, props, field) ==
  Ext!FoldLeft(LAMBDA tab, p :
                 IF p.target \notin DOMAIN tab THEN tab
                 ELSE [tab EXCEPT ![p.target][field] = MakeOr(@, MakeAnd(Item(s), p.cond))],
               sym, props)
AddProps(h, n) ==
  LET node == h.nodes[n]
      s == node.item
      own == [h.sym EXCEPT ![s].direct_dep = MakeOr(@, node.dep),
                           ![s].defaults = @ \o node.defaults,
                           ![s].ranges = @ \o node.ranges]
  IN [h EXCEPT !.sym = Reverse(Reverse(own, s, node.selects, "rev_dep"), s, node.implies, "weak_rev_dep")]

\* What follows a symbol and depends on it goes below it.
AutoMenu(h, n, cur, visible) ==
  LET next == h.nodes[cur].next IN
  IF next # 0 /\ AutoMenuDep(h.nodes, n, next)
  THEN LET below == Finalize(h, next, visible) IN
       AutoMenu([below EXCEPT !.nodes[next].parent = n], n, next, visible)
  ELSE IF cur = n THEN h
  ELSE [h EXCEPT !.nodes = [h.nodes EXCEPT ![n].list = h.nodes[n].next, ![n].next = next, ![cur].next = 0]]

\* Mutant: the children keep their parent.
FlattenBelow(ns, n) ==
  IF n = 0 THEN ns
  ELSE IF ns[n].list = 0 \/ ns[n].prompt # <<>> \/ ns[n].kind = "choice" THEN Flatten(ns, ns[n].next)
  ELSE LET last == LastOf(ns, ns[n].list) IN
       Flatten([ns EXCEPT ![last].next = ns[n].next, ![n].next = ns[n].list, ![n].list = 0], ns[n].list)

\* The children of a node without a prompt come after it.
Flatten(ns, n) ==
  LET node == ns[n] IN
  IF n = 0 THEN ns
  ELSE IF node.list = 0 \/ node.prompt # <<>> \/ node.kind = "choice" THEN Flatten(ns, node.next)
  ELSE LET moved == ListOf(ns, node.list)
           up == [m \in DOMAIN ns |->
                    IF m = n THEN [node EXCEPT !.next = node.list, !.list = 0]
                    ELSE IF \E p \in DOMAIN moved : moved[p] = m
                    THEN [ns[m] EXCEPT !.parent = node.parent,
                                       !.next = IF @ = 0 THEN node.next ELSE @]
                    ELSE ns[m]]
       IN Flatten(up, node.list)
RemoveIfs(ns, n) ==
  LET kept == SelectSeq(ListOf(ns, ns[n].list), LAMBDA m : ns[m].kind # "if")
      After(m) == LET p == CHOOSE p \in DOMAIN kept : kept[p] = m IN
                  IF p = Len(kept) THEN 0 ELSE kept[p + 1]
  IN [m \in DOMAIN ns |->
        IF m = n THEN [ns[n] EXCEPT !.list = IF kept = <<>> THEN 0 ELSE kept[1]]
        ELSE IF \E p \in DOMAIN kept : kept[p] = m THEN [ns[m] EXCEPT !.next = After(m)]
        ELSE ns[m]]

\* The symbols right below a choice are the ones it chooses from; types that
\* are missing are taken from the choice, or by it.
FinalizeChoice(h, n) ==
  LET node == h.nodes[n]
      c == node.item
      below == SelectSeq(ListOf(h.nodes, node.list), LAMBDA m : h.nodes[m].kind = "symbol")
      chosen == [p \in DOMAIN below |-> h.nodes[below[p]].item]
      syms == h.choice[c].syms \o chosen
      typed == SelectSeq(syms, LAMBDA s : h.sym[s].type # "unknown")
      type == IF h.choice[c].type # "unknown" \/ typed = <<>> THEN h.choice[c].type
              ELSE h.sym[typed[1]].type
  IN [h EXCEPT !.choice[c].syms = syms,
               !.choice[c].type = type,
               !.choice[c].direct_dep = MakeOr(@, node.dep),
               !.choice[c].defaults = @ \o node.defaults,
               !.sym = [s \in DOMAIN @ |->
                          [@[s] EXCEPT !.choice = IF s \in Elems(chosen) THEN c ELSE @,
                                       !.type = IF @ = "unknown" /\ s \in Elems(syms) THEN type ELSE @]]]

FinalizeList(h, n, visible) ==
  IF n = 0 THEN h
  ELSE LET done == Finalize(h, n, visible) IN FinalizeList(done, done.nodes[n].next, visible)
Finalize(h, n, visible) ==
  LET node == h.nodes[n]
      inside == IF node.kind = "menu" THEN MakeAnd(visible, node.visibility) ELSE visible
      placed == IF node.kind = "symbol" THEN AutoMenu(AddProps(h, n), n, n, visible)
                ELSE IF node.list = 0 THEN h
                ELSE FinalizeList([h EXCEPT !.nodes = PropagateDeps(@, n, node.list, inside)],
                                  node.list, inside)
      first == placed.nodes[n].list
      tidy == IF first = 0 THEN placed
              ELSE [placed EXCEPT !.nodes = RemoveIfs(Flatten(@, first), n)]
  IN IF node.kind = "choice" THEN FinalizeChoice(tidy, n) ELSE tidy

\* _ordered_unique().
Unique(s) == Ext!FoldLeft(LAMBDA u, x : IF x \in Elems(u) THEN u ELSE Append(u, x), <<>>, s)
ItemsOf(ns, kind) ==
  LET which == SelectSeq([n \in DOMAIN ns |-> n], LAMBDA n : ns[n].kind = kind) IN
  Unique([p \in DOMAIN which |-> ns[which[p]].item])
PromptsOf(ns, kind, i) ==
  LET which == SelectSeq(ns, LAMBDA node : node.kind = kind /\ node.item = i /\ node.prompt # <<>>) IN
  [p \in DOMAIN which |-> which[p].prompt[1]]

\* What is raised by _check_sym_sanity() and _check_choice_sanity(): of all else
\* they warn.
MalformedSymbol(h) ==
  \E s \in DOMAIN h.sym : /\ h.sym[s].type \in {"string", "int"}
                         /\ \E d \in Elems(h.sym[s].defaults) : d.val[1] # "SYM"
MalformedChoice(h) ==
  \E c \in DOMAIN h.choice : \E d \in Elems(h.choice[c].defaults) : d.val[1] # "SYM"

TableOf(h) ==
  [sym |-> [s \in DOMAIN h.sym |-> [h.sym[s] EXCEPT !.prompts = PromptsOf(h.nodes, "symbol", s)]],
   choice |-> [c \in DOMAIN h.choice |->
                 [h.choice[c] EXCEPT !.prompts = PromptsOf(h.nodes, "choice", c),
                    !.defaults = [p \in DOMAIN @ |-> [sym |-> @[p].val[2], cond |-> @[p].cond]]]],
   modules |-> "MODULES",
   order |-> ItemsOf(h.nodes, "symbol") \o ItemsOf(h.nodes, "choice")]
FinalizeTree ==
  LET h == Finalize([nodes |-> nodes, sym |-> defs.sym, choice |-> defs.choice], 1, Y) IN
  /\ phase = "parsed"
  /\ IF MalformedSymbol(h) \/ MalformedChoice(h) THEN Refuse("malformed")
     ELSE /\ phase' = "finalized" /\ nodes' = h.nodes /\ defs' = TableOf(h)
          /\ UNCHANGED <<stock, open, text>>
-----------------------------------------------------------------------------
(***************************************************************************)
(* Dependency loops.  v.seen is _visited, the elements of a set are walked *)
(* in the order of walk.                                                   *)
(***************************************************************************)
RECURSIVE CheckSym(_, _, _, _), CheckChoice(_, _, _, _)

\* Choices do not depend on their symbols yet.
LoopDependents(i) ==
  {j \in Items : i \in IF j \in Syms THEN DependsOn(j)
                       ELSE MentionedIn(Elems(Prompts(j)) \cup {d.cond : d \in Elems(defs.choice[j].defaults)})}

\* Mutant: only what depends on the symbol itself is followed.
CheckSymAlone(v, s, ignore_choice, walk) ==
  IF v.loop \/ v.seen[s] = 2 THEN v
  ELSE IF v.seen[s] = 1 THEN [v EXCEPT !.loop = TRUE]
  ELSE LET dependents == SelectSeq(walk, LAMBDA i : i \in LoopDependents(s))
           below == Ext!FoldLeft(LAMBDA w, i : IF i \in Choices THEN CheckChoice(w, i, None, walk)
                                               ELSE CheckSym(w, i, FALSE, walk),
                                 [v EXCEPT !.seen[s] = 1], dependents)
       IN IF below.loop THEN below ELSE [below EXCEPT !.seen[s] = 2]

\* A choice that is entered from one of its symbols is left by the others.
CheckSym(v, s, ignore_choice, walk) ==
  IF v.loop \/ v.seen[s] = 2 THEN v
  ELSE IF v.seen[s] = 1 THEN [v EXCEPT !.loop = TRUE]
  ELSE LET dependents == SelectSeq(walk, LAMBDA i : i \in LoopDependents(s))
           below == Ext!FoldLeft(LAMBDA w, i : IF i \in Choices THEN CheckChoice(w, i, None, walk)
                                               ELSE CheckSym(w, i, FALSE, walk),
                                 [v EXCEPT !.seen[s] = 1], dependents)
           all == IF InChoice(s) /\ ~ignore_choice THEN CheckChoice(below, ChoiceOf(s), s, walk) ELSE below
       IN IF all.loop THEN all ELSE [all EXCEPT !.seen[s] = 2]
CheckChoice(v, c, skip, walk) ==
  IF v.loop \/ v.seen[c] = 2 THEN v
  ELSE IF v.seen[c] = 1 THEN [v EXCEPT !.loop = TRUE]
  ELSE LET all == Ext!FoldLeft(LAMBDA w, s : IF s = skip THEN w ELSE CheckSym(w, s, TRUE, walk),
                               [v EXCEPT !.seen[c] = 1], defs.choice[c].syms)
       IN IF all.loop THEN all ELSE [all EXCEPT !.seen[c] = 2]

LoopFound(walk) ==
  Ext!FoldLeft(LAMBDA v, s : CheckSym(v, s, FALSE, walk),
               [seen |-> [i \in Items |-> 0], loop |-> FALSE],
               SelectSeq(defs.order, LAMBDA i : i \in Syms)).loop
CheckLoops(walk) ==
  /\ phase = "finalized"
  /\ phase' = IF LoopFound(walk) THEN "loop" ELSE "done"
  /\ UNCHANGED <<defs, stock, nodes, open, text>>
-----------------------------------------------------------------------------
TreeInit ==
  /\ stock \in Stocks
  /\ nodes = <<[NewNode("menu", None, 0) EXCEPT !.prompt = <<Y>>]>>
  /\ open = <<[end |-> "eof", node |-> 1, prev |-> 1, name |-> "Kconfig", rest |-> <<>>]>>
  /\ text = <<[st |-> [kw |-> "menu", props |-> <<>>], blocks |-> {}]>>
  /\ phase = "parsing" /\ defs = NoTable /\ conf = <<>>

TreeNext ==
  /\ \/ \E st \in Parsing("config") \cup Parsing("menuconfig") : ParseConfig(st)
     \/ \E st \in Parsing("comment") : ParseComment(st)
     \/ \E st \in Parsing("if") : ParseIf(st)
     \/ \E st \in Parsing("menu") : ParseMenu(st)
     \/ \E st \in Parsing("choice") : ParseChoice(st)
     \/ \E st \in Parsing("source") : ParseSource(st)
     \/ \E kw \in Ends : ParseEnd(kw)
     \/ EndOfFile
     \/ FinalizeTree
     \/ \E walk \in {defs.order, Ext!Reverse(defs.order)} : CheckLoops(walk)
  /\ UNCHANGED conf

TreeSpec == TreeInit /\ [][TreeNext]_treeVars
-----------------------------------------------------------------------------
(***************************************************************************)
(* Properties.  An assignment gives a value to every item.                 *)
(***************************************************************************)

RECURSIVE ValueOf(_, _)
ValueOf(e, a) ==
  LET At(i) == IF i \in Items THEN a[i] ELSE TriOf(i) IN
  CASE e[1] = "SYM" -> At(e[2])
    [] e[1] = "NOT" -> 2 - ValueOf(e[2], a)
    [] e[1] = "AND" -> And(ValueOf(e[2], a), ValueOf(e[3], a))
    [] e[1] = "OR"  -> Or(ValueOf(e[2], a), ValueOf(e[3], a))
    [] e[1] = "="   -> IF At(e[2]) = At(e[3]) THEN 2 ELSE 0
    [] e[1] = "!="  -> IF At(e[2]) = At(e[3]) THEN 0 ELSE 2
Assignments == [Items -> 0..2]
Least(S) == CHOOSE v \in S \cup {2} : \A w \in S : v <= w
Most(S) == CHOOSE v \in S \cup {0} : \A w \in S : w <= v

\* What the text says of node n: its own lines, and the blocks around it up to
\* the first choice, whose mode stands for what is further out.
PropLines(n, kw) == SelectSeq(text[n].st.props, LAMBDA line : line[1] = kw)
OwnDep(n, a) == Least({ValueOf(line[2], a) : line \in Elems(PropLines(n, "depends"))})
ChoiceAround(n) == Most({b \in text[n].blocks : nodes[b].kind = "choice"})
DepOf(n, a) ==
  LET c == ChoiceAround(n) IN
  Least({OwnDep(n, a)} \cup {OwnDep(b, a) : b \in {b \in text[n].blocks : b > c}}
        \cup IF c = 0 THEN {} ELSE {a[nodes[c].item]})
VisibleIf(n, a) ==
  Least(UNION {{ValueOf(line[2], a) : line \in Elems(PropLines(b, "visible"))} : b \in text[n].blocks})
PromptOf(n, a) ==
  IF nodes[n].kind \in {"menu", "comment"} THEN DepOf(n, a)
  ELSE LET line == Ext!Last(PropLines(n, "prompt")) IN
       Least({ValueOf(line[2], a), DepOf(n, a), VisibleIf(n, a)})

DefinitionsOf(s) == SelectSeq([n \in DOMAIN nodes |-> n],
                              LAMBDA n : nodes[n].kind = "symbol" /\ nodes[n].item = s)
\* The lines of all definitions of a symbol, in their order, with their nodes.
AllLines(s, kw) ==
  Ext!FoldLeft(LAMBDA all, n : all \o [p \in DOMAIN PropLines(n, kw) |-> [line |-> PropLines(n, kw)[p], node |-> n]],
               <<>>, DefinitionsOf(s))
Selecting(t, kw) == {<<s, l>> \in UNION {{s} \X Elems(AllLines(s, kw)) : s \in Syms} : l.line[2] = t}
SelectedBy(t, kw, a) ==
  Most({Least({a[x[1]], ValueOf(x[2].line[3], a), DepOf(x[2].node, a)}) : x \in Selecting(t, kw)})

\* Conditions are those that the text gives, wherever nodes were moved to and
\* in however many places a symbol is defined (Kconfig._propagate_deps(),
\* _add_props_to_sym()).
DepsAreThoseOfTheText ==
  phase = "finalized" => \A a \in Assignments :
    /\ \A n \in DOMAIN nodes \ {1} : nodes[n].kind # "if" =>
         /\ ValueOf(nodes[n].dep, a) = DepOf(n, a)
         /\ nodes[n].prompt # <<>> => ValueOf(nodes[n].prompt[1], a) = PromptOf(n, a)
    /\ \A s \in Syms :
         LET lines == AllLines(s, "default")
             ds == defs.sym[s].defaults
         IN /\ ValueOf(defs.sym[s].direct_dep, a) = Most({DepOf(n, a) : n \in Elems(DefinitionsOf(s))})
            /\ ValueOf(defs.sym[s].rev_dep, a) = SelectedBy(s, "select", a)
            /\ ValueOf(defs.sym[s].weak_rev_dep, a) = SelectedBy(s, "imply", a)
            /\ Len(ds) = Len(lines)
            /\ \A p \in DOMAIN ds :
                 /\ ds[p].val = lines[p].line[2]
                 /\ ValueOf(ds[p].cond, a) = And(ValueOf(lines[p].line[3], a), DepOf(lines[p].node, a))

\* node_iter().
RECURSIVE NextUp(_), Iterated(_, _)
NextUp(n) ==
  IF nodes[n].parent = 0 THEN 0
  ELSE IF nodes[n].next # 0 THEN nodes[n].next ELSE NextUp(nodes[n].parent)
Iterated(n, most) ==
  LET next == IF nodes[n].list # 0 THEN nodes[n].list ELSE NextUp(n) IN
  IF next = 0 \/ most = 0 THEN <<>> ELSE <<next>> \o Iterated(next, most - 1)

\* The iteration over the menu tree meets every definition once, in the order
\* of the text (Kconfig.node_iter(), kconfiglib.py:1908-1910), and every node
\* is in the list of its parent.
TreeIsWhole ==
  phase = "finalized" =>
    /\ Iterated(1, Len(nodes)) = SelectSeq([n \in 1..(Len(nodes) - 1) |-> n + 1], LAMBDA n : nodes[n].kind # "if")
    /\ \A n \in Elems(Iterated(1, Len(nodes))) : n \in Elems(ListOf(nodes, nodes[nodes[n].parent].list))

RECURSIVE Conjuncts(_)
Conjuncts(e) == IF e[1] = "AND" THEN Conjuncts(e[2]) \cup Conjuncts(e[3]) ELSE {e}

\* What is shown below a symbol is out of sight while the symbol is n, as long
\* as values respect their dependencies (the implicit menus of
\* Kconfig._finalize_node()); unless it is there because of a `!= y'
\* (ExprDependsOn), which says the opposite.
SubmenusDepend ==
  phase = "finalized" => \A a \in Assignments :
    (\A s \in Syms : a[s] <= ValueOf(defs.sym[s].direct_dep, a)) =>
      \A n \in DOMAIN nodes \ {1} :
        LET above == nodes[nodes[n].parent] IN
        nodes[n].kind # "if" /\ nodes[n].prompt # <<>> /\ above.kind = "symbol" /\ a[above.item] = 0
        /\ <<"!=", above.item, "y">> \notin Conjuncts(nodes[n].prompt[1])
          => ValueOf(nodes[n].prompt[1], a) = 0

\* What a value may be calculated from: of a choice, its visibility, its mode
\* and its selection are told apart.
Needs(v) ==
  LET i == v[1]
      Values_(exprs) == {<<j, "val">> : j \in MentionedIn(exprs)}
      Mode == IF InChoice(i) THEN {<<ChoiceOf(i), "val">>} ELSE {}
  IN CASE v[2] = "vis" -> Values_(Elems(Prompts(i))) \cup Mode
       [] v[2] = "sel" -> {<<i, "val">>} \cup {<<s, "vis">> : s \in Elems(defs.choice[i].syms)}
                          \cup Values_({d.cond : d \in Elems(defs.choice[i].defaults)})
       [] v[2] = "val" /\ i \in Choices -> {<<i, "vis">>}
       [] OTHER -> {<<i, "vis">>} \cup {<<j, "val">> : j \in DependsOn(i)}
                   \cup IF InChoice(i) THEN {<<ChoiceOf(i), "sel">>} ELSE {}
RECURSIVE Reachable(_)
Reachable(S) == LET more == UNION {Needs(v) : v \in S} IN IF more \subseteq S THEN S ELSE Reachable(S \cup more)
Recursive(v) == v \in Reachable(Needs(v))
\* Some value is calculated from itself.
Endless == \E v \in Items \X {"vis", "val"} : Recursive(v)

\* No value of an accepted text is calculated from itself, which would never
\* end, as long as choices depend on nothing and are entered from their symbols
\* only.  And what is refused has a loop, if there are no choices
\* (_check_dep_loop_sym(), kconfiglib.py:6564, _found_dep_loop()).
DepLoopsAreFound ==
  /\ phase = "done" /\ (\A c \in Choices : \A i \in Items : c \notin LoopDependents(i)) =>
       ~Endless
  /\ phase = "loop" /\ Choices = {} => Endless
=============================================================================
