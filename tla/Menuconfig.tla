------------------------------ MODULE Menuconfig ------------------------------
(***************************************************************************)
(* The interface of `make menuconfig`                                      *)
(* (src/common/lib/kconfiglib/menuconfig.py): the menu that is shown, the  *)
(* entry that is selected, what the keys and the dialogs do to them and to *)
(* the configuration.                                                      *)
(*                                                                         *)
(* The tree is the one that KconfigTree has made of a text, or one of      *)
(* Menus: trees of texts that are longer than those.  A dialog takes all   *)
(* keys until it is closed, so it is one step.  The page keys only repeat  *)
(* the arrow keys.                                                         *)
(***************************************************************************)
EXTENDS KconfigTree, KconfigLines, MenuWindow

LOCAL Ext == INSTANCE SequencesExt

CONSTANTS Menus,         \* the menu trees, with their symbol tables and files
          Budgets,       \* how many values are set and files accessed
          FirstLook,     \* the same, in the menus of the texts that are parsed
          MaxNodes       \* the size of those menu trees

ASSUME KconfigsAssumption == Kconfigs = {m.defs : m \in Menus}

VARIABLES
  files,  \* file name -> lines, or None
  left    \* what may still be done

parser == <<stock, open, text, phase>>
vars == <<defs, conf, nodes, parser, files, ui, left>>

\* The values have all been looked at, so that they are in the caches; which of
\* them are makes no difference (KconfigValues).
Warm(k) == Keep(k, Values)
-----------------------------------------------------------------------------
(***************************************************************************)
(* What is shown.                                                          *)
(***************************************************************************)
PromptSeen(k, n) == nodes[n].prompt # <<>> /\ ExprValue(k, nodes[n].prompt[1]) # 0
Visible(k, n) ==
  PromptSeen(k, n) /\ ~(nodes[n].kind = "menu" /\ ExprValue(k, nodes[n].visibility) = 0)

\* rec() of _shown_nodes(): n and the nodes after it.  Below a symbol without a
\* menu of its own its implicit submenu is shown; a symbol that is not visible
\* is shown if something below it is.
Entry(k, all, n, below) ==
  IF ~(all \/ Visible(k, n) \/ (nodes[n].kind = "symbol" /\ below # <<>>)) THEN <<>>
  ELSE <<n>> \o (IF nodes[n].menuconfig THEN <<>> ELSE below)
RECURSIVE Entries(_, _, _)
Entries(k, all, n) ==
  IF n = 0 THEN <<>>
  ELSE Entry(k, all, n, Entries(k, all, nodes[n].list)) \o Entries(k, all, nodes[n].next)

\* A choice shows the symbols of all its locations, those of this one first.
NodesOf(i) == SelectSeq([n \in DOMAIN nodes |-> n], LAMBDA n : nodes[n].item = i)
SymsIn(ns) == {nodes[n].item : n \in {n \in Elems(ns) : nodes[n].kind = "symbol"}}
Gathered(k, all, menu, here) ==
  LET Gather(shown, n) ==
        IF n \in Elems(here) \/ nodes[n].item \notin SymsIn(here \o shown)
        THEN Append(shown, n) ELSE shown
      FromPlace(shown, place) ==
        Ext!FoldLeft(Gather, shown, Entries(k, all, nodes[place].list))
  IN Ext!FoldLeft(FromPlace, <<>>, NodesOf(nodes[menu].item))
ShownNodes(k, all, menu) ==
  Only({IF nodes[menu].kind = "choice" THEN Gathered(k, all, menu, here) ELSE here :
          here \in {Entries(k, all, nodes[menu].list)}})

RECURSIVE MenuAbove(_)
MenuAbove(n) == IF nodes[n].menuconfig THEN n ELSE MenuAbove(nodes[n].parent)
ParentMenu(n) == MenuAbove(nodes[n].parent)
-----------------------------------------------------------------------------
(***************************************************************************)
(* Moving about.  Each operator gives the globals after the function.      *)
(***************************************************************************)
\* The cursor is put on the selection of a choice.
Locations(u, s) == IF s = None THEN <<>> ELSE SelectSeq(NodesOf(s), LAMBDA n : n \in Elems(u.shown))
\* Mutant: the window stays at the top.
CursorMoved(u, ns) == IF ns = <<>> THEN u ELSE [u EXCEPT !.sel = Index(u.shown, ns[1])]

CursorOn(u, ns) == IF ns = <<>> THEN u ELSE Centered([u EXCEPT !.sel = Index(u.shown, ns[1])])
OnSelection(k, u) == CursorOn(u, Locations(u, Selection(k, nodes[u.cur].item)))

CanEnter(k, u, n) == nodes[n].menuconfig /\ ShownNodes(k, u.show_all, n) # <<>>
Entered(k, u, n) ==
  IF nodes[n].kind = "choice" THEN OnSelection(k, Inside(u, n, ShownNodes(k, u.show_all, n)))
  ELSE Inside(u, n, ShownNodes(k, u.show_all, n))

Left(k, u) ==
  IF u.cur = Top THEN u
  ELSE LeftTo(u, ParentMenu(u.cur), ShownNodes(k, u.show_all, ParentMenu(u.cur)))

Toggled(k, u) == ToggledWith(u, ShownNodes(k, ~u.show_all, u.cur))

\* A menu or choice that has entries is entered, show-all mode is turned on if
\* the node would not be shown.
Into(n) == nodes[n].kind \in {"menu", "choice"} /\ nodes[n].list # 0
Where(n) == IF Into(n) THEN n ELSE ParentMenu(n)
Target(n) == IF Into(n) THEN nodes[n].list ELSE n
MustShowAll(k, u, n) == u.show_all \/ Target(n) \notin Elems(ShownNodes(k, u.show_all, Where(n)))
At(u, n, all, shown) ==
  [u EXCEPT !.rows = <<>>, !.cur = Where(n), !.show_all = all, !.shown = shown,
            !.sel = Index(shown, Target(n))]
Landed(k, u, n, all) == At(u, n, all, ShownNodes(k, all, Where(n)))
BackToVisible(k, was_all, n, u) == IF Into(n) /\ ~was_all /\ u.show_all THEN Toggled(k, u) ELSE u
OnChoice(k, n, u) == IF Into(n) /\ nodes[n].kind = "choice" THEN OnSelection(k, u) ELSE u
JumpedTo(k, u, n) ==
  OnChoice(k, n, Centered(BackToVisible(k, u.show_all, n, Landed(k, u, n, MustShowAll(k, u, n)))))

Updated(k, u) == UpdatedTo(u, ShownNodes(k, u.show_all, u.cur))
-----------------------------------------------------------------------------
(***************************************************************************)
(* Changing values.                                                        *)
(***************************************************************************)
IsItem(n) == nodes[n].kind \in {"symbol", "choice"}
ItemStr(k, i) == IF i \in Choices THEN TriStr(ChoiceTri(k, i)) ELSE Str(k, i)
YModeChoiceSym(k, i) == InChoice(i) /\ Vis(k, i) = 2
Changeable(k, n) ==
  /\ IsItem(n) /\ PromptSeen(k, n)
  /\ \/ OrigType(nodes[n].item) \in {"int", "string"}
     \/ Cardinality(Assignable(k, nodes[n].item)) > 1
     \/ YModeChoiceSym(k, nodes[n].item)

\* The dialog for a text takes nothing else.
CheckValid(k, s, v) ==
  OrigType(s) = "int" => v \in DOMAIN NumOf /\ InRange(ActiveRange(k, s), NumOf[v])

\* The value after the present one, with wrapping.
NextValue(values, now) ==
  CHOOSE v \in values : \A w \in values : IF v > now THEN now < w => v <= w ELSE w <= now /\ v <= w

\* The values a node may get; none if the present value is not one that may be
\* assigned: sc.assignable.index() raises ValueError.
NextValues(values, now) ==
  CASE Cardinality(values) = 1 -> {TriStr(v) : v \in values}
    [] Cardinality(values) # 1 /\ now \notin values -> {}
    [] OTHER -> {TriStr(NextValue(values, now))}
NewValues(k, i) ==
  IF OrigType(i) \in {"int", "string"} THEN {v \in UserValues(i) : CheckValid(k, i, v)}
  ELSE NextValues(Assignable(k, i), TriOf(ItemStr(k, i)))

\* _set_val(): the interface and the configuration after it.
Set(k, i, v) ==
  Warm(Settled(IF i \in Choices THEN SetChoiceValue(k, i, v) ELSE SetSymValue(k, i, v)))
\* Mutant: the entries stay as they were.
ShowsOld(k, u) == [ui |-> [u EXCEPT !.changed = TRUE], conf |-> k]

Shows(k, u) == [ui |-> Updated(k, [u EXCEPT !.changed = TRUE]), conf |-> k]
WithValue(k, u, i, v) == IF v = ItemStr(k, i) THEN [ui |-> u, conf |-> k] ELSE Shows(Set(k, i, v), u)

\* A choice is left when its selection has been made.
Chosen(n, after) ==
  IF after.ui.mode = "running" /\ YModeChoiceSym(after.conf, nodes[n].item) /\ nodes[n].list = 0
  THEN [after EXCEPT !.ui = Left(after.conf, after.ui)]
  ELSE after

\* A .config that was just loaded is outdated.
NeedsSave(k, lines) ==
  \/ \E p \in DOMAIN lines : lines[p][1] \notin Syms
  \/ \E s \in Syms : IF k.user_value[s] = None THEN WriteToConf(k, s) ELSE Str(k, s) # k.user_value[s]
-----------------------------------------------------------------------------
(***************************************************************************)
(* The keys.                                                               *)
(***************************************************************************)
\* The standard .config is loaded, show-all mode turned on if nothing is
\* visible.
StartedIn(k, lines, height, all, shown) ==
  Opened(shown, height, all, lines = None \/ NeedsSave(k, lines))
StartedWith(k, lines, height, all) == StartedIn(k, lines, height, all, ShownNodes(k, all, Top))
Started(k, lines, height) ==
  Only({StartedWith(k, lines, height, all) : all \in {ShownNodes(k, FALSE, Top) = <<>>}})

Moves == UNCHANGED <<defs, conf, nodes, parser, files, left>>

MoveAbout == (Resize \/ SelectNext \/ SelectPrev \/ SelectLast \/ SelectFirst) /\ Moves

\* What the keys for changing a value share.
Change(n) ==
  /\ Changeable(conf, n)
  /\ \/ /\ left.edits > 0
        /\ \E v \in NewValues(conf, nodes[n].item) :
             \E after \in {Chosen(n, WithValue(conf, ui, nodes[n].item, v))} :
               ui' = after.ui /\ conf' = after.conf
        /\ left' = [left EXCEPT !.edits = @ - 1]
     \/ /\ OrigType(nodes[n].item) \notin {"int", "string"} /\ NewValues(conf, nodes[n].item) = {}
        /\ ui' = [ui EXCEPT !.mode = "toggle"]
        /\ UNCHANGED <<conf, left>>
  /\ UNCHANGED <<defs, nodes, parser, files>>

\* Bound: menus are entered no deeper than the tree is.  A choice that is defined
\* within itself could be entered from itself for ever.
MaxRows == Len(nodes)
Enter(n) ==
  /\ CanEnter(conf, ui, n) /\ Len(ui.rows) < MaxRows
  /\ ui' = Entered(conf, ui, n)
  /\ Moves

\* Space changes the node if it can, enter enters it if it can.
Space ==
  LET n == SelNode(ui) IN
  Running /\ (Change(n) \/ (~Changeable(conf, n) /\ Enter(n)))
EnterKey ==
  LET n == SelNode(ui) IN
  Running /\ (Enter(n) \/ (~CanEnter(conf, ui, n) /\ Change(n)))

\* The keys n, m and y.
SetTriVal(t) ==
  /\ Running /\ left.edits > 0
  /\ IsItem(SelNode(ui)) /\ t \in Assignable(conf, nodes[SelNode(ui)].item)
  /\ \E after \in {WithValue(conf, ui, nodes[SelNode(ui)].item, TriStr(t))} :
       ui' = after.ui /\ conf' = after.conf
  /\ left' = [left EXCEPT !.edits = @ - 1]
  /\ UNCHANGED <<defs, nodes, parser, files>>
LeaveMenu == Running /\ ui' = Left(conf, ui) /\ Moves
ToggleShowAll == Running /\ ui' = Toggled(conf, ui) /\ Moves

\* The terminal may change while the dialog fills it.
JumpTo(n) ==
  /\ Running
  /\ \E there \in {JumpedTo(conf, ui, n)} : \E h \in Heights : ui' = Resized(there, h)
  /\ Moves
-----------------------------------------------------------------------------
(***************************************************************************)
(* Files.  A file that cannot be opened changes nothing.                   *)
(***************************************************************************)
Access == Running /\ left.files > 0 /\ left' = [left EXCEPT !.files = @ - 1]

\* What is not visible after the load turns show-all mode on.
HiddenBy(k, u) == SelNode(u) \notin Elems(ShownNodes(k, u.show_all, u.cur))
LoadDialog(f) ==
  /\ Access /\ files[f] # None
  /\ conf' = Warm(Load(conf, files[f]))
  /\ ui' = Updated(conf', [ui EXCEPT !.filename = f, !.changed = NeedsSave(conf', files[f]),
                                     !.show_all = @ \/ HiddenBy(conf', ui)])
  /\ UNCHANGED <<defs, nodes, parser, files>>

SaveDialog(f) ==
  /\ Access
  /\ files' = [files EXCEPT ![f] = ConfigContents(conf)]
  /\ ui' = [ui EXCEPT !.filename = f, !.changed = FALSE]
  /\ UNCHANGED <<defs, conf, nodes, parser>>

\* Mutant: a minimal configuration counts as the configuration.
SaveMinSettles(f) ==
  /\ Access
  /\ files' = [files EXCEPT ![f] = MinContents(conf)]
  /\ ui' = [ui EXCEPT !.minconf = f, !.changed = FALSE]
  /\ UNCHANGED <<defs, conf, nodes, parser>>

SaveMinDialog(f) ==
  /\ Access
  /\ files' = [files EXCEPT ![f] = MinContents(conf)]
  /\ ui' = [ui EXCEPT !.minconf = f]
  /\ UNCHANGED <<defs, conf, nodes, parser>>

\* Who quits is asked if there are changes, and may save them.
Quit ==
  /\ Running
  /\ \/ UNCHANGED files
     \/ ui.changed /\ files' = [files EXCEPT ![ui.filename] = ConfigContents(conf)]
  /\ ui' = [ui EXCEPT !.mode = "quit"]
  /\ UNCHANGED <<defs, conf, nodes, parser, left>>
-----------------------------------------------------------------------------
MenuInit ==
  /\ stock = {} /\ open = <<>> /\ text = <<>> /\ phase = "menu"
  /\ \E m \in Menus :
       /\ defs = m.defs /\ nodes = m.nodes
       /\ \E lines \in m.configs, other \in m.others, h \in Heights :
            /\ files = [f \in {".config", "defconfig"} |-> IF f = ".config" THEN lines ELSE other]
            /\ conf \in {Warm(IF lines = None THEN Pristine ELSE Load(Pristine, lines))}
            /\ ui = Started(conf, lines, h)
  /\ left \in Budgets

\* The Kconfig files are parsed first.
ParseInit ==
  /\ TreeInit
  /\ files = [f \in {".config", "defconfig"} |-> None]
  /\ ui = NotStarted
  /\ left = FirstLook
Parse == TreeNext /\ UNCHANGED <<files, ui, left>>

\* The tree of an accepted text is shown, unless a value needs itself
\* (RecursionError); the text itself is not kept.
StartMenu ==
  /\ phase = "done" /\ ~Endless /\ Len(nodes) <= MaxNodes
  /\ phase' = "menu"
  /\ conf' \in {Warm(Pristine)}
  /\ \E h \in Heights : ui' = Started(conf', None, h)
  /\ text' = <<>>
  /\ UNCHANGED <<defs, stock, nodes, open, files, left>>

MenuNext ==
  \/ Parse \/ StartMenu
  \/ MoveAbout \/ Space \/ EnterKey \/ LeaveMenu \/ ToggleShowAll \/ Quit
  \/ \E t \in 0..2 : SetTriVal(t)
  \/ \E n \in {n \in DOMAIN nodes \ {Top} : nodes[n].kind # "if"} : JumpTo(n)
  \/ \E f \in DOMAIN files : LoadDialog(f) \/ SaveDialog(f) \/ SaveMinDialog(f)

MenuSpec == (ParseInit \/ MenuInit) /\ [][MenuNext]_vars
-----------------------------------------------------------------------------
(***************************************************************************)
(* Properties.                                                             *)
(***************************************************************************)

\* A menu whose `visible if' is not met, while comments or menus in it are
\* visible: the condition goes to symbols and choices only.
Hollow(m) ==
  /\ nodes[m].kind = "menu" /\ ExprValue(conf, nodes[m].visibility) = 0
  /\ ui.shown # <<>> /\ \A n \in Elems(ui.shown) : nodes[n].kind \in {"menu", "comment"}

Several(n) == IsItem(n) /\ Len(NodesOf(nodes[n].item)) > 1

\* menuconfig ends with an exception, and with it the changes are gone, in
\* three places only: a hollow menu is left, a symbol is set at one of several
\* locations that is shown for the sake of the entries below it only, or a
\* symbol is toggled whose value is above what may be assigned.
FailsOnlyThere ==
  /\ ui.mode = "leave" => Hollow(ui.cur) \/ Several(ui.cur)
  /\ ui.mode = "toggle" => nodes[SelNode(ui)].kind = "symbol" /\ AboveVis(conf, nodes[SelNode(ui)].item)
  /\ ui.mode = "update" => Several(SelNode(ui))

\* The entries are those of the menu with the present values and mode.  Where
\* that cannot be, it is one of the three places (_update_menu()).
MenuIsCurrent ==
  /\ Running => ui.shown = ShownNodes(conf, ui.show_all, ui.cur)
  /\ FailsOnlyThere

\* Who is not asked whether to save loses nothing (_quit_dialog(), _load_dialog()):
\* the file that was loaded or saved last has every line that saving would write,
\* so that a file that lacks one was found to be outdated (_needs_save()), or
\* else is the minimal configuration, written over it; and it has every value,
\* unless a symbol is above its visibility or a tristate choice has lost its mode.
NothingIsLost ==
  phase = "menu" /\ ~ui.changed =>
    /\ files[ui.filename] # None
    /\ \/ Elems(ConfigContents(conf)) \subseteq Elems(files[ui.filename])
       \/ files[ui.filename] = MinContents(conf)
    /\ ~(\E s \in Syms : AboveVis(conf, s) \/ LosesMode(conf, s)) =>
         \A k \in {Load(Pristine, files[ui.filename])} : ValuesOf(k) = ValuesOf(conf)
=============================================================================
