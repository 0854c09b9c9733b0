------------------------------ MODULE MenuWindow ------------------------------
(***************************************************************************)
(* The window of menuconfig (src/common/lib/kconfiglib/menuconfig.py): the *)
(* entries that are shown, the selected one, the scroll position.          *)
(*                                                                         *)
(* Which entries a menu has, and which menu is entered or jumped to, is    *)
(* open here: Menuconfig calculates it from the configuration.             *)
(***************************************************************************)
EXTENDS KconfigBase

CONSTANTS Heights,       \* the heights the menu window can have
          ScrollOffset   \* _SCROLL_OFFSET

ASSUME HeightsAssumption == Heights \subseteq Nat \ {0} /\ ScrollOffset \in Nat

VARIABLE ui  \* the globals of menuconfig.py

NotStarted == [mode |-> "none", changed |-> FALSE]
Top == 1
Running == ui.mode = "running"
SelNode(u) == u.shown[u.sel + 1]
AtLeast0(n) == IF n < 0 THEN 0 ELSE n
Index(ns, n) == (CHOOSE p \in DOMAIN ns : ns[p] = n) - 1

\* The menu of a configuration that was just loaded.
Opened(shown, height, all, changed) ==
  [cur |-> Top, shown |-> shown, sel |-> 0, scroll |-> 0, rows |-> <<>>,
   show_all |-> all, height |-> height,
   filename |-> ".config", minconf |-> "defconfig", changed |-> changed,
   mode |-> IF shown = <<>> THEN "quit" ELSE "running"]
-----------------------------------------------------------------------------
(***************************************************************************)
(* Moving about.  Each operator gives the globals after the function.      *)
(***************************************************************************)
MaxScroll(u) == AtLeast0(Len(u.shown) - u.height)
Centered(u) ==
  LET wanted == AtLeast0(u.sel - u.height \div 2) IN
  [u EXCEPT !.scroll = IF wanted < MaxScroll(u) THEN wanted ELSE MaxScroll(u)]

\* The selected entry stays within the window.
Resized(u, height) ==
  [u EXCEPT !.height = height,
            !.scroll = IF u.sel - @ >= height THEN u.sel - height + 1 ELSE @]

Inside(u, n, shown) ==
  [u EXCEPT !.rows = Append(@, u.sel - u.scroll), !.cur = n, !.shown = shown, !.sel = 0, !.scroll = 0]

\* _shown.index() raises ValueError if the menu is not shown in its parent.
BackTo(u, parent, shown) == [u EXCEPT !.cur = parent, !.shown = shown, !.sel = Index(shown, u.cur)]
AtRow(u, row) ==
  [u EXCEPT !.rows = SubSeq(@, 1, Len(@) - 1),
            !.scroll = AtLeast0(u.sel - (IF row < u.height - 1 THEN row ELSE u.height - 1))]
LeftTo(u, parent, shown) ==
  IF u.cur \notin Elems(shown) THEN [u EXCEPT !.mode = "leave"]
  ELSE IF u.rows = <<>> THEN Centered(BackTo(u, parent, shown))
  ELSE AtRow(BackTo(u, parent, shown), u.rows[Len(u.rows)])

\* The entry selected after show-all mode is turned on or off: the selected
\* one, the closest before it or the closest after it that is still shown.
Closest(old, sel, new) ==
  LET before == {p \in 1..sel + 1 : old[p] \in Elems(new)}
      after == {p \in sel + 2..Len(old) : old[p] \in Elems(new)}
  IN IF before # {} THEN {old[CHOOSE p \in before : \A q \in before : q <= p]}
     ELSE {old[p] : p \in {p \in after : \A q \in after : p <= q}}
Kept(u, new, sel) ==
  [u EXCEPT !.shown = new, !.sel = sel, !.scroll = AtLeast0(sel - (u.sel - u.scroll))]
ToggledTo(u, new, close) ==
  IF close = {} THEN [u EXCEPT !.show_all = TRUE]
  ELSE Kept([u EXCEPT !.show_all = ~@], new, Index(new, CHOOSE n \in close : TRUE))
ToggledWith(u, new) == ToggledTo(u, new, Closest(u.shown, u.sel, new))

\* Mutant: the window stays where it is.
UpdatedInPlace(u, new) ==
  IF SelNode(u) \notin Elems(new) THEN [u EXCEPT !.mode = "update"]
  ELSE [u EXCEPT !.shown = new, !.sel = Index(new, SelNode(u))]

\* The entry stays selected when a value has changed what is shown:
\* _shown.index() raises ValueError if it is not shown any more.
UpdatedTo(u, new) ==
  IF SelNode(u) \notin Elems(new) THEN [u EXCEPT !.mode = "update"]
  ELSE Kept(u, new, Index(new, SelNode(u)))
-----------------------------------------------------------------------------
(***************************************************************************)
(* The steps.                                                              *)
(***************************************************************************)
Resize ==
  /\ Running
  /\ \E h \in Heights : ui' = Resized(ui, h)
SelectNext ==
  /\ Running /\ ui.sel < Len(ui.shown) - 1
  /\ ui' = [ui EXCEPT !.sel = @ + 1,
              !.scroll = IF ui.sel + 1 >= @ + ui.height - ScrollOffset /\ @ < MaxScroll(ui)
                         THEN @ + 1 ELSE @]
SelectPrev ==
  /\ Running /\ ui.sel > 0
  /\ ui' = [ui EXCEPT !.sel = @ - 1,
              !.scroll = IF ui.sel - 1 < @ + ScrollOffset THEN AtLeast0(@ - 1) ELSE @]
SelectLast ==
  /\ Running
  /\ ui' = [ui EXCEPT !.sel = Len(ui.shown) - 1, !.scroll = MaxScroll(ui)]
SelectFirst ==
  /\ Running
  /\ ui' = [ui EXCEPT !.sel = 0, !.scroll = 0]

\* The other steps, with the menu, the entries and the flags they lead to.
Noted ==
  [ui EXCEPT !.changed = ui'.changed, !.filename = ui'.filename, !.minconf = ui'.minconf,
             !.show_all = ui'.show_all]
Selectable(u) == u.shown \in Seq(Nat) /\ u.sel \in 0..Len(u.shown) - 1

Open(u) ==
  /\ u.mode # "none" /\ u = Opened(u.shown, u.height, u.show_all, u.changed)
  /\ u.height \in Heights /\ u.shown \in Seq(Nat)
Start == ui.mode = "none" /\ Open(ui')

\* A menu with entries is entered, a choice with the cursor on its selection.
EnterMenu ==
  LET inside == Inside(ui, ui'.cur, ui'.shown) IN
  /\ Running /\ Selectable(ui')
  /\ ui' = inside \/ ui' = Centered([inside EXCEPT !.sel = ui'.sel])

\* A menu is left, perhaps because a symbol of a choice was set in it.
LeaveTo == Running /\ ui'.shown \in Seq(Nat) /\ ui' = LeftTo(Noted, ui'.cur, ui'.shown)

Toggle == Running /\ ui'.shown \in Seq(Nat) /\ ui' = ToggledWith(ui, ui'.shown)

\* A value or the configuration has changed.
Update == Running /\ ui'.shown \in Seq(Nat) /\ ui' = UpdatedTo(Noted, ui'.shown)

\* The terminal may change while the dialog fills it.
Jump ==
  /\ Running /\ Selectable(ui') /\ ui'.height \in Heights
  /\ ui' = Resized(Centered([ui EXCEPT !.rows = <<>>, !.cur = ui'.cur, !.shown = ui'.shown,
                                       !.show_all = ui'.show_all, !.sel = ui'.sel]), ui'.height)

\* A flag or a file name, or the end.
Note == Running /\ ui' = [Noted EXCEPT !.mode = ui'.mode]

WindowNext ==
  \/ Start \/ Resize \/ SelectNext \/ SelectPrev \/ SelectLast \/ SelectFirst
  \/ EnterMenu \/ LeaveTo \/ Toggle \/ Update \/ Jump \/ Note

\* Whatever the menus: the window changes in these ways only (_enter_menu(),
\* _leave_menu(), _jump_to(), _toggle_show_all(), _update_menu(),
\* _resize_main() and the arrow keys).
WindowSpec == (ui = NotStarted \/ Open(ui)) /\ [][WindowNext]_ui
-----------------------------------------------------------------------------
\* There is always a selected entry, and it is within the window: "We depend on
\* having a current node" (menuconfig.py:1105).
InWindow ==
  Running => /\ ui.sel \in 0..Len(ui.shown) - 1
             /\ ui.scroll >= 0 /\ ui.sel - ui.scroll \in 0..ui.height - 1
=============================================================================
