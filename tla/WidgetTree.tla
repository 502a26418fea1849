------------------------------ MODULE WidgetTree ------------------------------
(***************************************************************************)
(* The widget tree's bookkeeping (src/fbui-widgets/src/tree.rs): which     *)
(* widgets are alive, who has the focus and the pointer, the stack of open *)
(* popups, and the two-screen Navigator (widgets/navigator.rs). A tree is  *)
(* a record and every operation of Ui an operator on it; Interaction runs  *)
(* them in the order of the runner.                                        *)
(*                                                                         *)
(* Handles are generational, so a widget of the model is made at most once *)
(* and its parent never changes. Layout is abstracted to Rank, the order   *)
(* of a walk of the tree; damage, hover, tooltips and names are left out.  *)
(***************************************************************************)
EXTENDS Integers, Sequences, FiniteSets

CONSTANTS Widgets,    \* every handle the model can make
          None,       \* no widget
          Parent,     \* the parent each is made under; None for Root
          Kind,       \* what each is
          Rank,       \* its place in a pre-order walk
          Root,       \* the Stack at the root
          Nav,        \* the Navigator
          Screens,    \* screens an application pushes on Nav
          Modal,      \* the Dialog an application shows over everything
          Removable   \* widgets an application removes on their own

Kinds == {"box", "button", "select", "context", "dialog", "navigator"}

Path[w \in Widgets] == {w} \cup IF Parent[w] = None THEN {} ELSE Path[Parent[w]]

ASSUME TreeAssumption ==
  /\ IsFiniteSet(Widgets) /\ None \notin Widgets
  /\ Parent \in [Widgets -> Widgets \cup {None}]
  /\ Kind \in [Widgets -> Kinds]
  /\ Rank \in [Widgets -> Nat]
  /\ \A v, w \in Widgets : Rank[v] = Rank[w] => v = w
  /\ Root \in Widgets /\ Nav \in Widgets /\ Modal \in Widgets
  /\ Kind[Modal] = "dialog" /\ Kind[Nav] = "navigator"
  /\ Screens \subseteq {w \in Widgets : Parent[w] = Nav}
  /\ Removable \subseteq Widgets

(* The ancestors of a widget are in a line from the root; and what a       *)
(* removal takes with it is never a screen by accident.                    *)
ASSUME PathAssumption ==
  /\ \A w \in Widgets : Path[w] \in SUBSET Widgets /\ {w, Root} \subseteq Path[w]
  /\ \A w \in Widgets : \A S \in SUBSET Path[w] :
       S # {} => \E v \in S : \A u \in S : u \in Path[v]
  /\ \A s \in Screens, w \in Removable \cup {Modal} : w \notin Path[s]
  /\ \A s, r \in Screens : s # r => s \notin Path[r]

(* What an application makes hangs from widgets that are made before it and *)
(* that nothing removes.                                                    *)
ASSUME AncestorAssumption ==
  /\ \A w \in Widgets : \A v \in Path[w] : Path[v] \subseteq Path[w]
  /\ \A v, w \in Widgets : v \in Path[w] /\ w \in Path[v] => v = w
  /\ \A w \in Path[Modal] \ {Modal} : w \notin Screens \cup Removable

Subtree(w) == {v \in Widgets : w \in Path[v]}
Maybe(S) == S \cup {None}

Popups == [owner : Widgets, grab : BOOLEAN, prev : Maybe(Widgets), at : Nat]

Trees == [alive : SUBSET Widgets, focus : Maybe(Widgets), capture : Maybe(Widgets),
          popups : SUBSET Popups,         \* at is the index in the stack
          open : SUBSET Widgets,          \* widgets showing their overlay
          pressed : SUBSET Widgets,       \* buttons drawn pressed
          top : Nat, saved : Seq(Maybe(Widgets)),  \* Navigator.top, focus_stack
          reap : BOOLEAN,                          \* its owed removal
          animating : BOOLEAN]

Owners(t) == {e.owner : e \in t.popups}
Topmost(t) == CHOOSE e \in t.popups : \A f \in t.popups : f.at <= e.at

(* The popups that stay move down the stack.                               *)
Restacked(P) == {[e EXCEPT !.at = Cardinality({f \in P : f.at <= e.at})] : e \in P}

(* Close gone, top of the stack first: each one that had grabbed the focus *)
(* gives it back to the widget it took it from, if that one is in live. So *)
(* the lowest has the last word.                                           *)
Grabs(gone) == {e \in gone : e.grab}
Returned(t, gone) ==
  IF Grabs(gone) = {} THEN t.focus
  ELSE (CHOOSE e \in Grabs(gone) : \A f \in Grabs(gone) : e.at <= f.at).prev

DropUnfiltered(t, gone, live) ==
  [t EXCEPT !.popups = Restacked(@ \ gone), !.focus = Returned(t, gone)]

Drop(t, gone, live) ==
  LET heir == Returned(t, gone)
  IN [t EXCEPT !.popups = Restacked(@ \ gone),
               !.focus = IF Grabs(gone) = {} \/ heir \in live THEN heir ELSE None]

OpenPopup(t, w, grab) ==
  IF w \notin t.alive \/ w \in Owners(t) THEN t
  ELSE [t EXCEPT !.popups = @ \cup {[owner |-> w, grab |-> grab, prev |-> t.focus,
                                     at |-> Cardinality(t.popups) + 1]},
                 !.focus = IF grab THEN w ELSE @]

ClosePopup(t, w) == Drop(t, {e \in t.popups : e.owner = w}, t.alive)

Stale(t) == {e \in t.popups : e.owner \notin t.alive \cap t.open}
Prune(t) == Drop(t, Stale(t), t.alive)

(* Every popup in the tree closes itself on PopupDismissed.                *)
DismissDeaf(t, level) ==
  Drop(t, {e \in t.popups : e.at >= level}, t.alive)

Dismiss(t, level) ==
  LET gone == {e \in t.popups : e.at >= level}
  IN [Drop(t, gone, t.alive) EXCEPT !.open = @ \ {e.owner : e \in gone}]

(* on_close messages; a Select has none.                                   *)
Notices(t, level) ==
  Cardinality({e \in t.popups : e.at >= level /\ Kind[e.owner] # "select"})

(* Ui::remove. The focus a popup gives back is only checked against what   *)
(* this call removes.                                                      *)
RemoveHeld(t, w) ==
  IF w \notin t.alive THEN t
  ELSE LET ids == Subtree(w) \cap t.alive
           u == Drop(t, {e \in t.popups : e.owner \in ids}, Widgets \ ids)
       IN [u EXCEPT !.alive = @ \ ids, !.open = @ \ ids, !.pressed = @ \ ids,
                    !.focus = IF @ \in ids THEN None ELSE @]

Remove(t, w) ==
  IF w \notin t.alive THEN t
  ELSE LET ids == Subtree(w) \cap t.alive
           u == Drop(t, {e \in t.popups : e.owner \in ids}, Widgets \ ids)
       IN [u EXCEPT !.alive = @ \ ids, !.open = @ \ ids, !.pressed = @ \ ids,
                    !.focus = IF @ \in ids THEN None ELSE @,
                    !.capture = IF @ \in ids THEN None ELSE @]

Build(t, w) == [t EXCEPT !.alive = @ \cup Subtree(w), !.animating = TRUE]

-----------------------------------------------------------------------------
(* Who can be reached, and the order of Tab.                               *)

Children(t, w) == {v \in t.alive : Parent[v] = w}
Index(t, w) == Cardinality({v \in Children(t, Parent[w]) : Rank[v] < Rank[w]})

(* Navigator::active_children: covered screens take neither hits nor Tab.  *)
Active(t, w) ==
  Parent[w] = Nav =>
    LET last == Cardinality(Children(t, Nav)) - 1
    IN Index(t, w) = IF t.top < last THEN t.top ELSE last

Reaches(t, scope, w) ==
  /\ w \in t.alive /\ scope \in Path[w]
  /\ \A v \in Path[w] : scope \in Path[v] \ {v} => Active(t, v)

Focusable(w) == Kind[w] \in {"button", "select"}
TabOrder(t, scope) == {w \in Widgets : Reaches(t, scope, w) /\ Focusable(w)}

First(S) == CHOOSE w \in S : \A v \in S : Rank[w] <= Rank[v]
Last(S) == CHOOSE w \in S : \A v \in S : Rank[v] <= Rank[w]

(* Ui::trap_ancestor; the only trap of the tree is Modal.                  *)
InTrap(t, w) == w \in t.alive /\ Modal \in Path[w]

TabScopeUntrapped(t) == IF t.popups # {} THEN Topmost(t).owner ELSE Root

TabScope(t) ==
  IF t.popups # {} THEN Topmost(t).owner
  ELSE IF t.focus # None /\ InTrap(t, t.focus) THEN Modal ELSE Root

(* Ui::adjacent_focus.                                                     *)
Adjacent(t, forward) ==
  LET order == TabOrder(t, TabScope(t))
      later == {w \in order : Rank[w] > Rank[t.focus]}
      before == {w \in order : Rank[w] < Rank[t.focus]}
  IN IF order = {} THEN t.focus
     ELSE IF forward
     THEN IF t.focus \in order /\ later # {} THEN First(later) ELSE First(order)
     ELSE IF t.focus \in order /\ before # {} THEN Last(before) ELSE Last(order)

SetFocus(t, w) == [t EXCEPT !.focus = w]
Focus(t, w) == SetFocus(t, IF w \in t.alive /\ Focusable(w) THEN w ELSE None)

FocusFirst(t, w) ==
  LET order == TabOrder(t, w)
  IN IF order = {} THEN t ELSE SetFocus(t, First(order))

(* Ui::hit: a position resolves to a widget that covers it. Modal fills    *)
(* the surface.                                                            *)
Hittable(t) ==
  {w \in Widgets : Reaches(t, Root, w) /\ (Modal \in t.alive => Modal \in Path[w])}

-----------------------------------------------------------------------------
(* Navigator (widgets/navigator.rs). At most one screen lies over the root *)
(* screen, so a settle or a reap removes at most one.                      *)

Pushed(t) == Screens \cap t.alive
Retired(t) == IF t.reap /\ Pushed(t) # {} THEN Pushed(t) ELSE {}

Reaped(t) ==
  LET u == [t EXCEPT !.reap = FALSE]
  IN IF Retired(t) = {} THEN u ELSE Remove(u, CHOOSE s \in Retired(t) : TRUE)

Settle(t) == [Reaped(t) EXCEPT !.animating = TRUE]

PushUnsettled(t, s) ==
  [Build(t, s) EXCEPT !.saved = Append(@, t.focus), !.top = @ + 1, !.focus = None]

Push(t, s) == PushUnsettled(Settle(t), s)

NotePop(t) == [t EXCEPT !.top = @ - 1, !.saved = SubSeq(@, 1, Len(@) - 1),
                        !.reap = TRUE, !.animating = TRUE]
Remembered(t) == t.saved[Len(t.saved)]

Pop(t) == IF t.top = 0 THEN [t EXCEPT !.animating = TRUE]
          ELSE Focus(NotePop(t), Remembered(t))

(* The back key restores what is remembered if it is alive.                *)
Back(t) == SetFocus(NotePop(t), IF Remembered(t) \in t.alive THEN Remembered(t) ELSE None)

(* Ui::animate in the frame in which the slide is over: the popped screen  *)
(* is removed and the clock stops. The frames before it change nothing.    *)
Animate(t) == [Reaped(t) EXCEPT !.animating = FALSE]

-----------------------------------------------------------------------------
(* What the widgets do with an event: the set of what may come out, a tree *)
(* and the number of messages for the application.                         *)

Out(t, n) == [tree |-> t, mail |-> n]

Opened(t, w) == [OpenPopup(t, w, Kind[w] # "select") EXCEPT !.open = @ \cup {w}]
Closed(t, w) == [ClosePopup(t, w) EXCEPT !.open = @ \ {w}]

PressButton(t, w) ==
  [t EXCEPT !.pressed = @ \cup {w}, !.capture = w, !.focus = w]
ReleaseButton(t, w) == [t EXCEPT !.pressed = @ \ {w}, !.capture = None]

(* A left press on the widget itself.                                      *)
Press(t, w) ==
  CASE Kind[w] = "button" -> {Out(PressButton(t, w), 0)}
    [] Kind[w] = "select" /\ w \notin t.open -> {Out(SetFocus(Opened(t, w), w), 0)}
    [] OTHER -> {Out(t, 0)}

(* A left release on it: a pressed button fires if the pointer is inside,  *)
(* a dialog may ask to be dismissed.                                       *)
Release(t, w) ==
  CASE Kind[w] = "button" ->
         {Out(ReleaseButton(t, w), n) : n \in IF w \in t.pressed THEN {0, 1} ELSE {0}}
    [] Kind[w] = "dialog" -> {Out(t, n) : n \in {0, 1}}
    [] OTHER -> {Out(t, 0)}

(* A right press or a long press bubbles from w to a closed ContextMenu,   *)
(* and no further than the dialog.                                         *)
Summon(t, w) ==
  LET hears == {v \in Path[w] : \/ Kind[v] = "context" /\ v \notin t.open
                                \/ Kind[v] = "dialog"}
      first == CHOOSE v \in hears : \A u \in hears : u \in Path[v]
  IN IF hears = {} \/ Kind[first] = "dialog" THEN {Out(t, 0)}
     ELSE {Out(Opened(t, first), 0)} \cup
          (IF t.capture = None THEN {} ELSE {Out(t, 0)})

(* A release in the overlay picks a row or misses; a press only highlights,*)
(* or falls in the padding and closes a Select.                            *)
InOverlay(t, w, type) ==
  CASE type = "up" /\ Kind[w] = "select" -> {Out(t, 0), Out(Closed(t, w), 0), Out(Closed(t, w), 1)}
    [] type = "up" /\ Kind[w] # "select" -> {Out(t, 0), Out(Closed(t, w), 1)}
    [] type = "down" /\ Kind[w] = "select" -> {Out(t, 0), Out(Closed(t, w), 0)}
    [] OTHER -> {Out(t, 0)}

(* Enter on the focused widget.                                            *)
Enter(t, w) ==
  CASE Kind[w] = "button" -> {Out(t, 1)}
    [] Kind[w] = "select" /\ w \notin t.open -> {Out(Opened(t, w), 0)}
    [] Kind[w] = "select" /\ w \in t.open -> {Out(Closed(t, w), n) : n \in {0, 1}}
    [] Kind[w] = "context" /\ w \in t.open -> {Out(t, 0), Out(Closed(t, w), 1)}
    [] OTHER -> {Out(t, 0)}

(* Escape bubbles from the focused widget w.                               *)
Escape(t, w) ==
  LET hears == {v \in Path[w] : \/ v = w /\ v \in t.open
                                \/ Kind[v] = "dialog"
                                \/ v = Nav /\ t.top > 0}
      first == CHOOSE v \in hears : \A u \in hears : u \in Path[v]
  IN IF hears = {} THEN Out(t, 0)
     ELSE IF first \in t.open
     THEN Out(Closed(t, first), IF Kind[first] = "select" THEN 0 ELSE 1)
     ELSE IF Kind[first] = "dialog" THEN Out(t, 1) ELSE Out(Back(t), 1)
===============================================================================
