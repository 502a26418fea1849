------------------------------ MODULE Interaction ------------------------------
(***************************************************************************)
(* What a user and an application do to the widget tree, in the order the  *)
(* runner does it (src/fbui/src/run.rs): an input event goes to the tree,  *)
(* the messages it emits are delivered to App::update one by one, then the *)
(* gesture recognizer (src/fbui-widgets/src/gesture.rs) sees the same      *)
(* contact and may send the tree a second event. Ticks poll the recognizer *)
(* and advance the Navigator's slide; timers and tasks let the application *)
(* act at any other time.                                                  *)
(*                                                                         *)
(* A position is what it resolves to: the open popup it falls in, or the   *)
(* widget under it. Nothing orders presses and releases: a second finger   *)
(* presses without a release, a swallowed press leaves a lone release.     *)
(***************************************************************************)
EXTENDS WidgetTree

VARIABLES
  tree,   \* Ui
  phase,  \* GestureRecognizer.phase: Pending or not
  mail,   \* messages emitted and not yet delivered
  todo,   \* the gesture still to be sent after them
  made    \* history: handles ever made

vars == <<tree, phase, mail, todo, made>>

(* Idle stands for Dragging and LongPressed too: none of the three gives a *)
(* tap or a long press, and nothing in this tree reacts to a fling.        *)
Phases == {"Idle", "Pending"}

(* The application's first screen, without dialog or second screen.        *)
Later == UNION {Subtree(w) : w \in Screens \cup {Modal}}

Init ==
  /\ tree = [alive |-> Widgets \ Later, focus |-> None, capture |-> None,
             popups |-> {}, open |-> {}, pressed |-> {}, top |-> 0,
             saved |-> <<>>, reap |-> FALSE, animating |-> TRUE]
  /\ phase = "Idle" /\ mail = 0 /\ todo = "none"
  /\ made = Widgets \ Later

Quiet == mail = 0 /\ todo = "none"

-----------------------------------------------------------------------------
(* Ui::event for a pointer event: out is what comes of it.                 *)

IsPress(type) == type \in {"down", "right", "tap", "longpress"}

CaptureFirstNever(t, type) == FALSE

(* A drag in progress keeps its motion and its release.                    *)
CaptureFirst(t, type) == t.capture # None /\ type \in {"move", "up", "rightup"}

Received(t, w, type) ==
  CASE type = "down" -> Press(t, w)
    [] type = "up" -> Release(t, w)
    [] type \in {"right", "longpress"} -> Summon(t, w)
    [] type = "rightup" /\ Kind[w] = "dialog" -> Release(t, w)
    [] OTHER -> {Out(t, 0)}

(* The position falls in the overlay of w: popups above it collapse.       *)
InPopup(t, type) ==
  UNION {LET above == 1 + (CHOOSE e \in t.popups : e.owner = w).at
             lost == IF IsPress(type) THEN Notices(t, above) ELSE 0
             u == IF IsPress(type) THEN Dismiss(t, above) ELSE t
         IN {Out(o.tree, o.mail + lost) : o \in InOverlay(u, w, type)} :
         w \in Owners(t)}

ClickAway(t) == {Out(Dismiss(t, 1), Notices(t, 1))}

Targets(t) == IF t.capture # None THEN {t.capture} ELSE Hittable(t)

ThroughTree(t, type) == UNION {Received(t, w, type) : w \in Targets(t)}

Pointer(type) ==
  LET t == Prune(tree)
  IN IF t.popups = {} \/ CaptureFirst(t, type) THEN ThroughTree(t, type)
     ELSE InPopup(t, type) \cup
          IF IsPress(type) THEN ClickAway(t) ELSE ThroughTree(t, type)

(* Ui::event for a key. Tab is handled before stale popups are pruned.     *)
Tab(t) == {Out(SetFocus(t, Adjacent(t, forward)), 0) : forward \in BOOLEAN}

Key(t, key) ==
  LET u == Prune(t)
  IN IF u.focus \notin u.alive THEN {Out(u, 0)}
     ELSE IF key = "enter" THEN Enter(u, u.focus) ELSE {Escape(u, u.focus)}

-----------------------------------------------------------------------------
(* Runner::handle_input.                                                   *)

Dispatch(outs) == \E o \in outs : tree' = o.tree /\ mail' = o.mail

Down ==
  /\ Quiet
  /\ Dispatch(Pointer("down"))
  /\ phase' = "Pending"
  /\ UNCHANGED <<todo, made>>

Up ==
  /\ Quiet
  /\ Dispatch(Pointer("up"))
  /\ phase' = "Idle"
  /\ todo' = IF phase = "Pending" THEN "tap" ELSE "none"
  /\ UNCHANGED made

(* A motion, a wheel step or a fling: a motion past the slop is a drag.    *)
Move ==
  /\ Quiet
  /\ Dispatch(Pointer("move"))
  /\ phase' \in {phase, "Idle"}
  /\ UNCHANGED <<todo, made>>

Right ==
  /\ Quiet
  /\ \E type \in {"right", "rightup"} : Dispatch(Pointer(type))
  /\ UNCHANGED <<phase, todo, made>>

Keyboard ==
  /\ Quiet
  /\ Dispatch(Tab(tree) \cup Key(tree, "enter"))
  /\ UNCHANGED <<phase, todo, made>>

(* TouchCancel reaches the recognizer only.                                *)
Cancel ==
  /\ Quiet
  /\ phase' = "Idle"
  /\ UNCHANGED <<tree, mail, todo, made>>

(* The second event of the release that ends a click.                      *)
Gesture ==
  /\ mail = 0 /\ todo = "tap"
  /\ Dispatch(Pointer("tap"))
  /\ todo' = "none"
  /\ UNCHANGED <<phase, made>>

-----------------------------------------------------------------------------
(* Runner::tick.                                                           *)

Poll ==
  /\ Quiet /\ phase = "Pending"
  /\ phase' = "Idle"
  /\ Dispatch(Pointer("longpress"))
  /\ UNCHANGED <<todo, made>>

Frame ==
  /\ Quiet /\ tree.animating
  /\ tree' = Animate(tree)
  /\ UNCHANGED <<phase, mail, todo, made>>

-----------------------------------------------------------------------------
(* App::update: any one call an application makes on the tree. It shows a  *)
(* dialog and moves the focus into it in one update, and arms a menu and   *)
(* registers its popup in one update, as their documentation asks; a       *)
(* Select loses its overlay without a word when its options are replaced.  *)

With(t) == [t EXCEPT !.animating = TRUE]

Shown(w) == w \notin made
Menus == {w \in Widgets : Kind[w] = "context"}

Calls(t) ==
  {Out(t, 0)}
  \cup {Out(Push(t, s), 0) : s \in {s \in Screens : Shown(s) /\ t.top = 0}}
  \cup {Out(FocusFirst(Push(t, s), s), 0) : s \in {s \in Screens : Shown(s) /\ t.top = 0}}
  \cup {Out(Pop(t), 0)}
  \cup (IF Shown(Modal) THEN {Out(FocusFirst(Build(t, Modal), Modal), 0)} ELSE {})
  \cup {Out(Remove(t, w), 0) : w \in Removable \cup (made \cap {Modal})}
  \cup {Out(Opened(With(t), w), 0) : w \in Menus \cap t.alive}
  \cup {Out([With(t) EXCEPT !.open = @ \ {w}], 0) :
          w \in {w \in t.open : Kind[w] = "select"}}
  \cup {Out(Focus(t, w), 0) : w \in {w \in t.alive : Focusable(w)} \cup {None}}
  \cup Key(t, "escape")

Called ==
  \E o \in Calls(tree) :
    /\ tree' = o.tree
    /\ mail' = mail - 1 + o.mail
    /\ made' = made \cup o.tree.alive

(* Runner::drain_messages.                                                 *)
Update ==
  /\ mail > 0
  /\ Called
  /\ UNCHANGED <<phase, todo>>

(* A timer, a task or another thread sends a message.                      *)
Timer ==
  /\ Quiet
  /\ mail' = 1
  /\ UNCHANGED <<tree, phase, todo, made>>

Next ==
  \/ Down \/ Up \/ Move \/ Right \/ Keyboard \/ Cancel \/ Gesture
  \/ Poll \/ Frame \/ Update \/ Timer

Spec == Init /\ [][Next]_vars

-----------------------------------------------------------------------------
(* Properties.                                                             *)

(* The variables have their types.                                         *)
TypeOK ==
  /\ tree \in Trees
  /\ phase \in Phases /\ mail \in Nat /\ todo \in {"none", "tap"}
  /\ made \subseteq Widgets

(* A button drawn pressed is the one that holds the pointer, and a widget  *)
(* that holds the pointer is a live button drawn pressed: whatever is      *)
(* removed, opened or pushed between press and release.                    *)
PressIsCaptured ==
  tree.pressed = {tree.capture} \ {None} /\ tree.pressed \subseteq tree.alive

(* A release of the left button ends the press, also when a popup has been *)
(* opened over the pressed button in between.                              *)
ReleaseEndsPress ==
  [][tree.capture # None /\ Up => tree'.capture = None /\ tree'.pressed = {}]_vars

(* A widget showing its overlay is on the popup stack, once, so that a     *)
(* click away can dismiss it; what is on the stack is alive; the stack has *)
(* no holes.                                                               *)
OpenIsListed ==
  /\ tree.open \subseteq Owners(tree) /\ Owners(tree) \subseteq tree.alive
  /\ Cardinality(Owners(tree)) = Cardinality(tree.popups)
  /\ {e.at : e \in tree.popups} = 1..Cardinality(tree.popups)

(* The Navigator's top counts the screens pushed over the first, one more  *)
(* being in the tree while a popped one slides out; each pushed screen has *)
(* its remembered focus; and a removal that is owed keeps the clock going. *)
ScreensAligned ==
  /\ Cardinality(Pushed(tree)) = tree.top + (IF tree.reap THEN 1 ELSE 0)
  /\ Len(tree.saved) = tree.top
  /\ tree.reap => tree.animating

(* No step leaves the focus on a widget that is gone, but for the removal  *)
(* of a popup's owner after the widget its popup took the focus from.      *)
Dangling == {e \in tree.popups : e.grab /\ e.prev \notin Maybe(tree.alive)}

FocusStaysAlive ==
  [][ /\ tree.focus \in Maybe(tree.alive)
      /\ \A e \in Dangling : e.owner \in tree'.alive
      => tree'.focus \in Maybe(tree'.alive) ]_vars

(* What a user can get at. A step of the user, or of the clock, that finds *)
(* the focus, the pointer and the popups there leaves the focus there, and *)
(* presses and opens nothing elsewhere: a dialog and a pushed screen keep  *)
(* what they cover out of reach.                                           *)
Inside(t) ==
  LET reach == Hittable(t)
  IN /\ {t.focus, t.capture} \ {None} \subseteq reach
     /\ \A e \in t.popups : e.owner \in reach /\ e.prev \in Maybe(reach)
     /\ Modal \in t.alive => t.focus # None

InputStaysInside ==
  [][ mail = 0 /\ Inside(tree)
      => ({tree'.focus} \ {None}) \cup tree'.pressed \cup tree'.open
           \subseteq Hittable(tree') ]_vars
===============================================================================
