-------------------------- MODULE Interaction_proofs --------------------------
(***************************************************************************)
(* Proofs about Interaction, for any widgets, screens and menus: a button  *)
(* drawn pressed is the live one that holds the pointer, a release ends    *)
(* the press, the focus never stays on a widget that is gone, an overlay   *)
(* is on the stack, and what is covered is out of reach. A lemma per       *)
(* operator of WidgetTree says what it keeps; Next is then a case per      *)
(* callback of the runner.                                                 *)
(***************************************************************************)
EXTENDS Interaction, FiniteSetTheorems, WellFoundedInduction, TLAPS

(* The stack of popups is finite, so it has a lowest.                      *)
Typed(t) == t \in Trees /\ IsFiniteSet(t.popups)

(* PressIsCaptured is inductive with this: only a button takes the pointer.*)
Coherent(t) ==
  /\ t.pressed = {t.capture} \ {None}
  /\ t.pressed \subseteq t.alive
  /\ \A w \in t.pressed : Kind[w] = "button"

FocusAlive(t) == t.focus \in Maybe(t.alive)

(* ScreensAligned is inductive in this form: at most one screen lies over  *)
(* the first, as long as the Navigator counts it or owes its removal.      *)
Aligned(t) ==
  /\ t.top \in {0, 1} /\ Len(t.saved) = t.top
  /\ t.reap => t.top = 0 /\ t.animating
  /\ t.top = 0 /\ ~t.reap => Pushed(t) = {}
  /\ t.top = 1 \/ t.reap => \E s \in Screens : Pushed(t) = {s}

(* What most operators do: no press, no birth, no death.                   *)
Gentle(t, u) ==
  /\ Typed(u)
  /\ u.pressed = t.pressed /\ u.capture = t.capture /\ u.alive = t.alive
  /\ FocusAlive(t) => FocusAlive(u)
  /\ Aligned(t) => Aligned(u)

(* The fields Aligned speaks of.                                           *)
Still(t, u) ==
  u.top = t.top /\ u.saved = t.saved /\ u.reap = t.reap /\ u.animating = t.animating

LEMMA StillAligned ==
  ASSUME NEW t, NEW u, Still(t, u), u.alive = t.alive
  PROVE  Aligned(t) => Aligned(u)
BY DEF Still, Aligned, Pushed

Inv == Typed(tree) /\ Coherent(tree) /\ Aligned(tree)

-----------------------------------------------------------------------------
(* Least and greatest elements of finite sets, for the CHOOSEs of First,   *)
(* Last and Returned.                                                      *)

\* A finite set has an element of least measure.
LEMMA Least ==
  ASSUME NEW S, IsFiniteSet(S), S # {}, NEW f \in [S -> Int]
  PROVE  \E x \in S : \A y \in S : f[x] <= f[y]
<1> DEFINE Under(x) == {y \in S : f[y] < f[x]}
           T == {Under(x) : x \in S}
           R == StrictSubsetOrdering(S)
<1>1. IsWellFoundedOn(R, FiniteSubsetsOf(S))
  BY FS_StrictSubsetOrderingWellFounded
<1>2. T \subseteq FiniteSubsetsOf(S) /\ T # {}
  <2>1. FiniteSubsetsOf(S) = SUBSET S
    BY FS_FiniteSubsetsOfFinite
  <2>2. \A x \in S : Under(x) \in SUBSET S
    OBVIOUS
  <2>3. T \subseteq SUBSET S
    BY <2>2
  <2>4. T # {}
    <3>1. PICK x \in S : TRUE
      OBVIOUS
    <3>2. Under(x) \in T
      BY <3>1
    <3> QED
      BY <3>2
  <2> HIDE DEF T
  <2> QED
    BY <2>1, <2>3, <2>4
<1>3. PICK U \in T : \A V \in T : ~(<<V, U>> \in R)
  <2> HIDE DEF T, R
  <2> QED
    BY <1>1, <1>2, WFMin
<1>4. PICK x \in S : U = Under(x)
  BY <1>3
<1>5. ASSUME NEW y \in S, ~(f[x] <= f[y])
      PROVE  FALSE
  <2>1. Under(y) \subseteq Under(x) /\ y \in Under(x) /\ y \notin Under(y)
    BY <1>5
  <2>2. <<Under(y), Under(x)>> \in R
    BY <2>1 DEF StrictSubsetOrdering
  <2> QED
    BY <1>3, <1>4, <2>2
<1> QED
  BY <1>5

\* The first and the last of a set of widgets are in it.
LEMMA EndsOfOrder ==
  ASSUME NEW S \in SUBSET Widgets, S # {}
  PROVE  First(S) \in S /\ Last(S) \in S
<1>1. IsFiniteSet(S)
  BY TreeAssumption, FS_Subset
<1>2. \A w \in S : Rank[w] \in Nat
  BY TreeAssumption
<1>3. \E w \in S : \A v \in S : Rank[w] <= Rank[v]
  <2> DEFINE f == [w \in S |-> Rank[w]]
  <2>1. f \in [S -> Int]
    BY <1>2
  <2>2. \E x \in S : \A y \in S : f[x] <= f[y]
    <3> HIDE DEF f
    <3> QED
      BY <1>1, <2>1, Least
  <2> QED
    BY <2>2
<1>4. \E w \in S : \A v \in S : Rank[v] <= Rank[w]
  <2> DEFINE f == [w \in S |-> 0 - Rank[w]]
  <2>1. f \in [S -> Int]
    BY <1>2
  <2>2. \E x \in S : \A y \in S : f[x] <= f[y]
    <3> HIDE DEF f
    <3> QED
      BY <1>1, <2>1, Least
  <2> QED
    BY <1>2, <2>2
<1> QED
  BY <1>3, <1>4 DEF First, Last

-----------------------------------------------------------------------------
(* Popups.                                                                 *)

\* What is left of a stack keeps its entries, but for their places.
LEMMA RestackedTyped ==
  ASSUME NEW P \in SUBSET Popups, IsFiniteSet(P)
  PROVE  Restacked(P) \in SUBSET Popups /\ IsFiniteSet(Restacked(P))
<1> DEFINE f == [e \in P |-> [e EXCEPT !.at = Cardinality({g \in P : g.at <= e.at})]]
<1>1. Restacked(P) \in SUBSET Popups
  <2>1. ASSUME NEW e \in P
        PROVE  Cardinality({g \in P : g.at <= e.at}) \in Nat
    BY FS_Subset, FS_CardinalityType
  <2> QED
    BY <2>1 DEF Restacked, Popups
<1>2. f \in Surjection(P, Restacked(P))
  BY DEF Restacked, Surjection
<1>3. IsFiniteSet(Restacked(P))
  <2> HIDE DEF f
  <2> QED
    BY <1>2, FS_Surjection
<1> QED
  BY <1>1, <1>3

\* The focus that closing popups gives back was taken by one of them.
LEMMA ReturnedFrom ==
  ASSUME NEW t, Typed(t), NEW gone \in SUBSET t.popups, Grabs(gone) # {}
  PROVE  \E e \in Grabs(gone) : Returned(t, gone) = e.prev
<1>1. Grabs(gone) \subseteq t.popups /\ \A e \in Grabs(gone) : e.at \in Nat
  BY DEF Grabs, Typed, Trees, Popups
<1>2. IsFiniteSet(Grabs(gone))
  BY <1>1, FS_Subset DEF Typed
<1> DEFINE f == [e \in Grabs(gone) |-> e.at]
<1>3. f \in [Grabs(gone) -> Int]
  BY <1>1
<1>4. \E x \in Grabs(gone) : \A y \in Grabs(gone) : f[x] <= f[y]
  <2> HIDE DEF f
  <2> QED
    BY <1>2, <1>3, Least
<1>5. \E e \in Grabs(gone) : \A g \in Grabs(gone) : e.at <= g.at
  BY <1>4
<1> QED
  BY <1>5 DEF Returned

\* Closing popups moves nothing but the focus, which goes to live or nowhere.
LEMMA DropGentle ==
  ASSUME NEW t, Typed(t), NEW gone \in SUBSET t.popups, NEW live \in SUBSET Widgets
  PROVE  LET u == Drop(t, gone, live)
         IN /\ Typed(u)
            /\ u.pressed = t.pressed /\ u.capture = t.capture /\ u.alive = t.alive
            /\ u.open = t.open /\ Still(t, u)
            /\ u.focus = t.focus \/ u.focus \in live \cup {None}
<1> DEFINE u == Drop(t, gone, live)
           heir == Returned(t, gone)
<1>1. Restacked(t.popups \ gone) \in SUBSET Popups /\ IsFiniteSet(Restacked(t.popups \ gone))
  <2>1. t.popups \ gone \in SUBSET Popups /\ IsFiniteSet(t.popups \ gone)
    BY FS_Subset DEF Typed, Trees
  <2> QED
    BY <2>1, RestackedTyped
<1>2. (IF Grabs(gone) = {} \/ heir \in live THEN heir ELSE None)
        \in {t.focus, None} \cup live
  BY DEF Returned
<1>3. t.focus \in Maybe(Widgets)
  BY DEF Typed, Trees
<1> QED
  BY <1>1, <1>2, <1>3 DEF Drop, Typed, Trees, Maybe, Still

\* Closing popups as the tree does it, but for a removal.
LEMMA DropAlive ==
  ASSUME NEW t, Typed(t), NEW gone \in SUBSET t.popups
  PROVE  Gentle(t, Drop(t, gone, t.alive)) /\ Drop(t, gone, t.alive).open = t.open
<1>1. t.alive \in SUBSET Widgets
  BY DEF Typed, Trees
<1> QED
  BY <1>1, DropGentle, StillAligned DEF Gentle, FocusAlive, Maybe

\* Gentle steps compose.
LEMMA GentleTwice ==
  ASSUME NEW t, NEW u, NEW v, Gentle(t, u), Gentle(u, v)
  PROVE  Gentle(t, v)
BY DEF Gentle

LEMMA ClosePopupGentle ==
  ASSUME NEW t, Typed(t), NEW w
  PROVE  Gentle(t, ClosePopup(t, w))
BY DropAlive DEF ClosePopup

LEMMA PruneGentle ==
  ASSUME NEW t, Typed(t)
  PROVE  Gentle(t, Prune(t))
BY DropAlive DEF Prune, Stale

\* A widget that shows or hides its overlay presses nothing.
LEMMA OpenFieldGentle ==
  ASSUME NEW t, Typed(t), NEW S \in SUBSET Widgets
  PROVE  Gentle(t, [t EXCEPT !.open = S])
BY StillAligned DEF Gentle, Typed, Trees, FocusAlive, Still

LEMMA DismissGentle ==
  ASSUME NEW t, Typed(t), NEW level
  PROVE  Gentle(t, Dismiss(t, level))
<1> DEFINE gone == {e \in t.popups : e.at >= level}
           u == Drop(t, gone, t.alive)
           S == u.open \ {e.owner : e \in gone}
<1>1. Gentle(t, u)
  BY DropAlive
<1>2. Dismiss(t, level) = [u EXCEPT !.open = S]
  BY <1>1 DEF Dismiss, Gentle, Typed, Trees
<1>3. S \in SUBSET Widgets
  BY <1>1 DEF Gentle, Typed, Trees
<1> HIDE DEF u, S
<1>4. Gentle(u, [u EXCEPT !.open = S])
  BY <1>1, <1>3, OpenFieldGentle DEF Gentle
<1> QED
  BY <1>1, <1>2, <1>4, GentleTwice

LEMMA OpenPopupGentle ==
  ASSUME NEW t, Typed(t), NEW w, NEW grab \in BOOLEAN
  PROVE  Gentle(t, OpenPopup(t, w, grab)) /\ OpenPopup(t, w, grab).open = t.open
<1>1. CASE w \notin t.alive \/ w \in Owners(t)
  BY <1>1 DEF OpenPopup, Gentle
<1>2. CASE w \in t.alive /\ w \notin Owners(t)
  <2> DEFINE e == [owner |-> w, grab |-> grab, prev |-> t.focus,
                   at |-> Cardinality(t.popups) + 1]
  <2>1. Cardinality(t.popups) \in Nat
    BY FS_CardinalityType DEF Typed
  <2>2. w \in Widgets /\ t.focus \in Maybe(Widgets)
    BY <1>2 DEF Typed, Trees
  <2>3. e \in Popups
    BY <2>1, <2>2 DEF Popups
  <2>4. IsFiniteSet(t.popups \cup {e})
    <3> HIDE DEF e
    <3> QED
      BY FS_AddElement DEF Typed
  <2>5. OpenPopup(t, w, grab) =
          [t EXCEPT !.popups = t.popups \cup {e}, !.focus = IF grab THEN w ELSE t.focus]
    BY <1>2 DEF OpenPopup, Typed, Trees
  <2> HIDE DEF e
  <2> DEFINE P == t.popups \cup {e}
             h == IF grab THEN w ELSE t.focus
  <2>6. P \in SUBSET Popups /\ IsFiniteSet(P)
    BY <2>3, <2>4 DEF Typed, Trees
  <2>7. h \in Maybe(Widgets) /\ (FocusAlive(t) => h \in Maybe(t.alive))
    BY <1>2, <2>2 DEF FocusAlive, Maybe
  <2>8. OpenPopup(t, w, grab) = [t EXCEPT !.popups = P, !.focus = h]
    BY <2>5
  <2> HIDE DEF P, h
  <2> QED
    BY <2>6, <2>7, <2>8, StillAligned DEF Gentle, Typed, Trees, FocusAlive, Still
<1> QED
  BY <1>1, <1>2

LEMMA OpenedGentle ==
  ASSUME NEW t, Typed(t), NEW w \in Widgets
  PROVE  Gentle(t, Opened(t, w))
<1> DEFINE u == OpenPopup(t, w, Kind[w] # "select")
           S == u.open \cup {w}
<1>1. Gentle(t, u) /\ u.open = t.open
  BY OpenPopupGentle
<1>2. S \in SUBSET Widgets /\ Opened(t, w) = [u EXCEPT !.open = S]
  BY <1>1 DEF Opened, Gentle, Typed, Trees
<1> HIDE DEF u, S
<1>3. Gentle(u, [u EXCEPT !.open = S])
  BY <1>1, <1>2, OpenFieldGentle DEF Gentle
<1> QED
  BY <1>1, <1>2, <1>3, GentleTwice

LEMMA ClosedGentle ==
  ASSUME NEW t, Typed(t), NEW w
  PROVE  Gentle(t, Closed(t, w))
<1> DEFINE u == ClosePopup(t, w)
           S == u.open \ {w}
<1>1. Gentle(t, u)
  BY ClosePopupGentle
<1>2. S \in SUBSET Widgets /\ Closed(t, w) = [u EXCEPT !.open = S]
  BY <1>1 DEF Closed, Gentle, Typed, Trees
<1> HIDE DEF u, S
<1>3. Gentle(u, [u EXCEPT !.open = S])
  BY <1>1, <1>2, OpenFieldGentle DEF Gentle
<1> QED
  BY <1>1, <1>2, <1>3, GentleTwice

-----------------------------------------------------------------------------
(* The focus and the order of Tab.                                         *)

LEMMA SetFocusGentle ==
  ASSUME NEW t, Typed(t), NEW w \in Maybe(t.alive)
  PROVE  Gentle(t, SetFocus(t, w))
BY StillAligned DEF Gentle, Typed, Trees, FocusAlive, Maybe, SetFocus, Still

LEMMA FocusGentle ==
  ASSUME NEW t, Typed(t), NEW w
  PROVE  Gentle(t, Focus(t, w))
BY SetFocusGentle DEF Focus, Maybe

LEMMA OrderAlive ==
  ASSUME NEW t, Typed(t), NEW w
  PROVE  TabOrder(t, w) \subseteq t.alive /\ TabOrder(t, w) \in SUBSET Widgets
BY DEF TabOrder, Reaches

LEMMA FocusFirstGentle ==
  ASSUME NEW t, Typed(t), NEW w
  PROVE  Gentle(t, FocusFirst(t, w))
<1>1. CASE TabOrder(t, w) = {}
  BY <1>1 DEF FocusFirst, Gentle
<1>2. CASE TabOrder(t, w) # {}
  <2>1. First(TabOrder(t, w)) \in Maybe(t.alive)
    BY <1>2, OrderAlive, EndsOfOrder DEF Maybe
  <2> QED
    BY <1>2, <2>1, SetFocusGentle DEF FocusFirst
<1> QED
  BY <1>1, <1>2

\* Tab moves the focus along the order or leaves it.
LEMMA AdjacentAlive ==
  ASSUME NEW t, Typed(t), NEW forward \in BOOLEAN
  PROVE  Adjacent(t, forward) = t.focus \/ Adjacent(t, forward) \in t.alive
<1> DEFINE order == TabOrder(t, TabScope(t))
           later == {w \in order : Rank[w] > Rank[t.focus]}
           before == {w \in order : Rank[w] < Rank[t.focus]}
<1>1. order \subseteq t.alive /\ order \in SUBSET Widgets
  BY OrderAlive
<1>2. later \in SUBSET Widgets /\ before \in SUBSET Widgets
      /\ later \subseteq t.alive /\ before \subseteq t.alive
  BY <1>1
<1>3. \A S \in {order, later, before} :
        S # {} => First(S) \in t.alive /\ Last(S) \in t.alive
  <2> HIDE DEF order, later, before
  <2> QED
    BY <1>1, <1>2, EndsOfOrder
<1>4. Adjacent(t, forward) =
        IF order = {} THEN t.focus
        ELSE IF forward
        THEN IF t.focus \in order /\ later # {} THEN First(later) ELSE First(order)
        ELSE IF t.focus \in order /\ before # {} THEN Last(before) ELSE Last(order)
  BY DEF Adjacent
<1> HIDE DEF order, later, before
<1> QED
  BY <1>3, <1>4

\* Of a widget's ancestors that hear an event, one is the closest.
LEMMA ClosestHears ==
  ASSUME NEW w \in Widgets, NEW hears \in SUBSET Path[w], hears # {}
  PROVE  (CHOOSE v \in hears : \A u \in hears : u \in Path[v]) \in hears
BY PathAssumption

-----------------------------------------------------------------------------
(* Removal, building and the Navigator.                                    *)

Keeps(t, u) == Typed(u) /\ (Coherent(t) => Coherent(u))

LEMMA GentleKeeps ==
  ASSUME NEW t, NEW u, Gentle(t, u)
  PROVE  Keeps(t, u)
BY DEF Gentle, Keeps, Coherent

LEMMA KeepsTwice ==
  ASSUME NEW t, NEW u, NEW v, Keeps(t, u), Keeps(u, v)
  PROVE  Keeps(t, v)
BY DEF Keeps

\* The entries whose owner outlived the widget they took the focus from.
Hanging(t) == {e \in t.popups : e.grab /\ e.prev \notin Maybe(t.alive)}

\* A removal ends the press and the focus of what it removes; a popup it
\* closes gives the focus to no widget that is gone, unless its entry hung.
LEMMA RemoveKeeps ==
  ASSUME NEW t, Typed(t), NEW w
  PROVE  /\ Keeps(t, Remove(t, w))
         /\ FocusAlive(t) /\ (\A e \in Hanging(t) : e.owner \in Remove(t, w).alive)
            => FocusAlive(Remove(t, w))
         /\ Still(t, Remove(t, w))
         /\ Remove(t, w).alive = IF w \in t.alive THEN t.alive \ Subtree(w) ELSE t.alive
<1>1. CASE w \notin t.alive
  BY <1>1 DEF Remove, Keeps, Still
<1>2. CASE w \in t.alive
  <2> DEFINE ids == Subtree(w) \cap t.alive
             gone == {e \in t.popups : e.owner \in ids}
             live == Widgets \ ids
             u == Drop(t, gone, live)
             r == [u EXCEPT !.alive = u.alive \ ids, !.open = u.open \ ids,
                            !.pressed = u.pressed \ ids,
                            !.focus = IF u.focus \in ids THEN None ELSE u.focus,
                            !.capture = IF u.capture \in ids THEN None ELSE u.capture]
  <2>1. /\ Typed(u) /\ Still(t, u)
        /\ u.pressed = t.pressed /\ u.capture = t.capture /\ u.alive = t.alive
    BY DropGentle
  <2>2. Remove(t, w) = r
    BY <1>2, <2>1 DEF Remove, Typed, Trees
  <2>3. None \notin ids /\ t.alive \subseteq Widgets
    BY TreeAssumption DEF Typed, Trees
  <2>4. u.focus = IF Grabs(gone) = {} \/ Returned(t, gone) \in live
                  THEN Returned(t, gone) ELSE None
    BY <2>1 DEF Drop, Typed, Trees
  <2> HIDE DEF u
  <2>5. /\ r.alive = t.alive \ ids /\ r.pressed = t.pressed \ ids
        /\ r.focus = (IF u.focus \in ids THEN None ELSE u.focus)
        /\ r.capture = (IF t.capture \in ids THEN None ELSE t.capture)
        /\ r.popups = u.popups /\ Still(t, r)
    BY <2>1 DEF Typed, Trees, Still
  <2>6. r \in Trees
    BY <2>1 DEF Typed, Trees, Maybe
  <2>7. Typed(r)
    BY <2>1, <2>5, <2>6 DEF Typed
  <2>8. Coherent(t) => Coherent(r)
    BY <2>3, <2>5 DEF Coherent
  <2>9. ASSUME FocusAlive(t), \A e \in Hanging(t) : e.owner \in r.alive
        PROVE  FocusAlive(r)
    <3>1. CASE Grabs(gone) = {}
      BY <2>4, <2>5, <2>9, <3>1 DEF FocusAlive, Returned, Maybe
    <3>2. CASE Grabs(gone) # {}
      <4>1. PICK e \in Grabs(gone) : Returned(t, gone) = e.prev
        BY <3>2, ReturnedFrom
      <4>2. e \in t.popups /\ e.grab /\ e.owner \in ids
        BY DEF Grabs
      <4>3. e.prev \in Maybe(t.alive)
        BY <2>5, <2>9, <4>2 DEF Hanging
      <4>4. u.focus \in Maybe(t.alive)
        BY <2>4, <3>2, <4>1, <4>3 DEF Maybe
      <4> QED
        BY <2>5, <4>4 DEF FocusAlive, Maybe
    <3> QED
      BY <3>1, <3>2
  <2>10. r.alive = t.alive \ Subtree(w)
    BY <2>5
  <2> QED
    BY <1>2, <2>2, <2>5, <2>7, <2>8, <2>9, <2>10 DEF Keeps
<1> QED
  BY <1>1, <1>2

\* What an application removes on its own is no screen and holds none.
LEMMA RemoveAligned ==
  ASSUME NEW t, Typed(t), Aligned(t), NEW w \in Removable \cup {Modal}
  PROVE  Aligned(Remove(t, w))
<1> DEFINE r == Remove(t, w)
<1>1. Still(t, r) /\ (r.alive = t.alive \/ r.alive = t.alive \ Subtree(w))
  BY RemoveKeeps
<1>2. Screens \cap Subtree(w) = {}
  BY PathAssumption DEF Subtree
<1> HIDE DEF r
<1>3. Pushed(r) = Pushed(t)
  BY <1>1, <1>2 DEF Pushed
<1>4. /\ r.top = t.top /\ r.saved = t.saved
      /\ r.reap = t.reap /\ r.animating = t.animating
  BY <1>1 DEF Still
<1>5. Aligned(r)
  BY <1>3, <1>4 DEF Aligned
<1> QED
  BY <1>5 DEF r

LEMMA BuildKeeps ==
  ASSUME NEW t, Typed(t), NEW w
  PROVE  /\ Keeps(t, Build(t, w))
         /\ FocusAlive(t) => FocusAlive(Build(t, w))
         /\ w = Modal /\ Aligned(t) => Aligned(Build(t, w))
<1>1. Subtree(w) \in SUBSET Widgets
  BY DEF Subtree
<1> DEFINE A == t.alive \cup Subtree(w)
<1>2. A \in SUBSET Widgets /\ t.alive \subseteq A
  BY <1>1 DEF Typed, Trees
<1>3. Build(t, w) = [t EXCEPT !.alive = A, !.animating = TRUE]
  BY DEF Build, Typed, Trees
<1>4. w = Modal => Screens \cap A = Screens \cap t.alive
  BY PathAssumption DEF Subtree
<1> HIDE DEF A
<1>5. w = Modal /\ Aligned(t) => Aligned(Build(t, w))
  BY <1>2, <1>3, <1>4 DEF Aligned, Pushed, Typed, Trees
<1> DEFINE u == Build(t, w)
<1>6. /\ u.alive = A /\ u.pressed = t.pressed /\ u.capture = t.capture /\ u.focus = t.focus
      /\ Typed(u)
  BY <1>2, <1>3 DEF Typed, Trees
<1> HIDE DEF u
<1>7. Keeps(t, u) /\ (FocusAlive(t) => FocusAlive(u))
  BY <1>2, <1>6 DEF Keeps, Coherent, FocusAlive, Maybe
<1> QED
  BY <1>5, <1>7 DEF u

\* The clock may start at any time, and stop when no removal is owed.
LEMMA ClockGentle ==
  ASSUME NEW t, Typed(t), NEW b \in BOOLEAN, b \/ ~t.reap
  PROVE  Gentle(t, [t EXCEPT !.animating = b])
BY DEF Gentle, Typed, Trees, FocusAlive, Aligned, Pushed

\* A reap removes the screen that is owed and leaves none over the first, if
\* it was popped.
LEMMA ReapedKeeps ==
  ASSUME NEW t, Typed(t)
  PROVE  /\ Keeps(t, Reaped(t)) /\ ~Reaped(t).reap
         /\ FocusAlive(t) /\ (\A e \in Hanging(t) : e.owner \in Reaped(t).alive)
            => FocusAlive(Reaped(t))
         /\ Aligned(t) => Aligned(Reaped(t)) /\ Reaped(t).top = t.top
<1> DEFINE u == [t EXCEPT !.reap = FALSE]
           s == CHOOSE s \in Retired(t) : TRUE
<1>1. /\ Typed(u) /\ Keeps(t, u) /\ ~u.reap
      /\ u.popups = t.popups /\ u.alive = t.alive /\ u.focus = t.focus
      /\ u.top = t.top /\ u.saved = t.saved
  BY DEF Keeps, Typed, Trees, Coherent
<1>2. Reaped(t) = IF Retired(t) = {} THEN u ELSE Remove(u, s)
  BY DEF Reaped
<1>3. Hanging(u) = Hanging(t) /\ (FocusAlive(t) => FocusAlive(u))
  BY <1>1 DEF Hanging, FocusAlive
<1>4. Retired(t) # {} => s \in Pushed(t) /\ t.reap
  BY DEF Retired
<1> HIDE DEF u, s
<1>5. CASE Retired(t) = {}
  <2>1. Aligned(t) => ~t.reap
    BY <1>5 DEF Aligned, Retired
  <2>2. Aligned(t) => Aligned(u)
    BY <1>1, <2>1 DEF Aligned, Pushed
  <2> QED
    BY <1>1, <1>2, <1>3, <1>5, <2>2
<1>6. CASE Retired(t) # {}
  <2> DEFINE r == Remove(u, s)
  <2>1. /\ Keeps(u, r) /\ Still(u, r)
        /\ FocusAlive(u) /\ (\A e \in Hanging(u) : e.owner \in r.alive)
           => FocusAlive(r)
        /\ r.alive = IF s \in u.alive THEN u.alive \ Subtree(s) ELSE u.alive
    BY <1>1, RemoveKeeps
  <2>2. s \in Screens /\ s \in t.alive /\ s \in Subtree(s)
    BY <1>4, <1>6, TreeAssumption, PathAssumption DEF Pushed, Subtree
  <2> HIDE DEF r
  <2>3. Keeps(t, r)
    BY <1>1, <2>1, KeepsTwice
  <2>4. ASSUME Aligned(t)
        PROVE  Aligned(r) /\ r.top = t.top
    <3>1. Pushed(t) = {s} /\ t.top = 0
      BY <1>4, <1>6, <2>4 DEF Aligned
    <3>2. Pushed(r) = {}
      BY <1>1, <2>1, <2>2, <3>1 DEF Pushed
    <3> QED
      BY <1>1, <2>1, <2>4, <3>1, <3>2 DEF Aligned, Still
  <2> QED
    BY <1>1, <1>2, <1>3, <1>6, <2>1, <2>3, <2>4 DEF r, Still
<1> QED
  BY <1>5, <1>6

LEMMA PushKeeps ==
  ASSUME NEW t, Typed(t), NEW s
  PROVE  /\ Keeps(t, Push(t, s)) /\ FocusAlive(Push(t, s))
         /\ Aligned(t) /\ t.top = 0 /\ s \in Screens => Aligned(Push(t, s))
<1> DEFINE u == Reaped(t)
           v == [u EXCEPT !.animating = TRUE]
           x == Build(v, s)
           y == [x EXCEPT !.saved = Append(x.saved, v.focus), !.top = x.top + 1,
                          !.focus = None]
<1>1. Keeps(t, u) /\ ~u.reap /\ (Aligned(t) => Aligned(u) /\ u.top = t.top)
  BY ReapedKeeps
<1>2. Gentle(u, v) /\ v.reap = u.reap /\ v.top = u.top
  BY <1>1, ClockGentle DEF Keeps, Typed, Trees
<1>3. v = Settle(t) /\ Keeps(t, v) /\ ~v.reap /\ (Aligned(t) => Aligned(v) /\ v.top = t.top)
  BY <1>1, <1>2, GentleKeeps, KeepsTwice DEF Settle, Gentle
<1> HIDE DEF u, v
<1>4. Keeps(v, x) /\ Typed(v)
  BY <1>3, BuildKeeps DEF Keeps
<1>5. Keeps(t, x)
  BY <1>3, <1>4, KeepsTwice
<1>10. /\ x.top = v.top /\ x.saved = v.saved /\ x.reap = v.reap
       /\ x.alive = v.alive \cup Subtree(s)
  BY <1>4 DEF Build, Typed, Trees
<1>6. Push(t, s) = [x EXCEPT !.saved = Append(x.saved, v.focus), !.top = x.top + 1,
                             !.focus = None]
  <2>1. Push(t, s) = [x EXCEPT !.saved = Append(@, v.focus), !.top = @ + 1, !.focus = None]
    BY <1>3 DEF Push, PushUnsettled
  <2> HIDE DEF x
  <2> QED
    BY <1>4, <2>1 DEF Keeps, Typed, Trees
<1> HIDE DEF x
<1>7. Append(x.saved, v.focus) \in Seq(Maybe(Widgets)) /\ x.top + 1 \in Nat
  BY <1>4 DEF Keeps, Typed, Trees
<1>8. /\ Keeps(x, y) /\ FocusAlive(y)
      /\ y.alive = x.alive /\ y.reap = x.reap
      /\ y.saved = Append(x.saved, v.focus) /\ y.top = x.top + 1
  <2> DEFINE q == Append(x.saved, v.focus)
             n == x.top + 1
  <2>1. q \in Seq(Maybe(Widgets)) /\ n \in Nat /\ y = [x EXCEPT !.saved = q, !.top = n, !.focus = None]
    BY <1>7
  <2> HIDE DEF q, n, y
  <2>2. Typed(y) /\ y.focus = None /\ y.pressed = x.pressed /\ y.capture = x.capture
        /\ y.alive = x.alive /\ y.reap = x.reap /\ y.saved = q /\ y.top = n
    BY <1>4, <2>1 DEF Keeps, Typed, Trees, Maybe
  <2> QED
    BY <2>2 DEF Keeps, Coherent, FocusAlive, Maybe, q, n
<1>9. Push(t, s) = y
  BY <1>6
<1> HIDE DEF y
<1>11. ASSUME Aligned(t), t.top = 0, s \in Screens
       PROVE  Aligned(y)
  <2>1. Pushed(v) = {} /\ Len(v.saved) = 0 /\ v.top = 0
    BY <1>3, <1>11 DEF Aligned
  <2>2. Screens \cap Subtree(s) = {s}
    BY <1>11, TreeAssumption, PathAssumption DEF Subtree
  <2>3. Pushed(y) = {s}
    BY <1>8, <1>10, <2>1, <2>2 DEF Pushed
  <2>4. v.saved \in Seq(Maybe(Widgets)) /\ v.focus \in Maybe(Widgets)
    BY <1>4 DEF Typed, Trees
  <2>5. y.top = 1 /\ Len(y.saved) = 1 /\ ~y.reap
    BY <1>3, <1>8, <1>10, <2>1, <2>4
  <2> QED
    BY <1>11, <2>3, <2>5 DEF Aligned
<1> QED
  BY <1>5, <1>8, <1>9, <1>11, KeepsTwice

LEMMA NotePopGentle ==
  ASSUME NEW t, Typed(t), t.top > 0
  PROVE  Gentle(t, NotePop(t))
<1> DEFINE q == SubSeq(t.saved, 1, Len(t.saved) - 1)
           n == t.top - 1
<1>1. n \in Nat
  BY DEF Typed, Trees
<1>2. q \in Seq(Maybe(Widgets))
  <2>1. t.saved \in Seq(Maybe(Widgets))
    BY DEF Typed, Trees
  <2>2. Len(t.saved) - 1 \in Int /\ Len(t.saved) - 1 <= Len(t.saved)
    BY <2>1
  <2> QED
    BY <2>1, <2>2
<1>3. NotePop(t) = [t EXCEPT !.top = n, !.saved = q, !.reap = TRUE, !.animating = TRUE]
  BY DEF NotePop, Typed, Trees
<1>4. Aligned(t) => n = 0 /\ Len(q) = 0
  BY DEF Aligned, Typed, Trees
<1> HIDE DEF q, n
<1>5. Aligned(t) => Aligned(NotePop(t))
  BY <1>1, <1>2, <1>3, <1>4 DEF Aligned, Pushed, Typed, Trees
<1> QED
  BY <1>1, <1>2, <1>3, <1>5 DEF Gentle, Typed, Trees, FocusAlive

LEMMA PopGentle ==
  ASSUME NEW t, Typed(t)
  PROVE  Gentle(t, Pop(t))
<1>1. CASE t.top = 0
  BY <1>1, ClockGentle DEF Pop
<1>2. CASE t.top # 0
  <2>1. t.top > 0
    BY <1>2 DEF Typed, Trees
  <2>2. Gentle(t, NotePop(t)) /\ Typed(NotePop(t))
    BY <2>1, NotePopGentle DEF Gentle
  <2>3. Gentle(NotePop(t), Focus(NotePop(t), Remembered(t)))
    BY <2>2, FocusGentle
  <2> QED
    BY <1>2, <2>2, <2>3, GentleTwice DEF Pop
<1> QED
  BY <1>1, <1>2

LEMMA BackGentle ==
  ASSUME NEW t, Typed(t), t.top > 0
  PROVE  Gentle(t, Back(t))
<1> DEFINE h == IF Remembered(t) \in t.alive THEN Remembered(t) ELSE None
<1>1. Gentle(t, NotePop(t)) /\ Typed(NotePop(t)) /\ NotePop(t).alive = t.alive
  BY NotePopGentle DEF Gentle
<1>2. h \in Maybe(NotePop(t).alive)
  BY <1>1 DEF Maybe
<1>3. Gentle(NotePop(t), SetFocus(NotePop(t), h))
  BY <1>1, <1>2, SetFocusGentle
<1> QED
  BY <1>1, <1>3, GentleTwice DEF Back

-----------------------------------------------------------------------------
(* What the widgets do with an event.                                      *)

Sound(t, o) ==
  /\ Typed(o.tree) /\ Coherent(o.tree) /\ o.mail \in Nat
  /\ FocusAlive(t) => FocusAlive(o.tree)
  /\ Aligned(t) => Aligned(o.tree)

LEMMA GentleSound ==
  ASSUME NEW t, NEW u, Coherent(t), Gentle(t, u), NEW n \in Nat
  PROVE  Sound(t, Out(u, n))
BY DEF Gentle, Coherent, Sound, Out

LEMMA SameSound ==
  ASSUME NEW t, Typed(t), Coherent(t), NEW n \in Nat
  PROVE  Sound(t, Out(t, n))
BY DEF Sound, Out

\* What is sound after a gentle step is sound.
LEMMA SoundAfter ==
  ASSUME NEW t, NEW u, NEW o, Gentle(t, u), Sound(u, o)
  PROVE  Sound(t, o)
BY DEF Gentle, Sound

\* The pointer is captured by no other widget than the one pressed.
LEMMA PressSound ==
  ASSUME NEW t, Typed(t), Coherent(t), NEW w \in t.alive,
         t.capture = None \/ t.capture = w, NEW o \in Press(t, w)
  PROVE  Sound(t, o)
<1>1. w \in Widgets /\ w # None
  BY TreeAssumption DEF Typed, Trees
<1>2. CASE Kind[w] = "button"
  <2> DEFINE S == t.pressed \cup {w}
             u == PressButton(t, w)
  <2>1. S = {w} /\ S \in SUBSET Widgets /\ w \in Maybe(Widgets)
    BY <1>1 DEF Coherent, Maybe
  <2>2. u = [t EXCEPT !.pressed = S, !.capture = w, !.focus = w]
    BY DEF PressButton, Typed, Trees
  <2>3. o = Out(u, 0)
    BY <1>2 DEF Press
  <2> HIDE DEF S, u
  <2>4. /\ Typed(u) /\ u.pressed = {w} /\ u.capture = w
        /\ u.focus = w /\ u.alive = t.alive /\ Still(t, u)
    BY <2>1, <2>2 DEF Typed, Trees, Still
  <2> QED
    BY <1>1, <1>2, <2>3, <2>4, StillAligned DEF Sound, Out, Coherent, FocusAlive, Maybe
<1>3. CASE Kind[w] = "select" /\ w \notin t.open
  <2> DEFINE u == Opened(t, w)
  <2>1. o = Out(SetFocus(u, w), 0)
    BY <1>3 DEF Press
  <2>2. Gentle(t, u) /\ Typed(u) /\ w \in Maybe(u.alive)
    BY <1>1, OpenedGentle DEF Gentle, Maybe
  <2> HIDE DEF u
  <2>3. Gentle(u, SetFocus(u, w))
    BY <2>2, SetFocusGentle
  <2> QED
    BY <2>1, <2>2, <2>3, GentleTwice, GentleSound
<1>4. CASE Kind[w] # "button" /\ ~(Kind[w] = "select" /\ w \notin t.open)
  <2>1. o = Out(t, 0)
    BY <1>4 DEF Press
  <2> QED
    BY <2>1, SameSound
<1> QED
  BY <1>2, <1>3, <1>4

\* A release frees the pointer, if it goes to the widget that has it.
LEMMA ReleaseSound ==
  ASSUME NEW t, Typed(t), Coherent(t), NEW w \in t.alive,
         t.capture = None \/ t.capture = w, NEW o \in Release(t, w)
  PROVE  /\ Sound(t, o)
         /\ t.capture = w => o.tree.capture = None /\ o.tree.pressed = {}
<1>1. w \in Widgets /\ w # None
  BY TreeAssumption DEF Typed, Trees
<1>2. CASE Kind[w] = "button"
  <2> DEFINE S == t.pressed \ {w}
             u == ReleaseButton(t, w)
  <2>1. S = {}
    BY <1>1 DEF Coherent
  <2>2. u = [t EXCEPT !.pressed = S, !.capture = None]
    BY DEF ReleaseButton, Typed, Trees
  <2>3. PICK n \in {0, 1} : o = Out(u, n)
    BY <1>2 DEF Release
  <2> HIDE DEF S, u
  <2>4. /\ Typed(u) /\ u.pressed = {} /\ u.capture = None
        /\ u.alive = t.alive /\ u.focus = t.focus /\ Still(t, u)
    BY <2>1, <2>2 DEF Typed, Trees, Maybe, Still
  <2> QED
    BY <2>3, <2>4, StillAligned DEF Sound, Out, Coherent, FocusAlive
<1>3. CASE Kind[w] # "button"
  <2>1. t.capture # w
    BY <1>1, <1>3 DEF Coherent
  <2>2. \E n \in Nat : o = Out(t, n)
    BY <1>3 DEF Release
  <2> QED
    BY <2>1, <2>2, SameSound
<1> QED
  BY <1>2, <1>3

LEMMA SummonSound ==
  ASSUME NEW t, Typed(t), Coherent(t), NEW w \in Widgets, NEW o \in Summon(t, w)
  PROVE  Sound(t, o)
<1> DEFINE hears == {v \in Path[w] : \/ Kind[v] = "context" /\ v \notin t.open
                                     \/ Kind[v] = "dialog"}
           first == CHOOSE v \in hears : \A u \in hears : u \in Path[v]
<1>1. \/ o = Out(t, 0)
      \/ hears # {} /\ o = Out(Opened(t, first), 0)
  BY DEF Summon
<1>2. ASSUME hears # {}
      PROVE  first \in Widgets
  <2>1. hears \in SUBSET Path[w] /\ Path[w] \in SUBSET Widgets
    BY PathAssumption
  <2> HIDE DEF hears
  <2> QED
    BY <1>2, <2>1, ClosestHears
<1> HIDE DEF first, hears
<1> QED
  BY <1>1, <1>2, OpenedGentle, GentleSound, SameSound

LEMMA InOverlaySound ==
  ASSUME NEW t, Typed(t), Coherent(t), NEW w, NEW type, NEW o \in InOverlay(t, w, type)
  PROVE  Sound(t, o)
<1>1. o \in {Out(t, 0), Out(Closed(t, w), 0), Out(Closed(t, w), 1)}
  BY DEF InOverlay
<1> QED
  BY <1>1, ClosedGentle, GentleSound, SameSound

LEMMA EnterSound ==
  ASSUME NEW t, Typed(t), Coherent(t), NEW w \in Widgets, NEW o \in Enter(t, w)
  PROVE  Sound(t, o)
<1>1. \/ \E n \in {0, 1} : o = Out(t, n) \/ o = Out(Closed(t, w), n)
      \/ o = Out(Opened(t, w), 0)
  BY DEF Enter
<1> QED
  BY <1>1, ClosedGentle, OpenedGentle, GentleSound, SameSound

LEMMA EscapeSound ==
  ASSUME NEW t, Typed(t), Coherent(t), NEW w \in Widgets
  PROVE  Sound(t, Escape(t, w))
<1> DEFINE hears == {v \in Path[w] : \/ v = w /\ v \in t.open
                                     \/ Kind[v] = "dialog"
                                     \/ v = Nav /\ t.top > 0}
           first == CHOOSE v \in hears : \A u \in hears : u \in Path[v]
<1>1. CASE hears = {}
  <2>1. Escape(t, w) = Out(t, 0)
    BY <1>1 DEF Escape
  <2> QED
    BY <2>1, SameSound
<1>2. CASE hears # {}
  <2>1. Escape(t, w) = IF first \in t.open
                       THEN Out(Closed(t, first), IF Kind[first] = "select" THEN 0 ELSE 1)
                       ELSE IF Kind[first] = "dialog" THEN Out(t, 1) ELSE Out(Back(t), 1)
    BY <1>2 DEF Escape
  <2>2. first \in hears
    <3>1. hears \in SUBSET Path[w]
      OBVIOUS
    <3> HIDE DEF hears
    <3> QED
      BY <1>2, <3>1, ClosestHears
  <2>3. CASE first \in t.open
    BY <2>1, <2>3, ClosedGentle, GentleSound
  <2>4. CASE first \notin t.open /\ Kind[first] = "dialog"
    BY <2>1, <2>4, SameSound
  <2>5. CASE first \notin t.open /\ Kind[first] # "dialog"
    <3>1. t.top > 0
      BY <2>2, <2>5
    <3> QED
      BY <2>1, <2>5, <3>1, BackGentle, GentleSound
  <2> QED
    BY <2>3, <2>4, <2>5
<1> QED
  BY <1>1, <1>2

-----------------------------------------------------------------------------
(* Ui::event.                                                              *)

\* An event that goes through the tree reaches the widget that has the
\* pointer, or with no such widget a live one.
LEMMA TargetsAlive ==
  ASSUME NEW t, Typed(t), Coherent(t), NEW w \in Targets(t)
  PROVE  w \in t.alive /\ w \in Widgets /\ (t.capture = None \/ t.capture = w)
<1>1. CASE t.capture # None
  <2>1. w = t.capture /\ w \in t.pressed
    BY <1>1 DEF Targets, Coherent
  <2> QED
    BY <2>1 DEF Coherent, Typed, Trees
<1>2. CASE t.capture = None
  BY <1>2 DEF Targets, Hittable, Reaches
<1> QED
  BY <1>1, <1>2

LEMMA ThroughTreeSound ==
  ASSUME NEW t, Typed(t), Coherent(t), NEW type, NEW o \in ThroughTree(t, type)
  PROVE  /\ Sound(t, o)
         /\ type = "up" /\ t.capture # None
            => o.tree.capture = None /\ o.tree.pressed = {}
<1>1. PICK w \in Targets(t) : o \in Received(t, w, type)
  BY DEF ThroughTree
<1>2. w \in t.alive /\ w \in Widgets /\ (t.capture = None \/ t.capture = w)
  BY TargetsAlive
<1>3. CASE type = "down"
  <2>1. o \in Press(t, w)
    BY <1>1, <1>3 DEF Received
  <2> QED
    BY <1>2, <1>3, <2>1, PressSound
<1>4. CASE type = "up"
  <2>1. o \in Release(t, w)
    BY <1>1, <1>4 DEF Received
  <2> QED
    BY <1>2, <2>1, ReleaseSound
<1>5. CASE type \notin {"down", "up"}
  <2>1. o \in Summon(t, w) \/ o \in Release(t, w) \/ o = Out(t, 0)
    BY <1>1, <1>5 DEF Received
  <2> QED
    BY <1>2, <1>5, <2>1, SummonSound, ReleaseSound, SameSound
<1> QED
  BY <1>3, <1>4, <1>5

LEMMA NoticesCount ==
  ASSUME NEW t, Typed(t), NEW level
  PROVE  Notices(t, level) \in Nat
BY FS_Subset, FS_CardinalityType DEF Notices, Typed

LEMMA InPopupSound ==
  ASSUME NEW t, Typed(t), Coherent(t), NEW type, NEW o \in InPopup(t, type)
  PROVE  Sound(t, o)
<1>1. PICK w \in Owners(t) :
        LET above == 1 + (CHOOSE e \in t.popups : e.owner = w).at
            lost == IF IsPress(type) THEN Notices(t, above) ELSE 0
            u == IF IsPress(type) THEN Dismiss(t, above) ELSE t
        IN o \in {Out(p.tree, p.mail + lost) : p \in InOverlay(u, w, type)}
  BY DEF InPopup
<1> DEFINE above == 1 + (CHOOSE e \in t.popups : e.owner = w).at
           u == IF IsPress(type) THEN Dismiss(t, above) ELSE t
           lost == IF IsPress(type) THEN Notices(t, above) ELSE 0
<1>2. PICK p \in InOverlay(u, w, type) : o = Out(p.tree, p.mail + lost)
  BY <1>1
<1>3. Gentle(t, u)
  BY DismissGentle DEF Gentle
<1>4. Typed(u) /\ Coherent(u)
  BY <1>3, GentleKeeps DEF Keeps
<1>5. lost \in Nat
  BY NoticesCount
<1> HIDE DEF u, lost
<1>6. Sound(u, p)
  BY <1>2, <1>4, InOverlaySound
<1>7. Sound(t, p) /\ p.mail + lost \in Nat
  BY <1>3, <1>5, <1>6, SoundAfter DEF Sound
<1> QED
  BY <1>2, <1>7 DEF Sound, Out

LEMMA PointerSound ==
  ASSUME Inv, NEW type, NEW o \in Pointer(type)
  PROVE  /\ Sound(tree, o)
         /\ type = "up" /\ tree.capture # None
            => o.tree.capture = None /\ o.tree.pressed = {}
<1> DEFINE t == Prune(tree)
<1>1. Gentle(tree, t)
  BY PruneGentle DEF Inv
<1>2. Typed(t) /\ Coherent(t) /\ t.capture = tree.capture
  BY <1>1, GentleKeeps DEF Inv, Keeps, Gentle
<1>3. \/ o \in ThroughTree(t, type)
      \/ ~CaptureFirst(t, type) /\ (o \in InPopup(t, type) \/ o \in ClickAway(t))
      \/ ~CaptureFirst(t, type) /\ o \in ThroughTree(t, type)
  BY DEF Pointer
<1> HIDE DEF t
<1>4. CASE o \in ThroughTree(t, type)
  BY <1>1, <1>2, <1>4, ThroughTreeSound, SoundAfter
<1>5. CASE ~CaptureFirst(t, type) /\ (o \in InPopup(t, type) \/ o \in ClickAway(t))
  <2>1. ~(type = "up" /\ tree.capture # None)
    BY <1>2, <1>5 DEF CaptureFirst
  <2>2. ASSUME o \in ClickAway(t)
        PROVE  Sound(t, o)
    BY <1>2, <2>2, DismissGentle, NoticesCount, GentleSound DEF ClickAway
  <2>3. Sound(t, o)
    BY <1>2, <1>5, <2>2, InPopupSound
  <2> QED
    BY <1>1, <2>1, <2>3, SoundAfter
<1> QED
  BY <1>3, <1>4, <1>5

LEMMA TabSound ==
  ASSUME Inv, NEW o \in Tab(tree)
  PROVE  Sound(tree, o)
<1>1. PICK forward \in BOOLEAN : o = Out(SetFocus(tree, Adjacent(tree, forward)), 0)
  BY DEF Tab
<1> DEFINE h == Adjacent(tree, forward)
<1>2. h = tree.focus \/ h \in tree.alive
  BY AdjacentAlive DEF Inv
<1>3. h \in Maybe(Widgets) /\ (FocusAlive(tree) => h \in Maybe(tree.alive))
  BY <1>2 DEF Inv, Typed, Trees, Maybe, FocusAlive
<1> HIDE DEF h
<1>4. Gentle(tree, SetFocus(tree, h))
  BY <1>3, StillAligned DEF Inv, Gentle, SetFocus, Typed, Trees, FocusAlive, Still
<1> QED
  BY <1>1, <1>4, GentleSound DEF Inv, h

LEMMA KeySound ==
  ASSUME Inv, NEW key, NEW o \in Key(tree, key)
  PROVE  Sound(tree, o)
<1> DEFINE u == Prune(tree)
<1>1. Gentle(tree, u)
  BY PruneGentle DEF Inv
<1>2. Typed(u) /\ Coherent(u)
  BY <1>1, GentleKeeps DEF Inv, Keeps
<1>3. \/ o = Out(u, 0)
      \/ u.focus \in u.alive /\ (o \in Enter(u, u.focus) \/ o = Escape(u, u.focus))
  BY DEF Key
<1> HIDE DEF u
<1>4. u.focus \in u.alive => u.focus \in Widgets
  BY <1>2 DEF Typed, Trees
<1>5. Sound(u, o)
  BY <1>2, <1>3, <1>4, SameSound, EnterSound, EscapeSound
<1> QED
  BY <1>1, <1>5, SoundAfter

-----------------------------------------------------------------------------
(* App::update.                                                            *)

\* What an update does is sound, but for a removal under an entry that hangs.
LEMMA CallSound ==
  ASSUME Inv, NEW o \in Calls(tree)
  PROVE  /\ Typed(o.tree) /\ Coherent(o.tree) /\ Aligned(o.tree) /\ o.mail \in Nat
         /\ FocusAlive(tree) /\ (\A e \in Hanging(tree) : e.owner \in o.tree.alive)
            => FocusAlive(o.tree)
<1> USE DEF Inv
<1> DEFINE good == Sound(tree, o)
           Shut(w) == [With(tree) EXCEPT !.open = @ \ {w}]
           final == /\ Typed(o.tree) /\ Coherent(o.tree) /\ Aligned(o.tree) /\ o.mail \in Nat
                    /\ FocusAlive(tree) /\ (\A e \in Hanging(tree) : e.owner \in o.tree.alive)
                       => FocusAlive(o.tree)
<1>1. ASSUME o = Out(tree, 0)
      PROVE  good
  BY <1>1, SameSound
<1>2. ASSUME NEW s \in Screens, tree.top = 0,
             o = Out(Push(tree, s), 0) \/ o = Out(FocusFirst(Push(tree, s), s), 0)
      PROVE  good
  <2> DEFINE u == Push(tree, s)
             v == FocusFirst(u, s)
  <2>1. Typed(u) /\ Coherent(u) /\ FocusAlive(u) /\ Aligned(u)
    BY <1>2, PushKeeps DEF Keeps
  <2>2. Sound(u, Out(u, 0))
    BY <2>1, SameSound
  <2>3. Sound(u, Out(v, 0))
    BY <2>1, FocusFirstGentle, GentleSound
  <2> HIDE DEF u, v
  <2> QED
    BY <1>2, <2>1, <2>2, <2>3 DEF Sound, u, v
<1>3. ASSUME o = Out(Pop(tree), 0)
      PROVE  good
  BY <1>3, PopGentle, GentleSound
<1>4. ASSUME o = Out(FocusFirst(Build(tree, Modal), Modal), 0)
      PROVE  final
  <2> DEFINE u == Build(tree, Modal)
  <2>1. Typed(u) /\ Coherent(u) /\ Aligned(u) /\ (FocusAlive(tree) => FocusAlive(u))
    BY BuildKeeps DEF Keeps
  <2>2. Sound(u, o)
    BY <1>4, <2>1, FocusFirstGentle, GentleSound
  <2> QED
    BY <2>1, <2>2 DEF Sound
<1>5. ASSUME NEW w \in Removable \cup {Modal}, o = Out(Remove(tree, w), 0)
      PROVE  final
  <2>1. o.tree = Remove(tree, w) /\ o.mail = 0
    BY <1>5 DEF Out
  <2>2. Aligned(Remove(tree, w))
    BY RemoveAligned
  <2>3. Keeps(tree, Remove(tree, w))
    BY RemoveKeeps
  <2>4. FocusAlive(tree) /\ (\A e \in Hanging(tree) : e.owner \in Remove(tree, w).alive)
        => FocusAlive(Remove(tree, w))
    BY RemoveKeeps
  <2> QED
    BY <2>1, <2>2, <2>3, <2>4 DEF Keeps
<1>6. ASSUME NEW w \in Widgets, o = Out(Opened(With(tree), w), 0)
      PROVE  good
  <2> DEFINE u == With(tree)
  <2>1. Gentle(tree, u)
    BY ClockGentle DEF With
  <2>2. Typed(u) /\ Coherent(u)
    BY <2>1, GentleKeeps DEF Keeps
  <2>3. Sound(u, o)
    BY <1>6, <2>2, OpenedGentle, GentleSound
  <2> QED
    BY <2>1, <2>3, SoundAfter
<1>7. ASSUME NEW w, o = Out(Shut(w), 0)
      PROVE  good
  <2> DEFINE u == With(tree)
             S == u.open \ {w}
  <2>1. Gentle(tree, u)
    BY ClockGentle DEF With
  <2>2. S \in SUBSET Widgets /\ Typed(u) /\ Coherent(u)
    BY <2>1, GentleKeeps DEF Keeps, Typed, Trees
  <2>3. o = Out([u EXCEPT !.open = S], 0)
    BY <1>7, <2>2 DEF Typed, Trees
  <2> HIDE DEF u, S
  <2>4. Gentle(u, [u EXCEPT !.open = S])
    BY <2>2, OpenFieldGentle
  <2> QED
    BY <2>1, <2>2, <2>3, <2>4, GentleTwice, GentleSound
<1>8. ASSUME NEW w, o = Out(Focus(tree, w), 0)
      PROVE  good
  BY <1>8, FocusGentle, GentleSound
<1>9. ASSUME o \in Key(tree, "escape")
      PROVE  good
  BY <1>9, KeySound
<1>10. good => final
  BY DEF Sound
<1>11. \/ o = Out(tree, 0)
       \/ \E s \in Screens : /\ tree.top = 0
                             /\ o = Out(Push(tree, s), 0) \/ o = Out(FocusFirst(Push(tree, s), s), 0)
       \/ o = Out(Pop(tree), 0)
       \/ o = Out(FocusFirst(Build(tree, Modal), Modal), 0)
       \/ \E w \in Removable \cup {Modal} : o = Out(Remove(tree, w), 0)
       \/ \E w \in Widgets : o = Out(Opened(With(tree), w), 0)
       \/ \E w : o = Out(Shut(w), 0)
       \/ \E w : o = Out(Focus(tree, w), 0)
       \/ o \in Key(tree, "escape")
  BY DEF Calls, Menus
<1>12. good \/ final
  <2> HIDE DEF good, final, Shut
  <2> QED
    BY <1>1, <1>2, <1>3, <1>4, <1>5, <1>6, <1>7, <1>8, <1>9, <1>11
<1> QED
  BY <1>10, <1>12

-----------------------------------------------------------------------------
(* The callbacks.                                                          *)

Types ==
  /\ phase \in Phases /\ mail \in Nat /\ todo \in {"none", "tap"}
  /\ made \subseteq Widgets

LEMMA InitHolds == Init => Inv /\ Types
<1> SUFFICES ASSUME Init PROVE Inv /\ Types
  OBVIOUS
<1> DEFINE A == Widgets \ Later
<1>1. tree = [alive |-> A, focus |-> None, capture |-> None,
              popups |-> {}, open |-> {}, pressed |-> {}, top |-> 0,
              saved |-> <<>>, reap |-> FALSE, animating |-> TRUE]
  BY DEF Init
<1>2. A \in SUBSET Widgets /\ <<>> \in Seq(Maybe(Widgets)) /\ IsFiniteSet({})
  BY FS_EmptySet
<1> HIDE DEF A
<1>3. tree \in Trees
  BY <1>1, <1>2 DEF Trees, Maybe
<1>4. tree.popups = {} /\ tree.pressed = {} /\ tree.capture = None
  BY <1>1
<1>5. Typed(tree) /\ Coherent(tree)
  BY <1>2, <1>3, <1>4 DEF Typed, Coherent
<1>6. Aligned(tree)
  <2>1. Screens \subseteq Later
    BY TreeAssumption, PathAssumption DEF Later, Subtree
  <2>2. tree.alive = Widgets \ Later
    BY <1>1 DEF A
  <2>3. Pushed(tree) = {}
    BY <2>1, <2>2 DEF Pushed
  <2>4. tree.top = 0 /\ ~tree.reap /\ Len(tree.saved) = 0
    BY <1>1
  <2> QED
    BY <2>3, <2>4 DEF Aligned
<1> QED
  BY <1>5, <1>6 DEF Inv, Types, Init, Phases

\* The callbacks that give the tree an event.
Hears == Down \/ Up \/ Move \/ Right \/ Keyboard \/ Gesture \/ Poll

LEMMA HearsSound ==
  ASSUME Inv, Types, Hears
  PROVE  /\ Typed(tree') /\ Coherent(tree') /\ Aligned(tree') /\ Types'
         /\ FocusAlive(tree) => FocusAlive(tree')
<1>1. ASSUME NEW o, Sound(tree, o), tree' = o.tree, mail' = o.mail
      PROVE  /\ Typed(tree') /\ Coherent(tree') /\ Aligned(tree') /\ mail' \in Nat
             /\ FocusAlive(tree) => FocusAlive(tree')
  BY <1>1 DEF Sound, Inv
<1>2. \/ \E type : Dispatch(Pointer(type))
      \/ Dispatch(Tab(tree) \cup Key(tree, "enter"))
  BY DEF Hears, Down, Up, Move, Right, Keyboard, Gesture, Poll
<1>3. \E o : Sound(tree, o) /\ tree' = o.tree /\ mail' = o.mail
  <2>1. ASSUME NEW type, Dispatch(Pointer(type))
        PROVE  \E o : Sound(tree, o) /\ tree' = o.tree /\ mail' = o.mail
    BY <2>1, PointerSound DEF Dispatch
  <2>2. ASSUME Dispatch(Tab(tree) \cup Key(tree, "enter"))
        PROVE  \E o : Sound(tree, o) /\ tree' = o.tree /\ mail' = o.mail
    BY <2>2, TabSound, KeySound DEF Dispatch
  <2> QED
    BY <1>2, <2>1, <2>2
<1>4. phase' \in Phases /\ todo' \in {"none", "tap"} /\ made' \subseteq Widgets
  BY DEF Types, Phases, Hears, Down, Up, Move, Right, Keyboard, Gesture, Poll
<1> QED
  BY <1>1, <1>3, <1>4 DEF Types

\* The frame in which a slide is over.
LEMMA FrameSound ==
  ASSUME Inv, Types, Frame
  PROVE  /\ Typed(tree') /\ Coherent(tree') /\ Aligned(tree') /\ Types'
         /\ FocusAlive(tree) /\ (\A e \in Hanging(tree) : e.owner \in tree'.alive)
            => FocusAlive(tree')
<1> DEFINE u == Reaped(tree)
<1>1. /\ Keeps(tree, u)
      /\ FocusAlive(tree) /\ (\A e \in Hanging(tree) : e.owner \in u.alive)
         => FocusAlive(u)
  BY ReapedKeeps DEF Inv
<1>2. Typed(u) /\ Coherent(u) /\ Aligned(u) /\ ~u.reap
  BY <1>1, ReapedKeeps DEF Keeps, Inv
<1> HIDE DEF u
<1>3. tree' = [u EXCEPT !.animating = FALSE]
  BY DEF Frame, Animate, u
<1>4. Gentle(u, tree')
  BY <1>2, <1>3, ClockGentle
<1>5. Types'
  BY DEF Frame, Types
<1> QED
  BY <1>1, <1>2, <1>4, <1>5, GentleKeeps DEF Gentle, Keeps

LEMMA UpdateSound ==
  ASSUME Inv, Types, Update
  PROVE  /\ Typed(tree') /\ Coherent(tree') /\ Aligned(tree') /\ Types'
         /\ FocusAlive(tree) /\ (\A e \in Hanging(tree) : e.owner \in tree'.alive)
            => FocusAlive(tree')
<1>1. PICK o \in Calls(tree) :
        tree' = o.tree /\ mail' = mail - 1 + o.mail /\ made' = made \cup o.tree.alive
  BY DEF Update, Called
<1>2. Typed(tree') /\ Coherent(tree') /\ Aligned(tree') /\ o.mail \in Nat
  BY <1>1, CallSound
<1>3. tree'.alive \subseteq Widgets
  BY <1>2 DEF Typed, Trees
<1>4. mail' \in Nat /\ made' \subseteq Widgets /\ UNCHANGED <<phase, todo>>
  BY <1>1, <1>2, <1>3 DEF Types, Update
<1> QED
  BY <1>1, <1>2, <1>4, CallSound DEF Types

LEMMA StepKeeps ==
  ASSUME Inv, Types, [Next]_vars
  PROVE  /\ Inv' /\ Types'
         /\ FocusAlive(tree) /\ (\A e \in Hanging(tree) : e.owner \in tree'.alive)
            => FocusAlive(tree')
<1>1. CASE Hears
  BY <1>1, HearsSound DEF Inv
<1>2. CASE Frame
  BY <1>2, FrameSound DEF Inv
<1>3. CASE Update
  BY <1>3, UpdateSound DEF Inv
<1>4. CASE Cancel
  BY <1>4 DEF Cancel, Inv, Types, Phases
<1>5. CASE Timer
  BY <1>5 DEF Timer, Inv, Types
<1>6. CASE UNCHANGED vars
  BY <1>6 DEF vars, Inv, Types
<1> QED
  BY <1>1, <1>2, <1>3, <1>4, <1>5, <1>6 DEF Next, Hears

LEMMA Invariance == Spec => [](Inv /\ Types)
<1>1. Init => Inv /\ Types
  BY InitHolds
<1>2. (Inv /\ Types) /\ [Next]_vars => (Inv /\ Types)'
  BY StepKeeps
<1> QED
  BY <1>1, <1>2, PTL DEF Spec

\* Every field of the tree and every variable of the runner keeps its type.
THEOREM TypeCorrect == Spec => []TypeOK
<1>1. Inv /\ Types => TypeOK
  BY DEF Inv, Types, Typed, TypeOK
<1> QED
  BY <1>1, Invariance, PTL

\* A button drawn pressed is the live widget that holds the pointer, whatever
\* the application removes, opens or pushes between press and release.
THEOREM PressHeld == Spec => []PressIsCaptured
<1>1. Inv => PressIsCaptured
  BY DEF Inv, Coherent, PressIsCaptured
<1> QED
  BY <1>1, Invariance, PTL

\* Pushes, pops, back keys and slides in any order: the Navigator's top, the
\* remembered focuses and the screens in the tree stay in step.
THEOREM ScreensInStep == Spec => []ScreensAligned
<1>1. Inv => ScreensAligned
  <2> SUFFICES ASSUME Inv PROVE ScreensAligned
    OBVIOUS
  <2>1. CASE tree.top = 0 /\ ~tree.reap
    BY <2>1, FS_EmptySet DEF Inv, Aligned, ScreensAligned
  <2>2. CASE tree.top = 1 \/ tree.reap
    <3>1. PICK s \in Screens : Pushed(tree) = {s}
      BY <2>2 DEF Inv, Aligned
    <3>2. Cardinality(Pushed(tree)) = 1
      BY <3>1, FS_Singleton
    <3> QED
      BY <2>2, <3>2 DEF Inv, Aligned, ScreensAligned
  <2> QED
    BY <2>1, <2>2 DEF Inv, Aligned
<1> QED
  BY <1>1, Invariance, PTL

\* A release of the left button ends the press, also under an open popup.
THEOREM PressEnds == Spec => ReleaseEndsPress
<1>1. Inv /\ Types /\ [Next]_vars =>
        [tree.capture # None /\ Up => tree'.capture = None /\ tree'.pressed = {}]_vars
  <2> SUFFICES ASSUME Inv, tree.capture # None, Up
               PROVE  tree'.capture = None /\ tree'.pressed = {}
    OBVIOUS
  <2>1. PICK o \in Pointer("up") : tree' = o.tree
    BY DEF Up, Dispatch
  <2> QED
    BY <2>1, PointerSound
<1> QED
  BY <1>1, Invariance, PTL DEF Spec, ReleaseEndsPress

\* No step leaves the focus on a widget that is gone, but for a removal under
\* a popup whose entry hangs.
THEOREM FocusHeld == Spec => FocusStaysAlive
<1>1. Inv /\ Types /\ [Next]_vars =>
        [ /\ tree.focus \in Maybe(tree.alive)
          /\ \A e \in Dangling : e.owner \in tree'.alive
          => tree'.focus \in Maybe(tree'.alive) ]_vars
  BY StepKeeps DEF Hanging, Dangling, FocusAlive
<1> QED
  BY <1>1, Invariance, PTL DEF Spec, FocusStaysAlive

-----------------------------------------------------------------------------
(***************************************************************************)
(* The stack of popups, under every step: a widget that shows its overlay  *)
(* is on the stack, once, and alive, and the stack has no holes. It takes  *)
(* that the ancestors of a live widget are alive: a menu opens around the  *)
(* widget that was pressed. With it, what a user can get at: a dialog and  *)
(* a pushed screen keep what they cover out of reach of the focus, the     *)
(* pointer and the popups.                                                 *)
(***************************************************************************)

OwnersOf(P) == {e.owner : e \in P}
OneEach(P) == \A e, f \in P : e.owner = f.owner \/ e.at = f.at => e = f
Stack(P) == OneEach(P) /\ {e.at : e \in P} = 1..Cardinality(P)

\* What everything an application makes hangs from.
Grounds == UNION {Path[w] \ {w} : w \in Screens \cup {Modal}}

Grown(A) == Grounds \subseteq A /\ \A w \in A : Path[w] \subseteq A

Listed(t) ==
  /\ Stack(t.popups)
  /\ t.open \subseteq Owners(t) /\ Owners(t) \subseteq t.alive
  /\ Grown(t.alive)

Alike(t, u) == u.popups = t.popups /\ u.open = t.open /\ u.alive = t.alive

LEMMA AlikeListed ==
  ASSUME NEW t, NEW u, Alike(t, u), Listed(t)
  PROVE  Listed(u)
BY DEF Alike, Listed, Owners

-----------------------------------------------------------------------------
(* The stack.                                                              *)

\* The popups that stay take the places from the bottom up, in their order.
LEMMA RestackedStack ==
  ASSUME NEW P \in SUBSET Popups, IsFiniteSet(P), OneEach(P)
  PROVE  Stack(Restacked(P)) /\ OwnersOf(Restacked(P)) = OwnersOf(P)
<1> DEFINE below(e) == {f \in P : f.at <= e.at}
           rank(e) == Cardinality(below(e))
           n == Cardinality(P)
           moved(e) == [e EXCEPT !.at = rank(e)]
<1>1. n \in Nat
  BY FS_CardinalityType
<1>2. \A e \in P : e.at \in Nat /\ e \in below(e) /\ below(e) \in SUBSET P
  BY DEF Popups
<1>3. ASSUME NEW e \in P
      PROVE  rank(e) \in 1..n
  <2>1. IsFiniteSet(below(e)) /\ rank(e) <= n
    BY FS_Subset
  <2>2. rank(e) \in Nat /\ rank(e) # 0
    BY <1>2, <2>1, FS_CardinalityType, FS_EmptySet
  <2> QED
    BY <1>1, <2>1, <2>2
<1>4. ASSUME NEW e \in P, NEW f \in P, e.at < f.at
      PROVE  rank(e) # rank(f)
  <2>1. below(e) \in SUBSET below(f)
    BY <1>2, <1>4
  <2>2. f \in below(f) /\ f \notin below(e)
    BY <1>2, <1>4
  <2>3. IsFiniteSet(below(f))
    BY FS_Subset
  <2> QED
    BY <2>1, <2>2, <2>3, FS_Subset
<1>5. \A e, f \in P : rank(e) = rank(f) => e = f
  <2> SUFFICES ASSUME NEW e \in P, NEW f \in P, rank(e) = rank(f)
               PROVE  e.at = f.at
    BY DEF OneEach
  <2> QED
    BY <1>2, <1>4
<1> HIDE DEF rank
<1>6. /\ Restacked(P) = {moved(e) : e \in P}
      /\ \A e \in P : moved(e).owner = e.owner /\ moved(e).at = rank(e)
  BY DEF Restacked, Popups, rank
<1> HIDE DEF moved, n, below
<1>7. OwnersOf(Restacked(P)) = OwnersOf(P)
  BY <1>6 DEF OwnersOf
<1>8. OneEach(Restacked(P))
  BY <1>5, <1>6 DEF OneEach
<1>9. Cardinality(Restacked(P)) = n
  <2> DEFINE g == [e \in P |-> moved(e)]
  <2>1. g \in Bijection(P, Restacked(P))
    <3>1. g \in [P -> Restacked(P)] /\ \A e \in P : g[e] = moved(e)
      BY <1>6
    <3> HIDE DEF g
    <3>2. \A e, f \in P : g[e] = g[f] => e = f
      BY <1>5, <1>6, <3>1
    <3>3. \A x \in Restacked(P) : \E e \in P : g[e] = x
      BY <1>6, <3>1
    <3> QED
      BY <3>1, <3>2, <3>3 DEF Bijection, Injection, IsInjective, Surjection
  <2>2. ExistsBijection(P, Restacked(P))
    BY <2>1 DEF ExistsBijection
  <2> QED
    BY <2>2, FS_Bijection DEF n
<1>10. {rank(e) : e \in P} = 1..n
  <2> DEFINE r == [e \in P |-> rank(e)]
  <2>1. r \in Injection(P, 1..n)
    <3>1. r \in [P -> 1..n] /\ \A e \in P : r[e] = rank(e)
      BY <1>3
    <3> HIDE DEF r
    <3> QED
      BY <1>5, <3>1 DEF Injection, IsInjective
  <2>2. IsFiniteSet(1..n) /\ Cardinality(1..n) = n
    <3>1. 1 \in Int /\ n \in Int /\ (1 > n => n = 0) /\ n - 1 + 1 = n
      BY <1>1
    <3> QED
      BY <3>1, FS_Interval
  <2>3. r \in Surjection(P, 1..n)
    <3> HIDE DEF r
    <3> QED
      BY <2>1, <2>2, FS_Injection DEF n
  <2> QED
    BY <2>3 DEF Surjection
<1>11. {e.at : e \in Restacked(P)} = {rank(e) : e \in P}
  BY <1>6
<1> QED
  BY <1>7, <1>8, <1>9, <1>10, <1>11 DEF Stack

\* Closing popups leaves the others on the stack.
LEMMA DropStack ==
  ASSUME NEW t, Typed(t), Stack(t.popups), NEW gone \in SUBSET t.popups,
         NEW live \in SUBSET Widgets
  PROVE  LET u == Drop(t, gone, live)
         IN  /\ Stack(u.popups) /\ Owners(u) = OwnersOf(t.popups \ gone)
             /\ u.open = t.open /\ u.alive = t.alive /\ Typed(u)
<1> DEFINE P == t.popups \ gone
           u == Drop(t, gone, live)
<1>1. P \in SUBSET Popups /\ IsFiniteSet(P) /\ OneEach(P)
  BY FS_Subset DEF Typed, Trees, Stack, OneEach
<1>2. u.popups = Restacked(P)
  BY DEF Drop, Typed, Trees
<1>3. u.open = t.open /\ u.alive = t.alive /\ Typed(u)
  BY DropGentle
<1> HIDE DEF P, u
<1>4. Stack(u.popups) /\ OwnersOf(u.popups) = OwnersOf(P)
  BY <1>1, <1>2, RestackedStack
<1> QED
  BY <1>3, <1>4 DEF Owners, OwnersOf, P, u

\* Who is left when the popups of some owners are closed.
LEMMA OwnersLeft ==
  ASSUME NEW P, OneEach(P), NEW S
  PROVE  OwnersOf(P \ {e \in P : e.owner \in S}) = OwnersOf(P) \ S
BY DEF OwnersOf, OneEach

\* Closing the popups of some owners, and with them their overlays.
LEMMA DropListed ==
  ASSUME NEW t, Typed(t), Listed(t), NEW gone \in SUBSET t.popups, NEW u,
         u.popups = Drop(t, gone, t.alive).popups, u.alive = t.alive,
         u.open \subseteq t.open \ OwnersOf(gone)
  PROVE  Listed(u)
<1> DEFINE d == Drop(t, gone, t.alive)
<1>1. Stack(d.popups) /\ Owners(d) = OwnersOf(t.popups \ gone)
  <2>1. t.alive \in SUBSET Widgets
    BY DEF Typed, Trees
  <2> QED
    BY <2>1, DropStack DEF Listed
<1> HIDE DEF d
<1>2. Owners(u) = OwnersOf(t.popups \ gone)
  BY <1>1 DEF Owners, d
<1>3. Owners(t) = OwnersOf(t.popups)
  BY DEF Owners, OwnersOf
<1>4. u.open \subseteq Owners(u) /\ Owners(u) \subseteq t.alive
  BY <1>2, <1>3 DEF Listed, OwnersOf
<1> QED
  BY <1>1, <1>4 DEF Listed, d

LEMMA PruneListed ==
  ASSUME NEW t, Typed(t), Listed(t)
  PROVE  Listed(Prune(t)) /\ Prune(t).alive = t.alive
<1>1. Prune(t).open = t.open /\ Prune(t).alive = t.alive
  BY PruneGentle, DropAlive DEF Prune, Stale, Gentle
<1>2. t.open \subseteq t.open \ OwnersOf(Stale(t))
  BY DEF Stale, OwnersOf, Listed
<1> QED
  BY <1>1, <1>2, DropListed DEF Prune, Stale

LEMMA DismissListed ==
  ASSUME NEW t, Typed(t), Listed(t), NEW level
  PROVE  Listed(Dismiss(t, level))
<1> DEFINE gone == {e \in t.popups : e.at >= level}
           d == Drop(t, gone, t.alive)
           S == d.open \ {e.owner : e \in gone}
<1>1. d.open = t.open /\ Typed(d) /\ d.alive = t.alive
  BY DropAlive DEF Gentle
<1>2. Dismiss(t, level) = [d EXCEPT !.open = S]
  BY <1>1 DEF Dismiss, Typed, Trees
<1>3. S \subseteq t.open \ OwnersOf(gone)
  BY <1>1 DEF OwnersOf
<1> HIDE DEF S, d
<1>4. /\ Dismiss(t, level).popups = d.popups /\ Dismiss(t, level).open = S
      /\ Dismiss(t, level).alive = t.alive
  BY <1>1, <1>2 DEF Typed, Trees
<1> HIDE DEF gone
<1>5. gone \in SUBSET t.popups
  BY DEF gone
<1> QED
  BY <1>3, <1>4, <1>5, DropListed DEF d

LEMMA ClosedListed ==
  ASSUME NEW t, Typed(t), Listed(t), NEW w
  PROVE  Listed(Closed(t, w))
<1> DEFINE gone == {e \in t.popups : e.owner = w}
           d == Drop(t, gone, t.alive)
           S == d.open \ {w}
<1>1. d.open = t.open /\ Typed(d) /\ d.alive = t.alive
  BY DropAlive DEF Gentle
<1>2. Closed(t, w) = [d EXCEPT !.open = S]
  BY <1>1 DEF Closed, ClosePopup, Typed, Trees
<1>3. S \subseteq t.open \ OwnersOf(gone)
  BY <1>1 DEF OwnersOf
<1> HIDE DEF S, d
<1>4. /\ Closed(t, w).popups = d.popups /\ Closed(t, w).open = S
      /\ Closed(t, w).alive = t.alive
  BY <1>1, <1>2 DEF Typed, Trees
<1> QED
  BY <1>3, <1>4, DropListed DEF d

\* A live widget that opens is put on top, unless it is on the stack.
LEMMA OpenedListed ==
  ASSUME NEW t, Typed(t), Listed(t), NEW w \in t.alive
  PROVE  Listed(Opened(t, w)) /\ Opened(t, w).alive = t.alive
<1> DEFINE grab == Kind[w] # "select"
           u == OpenPopup(t, w, grab)
           S == u.open \cup {w}
<1>1. u.open = t.open /\ u.alive = t.alive /\ Typed(u)
  BY OpenPopupGentle DEF Gentle
<1>2. Opened(t, w) = [u EXCEPT !.open = S]
  BY <1>1 DEF Opened, Typed, Trees
<1>3. Stack(u.popups) /\ Owners(u) = Owners(t) \cup {w}
  <2>1. CASE w \in Owners(t)
    BY <2>1 DEF OpenPopup, Listed
  <2>2. CASE w \notin Owners(t)
    <3> DEFINE n == Cardinality(t.popups)
               e == [owner |-> w, grab |-> grab, prev |-> t.focus, at |-> n + 1]
    <3>1. u.popups = t.popups \cup {e}
      BY <2>2 DEF OpenPopup, Typed, Trees
    <3>2. n \in Nat /\ IsFiniteSet(t.popups)
      BY FS_CardinalityType DEF Typed
    <3>3. e.owner = w /\ e.at = n + 1
      OBVIOUS
    <3>4. Cardinality(t.popups \cup {e}) = n + 1
      <4>1. e \notin t.popups
        BY <2>2, <3>3 DEF Owners
      <4> HIDE DEF e
      <4> QED
        BY <3>2, <4>1, FS_AddElement
    <3> HIDE DEF e, u
    <3>5. \A f \in t.popups : f.at \in 1..n /\ f.owner # w
      BY <2>2 DEF Listed, Stack, Owners
    <3>6. OneEach(u.popups)
      BY <3>1, <3>2, <3>3, <3>5 DEF Listed, Stack, OneEach
    <3>7. {f.at : f \in u.popups} = 1..n \cup {n + 1}
      BY <3>1, <3>3 DEF Listed, Stack
    <3>8. 1..n \cup {n + 1} = 1..(n + 1)
      BY <3>2
    <3>9. Owners(u) = Owners(t) \cup {w}
      BY <3>1, <3>3 DEF Owners
    <3> QED
      BY <3>1, <3>4, <3>6, <3>7, <3>8, <3>9 DEF Stack
  <2> QED
    BY <2>1, <2>2
<1> HIDE DEF u, S
<1>4. /\ Opened(t, w).popups = u.popups /\ Opened(t, w).open = S
      /\ Opened(t, w).alive = t.alive
  BY <1>1, <1>2 DEF Typed, Trees
<1> QED
  BY <1>1, <1>3, <1>4 DEF Listed, Owners, S

-----------------------------------------------------------------------------
(* What lives.                                                             *)

Taken == Removable \cup Screens \cup {Modal}

\* Nothing is taken away that others are to hang from.
LEMMA GroundsStay ==
  ASSUME NEW w \in Taken
  PROVE  Grounds \cap Subtree(w) = {}
<1> SUFFICES ASSUME NEW s \in Screens \cup {Modal}, NEW v \in Path[s] \ {s}, w \in Path[v],
                    v \in Widgets
             PROVE  FALSE
  BY DEF Grounds, Subtree
<1>1. /\ s \in Widgets /\ w \in Widgets /\ s \in Path[s]
  BY TreeAssumption, PathAssumption DEF Taken
<1>2. w \in Path[s]
  BY <1>1, AncestorAssumption
<1>3. w # s
  BY <1>1, AncestorAssumption
<1>4. CASE s \in Screens
  <2>1. w \in Screens
    BY <1>2, <1>4, PathAssumption DEF Taken
  <2> QED
    BY <1>2, <1>3, <1>4, <2>1, PathAssumption
<1>5. CASE s = Modal
  BY <1>2, <1>3, <1>5, AncestorAssumption DEF Taken
<1> QED
  BY <1>4, <1>5

LEMMA GrownAfterRemoval ==
  ASSUME NEW A \in SUBSET Widgets, Grown(A), NEW w \in Taken
  PROVE  Grown(A \ Subtree(w))
<1>1. Grounds \subseteq A \ Subtree(w)
  BY GroundsStay DEF Grown
<1>2. ASSUME NEW v \in A \ Subtree(w)
      PROVE  Path[v] \subseteq A \ Subtree(w)
  BY <1>2, AncestorAssumption DEF Grown, Subtree
<1> QED
  BY <1>1, <1>2 DEF Grown

LEMMA GrownAfterBuild ==
  ASSUME NEW A \in SUBSET Widgets, Grown(A), NEW s \in Screens \cup {Modal}
  PROVE  Grown(A \cup Subtree(s))
<1> SUFFICES ASSUME NEW w \in Widgets, s \in Path[w], NEW v \in Path[w]
             PROVE  v \in A \cup Subtree(s)
  BY DEF Grown, Subtree
<1>1. v \in Widgets /\ s \in Widgets /\ v \in Path[v] /\ s \in Path[s]
  BY PathAssumption, TreeAssumption
<1> DEFINE S == {v, s}
<1>2. \E x \in S : \A u \in S : u \in Path[x]
  <2>1. S \in SUBSET Path[w] /\ S # {}
    OBVIOUS
  <2>2. \A T \in SUBSET Path[w] : T # {} => \E x \in T : \A u \in T : u \in Path[x]
    BY PathAssumption
  <2> HIDE DEF S
  <2> QED
    BY <2>1, <2>2
<1>3. CASE s \in Path[v]
  BY <1>1, <1>3 DEF Subtree
<1>4. CASE v \in Path[s]
  BY <1>1, <1>3, <1>4 DEF Grown, Grounds
<1> QED
  BY <1>2, <1>3, <1>4

LEMMA RemoveListed ==
  ASSUME NEW t, Typed(t), Listed(t), NEW w \in Taken
  PROVE  Listed(Remove(t, w))
<1>1. CASE w \notin t.alive
  BY <1>1 DEF Remove
<1>2. CASE w \in t.alive
  <2> DEFINE ids == Subtree(w) \cap t.alive
             gone == {e \in t.popups : e.owner \in ids}
             live == Widgets \ ids
             d == Drop(t, gone, live)
             r == Remove(t, w)
  <2>1. /\ Stack(d.popups) /\ Owners(d) = OwnersOf(t.popups \ gone)
        /\ d.open = t.open /\ d.alive = t.alive /\ Typed(d)
    BY DropStack DEF Listed
  <2>2. OwnersOf(t.popups \ gone) = Owners(t) \ ids
    <3> HIDE DEF ids
    <3> QED
      BY OwnersLeft DEF Listed, Stack, Owners, OwnersOf
  <2>3. /\ r.popups = d.popups /\ r.open = d.open \ ids
        /\ r.alive = t.alive \ ids
    <3>1. r = [d EXCEPT !.alive = d.alive \ ids, !.open = d.open \ ids,
                        !.pressed = d.pressed \ ids,
                        !.focus = IF d.focus \in ids THEN None ELSE d.focus,
                        !.capture = IF d.capture \in ids THEN None ELSE d.capture]
      BY <1>2, <2>1 DEF Remove, Typed, Trees
    <3> HIDE DEF d, ids, r
    <3> QED
      BY <2>1, <3>1 DEF Typed, Trees
  <2> HIDE DEF d
  <2>4. t.alive \ ids = t.alive \ Subtree(w) /\ t.alive \in SUBSET Widgets
    BY DEF Typed, Trees
  <2>5. Grown(r.alive)
    BY <2>3, <2>4, GrownAfterRemoval DEF Listed
  <2> HIDE DEF r, ids, gone
  <2>6. Owners(r) = Owners(t) \ ids
    BY <2>1, <2>2, <2>3 DEF Owners
  <2> QED
    BY <2>1, <2>3, <2>5, <2>6 DEF Listed, r
<1> QED
  BY <1>1, <1>2

LEMMA BuildListed ==
  ASSUME NEW t, Typed(t), Listed(t), NEW s \in Screens \cup {Modal}
  PROVE  Listed(Build(t, s))
<1> DEFINE A == t.alive \cup Subtree(s)
           u == Build(t, s)
<1>1. u.alive = A /\ u.popups = t.popups /\ u.open = t.open
  BY DEF Build, Typed, Trees
<1>2. Grown(A)
  BY GrownAfterBuild DEF Listed, Typed, Trees
<1> HIDE DEF A, u
<1>3. t.alive \subseteq u.alive
  BY <1>1 DEF A
<1>4. Listed(u)
  BY <1>1, <1>2, <1>3 DEF Listed, Owners
<1> QED
  BY <1>4 DEF u

LEMMA ReapedListed ==
  ASSUME NEW t, Typed(t), Listed(t)
  PROVE  Listed(Reaped(t))
<1> DEFINE u == [t EXCEPT !.reap = FALSE]
           s == CHOOSE s \in Retired(t) : TRUE
<1>1. Typed(u) /\ Alike(t, u)
  BY DEF Typed, Trees, Alike
<1>2. Reaped(t) = IF Retired(t) = {} THEN u ELSE Remove(u, s)
  BY DEF Reaped
<1>3. Retired(t) # {} => s \in Taken
  BY DEF Retired, Pushed, Taken
<1> HIDE DEF u, s
<1> QED
  BY <1>1, <1>2, <1>3, AlikeListed, RemoveListed

-----------------------------------------------------------------------------
(* The focus, the pointer and the clock are no business of the stack.      *)

LEMMA ClockAlike ==
  ASSUME NEW t, Typed(t), NEW b
  PROVE  Alike(t, [t EXCEPT !.animating = b])
BY DEF Alike, Typed, Trees

LEMMA SetFocusAlike ==
  ASSUME NEW t, Typed(t), NEW w
  PROVE  Alike(t, SetFocus(t, w))
BY DEF Alike, SetFocus, Typed, Trees

LEMMA FocusFirstAlike ==
  ASSUME NEW t, Typed(t), NEW w
  PROVE  Alike(t, FocusFirst(t, w))
BY SetFocusAlike DEF FocusFirst, Alike

LEMMA NotePopAlike ==
  ASSUME NEW t, Typed(t), NEW w
  PROVE  Alike(t, SetFocus(NotePop(t), w))
BY DEF Alike, SetFocus, NotePop, Typed, Trees

LEMMA PopAlike ==
  ASSUME NEW t, Typed(t)
  PROVE  Alike(t, Pop(t))
BY ClockAlike, NotePopAlike DEF Pop, Focus

LEMMA BackAlike ==
  ASSUME NEW t, Typed(t)
  PROVE  Alike(t, Back(t))
BY NotePopAlike DEF Back

LEMMA PushListed ==
  ASSUME NEW t, Typed(t), Listed(t), NEW s \in Screens
  PROVE  Listed(Push(t, s))
<1> DEFINE v == [Reaped(t) EXCEPT !.animating = TRUE]
           x == Build(v, s)
           y == [x EXCEPT !.saved = Append(@, v.focus), !.top = @ + 1, !.focus = None]
<1>1. Typed(Reaped(t)) /\ Listed(Reaped(t))
  BY ReapedKeeps, ReapedListed DEF Keeps
<1>2. Typed(v) /\ Listed(v)
  <2>1. Typed(v)
    BY <1>1 DEF Typed, Trees
  <2> QED
    BY <1>1, <2>1, ClockAlike, AlikeListed
<1>3. Push(t, s) = y
  BY DEF Push, PushUnsettled, Settle
<1> HIDE DEF v
<1>4. Typed(x) /\ Listed(x)
  BY <1>2, BuildKeeps, BuildListed DEF Keeps
<1> HIDE DEF x
<1>5. Alike(x, y)
  BY <1>4 DEF Alike, Typed, Trees
<1> QED
  BY <1>3, <1>4, <1>5, AlikeListed

-----------------------------------------------------------------------------
(* What the widgets do with an event.                                      *)

LEMMA PressListed ==
  ASSUME NEW t, Typed(t), Listed(t), NEW w \in t.alive, NEW o \in Press(t, w)
  PROVE  Listed(o.tree)
<1>1. CASE Kind[w] = "button"
  <2>1. Alike(t, PressButton(t, w))
    BY DEF Alike, PressButton, Typed, Trees
  <2>2. o.tree = PressButton(t, w)
    BY <1>1 DEF Press, Out
  <2> QED
    BY <2>1, <2>2, AlikeListed
<1>2. CASE Kind[w] = "select" /\ w \notin t.open
  <2>1. o.tree = SetFocus(Opened(t, w), w)
    BY <1>2 DEF Press, Out
  <2>2. Typed(Opened(t, w)) /\ Listed(Opened(t, w))
    BY OpenedGentle, OpenedListed DEF Gentle, Typed, Trees
  <2> QED
    BY <2>1, <2>2, SetFocusAlike, AlikeListed
<1>3. CASE Kind[w] # "button" /\ ~(Kind[w] = "select" /\ w \notin t.open)
  BY <1>3 DEF Press, Out
<1> QED
  BY <1>1, <1>2, <1>3

LEMMA ReleaseListed ==
  ASSUME NEW t, Typed(t), Listed(t), NEW w, NEW o \in Release(t, w)
  PROVE  Listed(o.tree)
<1>1. Alike(t, ReleaseButton(t, w))
  BY DEF Alike, ReleaseButton, Typed, Trees
<1>2. o.tree \in {t, ReleaseButton(t, w)}
  BY DEF Release, Out
<1> QED
  BY <1>1, <1>2, AlikeListed

\* The menu that opens is an ancestor of a live widget.
LEMMA SummonListed ==
  ASSUME NEW t, Typed(t), Listed(t), NEW w \in t.alive, NEW o \in Summon(t, w)
  PROVE  Listed(o.tree)
<1> DEFINE hears == {v \in Path[w] : \/ Kind[v] = "context" /\ v \notin t.open
                                     \/ Kind[v] = "dialog"}
           first == CHOOSE v \in hears : \A u \in hears : u \in Path[v]
<1>1. \/ o.tree = t
      \/ hears # {} /\ o.tree = Opened(t, first)
  BY DEF Summon, Out
<1>2. ASSUME hears # {}
      PROVE  first \in t.alive
  <2>1. hears \in SUBSET Path[w] /\ w \in Widgets /\ Path[w] \subseteq t.alive
    BY DEF Listed, Grown, Typed, Trees
  <2> HIDE DEF hears
  <2> QED
    BY <1>2, <2>1, ClosestHears
<1> HIDE DEF first, hears
<1> QED
  BY <1>1, <1>2, OpenedListed

LEMMA InOverlayListed ==
  ASSUME NEW t, Typed(t), Listed(t), NEW w, NEW type, NEW o \in InOverlay(t, w, type)
  PROVE  Listed(o.tree)
<1>1. o.tree \in {t, Closed(t, w)}
  BY DEF InOverlay, Out
<1> QED
  BY <1>1, ClosedListed

LEMMA EnterListed ==
  ASSUME NEW t, Typed(t), Listed(t), NEW w \in t.alive, NEW o \in Enter(t, w)
  PROVE  Listed(o.tree)
<1>1. o.tree \in {t, Closed(t, w), Opened(t, w)}
  BY DEF Enter, Out
<1> QED
  BY <1>1, ClosedListed, OpenedListed

LEMMA EscapeListed ==
  ASSUME NEW t, Typed(t), Listed(t), NEW w
  PROVE  Listed(Escape(t, w).tree)
<1>1. \/ Escape(t, w).tree \in {t, Back(t)}
      \/ \E v : Escape(t, w).tree = Closed(t, v)
  BY DEF Escape, Out
<1> QED
  BY <1>1, ClosedListed, BackAlike, AlikeListed

-----------------------------------------------------------------------------
(* Ui::event and App::update.                                              *)

LEMMA ThroughTreeListed ==
  ASSUME NEW t, Typed(t), Coherent(t), Listed(t), NEW type, NEW o \in ThroughTree(t, type)
  PROVE  Listed(o.tree)
<1>1. PICK w \in Targets(t) : o \in Received(t, w, type)
  BY DEF ThroughTree
<1>2. w \in t.alive
  BY TargetsAlive
<1>3. \/ o \in Press(t, w) \/ o \in Release(t, w) \/ o \in Summon(t, w)
      \/ o.tree = t
  BY <1>1 DEF Received, Out
<1> QED
  BY <1>2, <1>3, PressListed, ReleaseListed, SummonListed

LEMMA InPopupListed ==
  ASSUME NEW t, Typed(t), Listed(t), NEW type, NEW o \in InPopup(t, type)
  PROVE  Listed(o.tree)
<1>1. PICK w \in Owners(t) :
        LET above == 1 + (CHOOSE e \in t.popups : e.owner = w).at
            lost == IF IsPress(type) THEN Notices(t, above) ELSE 0
            u == IF IsPress(type) THEN Dismiss(t, above) ELSE t
        IN o \in {Out(p.tree, p.mail + lost) : p \in InOverlay(u, w, type)}
  BY DEF InPopup
<1> DEFINE above == 1 + (CHOOSE e \in t.popups : e.owner = w).at
           u == IF IsPress(type) THEN Dismiss(t, above) ELSE t
<1>2. PICK p \in InOverlay(u, w, type) : o.tree = p.tree
  BY <1>1 DEF Out
<1>3. Typed(u) /\ Listed(u)
  BY DismissGentle, DismissListed DEF Gentle
<1> HIDE DEF u
<1> QED
  BY <1>2, <1>3, InOverlayListed

LEMMA PointerListed ==
  ASSUME Inv, Listed(tree), NEW type, NEW o \in Pointer(type)
  PROVE  Listed(o.tree)
<1> DEFINE t == Prune(tree)
<1>1. Typed(t) /\ Coherent(t) /\ Listed(t)
  BY PruneGentle, PruneListed, GentleKeeps DEF Inv, Keeps
<1>2. o \in ThroughTree(t, type) \/ o \in InPopup(t, type) \/ o \in ClickAway(t)
  BY DEF Pointer
<1> HIDE DEF t
<1>3. o \in ClickAway(t) => o.tree = Dismiss(t, 1)
  BY DEF ClickAway, Out
<1> QED
  BY <1>1, <1>2, <1>3, ThroughTreeListed, InPopupListed, DismissListed

LEMMA KeyListed ==
  ASSUME Inv, Listed(tree), NEW key, NEW o \in Key(tree, key)
  PROVE  Listed(o.tree)
<1> DEFINE u == Prune(tree)
<1>1. Typed(u) /\ Listed(u)
  BY PruneGentle, PruneListed DEF Inv, Gentle
<1>2. \/ o.tree = u
      \/ u.focus \in u.alive /\ (o \in Enter(u, u.focus) \/ o = Escape(u, u.focus))
  BY DEF Key, Out
<1> HIDE DEF u
<1> QED
  BY <1>1, <1>2, EnterListed, EscapeListed

LEMMA TabListed ==
  ASSUME Inv, Listed(tree), NEW o \in Tab(tree)
  PROVE  Listed(o.tree)
<1>1. PICK w : o.tree = SetFocus(tree, w)
  BY DEF Tab, Out
<1> QED
  BY <1>1, SetFocusAlike, AlikeListed DEF Inv

LEMMA CallListed ==
  ASSUME Inv, Listed(tree), NEW o \in Calls(tree)
  PROVE  Listed(o.tree)
<1> USE DEF Inv
<1> DEFINE Shut(w) == [With(tree) EXCEPT !.open = @ \ {w}]
           good == Listed(o.tree)
<1>1. Typed(With(tree)) /\ Alike(tree, With(tree))
  BY DEF With, Alike, Typed, Trees
<1>2. ASSUME NEW s \in Screens, o.tree \in {Push(tree, s), FocusFirst(Push(tree, s), s)}
      PROVE  good
  <2> DEFINE u == Push(tree, s)
  <2>1. Typed(u) /\ Listed(u)
    BY PushKeeps, PushListed DEF Keeps
  <2> HIDE DEF u
  <2>2. o.tree = u \/ o.tree = FocusFirst(u, s)
    BY <1>2 DEF u
  <2> QED
    BY <2>1, <2>2, FocusFirstAlike, AlikeListed
<1>3. ASSUME o.tree = FocusFirst(Build(tree, Modal), Modal)
      PROVE  good
  <2> DEFINE u == Build(tree, Modal)
  <2>1. Typed(u) /\ Listed(u)
    BY BuildKeeps, BuildListed DEF Keeps
  <2> HIDE DEF u
  <2> QED
    BY <1>3, <2>1, FocusFirstAlike, AlikeListed DEF u
<1>4. ASSUME NEW w \in tree.alive, o.tree = Opened(With(tree), w)
      PROVE  good
  BY <1>1, <1>4, AlikeListed, OpenedListed DEF Alike
<1>5. ASSUME NEW w, o.tree = Shut(w)
      PROVE  good
  <2>1. /\ o.tree.popups = tree.popups /\ o.tree.alive = tree.alive
        /\ o.tree.open \subseteq tree.open
    BY <1>1, <1>5 DEF Alike, Typed, Trees
  <2> QED
    BY <2>1 DEF Listed, Owners
<1>6. ASSUME NEW w, o.tree \in {tree, Pop(tree), Focus(tree, w)}
      PROVE  good
  BY <1>6, PopAlike, SetFocusAlike, AlikeListed DEF Focus
<1>7. ASSUME NEW w \in Taken, o.tree = Remove(tree, w)
      PROVE  good
  BY <1>7, RemoveListed
<1>8. \/ \E s \in Screens : o.tree \in {Push(tree, s), FocusFirst(Push(tree, s), s)}
      \/ o.tree = FocusFirst(Build(tree, Modal), Modal)
      \/ \E w \in tree.alive : o.tree = Opened(With(tree), w)
      \/ \E w : o.tree = Shut(w)
      \/ \E w : o.tree \in {tree, Pop(tree), Focus(tree, w)}
      \/ \E w \in Taken : o.tree = Remove(tree, w)
      \/ o \in Key(tree, "escape")
  BY DEF Calls, Menus, Taken, Out
<1> HIDE DEF good, Shut
<1>9. good
  BY <1>2, <1>3, <1>4, <1>5, <1>6, <1>7, <1>8, KeyListed DEF good
<1> QED
  BY <1>9 DEF good

LEMMA StepListed ==
  ASSUME Inv, Listed(tree), [Next]_vars
  PROVE  Listed(tree')
<1>1. CASE Down \/ Up \/ Move \/ Right \/ Gesture \/ Poll
  <2>1. \E type : Dispatch(Pointer(type))
    BY <1>1 DEF Down, Up, Move, Right, Gesture, Poll
  <2> QED
    BY <2>1, PointerListed DEF Dispatch
<1>2. CASE Keyboard
  BY <1>2, TabListed, KeyListed DEF Keyboard, Dispatch
<1>3. CASE Frame
  <2>1. Typed(Reaped(tree)) /\ Listed(Reaped(tree))
    BY ReapedKeeps, ReapedListed DEF Inv, Keeps
  <2> QED
    BY <1>3, <2>1, ClockAlike, AlikeListed DEF Frame, Animate
<1>4. CASE Update
  BY <1>4, CallListed DEF Update, Called
<1>5. CASE tree' = tree
  BY <1>5
<1> QED
  BY <1>1, <1>2, <1>3, <1>4, <1>5 DEF Next, Cancel, Timer, vars

\* What the first screen is made of is there, with all it hangs from.
LEMMA InitListed ==
  ASSUME Init
  PROVE  Listed(tree)
<1> DEFINE A == Widgets \ Later
<1>1. tree.popups = {} /\ tree.open = {} /\ tree.alive = A
  BY DEF Init
<1>2. Stack({})
  <2>1. Cardinality({}) = 0
    BY FS_EmptySet
  <2>2. 1..0 = {}
    OBVIOUS
  <2> QED
    BY <2>1, <2>2 DEF Stack, OneEach
<1>3. Grounds \subseteq Widgets
  BY PathAssumption, TreeAssumption DEF Grounds
<1>4. Grounds \cap Later = {}
  BY GroundsStay DEF Later, Taken
<1>5. ASSUME NEW w \in A, NEW v \in Path[w]
      PROVE  v \in A
  BY AncestorAssumption, PathAssumption DEF Later, Subtree
<1> QED
  BY <1>1, <1>2, <1>3, <1>4, <1>5 DEF Listed, Grown, Owners

LEMMA ListedAlways == Spec => []Listed(tree)
<1>1. Init => Listed(tree)
  BY InitListed
<1>2. Inv /\ Types /\ Listed(tree) /\ [Next]_vars => Listed(tree)'
  BY StepListed
<1> QED
  BY <1>1, <1>2, Invariance, PTL DEF Spec

\* A stack has as many owners as entries.
LEMMA OwnersCount ==
  ASSUME NEW P, IsFiniteSet(P), OneEach(P)
  PROVE  Cardinality(OwnersOf(P)) = Cardinality(P)
<1> DEFINE g == [e \in P |-> e.owner]
<1>1. g \in Bijection(P, OwnersOf(P))
  <2>1. g \in [P -> OwnersOf(P)] /\ \A e \in P : g[e] = e.owner
    BY DEF OwnersOf
  <2> HIDE DEF g
  <2>2. \A e, f \in P : g[e] = g[f] => e = f
    BY <2>1 DEF OneEach
  <2>3. \A x \in OwnersOf(P) : \E e \in P : g[e] = x
    BY <2>1 DEF OwnersOf
  <2> QED
    BY <2>1, <2>2, <2>3 DEF Bijection, Injection, IsInjective, Surjection
<1>2. ExistsBijection(P, OwnersOf(P))
  BY <1>1 DEF ExistsBijection
<1> QED
  BY <1>2, FS_Bijection

\* Whatever is pressed, pushed, removed or dismissed, with menus over menus:
\* a widget that shows its overlay is on the stack of popups, once and alive,
\* and the stack has no holes.
THEOREM OverlaysListed == Spec => []OpenIsListed
<1>1. Inv /\ Listed(tree) => OpenIsListed
  BY OwnersCount DEF Inv, Typed, Listed, Stack, OpenIsListed, Owners, OwnersOf
<1> QED
  BY <1>1, ListedAlways, Invariance, PTL

-----------------------------------------------------------------------------
(* What a user can get at. A step that leaves the live widgets and the     *)
(* Navigator's top alone leaves it alone too; everything that holds the    *)
(* focus, the pointer or an overlay is shown to stay in it.                *)

SameReach(t, u) == u.alive = t.alive /\ u.top = t.top

HeldIn(t, R) ==
  /\ t.focus \in Maybe(R) /\ t.capture \in Maybe(R)
  /\ t.pressed \subseteq R /\ t.open \subseteq R
  /\ \A e \in t.popups : e.owner \in R /\ e.prev \in Maybe(R)

Stays(t, u, R) == Typed(u) /\ SameReach(t, u) /\ HeldIn(u, R)

LEMMA ReachSame ==
  ASSUME NEW t, NEW u, SameReach(t, u)
  PROVE  Hittable(u) = Hittable(t)
BY DEF SameReach, Hittable, Reaches, Active, Index, Children

LEMMA DropHeld ==
  ASSUME NEW t, Typed(t), NEW R \in SUBSET Widgets, HeldIn(t, R),
         NEW gone \in SUBSET t.popups, NEW live \in SUBSET Widgets
  PROVE  Stays(t, Drop(t, gone, live), R)
<1> DEFINE u == Drop(t, gone, live)
           P == t.popups \ gone
<1>1. /\ Typed(u) /\ u.pressed = t.pressed /\ u.capture = t.capture /\ u.alive = t.alive
      /\ u.open = t.open /\ u.top = t.top
  BY DropGentle DEF Still
<1>2. u.popups = Restacked(P)
  BY DEF Drop, Typed, Trees
<1>3. ASSUME NEW e \in Restacked(P)
      PROVE  e.owner \in R /\ e.prev \in Maybe(R)
  <2>1. PICK f \in P : e = [f EXCEPT !.at = Cardinality({g \in P : g.at <= f.at})]
    BY <1>3 DEF Restacked
  <2>2. f \in Popups
    BY DEF Typed, Trees
  <2>3. e.owner = f.owner /\ e.prev = f.prev
    BY <2>1, <2>2 DEF Popups
  <2> QED
    BY <2>3 DEF HeldIn
<1>4. u.focus \in Maybe(R)
  <2>1. Returned(t, gone) \in Maybe(R)
    <3>1. CASE Grabs(gone) = {}
      BY <3>1 DEF Returned, HeldIn
    <3>2. CASE Grabs(gone) # {}
      BY <3>2, ReturnedFrom DEF HeldIn, Grabs
    <3> QED
      BY <3>1, <3>2
  <2>2. u.focus \in {Returned(t, gone), None}
    BY DEF Drop, Typed, Trees
  <2> QED
    BY <2>1, <2>2 DEF Maybe
<1> HIDE DEF u, P
<1>5. HeldIn(u, R)
  BY <1>1, <1>2, <1>3, <1>4 DEF HeldIn
<1> QED
  BY <1>1, <1>5 DEF Stays, SameReach, u

LEMMA PruneHeld ==
  ASSUME NEW t, Typed(t), NEW R \in SUBSET Widgets, HeldIn(t, R)
  PROVE  Stays(t, Prune(t), R)
<1>1. Stale(t) \in SUBSET t.popups /\ t.alive \in SUBSET Widgets
  BY DEF Stale, Typed, Trees
<1> QED
  BY <1>1, DropHeld DEF Prune

\* Fewer widgets show their overlay.
LEMMA ShutHeld ==
  ASSUME NEW t, Typed(t), NEW R \in SUBSET Widgets, HeldIn(t, R),
         NEW gone \in SUBSET t.popups, NEW u, u = Drop(t, gone, t.alive), NEW S
  PROVE  Stays(t, [u EXCEPT !.open = u.open \ S], R)
<1> DEFINE v == [u EXCEPT !.open = u.open \ S]
<1>1. t.alive \in SUBSET Widgets
  BY DEF Typed, Trees
<1>2. Stays(t, u, R)
  BY <1>1, DropHeld
<1>3. /\ v.focus = u.focus /\ v.capture = u.capture /\ v.pressed = u.pressed
      /\ v.popups = u.popups /\ v.alive = u.alive /\ v.top = u.top
      /\ v.open = u.open \ S /\ Typed(v)
  BY <1>2 DEF Stays, Typed, Trees
<1> HIDE DEF v
<1>4. Stays(t, v, R)
  BY <1>2, <1>3 DEF Stays, SameReach, HeldIn
<1> QED
  BY <1>4 DEF v

LEMMA DismissHeld ==
  ASSUME NEW t, Typed(t), NEW R \in SUBSET Widgets, HeldIn(t, R), NEW level
  PROVE  Stays(t, Dismiss(t, level), R)
<1> DEFINE gone == {e \in t.popups : e.at >= level}
           S == {e.owner : e \in gone}
<1> DEFINE d == Drop(t, gone, t.alive)
<1>1. gone \in SUBSET t.popups /\ Typed(d)
  BY DropAlive DEF Gentle
<1>2. Dismiss(t, level) = [d EXCEPT !.open = d.open \ S]
  BY <1>1 DEF Dismiss, Typed, Trees
<1> HIDE DEF gone, S
<1>3. Stays(t, [d EXCEPT !.open = d.open \ S], R)
  BY <1>1, ShutHeld
<1> QED
  BY <1>2, <1>3

LEMMA ClosedHeld ==
  ASSUME NEW t, Typed(t), NEW R \in SUBSET Widgets, HeldIn(t, R), NEW w
  PROVE  Stays(t, Closed(t, w), R)
<1> DEFINE gone == {e \in t.popups : e.owner = w}
           S == {w}
<1> DEFINE d == Drop(t, gone, t.alive)
<1>1. gone \in SUBSET t.popups /\ Typed(d)
  BY DropAlive DEF Gentle
<1>2. Closed(t, w) = [d EXCEPT !.open = d.open \ S]
  BY <1>1 DEF Closed, ClosePopup, Typed, Trees
<1> HIDE DEF gone, S
<1>3. Stays(t, [d EXCEPT !.open = d.open \ S], R)
  BY <1>1, ShutHeld
<1> QED
  BY <1>2, <1>3

LEMMA OpenedHeld ==
  ASSUME NEW t, Typed(t), NEW R \in SUBSET Widgets, HeldIn(t, R), NEW w \in R
  PROVE  Stays(t, Opened(t, w), R)
<1> DEFINE grab == Kind[w] # "select"
           e == [owner |-> w, grab |-> grab, prev |-> t.focus,
                 at |-> Cardinality(t.popups) + 1]
           u == OpenPopup(t, w, grab)
           v == Opened(t, w)
<1>1. Typed(u) /\ u.open = t.open /\ u.alive = t.alive /\ u.pressed = t.pressed
      /\ u.capture = t.capture
  BY OpenPopupGentle DEF Gentle
<1>2. /\ u.top = t.top /\ u.popups \in {t.popups, t.popups \cup {e}}
      /\ u.focus \in {t.focus, w}
  BY DEF OpenPopup, Typed, Trees
<1>3. e.owner = w /\ e.prev = t.focus
  OBVIOUS
<1>4. /\ v.focus = u.focus /\ v.capture = u.capture /\ v.pressed = u.pressed
      /\ v.popups = u.popups /\ v.alive = u.alive /\ v.top = u.top
      /\ v.open = u.open \cup {w}
  BY <1>1 DEF Opened, Typed, Trees
<1>5. Typed(v)
  BY OpenedGentle DEF Gentle
<1> HIDE DEF e, u, v
<1>6. HeldIn(v, R)
  BY <1>1, <1>2, <1>3, <1>4 DEF HeldIn, Maybe
<1>7. SameReach(t, v)
  BY <1>1, <1>2, <1>4 DEF SameReach
<1> QED
  BY <1>5, <1>6, <1>7 DEF Stays, v

LEMMA SetFocusHeld ==
  ASSUME NEW t, Typed(t), NEW R \in SUBSET Widgets, HeldIn(t, R), NEW w \in Maybe(R)
  PROVE  Stays(t, SetFocus(t, w), R)
<1> DEFINE v == SetFocus(t, w)
<1>1. /\ v.focus = w /\ v.capture = t.capture /\ v.pressed = t.pressed
      /\ v.popups = t.popups /\ v.alive = t.alive /\ v.top = t.top /\ v.open = t.open
      /\ Typed(v)
  BY DEF SetFocus, Typed, Trees, Maybe
<1> HIDE DEF v
<1> QED
  BY <1>1 DEF Stays, SameReach, HeldIn, v

LEMMA StaysTwice ==
  ASSUME NEW t, NEW u, NEW v, NEW R, Stays(t, u, R), Stays(u, v, R)
  PROVE  Stays(t, v, R)
BY DEF Stays, SameReach

LEMMA StaysSame ==
  ASSUME NEW t, Typed(t), NEW R, HeldIn(t, R)
  PROVE  Stays(t, t, R)
BY DEF Stays, SameReach


\* Of two ancestors of a widget one is above the other.
LEMMA InLine ==
  ASSUME NEW w \in Widgets, NEW u \in Path[w], NEW v \in Path[w]
  PROVE  u \in Path[v] \/ v \in Path[u]
<1> DEFINE S == {u, v}
<1>1. S \in SUBSET Path[w] /\ S # {}
  OBVIOUS
<1>2. \A T \in SUBSET Path[w] : T # {} => \E x \in T : \A y \in T : y \in Path[x]
  BY PathAssumption
<1>3. \E x \in S : \A y \in S : y \in Path[x]
  <2> HIDE DEF S
  <2> QED
    BY <1>1, <1>2
<1> QED
  BY <1>3

\* What lies under a widget on no covered screen, reached from there, is on
\* none.
LEMMA ReachThrough ==
  ASSUME NEW t, NEW s \in Widgets, NEW w \in Widgets, Reaches(t, s, w),
         \A v \in Path[s] : Root \in Path[v] \ {v} => Active(t, v)
  PROVE  Reaches(t, Root, w)
<1>1. w \in t.alive /\ s \in Path[w] /\ Root \in Path[w]
  BY PathAssumption DEF Reaches
<1>2. ASSUME NEW v \in Path[w], Root \in Path[v] \ {v}
      PROVE  Active(t, v)
  <2>1. v \in Widgets /\ (v \in Path[s] \/ s \in Path[v])
    BY <1>1, InLine, PathAssumption
  <2>2. CASE s \in Path[v] /\ v # s
    BY <2>2 DEF Reaches
  <2>3. CASE v \in Path[s]
    BY <1>2, <2>3
  <2>4. s \in Path[s]
    BY PathAssumption
  <2> QED
    BY <2>1, <2>2, <2>3, <2>4
<1> QED
  BY <1>1, <1>2 DEF Reaches

LEMMA HittableWidgets == \A t : Hittable(t) \in SUBSET Widgets
BY DEF Hittable

\* The menu that hears a press is where the user can get at it.
LEMMA MenuReached ==
  ASSUME NEW t, Typed(t), Grown(t.alive), NEW w \in Hittable(t),
         NEW v \in Path[w], Modal \in Path[w] => Modal \in Path[v]
  PROVE  v \in Hittable(t)
<1>1. w \in Widgets /\ w \in t.alive /\ Reaches(t, Root, w)
  BY DEF Hittable, Reaches
<1>2. v \in t.alive /\ v \in Widgets
  BY <1>1 DEF Grown, Typed, Trees
<1>3. Path[v] \subseteq Path[w] /\ Root \in Path[v]
  BY <1>1, <1>2, AncestorAssumption, PathAssumption
<1>4. Reaches(t, Root, v)
  BY <1>1, <1>2, <1>3 DEF Reaches
<1> QED
  BY <1>2, <1>4 DEF Hittable

\* The topmost popup is on the stack.
LEMMA TopmostThere ==
  ASSUME NEW t, Typed(t), t.popups # {}
  PROVE  Topmost(t) \in t.popups
<1> DEFINE f == [e \in t.popups |-> 0 - e.at]
<1>1. \A e \in t.popups : e.at \in Nat
  BY DEF Typed, Trees, Popups
<1>2. f \in [t.popups -> Int]
  BY <1>1
<1>3. \E x \in t.popups : \A y \in t.popups : f[x] <= f[y]
  <2> HIDE DEF f
  <2> QED
    BY <1>2, Least DEF Typed
<1>4. PICK x \in t.popups : \A y \in t.popups : f[x] <= f[y]
  BY <1>3
<1>5. \A y \in t.popups : f[y] = 0 - y.at
  OBVIOUS
<1> HIDE DEF f
<1>6. \A y \in t.popups : y.at <= x.at
  BY <1>1, <1>4, <1>5
<1> QED
  BY <1>6 DEF Topmost

\* Tab moves within what the user can get at: within the topmost popup, or
\* within the dialog that holds the focus, or anywhere when there is none.
LEMMA OrderReached ==
  ASSUME NEW t, Typed(t), HeldIn(t, Hittable(t)), Modal \in t.alive => t.focus # None
  PROVE  TabOrder(t, TabScope(t)) \subseteq Hittable(t)
<1> DEFINE s == TabScope(t)
<1> SUFFICES ASSUME NEW w \in Widgets, Reaches(t, s, w)
             PROVE  w \in Hittable(t)
  BY DEF TabOrder
<1>1. ASSUME NEW h \in Hittable(t), NEW v \in Path[h], v = s, Modal \in t.alive => Modal \in Path[v]
      PROVE  w \in Hittable(t)
  <2>1. h \in Widgets /\ Reaches(t, Root, h)
    BY DEF Hittable
  <2>2. v \in Widgets /\ Path[v] \subseteq Path[h]
    BY <2>1, PathAssumption, AncestorAssumption
  <2>3. \A x \in Path[v] : Root \in Path[x] \ {x} => Active(t, x)
    BY <2>1, <2>2 DEF Reaches
  <2>4. Reaches(t, Root, w)
    BY <1>1, <2>2, <2>3, ReachThrough
  <2>5. v \in Path[w] /\ Path[v] \subseteq Path[w]
    BY <1>1, AncestorAssumption DEF Reaches
  <2> QED
    BY <1>1, <2>4, <2>5 DEF Hittable
<1>2. CASE t.popups # {}
  <2>1. s = Topmost(t).owner /\ Topmost(t) \in t.popups
    BY <1>2, TopmostThere DEF TabScope
  <2>2. s \in Hittable(t)
    BY <2>1 DEF HeldIn
  <2>3. s \in Path[s] /\ (Modal \in t.alive => Modal \in Path[s])
    BY <2>2, PathAssumption DEF Hittable
  <2> HIDE DEF s
  <2> QED
    BY <1>1, <2>2, <2>3
<1>3. CASE t.popups = {} /\ t.focus # None /\ InTrap(t, t.focus)
  <2>1. s = Modal /\ Modal \in Path[t.focus] /\ t.focus \in Hittable(t)
    BY <1>3 DEF TabScope, InTrap, HeldIn, Maybe
  <2>2. Modal \in Path[Modal]
    BY TreeAssumption, PathAssumption
  <2> HIDE DEF s
  <2> QED
    BY <1>1, <2>1, <2>2
<1>4. CASE t.popups = {} /\ ~(t.focus # None /\ InTrap(t, t.focus))
  <2>1. s = Root
    BY <1>4 DEF TabScope
  <2>2. Modal \notin t.alive
    <3>1. t.focus # None => t.focus \in Hittable(t)
      BY DEF HeldIn, Maybe
    <3> QED
      BY <1>4, <3>1 DEF InTrap, Hittable, Reaches
  <2> QED
    BY <2>1, <2>2 DEF Hittable
<1> QED
  BY <1>2, <1>3, <1>4

LEMMA TabHeld ==
  ASSUME NEW t, Typed(t), HeldIn(t, Hittable(t)), Modal \in t.alive => t.focus # None,
         NEW o \in Tab(t)
  PROVE  Stays(t, o.tree, Hittable(t))
<1>1. PICK forward \in BOOLEAN : o.tree = SetFocus(t, Adjacent(t, forward))
  BY DEF Tab, Out
<1> DEFINE order == TabOrder(t, TabScope(t))
           later == {w \in order : Rank[w] > Rank[t.focus]}
           before == {w \in order : Rank[w] < Rank[t.focus]}
           R == Hittable(t)
<1>2. order \subseteq R /\ R \in SUBSET Widgets
  BY OrderReached, HittableWidgets
<1>3. /\ order \in SUBSET Widgets /\ later \in SUBSET Widgets /\ before \in SUBSET Widgets
      /\ later \subseteq R /\ before \subseteq R
  BY <1>2
<1>4. \A S \in {order, later, before} : S # {} => First(S) \in R /\ Last(S) \in R
  <2> HIDE DEF order, later, before, R
  <2> QED
    BY <1>2, <1>3, EndsOfOrder
<1>5. Adjacent(t, forward) =
        IF order = {} THEN t.focus
        ELSE IF forward
        THEN IF t.focus \in order /\ later # {} THEN First(later) ELSE First(order)
        ELSE IF t.focus \in order /\ before # {} THEN Last(before) ELSE Last(order)
  BY DEF Adjacent
<1> HIDE DEF order, later, before, R
<1>6. HeldIn(t, R)
  BY DEF R
<1>7. Adjacent(t, forward) \in Maybe(R)
  BY <1>4, <1>5, <1>6 DEF HeldIn, Maybe
<1>8. Stays(t, o.tree, R)
  BY <1>1, <1>2, <1>6, <1>7, SetFocusHeld
<1> QED
  BY <1>8 DEF R


-----------------------------------------------------------------------------
(* The events of a user, and the clock.                                    *)

LEMMA PressHeldIn ==
  ASSUME NEW t, Typed(t), NEW R \in SUBSET Widgets, HeldIn(t, R),
         NEW w \in R, NEW o \in Press(t, w)
  PROVE  Stays(t, o.tree, R)
<1>1. CASE Kind[w] = "button"
  <2> DEFINE v == PressButton(t, w)
  <2>1. o.tree = v
    BY <1>1 DEF Press, Out
  <2>2. /\ v.focus = w /\ v.capture = w /\ v.pressed = t.pressed \cup {w}
        /\ v.popups = t.popups /\ v.alive = t.alive /\ v.top = t.top /\ v.open = t.open
        /\ Typed(v)
    BY DEF PressButton, Typed, Trees, Maybe
  <2> HIDE DEF v
  <2> QED
    BY <2>1, <2>2 DEF Stays, SameReach, HeldIn, Maybe
<1>2. CASE Kind[w] = "select" /\ w \notin t.open
  <2> DEFINE u == Opened(t, w)
  <2>1. o.tree = SetFocus(u, w)
    BY <1>2 DEF Press, Out
  <2>2. Stays(t, u, R)
    BY OpenedHeld
  <2> HIDE DEF u
  <2>3. Stays(u, SetFocus(u, w), R)
    BY <2>2, SetFocusHeld DEF Stays, Maybe
  <2> QED
    BY <2>1, <2>2, <2>3, StaysTwice
<1>3. CASE Kind[w] # "button" /\ ~(Kind[w] = "select" /\ w \notin t.open)
  BY <1>3, StaysSame DEF Press, Out
<1> QED
  BY <1>1, <1>2, <1>3

LEMMA ReleaseHeldIn ==
  ASSUME NEW t, Typed(t), NEW R \in SUBSET Widgets, HeldIn(t, R), NEW w, NEW o \in Release(t, w)
  PROVE  Stays(t, o.tree, R)
<1> DEFINE v == ReleaseButton(t, w)
<1>1. o.tree \in {t, v}
  BY DEF Release, Out
<1>2. /\ v.focus = t.focus /\ v.capture = None /\ v.pressed \subseteq t.pressed
      /\ v.popups = t.popups /\ v.alive = t.alive /\ v.top = t.top /\ v.open = t.open
      /\ Typed(v)
  BY DEF ReleaseButton, Typed, Trees, Maybe
<1> HIDE DEF v
<1>3. Stays(t, v, R)
  BY <1>2 DEF Stays, SameReach, HeldIn, Maybe
<1> QED
  BY <1>1, <1>3, StaysSame

\* A menu opens around what was pressed, and never from under the dialog.
LEMMA SummonHeld ==
  ASSUME NEW t, Typed(t), Grown(t.alive), HeldIn(t, Hittable(t)),
         NEW w \in Hittable(t), NEW o \in Summon(t, w)
  PROVE  Stays(t, o.tree, Hittable(t))
<1> DEFINE hears == {v \in Path[w] : \/ Kind[v] = "context" /\ v \notin t.open
                                     \/ Kind[v] = "dialog"}
           first == CHOOSE v \in hears : \A u \in hears : u \in Path[v]
<1>1. \/ o.tree = t
      \/ hears # {} /\ o.tree = Opened(t, first)
  BY DEF Summon, Out
<1>2. ASSUME hears # {}
      PROVE  first \in Hittable(t)
  <2>1. hears \in SUBSET Path[w] /\ w \in Widgets
    BY DEF Hittable
  <2>2. Modal \in Path[w] => Modal \in hears
    BY TreeAssumption
  <2> HIDE DEF hears
  <2>3. first \in hears /\ \A u \in hears : u \in Path[first]
    BY <1>2, <2>1, PathAssumption
  <2> HIDE DEF first
  <2> QED
    BY <2>1, <2>2, <2>3, MenuReached
<1> HIDE DEF first, hears
<1> QED
  BY <1>1, <1>2, StaysSame, OpenedHeld, HittableWidgets

LEMMA InOverlayHeld ==
  ASSUME NEW t, Typed(t), NEW R \in SUBSET Widgets, HeldIn(t, R),
         NEW w, NEW type, NEW o \in InOverlay(t, w, type)
  PROVE  Stays(t, o.tree, R)
<1>1. o.tree \in {t, Closed(t, w)}
  BY DEF InOverlay, Out
<1> QED
  BY <1>1, ClosedHeld, StaysSame

LEMMA EnterHeld ==
  ASSUME NEW t, Typed(t), NEW R \in SUBSET Widgets, HeldIn(t, R), NEW w \in R, NEW o \in Enter(t, w)
  PROVE  Stays(t, o.tree, R)
<1>1. o.tree \in {t, Closed(t, w), Opened(t, w)}
  BY DEF Enter, Out
<1> QED
  BY <1>1, ClosedHeld, OpenedHeld, StaysSame

LEMMA ThroughTreeHeld ==
  ASSUME NEW t, Typed(t), Grown(t.alive), HeldIn(t, Hittable(t)), NEW type,
         NEW o \in ThroughTree(t, type)
  PROVE  Stays(t, o.tree, Hittable(t))
<1>1. PICK w \in Targets(t) : o \in Received(t, w, type)
  BY DEF ThroughTree
<1>2. w \in Hittable(t) /\ Hittable(t) \in SUBSET Widgets
  BY HittableWidgets DEF Targets, HeldIn, Maybe
<1>3. \/ o \in Press(t, w) \/ o \in Release(t, w) \/ o \in Summon(t, w)
      \/ o.tree = t
  BY <1>1 DEF Received, Out
<1> QED
  BY <1>2, <1>3, PressHeldIn, ReleaseHeldIn, SummonHeld, StaysSame

LEMMA InPopupHeld ==
  ASSUME NEW t, Typed(t), NEW R \in SUBSET Widgets, HeldIn(t, R),
         NEW type, NEW o \in InPopup(t, type)
  PROVE  Stays(t, o.tree, R)
<1>1. PICK w \in Owners(t) :
        LET above == 1 + (CHOOSE e \in t.popups : e.owner = w).at
            lost == IF IsPress(type) THEN Notices(t, above) ELSE 0
            u == IF IsPress(type) THEN Dismiss(t, above) ELSE t
        IN o \in {Out(p.tree, p.mail + lost) : p \in InOverlay(u, w, type)}
  BY DEF InPopup
<1> DEFINE above == 1 + (CHOOSE e \in t.popups : e.owner = w).at
           u == IF IsPress(type) THEN Dismiss(t, above) ELSE t
<1>2. PICK p \in InOverlay(u, w, type) : o.tree = p.tree
  BY <1>1 DEF Out
<1> HIDE DEF above
<1>3. Stays(t, u, R)
  BY DismissHeld, StaysSame
<1> HIDE DEF u
<1>4. Stays(u, o.tree, R)
  BY <1>2, <1>3, InOverlayHeld DEF Stays
<1> QED
  BY <1>3, <1>4, StaysTwice


LEMMA PointerHeld ==
  ASSUME Inv, Listed(tree), HeldIn(tree, Hittable(tree)), NEW type, NEW o \in Pointer(type)
  PROVE  Stays(tree, o.tree, Hittable(tree))
<1> DEFINE t == Prune(tree)
           R == Hittable(tree)
<1>1. R \in SUBSET Widgets
  BY HittableWidgets
<1>2. Stays(tree, t, R) /\ Listed(t)
  BY <1>1, PruneHeld, PruneListed DEF Inv
<1>3. Typed(t) /\ HeldIn(t, R) /\ Grown(t.alive) /\ R = Hittable(t)
  BY <1>2, ReachSame DEF Stays, Listed
<1>4. o \in ThroughTree(t, type) \/ o \in InPopup(t, type) \/ o \in ClickAway(t)
  BY DEF Pointer
<1> HIDE DEF t, R
<1>5. o \in ClickAway(t) => o.tree = Dismiss(t, 1)
  BY DEF ClickAway, Out
<1>6. Stays(t, o.tree, R)
  <2>1. CASE o \in ThroughTree(t, type)
    BY <2>1, <1>3, ThroughTreeHeld
  <2>2. CASE o \in InPopup(t, type)
    BY <2>2, <1>1, <1>3, InPopupHeld
  <2>3. CASE o \in ClickAway(t)
    BY <2>3, <1>1, <1>3, <1>5, DismissHeld
  <2> QED
    BY <1>4, <2>1, <2>2, <2>3
<1>7. Stays(tree, o.tree, R)
  BY <1>2, <1>6, StaysTwice
<1> QED
  BY <1>7 DEF R

LEMMA EnterKeyHeld ==
  ASSUME Inv, HeldIn(tree, Hittable(tree)), NEW o \in Key(tree, "enter")
  PROVE  Stays(tree, o.tree, Hittable(tree))
<1> DEFINE u == Prune(tree)
           R == Hittable(tree)
<1>1. R \in SUBSET Widgets
  BY HittableWidgets
<1>2. Stays(tree, u, R)
  BY <1>1, PruneHeld DEF Inv
<1>3. o.tree = u \/ (u.focus \in u.alive /\ o \in Enter(u, u.focus))
  BY DEF Key, Out
<1> HIDE DEF u, R
<1>4. u.focus \in u.alive => u.focus \in R
  BY <1>2, TreeAssumption DEF Stays, HeldIn, Maybe, Typed, Trees
<1>5. Stays(tree, o.tree, R)
  <2>1. Typed(u) /\ HeldIn(u, R)
    BY <1>2 DEF Stays
  <2>2. CASE o.tree = u
    BY <1>2, <2>2
  <2>3. CASE u.focus \in u.alive /\ o \in Enter(u, u.focus)
    <3>1. Stays(u, o.tree, R)
      BY <1>1, <1>4, <2>1, <2>3, EnterHeld
    <3> QED
      BY <1>2, <3>1, StaysTwice
  <2> QED
    BY <1>3, <2>2, <2>3
<1> QED
  BY <1>5 DEF R

\* With the Navigator on its first screen, the removal of another covers
\* nothing.
LEMMA ReachShrunk ==
  ASSUME NEW t, Typed(t), Grown(t.alive), t.top = 0, NEW s \in Screens,
         NEW u, u.alive = t.alive \ Subtree(s), u.top = 0
  PROVE  Hittable(t) \ Subtree(s) \subseteq Hittable(u)
<1> SUFFICES ASSUME NEW w \in Hittable(t), w \notin Subtree(s)
             PROVE  w \in Hittable(u)
  OBVIOUS
<1>1. /\ w \in Widgets /\ w \in t.alive /\ Root \in Path[w] /\ s \notin Path[w]
      /\ \A v \in Path[w] : Root \in Path[v] \ {v} => Active(t, v)
  BY DEF Hittable, Reaches, Subtree
<1>2. Path[w] \subseteq u.alive
  <2>1. Path[w] \subseteq t.alive
    BY <1>1 DEF Grown
  <2>2. \A v \in Path[w] : s \notin Path[v]
    BY <1>1, AncestorAssumption
  <2> QED
    BY <2>1, <2>2 DEF Subtree
<1>3. IsFiniteSet(Children(t, Nav)) /\ IsFiniteSet(Children(u, Nav))
      /\ Children(u, Nav) \subseteq Children(t, Nav)
  <2>1. IsFiniteSet(Widgets) /\ t.alive \subseteq Widgets
    BY TreeAssumption DEF Typed, Trees
  <2>2. Children(t, Nav) \subseteq Widgets /\ Children(u, Nav) \subseteq Children(t, Nav)
    BY <2>1 DEF Children
  <2> QED
    BY <2>1, <2>2, FS_Subset
<1>4. ASSUME NEW v \in Path[w], Active(t, v), Parent[v] = Nav
      PROVE  Active(u, v)
  <2> DEFINE Before(x) == {c \in Children(x, Nav) : Rank[c] < Rank[v]}
  <2>1. v \in Children(u, Nav) /\ v \in Children(t, Nav)
    BY <1>2, <1>3, <1>4 DEF Children
  <2>2. /\ Cardinality(Children(t, Nav)) \in Nat \ {0}
        /\ Cardinality(Children(u, Nav)) \in Nat \ {0}
    BY <1>3, <2>1, FS_EmptySet, FS_CardinalityType
  <2>3. Index(t, v) = Cardinality(Before(t)) /\ Index(u, v) = Cardinality(Before(u))
    BY <1>4 DEF Index
  <2>4. Cardinality(Before(t)) = 0
    BY <1>4, <2>2, <2>3 DEF Active
  <2>5. IsFiniteSet(Before(t)) /\ Before(u) \subseteq Before(t)
    BY <1>3, FS_Subset
  <2>6. Before(u) = {}
    BY <2>4, <2>5, FS_EmptySet
  <2>7. Index(u, v) = 0
    BY <2>3, <2>6, FS_EmptySet
  <2> QED
    BY <2>2, <2>7 DEF Active
<1>5. Reaches(u, Root, w)
  <2>1. \A v \in Path[w] : Root \in Path[v] \ {v} => Active(u, v)
    BY <1>1, <1>4 DEF Active
  <2>2. w \in u.alive
    BY <1>1, <1>2, PathAssumption
  <2> QED
    BY <1>1, <2>1, <2>2 DEF Reaches
<1>6. Modal \in u.alive => Modal \in Path[w]
  BY DEF Hittable
<1> QED
  BY <1>1, <1>5, <1>6 DEF Hittable

Contained(t) ==
  t.focus \in Maybe(Hittable(t)) /\ t.pressed \cup t.open \subseteq Hittable(t)

\* What the popped screen held goes with it.
LEMMA RemoveContained ==
  ASSUME NEW t, Typed(t), Listed(t), t.top = 0, HeldIn(t, Hittable(t)), NEW s \in Screens
  PROVE  Contained(Remove(t, s))
<1>1. CASE s \notin t.alive
  BY <1>1 DEF Remove, HeldIn, Contained
<1>2. CASE s \in t.alive
  <2> DEFINE ids == Subtree(s) \cap t.alive
             gone == {e \in t.popups : e.owner \in ids}
             live == Widgets \ ids
             d == Drop(t, gone, live)
             r == Remove(t, s)
             R == Hittable(t)
  <2>1. R \in SUBSET Widgets /\ gone \in SUBSET t.popups /\ live \in SUBSET Widgets
    BY HittableWidgets
  <2>2. Stays(t, d, R)
    BY <2>1, DropHeld
  <2>3. d.alive = t.alive /\ Typed(d) /\ HeldIn(d, R) /\ d.top = t.top
    BY <2>2 DEF Stays, SameReach
  <2>4. /\ r.open = d.open \ ids /\ r.pressed = d.pressed \ ids /\ r.top = 0
        /\ r.focus = (IF d.focus \in ids THEN None ELSE d.focus)
        /\ r.alive = t.alive \ Subtree(s)
    <3>1. r = [d EXCEPT !.alive = d.alive \ ids, !.open = d.open \ ids,
                        !.pressed = d.pressed \ ids,
                        !.focus = IF d.focus \in ids THEN None ELSE d.focus,
                        !.capture = IF d.capture \in ids THEN None ELSE d.capture]
      BY <1>2, <2>3 DEF Remove, Typed, Trees
    <3>2. t.alive \ ids = t.alive \ Subtree(s)
      OBVIOUS
    <3> HIDE DEF d, ids, r
    <3> QED
      BY <2>3, <3>1, <3>2 DEF Typed, Trees
  <2> HIDE DEF d, r
  <2>5. R \ Subtree(s) \subseteq Hittable(r)
    BY <2>4, ReachShrunk DEF Listed
  <2>6. R \subseteq t.alive
    BY DEF Hittable, Reaches
  <2>7. R \ ids \subseteq Hittable(r)
    BY <2>5, <2>6
  <2> HIDE DEF ids, R
  <2>8. Contained(r)
    BY <2>3, <2>4, <2>7 DEF HeldIn, Contained, Maybe
  <2> QED
    BY <2>8 DEF r
<1> QED
  BY <1>1, <1>2

LEMMA FrameContained ==
  ASSUME Inv, Listed(tree), HeldIn(tree, Hittable(tree)), Frame
  PROVE  Contained(tree')
<1> DEFINE u == [tree EXCEPT !.reap = FALSE]
           s == CHOOSE s \in Retired(tree) : TRUE
           r == Reaped(tree)
           v == [r EXCEPT !.animating = FALSE]
<1>1. tree' = v
  BY DEF Frame, Animate
<1>2. /\ Typed(u) /\ Alike(tree, u) /\ u.top = tree.top /\ u.focus = tree.focus
      /\ u.pressed = tree.pressed /\ u.capture = tree.capture
  BY DEF Inv, Typed, Trees, Alike
<1>3. r = IF Retired(tree) = {} THEN u ELSE Remove(u, s)
  BY DEF Reaped
<1>4. Retired(tree) # {} => s \in Screens /\ tree.reap
  BY DEF Retired, Pushed
<1>5. Typed(r)
  BY ReapedKeeps DEF Inv, Keeps
<1> HIDE DEF u, s
<1>6. SameReach(tree, u)
  BY <1>2 DEF SameReach, Alike
<1>7. HeldIn(u, Hittable(u)) /\ Listed(u)
  BY <1>2, <1>6, ReachSame, AlikeListed DEF HeldIn, Alike, Inv
<1>8. Contained(r)
  <2>1. CASE Retired(tree) = {}
    BY <1>3, <1>7, <2>1 DEF HeldIn, Contained
  <2>2. CASE Retired(tree) # {}
    <3>1. u.top = 0
      BY <1>2, <1>4, <2>2 DEF Inv, Aligned
    <3> QED
      BY <1>2, <1>3, <1>4, <1>7, <2>2, <3>1, RemoveContained
  <2> QED
    BY <2>1, <2>2
<1> HIDE DEF r
<1>9. /\ v.focus = r.focus /\ v.pressed = r.pressed /\ v.open = r.open
      /\ v.alive = r.alive /\ v.top = r.top
  BY <1>5 DEF Typed, Trees
<1> HIDE DEF v
<1>10. Hittable(v) = Hittable(r)
  BY <1>9, ReachSame DEF SameReach
<1>11. Contained(v)
  BY <1>8, <1>9, <1>10 DEF Contained
<1> QED
  BY <1>1, <1>11

LEMMA StepContained ==
  ASSUME Inv, Listed(tree), mail = 0, Inside(tree), [Next]_vars
  PROVE  Contained(tree')
<1> DEFINE R == Hittable(tree)
<1>1. HeldIn(tree, R)
  <2>1. /\ tree.focus \in Maybe(R) /\ tree.capture \in Maybe(R)
        /\ \A e \in tree.popups : e.owner \in R /\ e.prev \in Maybe(R)
    BY DEF Inside, Maybe
  <2>2. tree.pressed \subseteq R
    BY <2>1 DEF Inv, Coherent, Maybe
  <2>3. tree.open \subseteq R
    BY <2>1 DEF Listed, Owners
  <2> QED
    BY <2>1, <2>2, <2>3 DEF HeldIn
<1>2. ASSUME NEW u, Stays(tree, u, R)
      PROVE  Contained(u)
  BY <1>2, ReachSame DEF Stays, HeldIn, Contained
<1>3. CASE Down \/ Up \/ Move \/ Right \/ Gesture \/ Poll
  <2>1. \E type : Dispatch(Pointer(type))
    BY <1>3 DEF Down, Up, Move, Right, Gesture, Poll
  <2> QED
    BY <1>1, <1>2, <2>1, PointerHeld DEF Dispatch
<1>4. CASE Keyboard
  <2>1. Typed(tree) /\ (Modal \in tree.alive => tree.focus # None)
    BY DEF Inv, Inside
  <2> QED
    BY <1>1, <1>2, <1>4, <2>1, TabHeld, EnterKeyHeld DEF Keyboard, Dispatch
<1>5. CASE Frame
  BY <1>1, <1>5, FrameContained
<1>6. CASE tree' = tree
  BY <1>1, <1>6 DEF HeldIn, Contained
<1> QED
  BY <1>3, <1>4, <1>5, <1>6 DEF Next, Update, Cancel, Timer, vars

\* Whatever lies over what: a step of the user, or of the clock, that finds the
\* focus, the pointer and the popups where a user can get at them puts the focus,
\* a press or an overlay on nothing that a dialog or a pushed screen covers.
THEOREM ReachKept == Spec => InputStaysInside
<1>1. Inv /\ Types /\ Listed(tree) /\ [Next]_vars =>
        [ mail = 0 /\ Inside(tree)
          => ({tree'.focus} \ {None}) \cup tree'.pressed \cup tree'.open
               \subseteq Hittable(tree') ]_vars
  <2> SUFFICES ASSUME Inv, Listed(tree), mail = 0, Inside(tree), [Next]_vars
               PROVE  ({tree'.focus} \ {None}) \cup tree'.pressed \cup tree'.open
                        \subseteq Hittable(tree')
    OBVIOUS
  <2>1. Contained(tree')
    BY StepContained
  <2> QED
    BY <2>1 DEF Contained, Maybe
<1> QED
  BY <1>1, Invariance, ListedAlways, PTL DEF Spec, InputStaysInside

===============================================================================
