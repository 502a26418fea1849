------------------------------- MODULE Gestures -------------------------------
(* The recognizer of fbui-widgets/src/gesture.rs: one contact at a time becomes *)
(* a tap, a long press, or a drag that may end in a fling.  Every operation     *)
(* returns the recognizer and the gestures it found, [g, out].                  *)
EXTENDS Integers, SequencesExt, FiniteSetsExt

CONSTANTS TapSlop,      \* how far a tap may wander, squared
          LongPressAt,  \* how long a contact is held before it is a long press
          MinFling,     \* the least speed of a fling
          Window        \* how far back its speed is measured

ASSUME GestureAssumption == {TapSlop, LongPressAt, MinFling, Window} \subseteq Nat \ {0}

Origin == [i \in {1, 2} |-> 0]
NewRecognizer == [phase |-> "idle", start |-> Origin, last |-> Origin, downT |-> 0,
                  trail |-> <<>>]

IsActive(g) == g.phase # "idle"

\* The square of a distance.
Square(a, b) == (a[1] - b[1]) * (a[1] - b[1]) + (a[2] - b[2]) * (a[2] - b[2])

Found(g, out) == [g |-> g, out |-> out]

PointerDown(g, t, pos) ==
  Found([g EXCEPT !.phase = "pending", !.start = pos, !.last = pos, !.downT = t,
                  !.trail = <<[t |-> t, pos |-> pos]>>], <<>>)

\* Mutant of Fresh: no sample is ever dropped.
FreshNever(trail, t) == trail

\* The samples from the first one of the window on; the newest is always kept.
Fresh(trail, t) ==
  LET n == Len(trail)
  IN  SubSeq(trail, Min({k \in 1..n : k = n \/ trail[k].t >= t - Window}), n)

\* push_sample.
Pushed(g, t, pos) == [g EXCEPT !.trail = Fresh(Append(@, [t |-> t, pos |-> pos]), t)]

PointerMove(g, t, pos) ==
  LET p == Pushed(g, t, pos)
      begins == g.phase = "pending" /\ Square(g.start, pos) > TapSlop
  IN  CASE ~(g.phase \in {"pending", "dragging"}) -> Found(g, <<>>)
        [] g.phase = "dragging" ->
             Found([p EXCEPT !.last = pos], <<[kind |-> "DragUpdate", pos |-> pos]>>)
        [] begins ->
             Found([p EXCEPT !.phase = "dragging", !.last = pos],
                   <<[kind |-> "DragBegin", pos |-> g.start], [kind |-> "DragUpdate", pos |-> pos]>>)
        [] OTHER -> Found(p, <<>>)

\* velocity against min_fling_velocity: two samples, and time between them.
IsFling(trail) ==
  LET from == Head(trail)
      to == Last(trail)
      dt == to.t - from.t
  IN  /\ Len(trail) >= 2 /\ dt > 0
      /\ Square(from.pos, to.pos) >= MinFling * MinFling * dt * dt

Ended(g) == [g EXCEPT !.phase = "idle", !.trail = <<>>]

\* Mutant of PointerUp: only a drag ends the contact.
PointerUpPending(g, t, pos) ==
  LET p == Pushed(g, t, pos)
  IN  CASE g.phase = "pending" ->
             Found([g EXCEPT !.trail = <<>>],
                   IF Square(g.start, pos) <= TapSlop THEN <<[kind |-> "Tap", pos |-> pos]>>
                   ELSE <<>>)
        [] g.phase = "dragging" ->
             Found(Ended(g), <<[kind |-> "DragEnd", pos |-> pos]>>
                             \o IF IsFling(p.trail) THEN <<[kind |-> "Fling", pos |-> pos]>>
                                ELSE <<>>)
        [] OTHER -> Found(Ended(g), <<>>)

PointerUp(g, t, pos) ==
  LET p == Pushed(g, t, pos)
  IN  CASE g.phase = "pending" ->
             Found(Ended(g), IF Square(g.start, pos) <= TapSlop
                             THEN <<[kind |-> "Tap", pos |-> pos]>> ELSE <<>>)
        [] g.phase = "dragging" ->
             Found(Ended(g), <<[kind |-> "DragEnd", pos |-> pos]>>
                             \o IF IsFling(p.trail) THEN <<[kind |-> "Fling", pos |-> pos]>>
                                ELSE <<>>)
        [] OTHER -> Found(Ended(g), <<>>)

Cancel(g) ==
  Found(Ended(g), IF g.phase = "dragging" THEN <<[kind |-> "DragEnd", pos |-> g.last]>> ELSE <<>>)

\* poll: the frame clock makes a contact that was held a long press.
Poll(g, t) ==
  IF g.phase = "pending" /\ t - g.downT >= LongPressAt
  THEN Found([g EXCEPT !.phase = "longPressed"], <<[kind |-> "LongPress", pos |-> g.start]>>)
  ELSE Found(g, <<>>)
==============================================================================
