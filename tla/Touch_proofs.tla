------------------------------ MODULE Touch_proofs ------------------------------
(***************************************************************************)
(* Proofs about Touch, for any device, places, slop, window and times: a   *)
(* contact the program knows of is one of the hand, it comes to one        *)
(* gesture, and to that one on time. Known says how the recognizer stands  *)
(* to what it was told of the contact; every event keeps it.               *)
(***************************************************************************)
EXTENDS Touch, SequenceTheorems, WellFoundedInduction, TLAPS

-----------------------------------------------------------------------------
(* Numbers and sequences.                                                  *)

\* What holds of 0 and of each next number holds up to n.
LEMMA UpTo ==
  ASSUME NEW n \in Nat, NEW S, 0 \in S,
         \A k \in 0..(n - 1) : k \in S => k + 1 \in S
  PROVE  0..n \subseteq S
<1> DEFINE R == OpToRel(<, Nat)
           T == {k \in 0..n : k \notin S}
<1>1. IsWellFoundedOn(R, Nat)
  BY NatLessThanWellFounded
<1>2. \A x, y \in Nat : <<x, y>> \in R <=> x < y
  BY DEF OpToRel
<1> SUFFICES ASSUME T # {} PROVE FALSE
  OBVIOUS
<1>3. T \subseteq Nat
  OBVIOUS
<1> HIDE DEF R
<1>4. PICK m \in T : \A y \in T : ~(<<y, m>> \in R)
  <2> HIDE DEF T
  <2> QED
    BY <1>1, <1>3, WFMin
<1>5. m # 0 /\ m - 1 \in 0..(n - 1)
  OBVIOUS
<1>6. m - 1 \notin T
  <2>1. m \in Nat /\ m - 1 \in Nat /\ m - 1 < m
    BY <1>3, <1>5
  <2>2. <<m - 1, m>> \in R
    BY <1>2, <2>1
  <2> HIDE DEF T
  <2> QED
    BY <1>4, <2>2
<1> QED
  BY <1>5, <1>6

\* A set of numbers has a least one.
LEMMA LeastOf ==
  ASSUME NEW S \in SUBSET Nat, S # {}
  PROVE  Min(S) \in S /\ \A k \in S : Min(S) <= k
<1> DEFINE R == OpToRel(<, Nat)
<1>1. IsWellFoundedOn(R, Nat)
  BY NatLessThanWellFounded
<1>2. \A x, y \in Nat : <<x, y>> \in R <=> x < y
  BY DEF OpToRel
<1> HIDE DEF R
<1>3. PICK m \in S : \A y \in S : ~(<<y, m>> \in R)
  BY <1>1, WFMin
<1>4. ASSUME NEW y \in S PROVE m <= y
  <2>1. y \in Nat /\ m \in Nat
    OBVIOUS
  <2>2. ~(y < m)
    BY <1>2, <1>3, <2>1
  <2> QED
    BY <2>1, <2>2
<1> QED
  BY <1>3, <1>4 DEF Min

In(x, s) == \E n \in 1..Len(s) : s[n] = x

LEMMA InAppended ==
  ASSUME NEW X, NEW s \in Seq(X), NEW t \in Seq(X), NEW x
  PROVE  In(x, s \o t) <=> In(x, s) \/ In(x, t)
<1>1. \A n \in 1..Len(t) : Len(s) + n \in 1..Len(s \o t) /\ (s \o t)[Len(s) + n] = t[n]
  OBVIOUS
<1>2. \A n \in 1..Len(s) : n \in 1..Len(s \o t) /\ (s \o t)[n] = s[n]
  OBVIOUS
<1>3. \A n \in 1..Len(s \o t) :
        n \notin 1..Len(s) => n - Len(s) \in 1..Len(t) /\ (s \o t)[n] = t[n - Len(s)]
  OBVIOUS
<1> QED
  BY <1>1, <1>2, <1>3 DEF In

-----------------------------------------------------------------------------
(* Positions and events.                                                   *)

Spots == [Axes -> Int]

Events == [kind : {"button"}, code : {"left", "touch"}, down : BOOLEAN]
          \cup [kind : {"down", "motion", "absolute"}, pos : Spots]
          \cup [kind : {"relative"}, by : Spots]
          \cup [kind : {"up", "cancel"}]

LEMMA ClampedSpot ==
  ASSUME NEW c \in Spots
  PROVE  Clamped(c) \in Spots
BY EvdevAssumption DEF Spots, Clamped, Axes

LEMMA CursorSpot ==
  ASSUME NEW c \in Spots, NEW e \in Events
  PROVE  CursorAfter(c, e) \in Spots /\ (~Moves(e) /\ ~Presses(e) => CursorAfter(c, e) = c)
<1> DEFINE x == IF e.kind = "relative" THEN [i \in Axes |-> c[i] + e.by[i]] ELSE e.pos
<1>1. CASE e.kind \in {"relative", "absolute", "down", "motion"}
  <2>1. x \in Spots
    BY <1>1 DEF Events, Spots
  <2>2. CursorAfter(c, e) = Clamped(x)
    BY <1>1 DEF CursorAfter
  <2>3. Moves(e) \/ Presses(e)
    BY <1>1 DEF Moves, Presses
  <2> HIDE DEF x
  <2> QED
    BY <2>1, <2>2, <2>3, ClampedSpot
<1>2. CASE e.kind \notin {"relative", "absolute", "down", "motion"}
  BY <1>2 DEF CursorAfter
<1> QED
  BY <1>1, <1>2

LEMMA NoDistance ==
  ASSUME NEW c \in Spots
  PROVE  Square(c, c) <= TapSlop
<1>1. c[1] \in Int /\ c[2] \in Int
  BY DEF Spots, Axes
<1>2. c[1] - c[1] = 0 /\ c[2] - c[2] = 0
  BY <1>1
<1>3. Square(c, c) = 0
  BY <1>2 DEF Square
<1> QED
  BY <1>3, GestureAssumption

-----------------------------------------------------------------------------
(* The recognizer and what it was told.                                    *)

Samples == [t : Nat, pos : Spots]
Kinds == {"Tap", "LongPress", "DragBegin", "DragEnd", "Fling"}
Outcomes == [kind : Kinds, on : BOOLEAN, still : BOOLEAN, held : BOOLEAN,
             moving : BOOLEAN]

\* What is said of each gesture that came of a contact.
Sure(o) == /\ o.on
           /\ o.kind \in {"Tap", "LongPress"} <=> o.still
           /\ o.kind = "LongPress" => o.held
           /\ o.kind = "Fling" => o.moving

\* The gestures so far are of these kinds.
CameTo(n, kinds) ==
  /\ Len(n.out) = Len(kinds)
  /\ \A k \in 1..Len(kinds) : n.out[k].kind = kinds[k] /\ Sure(n.out[k])

Over == {<<>>, <<"Tap">>, <<"LongPress">>, <<"DragBegin", "DragEnd">>,
         <<"DragBegin", "DragEnd", "Fling">>}

\* Of the samples of a fling all are from before the contact last moved.
Tracked(g, n, t) ==
  /\ n.moved <= t
  /\ \A k \in 1..Len(g.trail) : g.trail[k].t <= n.moved

Begun(g, n, t) ==
  /\ n.from = g.start /\ n.since = g.downT
  /\ Tracked(g, n, t)

Contacts == [open : BOOLEAN, since : Nat, from : Spots, moved : Nat, still : BOOLEAN,
             out : Seq(Outcomes)]

Recognizers == [phase : {"idle", "pending", "dragging", "longPressed"}, start : Spots,
                last : Spots, downT : Nat, trail : Seq(Samples)]

Known(c, g, n, t) ==
  /\ c \in Spots /\ g \in Recognizers /\ n \in Contacts
  /\ n.open <=> g.phase # "idle"
  /\ n.open => Begun(g, n, t)
  /\ g.phase = "idle" => \E kinds \in Over : CameTo(n, kinds)
  /\ g.phase = "pending" => CameTo(n, <<>>) /\ n.still /\ Square(g.start, c) <= TapSlop
  /\ g.phase = "dragging" => CameTo(n, <<"DragBegin">>) /\ ~n.still
  /\ g.phase = "longPressed" => CameTo(n, <<"LongPress">>)

\* push_sample keeps samples there were, from one of the window on.
LEMMA PushedSamples ==
  ASSUME NEW g \in Recognizers, NEW t \in Nat, NEW c \in Spots
  PROVE  /\ Pushed(g, t, c) \in Recognizers
         /\ Pushed(g, t, c).phase = g.phase /\ Pushed(g, t, c).start = g.start
         /\ Pushed(g, t, c).downT = g.downT /\ Pushed(g, t, c).last = g.last
         /\ LET trail == Pushed(g, t, c).trail
            IN /\ Len(trail) > 0 /\ trail[Len(trail)].t = t
               /\ trail[1].t >= t - Window
               /\ \A k \in 1..Len(trail) : trail[k].t = t \/ In(trail[k], g.trail)
<1> DEFINE x == [t |-> t, pos |-> c]
           s == Append(g.trail, x)
           n == Len(s)
           S == {k \in 1..n : k = n \/ s[k].t >= t - Window}
           m == Min(S)
           r == SubSeq(s, m, n)
<1>1. x \in Samples /\ x.t = t
  BY DEF Samples
<1> HIDE DEF x
<1>2. /\ s \in Seq(Samples) /\ n = Len(g.trail) + 1 /\ n \in Nat /\ n > 0 /\ s[n] = x
      /\ \A k \in 1..Len(g.trail) : s[k] = g.trail[k]
      /\ Len(g.trail) \in Nat
  BY <1>1 DEF Recognizers
<1> HIDE DEF s, n
<1>3. m \in S /\ S \in SUBSET Nat
  <2>1. S \in SUBSET Nat /\ n \in S
    BY <1>2
  <2> HIDE DEF S
  <2> QED
    BY <2>1, LeastOf
<1>4. m \in 1..n /\ (m = n \/ s[m].t >= t - Window)
  BY <1>3
<1> HIDE DEF m, S
<1>5. /\ r \in Seq(Samples) /\ Len(r) = n - m + 1
      /\ \A k \in 1..Len(r) : r[k] = s[m + k - 1] /\ m + k - 1 \in 1..n
  <2>1. m \in Nat /\ n \in Nat /\ m >= 1 /\ m <= n /\ n <= Len(s)
    BY <1>2, <1>4 DEF n
  <2>2. r \in Seq(Samples) /\ Len(r) = n - m + 1 /\ \A k \in 1..(n - m + 1) : r[k] = s[m + k - 1]
    BY <1>2, <2>1
  <2> QED
    BY <2>1, <2>2
<1> HIDE DEF r
<1>6. Pushed(g, t, c) = [g EXCEPT !.trail = r]
  BY DEF Pushed, Fresh, r, m, S, n, s, x
<1>7. Len(r) > 0 /\ r[Len(r)] = x /\ r[1] = s[m] /\ 1 \in 1..Len(r)
  <2> DEFINE l == Len(r)
  <2>1. m \in Nat /\ n \in Nat /\ m <= n /\ l = n - m + 1
    BY <1>2, <1>4, <1>5
  <2> HIDE DEF l
  <2>2. l \in 1..l /\ 1 \in 1..l /\ m + l - 1 = n /\ m + 1 - 1 = m /\ l > 0
    BY <2>1
  <2>3. r[l] = s[m + l - 1] /\ r[1] = s[m + 1 - 1]
    BY <1>5, <2>2 DEF l
  <2> QED
    BY <1>2, <2>2, <2>3 DEF l
<1>8. r[1].t >= t - Window
  BY <1>1, <1>2, <1>4, <1>7, GestureAssumption
<1>9. \A k \in 1..Len(r) : r[k].t = t \/ In(r[k], g.trail)
  <2> TAKE k \in 1..Len(r)
  <2> DEFINE j == m + k - 1
             l == Len(g.trail)
  <2>1. r[k] = s[j] /\ j \in 1..n
    BY <1>5
  <2>2. l \in Nat /\ n = l + 1
    BY <1>2
  <2> HIDE DEF j, l
  <2>3. j = n \/ j \in 1..l
    BY <2>1, <2>2
  <2>4. j \in 1..l => s[j] = g.trail[j]
    BY <1>2 DEF l
  <2> QED
    BY <1>1, <1>2, <2>1, <2>3, <2>4 DEF In, l
<1> QED
  BY <1>1, <1>5, <1>6, <1>7, <1>8, <1>9 DEF Recognizers

-----------------------------------------------------------------------------
(* The ghost: what is noted of a contact.                                  *)

\* The contact after an event that is no press, and a gesture that comes of it.
Seen(n, e, c) ==
  [n EXCEPT !.moved = IF Moves(e) THEN clock ELSE n.moved,
            !.still = n.still /\ (Moves(e) => Square(n.from, c) <= TapSlop)]

Mark(n, e, c, kind) ==
  [kind |-> kind, on |-> n.open, still |-> Seen(n, e, c).still,
   held |-> clock - n.since >= LongPressAt, moving |-> clock - Seen(n, e, c).moved <= Window]

Goes(n, e, c, all) ==
  IF Continues(n, e) THEN [Seen(n, e, c) EXCEPT !.out = all] ELSE [Nothing EXCEPT !.out = all]

Gestured(x) == x.kind \in Kinds

LEMMA SeenTyped ==
  ASSUME NEW n \in Contacts, NEW e, NEW c, clock \in Nat
  PROVE  /\ Seen(n, e, c) \in Contacts
         /\ Seen(n, e, c).open = n.open /\ Seen(n, e, c).since = n.since
         /\ Seen(n, e, c).from = n.from /\ Seen(n, e, c).out = n.out
         /\ Seen(n, e, c).moved = (IF Moves(e) THEN clock ELSE n.moved)
         /\ Seen(n, e, c).still = (n.still /\ (Moves(e) => Square(n.from, c) <= TapSlop))
<1> DEFINE moved == IF Moves(e) THEN clock ELSE n.moved
           near == Moves(e) => Square(n.from, c) <= TapSlop
           still == n.still /\ near
<1>1. moved \in Nat
  BY DEF Contacts
<1>2. near \in BOOLEAN
  OBVIOUS
<1>3. n.still \in BOOLEAN
  BY DEF Contacts
<1> HIDE DEF near
<1>4. still \in BOOLEAN
  BY <1>2, <1>3
<1>5. Seen(n, e, c) = [n EXCEPT !.moved = moved, !.still = still]
  BY DEF Seen, near
<1> HIDE DEF moved, still
<1>6. /\ Seen(n, e, c) \in Contacts
      /\ Seen(n, e, c).open = n.open /\ Seen(n, e, c).since = n.since
      /\ Seen(n, e, c).from = n.from /\ Seen(n, e, c).out = n.out
      /\ Seen(n, e, c).moved = moved /\ Seen(n, e, c).still = still
  BY <1>1, <1>4, <1>5 DEF Contacts
<1> QED
  BY <1>6 DEF moved, still, near

LEMMA MarkTyped ==
  ASSUME NEW n \in Contacts, NEW e, NEW c, clock \in Nat, NEW x, Gestured(x)
  PROVE  Mark(n, e, c, x.kind) \in Outcomes
<1>1. /\ n.open \in BOOLEAN /\ Seen(n, e, c).still \in BOOLEAN
      /\ Seen(n, e, c).moved \in Nat /\ n.since \in Nat
  BY SeenTyped DEF Contacts
<1> QED
  BY <1>1, GestureAssumption DEF Mark, Outcomes, Gestured

\* What Noticed says of an event that is no press, update by update.
LEMMA NoticedGoes ==
  ASSUME NEW n \in Contacts, NEW e, NEW c, ~Presses(e), NEW out
  PROVE  LET new == IF out # <<>> /\ Last(out).kind = "DragUpdate" THEN Front(out) ELSE out
             all == n.out \o [k \in DOMAIN new |-> Mark(n, e, c, new[k].kind)]
         IN  Noticed(n, e, c, out) = Goes(n, e, c, all)
BY DEF Noticed, Goes, Mark, Seen

LEMMA NoticedNone ==
  ASSUME NEW n \in Contacts, NEW e, NEW c, ~Presses(e), NEW out,
         out = <<>> \/ \E x : x.kind = "DragUpdate" /\ out = <<x>>
  PROVE  Noticed(n, e, c, out) = Goes(n, e, c, n.out)
<1> DEFINE new == IF out # <<>> /\ Last(out).kind = "DragUpdate" THEN Front(out) ELSE out
           marks == [k \in DOMAIN new |-> Mark(n, e, c, new[k].kind)]
<1>1. new = <<>>
  BY DEF Last, Front
<1> HIDE DEF new
<1>2. marks = <<>>
  BY <1>1
<1>3. n.out \o <<>> = n.out
  BY DEF Contacts
<1> HIDE DEF marks
<1>4. n.out \o marks = n.out
  BY <1>2, <1>3
<1> QED
  BY <1>4, NoticedGoes DEF new, marks

LEMMA Shortened ==
  ASSUME NEW x, NEW y
  PROVE  SubSeq(<<x, y>>, 1, 1) = <<x>>
<1> DEFINE s == <<x, y>>
           r == SubSeq(s, 1, 1)
<1>1. s \in Seq({x, y}) /\ Len(s) = 2 /\ s[1] = x
  OBVIOUS
<1> HIDE DEF s
<1>2. r \in Seq({x, y}) /\ Len(r) = 1 /\ r[1] = x
  BY <1>1
<1> HIDE DEF r
<1>3. r = <<x>>
  BY <1>2
<1> QED
  BY <1>3 DEF r, s

LEMMA NoticedOne ==
  ASSUME NEW n \in Contacts, NEW e, NEW c, ~Presses(e), clock \in Nat, NEW out, NEW x, Gestured(x),
         out = <<x>> \/ \E y : y.kind = "DragUpdate" /\ out = <<x, y>>
  PROVE  Noticed(n, e, c, out) = Goes(n, e, c, Append(n.out, Mark(n, e, c, x.kind)))
<1> DEFINE new == IF out # <<>> /\ Last(out).kind = "DragUpdate" THEN Front(out) ELSE out
           marks == [k \in DOMAIN new |-> Mark(n, e, c, new[k].kind)]
           o == Mark(n, e, c, x.kind)
<1>1. new = <<x>>
  <2>1. CASE out = <<x>>
    BY <2>1 DEF Last, Gestured, Kinds
  <2>2. ASSUME NEW y, y.kind = "DragUpdate", out = <<x, y>>
        PROVE  new = <<x>>
    <3>1. Len(<<x, y>>) = 2 /\ <<x, y>>[2] = y /\ <<x, y>> # <<>>
      OBVIOUS
    <3>2. SubSeq(<<x, y>>, 1, 1) = <<x>>
      BY Shortened
    <3>3. out # <<>> /\ Last(out) = y /\ Front(out) = <<x>>
      BY <2>2, <3>1, <3>2 DEF Last, Front
    <3> QED
      BY <2>2, <3>3
  <2> QED
    BY <2>1, <2>2
<1> HIDE DEF new
<1>2. marks = <<o>>
  BY <1>1
<1>3. o \in Outcomes
  BY MarkTyped
<1> HIDE DEF o
<1>4. n.out \o <<o>> = Append(n.out, o)
  BY <1>3 DEF Contacts
<1> HIDE DEF marks
<1>5. n.out \o marks = Append(n.out, o)
  BY <1>2, <1>4
<1> QED
  BY <1>5, NoticedGoes DEF new, marks, o

LEMMA NoticedTwo ==
  ASSUME NEW n \in Contacts, NEW e, NEW c, ~Presses(e), clock \in Nat, NEW out,
         NEW x, Gestured(x), NEW y, Gestured(y), out = <<x, y>>
  PROVE  Noticed(n, e, c, out) =
           Goes(n, e, c, Append(Append(n.out, Mark(n, e, c, x.kind)), Mark(n, e, c, y.kind)))
<1> DEFINE new == IF out # <<>> /\ Last(out).kind = "DragUpdate" THEN Front(out) ELSE out
           marks == [k \in DOMAIN new |-> Mark(n, e, c, new[k].kind)]
           o == Mark(n, e, c, x.kind)
           p == Mark(n, e, c, y.kind)
<1>1. new = <<x, y>>
  BY DEF Last, Front, Gestured, Kinds
<1> HIDE DEF new
<1>2. marks = <<o, p>>
  BY <1>1
<1>3. o \in Outcomes /\ p \in Outcomes
  BY MarkTyped
<1> HIDE DEF o, p
<1>4. n.out \o <<o, p>> = Append(Append(n.out, o), p)
  BY <1>3 DEF Contacts
<1> HIDE DEF marks
<1>5. n.out \o marks = Append(Append(n.out, o), p)
  BY <1>2, <1>4
<1> QED
  BY <1>5, NoticedGoes DEF new, marks, o, p

LEMMA GoesTyped ==
  ASSUME NEW n \in Contacts, NEW e, NEW c, clock \in Nat, NEW all \in Seq(Outcomes)
  PROVE  /\ Goes(n, e, c, all) \in Contacts
         /\ Goes(n, e, c, all).out = all
         /\ (Goes(n, e, c, all).open <=> Continues(n, e))
         /\ Continues(n, e) =>
              /\ Goes(n, e, c, all).since = n.since /\ Goes(n, e, c, all).from = n.from
              /\ Goes(n, e, c, all).moved = Seen(n, e, c).moved
              /\ Goes(n, e, c, all).still = Seen(n, e, c).still
<1> DEFINE s == Seen(n, e, c)
           v == Goes(n, e, c, all)
<1>1. /\ s \in Contacts /\ s.open = n.open /\ s.since = n.since /\ s.from = n.from
  BY SeenTyped
<1>2. CASE Continues(n, e)
  <2>1. v = [s EXCEPT !.out = all]
    BY <1>2 DEF Goes
  <2>2. n.open = TRUE
    BY <1>2 DEF Continues, Contacts
  <2> HIDE DEF s, v
  <2>3. /\ v \in Contacts /\ v.out = all /\ v.open = TRUE /\ v.since = n.since
        /\ v.from = n.from /\ v.moved = s.moved /\ v.still = s.still
    BY <1>1, <2>1, <2>2 DEF Contacts
  <2> QED
    BY <1>2, <2>3 DEF s, v
<1>3. CASE ~Continues(n, e)
  <2>1. v = [Nothing EXCEPT !.out = all]
    BY <1>3 DEF Goes
  <2>2. Nothing \in Contacts /\ Nothing.open = FALSE
    BY DEF Contacts, Nothing, Origin, Spots, Axes
  <2> HIDE DEF v
  <2>3. v \in Contacts /\ v.out = all /\ v.open = FALSE
    BY <2>1, <2>2 DEF Contacts
  <2> QED
    BY <1>3, <2>3 DEF v
<1> QED
  BY <1>2, <1>3

-----------------------------------------------------------------------------
(* Every event, and the tick, keeps what is known of a contact.            *)

LEMMA CameMore ==
  ASSUME NEW n \in Contacts, NEW kinds \in Seq(Kinds), CameTo(n, kinds),
         NEW o \in Outcomes, Sure(o), NEW v, v.out = Append(n.out, o)
  PROVE  CameTo(v, Append(kinds, o.kind))
<1>1. n.out \in Seq(Outcomes) /\ o.kind \in Kinds /\ Len(n.out) = Len(kinds)
  <2>1. n.out \in Seq(Outcomes)
    BY DEF Contacts
  <2>2. o.kind \in Kinds
    BY DEF Outcomes
  <2> QED
    BY <2>1, <2>2 DEF CameTo
<1> DEFINE l == Len(kinds)
           s == n.out
<1>2. l \in Nat /\ Len(s) = l /\ s \in Seq(Outcomes)
  BY <1>1
<1>3. /\ Len(Append(kinds, o.kind)) = l + 1 /\ Append(kinds, o.kind)[l + 1] = o.kind
      /\ \A k \in 1..l : Append(kinds, o.kind)[k] = kinds[k]
  BY <1>1
<1>4. /\ Len(v.out) = l + 1 /\ v.out[l + 1] = o
      /\ \A k \in 1..l : v.out[k] = s[k]
  BY <1>2
<1>5. \A k \in 1..l : s[k].kind = kinds[k] /\ Sure(s[k])
  BY DEF CameTo
<1> HIDE DEF l, s
<1>6. ASSUME NEW k \in 1..(l + 1)
      PROVE  v.out[k].kind = Append(kinds, o.kind)[k] /\ Sure(v.out[k])
  <2>1. k \in 1..l \/ k = l + 1
    BY <1>2
  <2> QED
    BY <2>1, <1>3, <1>4, <1>5
<1> QED
  BY <1>3, <1>4, <1>6 DEF CameTo

LEMMA InTurn ==
  ASSUME NEW x, NEW y, NEW z
  PROVE  /\ Append(<<>>, x) = <<x>>
         /\ Append(<<x>>, y) = <<x, y>> /\ <<x>> \o <<y>> = <<x, y>> /\ <<x>> \o <<>> = <<x>>
         /\ Append(<<x, y>>, z) = <<x, y, z>>
<1> DEFINE X == {x, y, z}
<1>1. x \in X /\ y \in X /\ z \in X
  OBVIOUS
<1> HIDE DEF X
<1>0. <<x>> \in Seq(X) /\ <<y>> \in Seq(X) /\ <<x, y>> \in Seq(X)
  BY <1>1
<1>2. Append(<<>>, x) = <<x>>
  OBVIOUS
<1>3. ASSUME NEW s \in Seq(X), Len(s) = 2, s[1] = x, s[2] = y
      PROVE  s = <<x, y>>
  BY <1>3
<1>4. Append(<<x>>, y) = <<x, y>>
  <2> DEFINE a == <<x>>
             s == Append(a, y)
  <2>1. a \in Seq(X) /\ Len(a) = 1 /\ a[1] = x
    BY <1>0
  <2> HIDE DEF a
  <2>2. s \in Seq(X) /\ Len(s) = Len(a) + 1
    BY <1>1, <2>1, AppendProperties
  <2>3. s[1] = a[1] /\ s[Len(a) + 1] = y
    <3>1. 1 \in 1..Len(a)
      BY <2>1
    <3> QED
      BY <1>1, <2>1, <3>1, AppendProperties
  <2> HIDE DEF s
  <2>4. s = <<x, y>>
    BY <1>3, <2>1, <2>2, <2>3
  <2> QED
    BY <2>4 DEF s, a
<1>5. <<x>> \o <<y>> = <<x, y>> /\ <<x>> \o <<>> = <<x>>
  <2> DEFINE a == <<x>>
             b == <<y>>
             s == a \o b
  <2>1. a \in Seq(X) /\ Len(a) = 1 /\ a[1] = x /\ b \in Seq(X) /\ Len(b) = 1 /\ b[1] = y
    BY <1>0
  <2> HIDE DEF a, b
  <2>2. a \o <<>> = a
    BY <2>1
  <2>3. s \in Seq(X) /\ Len(s) = Len(a) + Len(b)
    BY <2>1, ConcatProperties
  <2>4. s[1] = a[1] /\ s[Len(a) + 1] = b[1]
    <3>1. \A k \in 1..(Len(a) + Len(b)) :
            s[k] = IF k <= Len(a) THEN a[k] ELSE b[k - Len(a)]
      BY <2>1, ConcatProperties
    <3> HIDE DEF s
    <3>2. s[1] = (IF 1 <= 1 THEN a[1] ELSE b[0]) /\ s[2] = (IF 2 <= 1 THEN a[2] ELSE b[1])
      BY <2>1, <3>1
    <3> QED
      BY <2>1, <3>2
  <2> HIDE DEF s
  <2>5. s = <<x, y>>
    BY <1>3, <2>1, <2>3, <2>4
  <2> QED
    BY <2>2, <2>5 DEF s, a, b
<1>6. Append(<<x, y>>, z) = <<x, y, z>>
  <2> DEFINE a == <<x, y>>
             s == Append(a, z)
  <2>1. a \in Seq(X) /\ Len(a) = 2 /\ a[1] = x /\ a[2] = y
    BY <1>0
  <2> HIDE DEF a
  <2>2. s \in Seq(X) /\ Len(s) = Len(a) + 1
    BY <1>1, <2>1, AppendProperties
  <2>3. s[1] = a[1] /\ s[2] = a[2] /\ s[Len(a) + 1] = z
    <3>1. 1 \in 1..Len(a) /\ 2 \in 1..Len(a)
      BY <2>1
    <3> QED
      BY <1>1, <2>1, <3>1, AppendProperties
  <2> HIDE DEF s
  <2>4. s \in Seq(X) /\ Len(s) = 3 /\ s[1] = x /\ s[2] = y /\ s[3] = z
    BY <2>1, <2>2, <2>3
  <2>5. s = <<x, y, z>>
    BY <2>4
  <2> QED
    BY <2>5 DEF s, a
<1> QED
  BY <1>2, <1>4, <1>5, <1>6

LEMMA KindsInTurn ==
  /\ <<>> \in Seq(Kinds) /\ <<"DragBegin">> \in Seq(Kinds)
  /\ <<"DragBegin", "DragEnd">> \in Seq(Kinds)
<1>1. "DragBegin" \in Kinds /\ "DragEnd" \in Kinds
  BY DEF Kinds
<1> HIDE DEF Kinds
<1> QED
  BY <1>1

LEMMA CameSame ==
  ASSUME NEW n, NEW v, v.out = n.out, NEW kinds, CameTo(n, kinds)
  PROVE  CameTo(v, kinds)
BY DEF CameTo

LEMMA CameNone ==
  ASSUME NEW v, v.out = <<>>
  PROVE  CameTo(v, <<>>)
BY DEF CameTo

\* The pair of a recognizer and the contact after an event.
Result(c, r, n, e) == Known(c, r.g, Noticed(n, e, c, r.out), clock)

LEMMA PressKnown ==
  ASSUME clock \in Nat, NEW c \in Spots, NEW g \in Recognizers, NEW n, NEW e, Presses(e)
  PROVE  /\ Result(c, PointerDown(g, clock, c), n, e)
         /\ Noticed(n, e, c, PointerDown(g, clock, c).out).open
<1> DEFINE x == [t |-> clock, pos |-> c]
           h == PointerDown(g, clock, c).g
           v == Noticed(n, e, c, PointerDown(g, clock, c).out)
<1>1. x \in Samples /\ x.t = clock
  BY DEF Samples
<1>2. /\ h.phase = "pending" /\ h.start = c /\ h.downT = clock /\ h.trail = <<x>>
      /\ h.last = c
  BY DEF PointerDown, Found, Recognizers
<1>3. <<x>> \in Seq(Samples) /\ Len(<<x>>) = 1 /\ <<x>>[1] = x
  BY <1>1
<1> HIDE DEF x
<1>4. h \in Recognizers
  BY <1>3 DEF PointerDown, Found, Recognizers, x
<1>5. v = [Nothing EXCEPT !.open = TRUE, !.since = clock, !.from = c, !.moved = clock]
  BY DEF Noticed
<1>6. /\ v.open = TRUE /\ v.since = clock /\ v.from = c /\ v.moved = clock /\ v.still = TRUE
      /\ v.out = <<>> /\ v \in Contacts
  <2> HIDE DEF v
  <2>1. <<>> \in Seq(Outcomes)
    OBVIOUS
  <2> QED
    BY <1>5, <2>1 DEF Nothing, Contacts
<1> HIDE DEF h, v
<1>7. Tracked(h, v, clock)
  BY <1>1, <1>2, <1>3, <1>6 DEF Tracked
<1>8. Begun(h, v, clock)
  BY <1>2, <1>6, <1>7 DEF Begun
<1>9. Square(h.start, c) <= TapSlop
  BY <1>2, NoDistance
<1>10. Known(c, h, v, clock)
  BY <1>2, <1>4, <1>6, <1>8, <1>9, CameNone DEF Known
<1> QED
  BY <1>6, <1>10 DEF Result, h, v

\* What ends a contact.
LEMMA EndedKnown ==
  ASSUME clock \in Nat, NEW c \in Spots, NEW g \in Recognizers, NEW n \in Contacts, NEW e,
         ~Continues(n, e), NEW all \in Seq(Outcomes), NEW v, v = Goes(n, e, c, all),
         \E kinds \in Over : CameTo(v, kinds)
  PROVE  Known(c, Ended(g), v, clock) /\ ~v.open
<1>1. Ended(g) \in Recognizers /\ Ended(g).phase = "idle"
  <2>1. <<>> \in Seq(Samples)
    OBVIOUS
  <2> QED
    BY <2>1 DEF Ended, Recognizers
<1>2. v \in Contacts /\ ~v.open
  BY GoesTyped
<1> QED
  BY <1>1, <1>2 DEF Known

\* A gesture that comes of a contact that is on.
LEMMA MarkSure ==
  ASSUME clock \in Nat, NEW n \in Contacts, n.open, NEW e, NEW c, NEW x, Gestured(x),
         x.kind \in {"Tap", "LongPress"} <=> Seen(n, e, c).still,
         x.kind = "LongPress" => clock - n.since >= LongPressAt,
         x.kind = "Fling" => clock - Seen(n, e, c).moved <= Window
  PROVE  /\ Mark(n, e, c, x.kind) \in Outcomes /\ Sure(Mark(n, e, c, x.kind))
         /\ Mark(n, e, c, x.kind).kind = x.kind
<1> DEFINE o == Mark(n, e, c, x.kind)
<1>1. o \in Outcomes
  BY MarkTyped
<1>2. /\ o.kind = x.kind /\ o.on = n.open /\ o.still = Seen(n, e, c).still
      /\ (o.held <=> clock - n.since >= LongPressAt)
      /\ (o.moving <=> clock - Seen(n, e, c).moved <= Window)
  BY DEF Mark
<1> HIDE DEF o
<1> QED
  BY <1>1, <1>2 DEF Sure, o


\* The samples of a fling say that the contact moved lately.
LEMMA FlingMoved ==
  ASSUME NEW t \in Nat, NEW c \in Spots, NEW g \in Recognizers, NEW n \in Contacts,
         Tracked(g, n, t), IsFling(Pushed(g, t, c).trail)
  PROVE  t - n.moved <= Window
<1> DEFINE trail == Pushed(g, t, c).trail
           l == Len(trail)
           m == n.moved
<1>1. /\ trail \in Seq(Samples) /\ l > 0 /\ trail[l].t = t /\ trail[1].t >= t - Window
      /\ \A k \in 1..l : trail[k].t = t \/ In(trail[k], g.trail)
  BY PushedSamples DEF Recognizers
<1>2. Head(trail) = trail[1] /\ Last(trail) = trail[l] /\ l \in Nat
  BY <1>1 DEF Last
<1>3. Last(trail).t - Head(trail).t > 0
  BY DEF IsFling
<1> HIDE DEF trail, l
<1>4. 1 \in 1..l /\ trail[1].t \in Nat
  <2> USE DEF l
  <2>1. 1 \in 1..l
    BY <1>1, <1>2
  <2>2. trail[1] \in Samples
    BY <1>1, <2>1
  <2> QED
    BY <2>1, <2>2 DEF Samples
<1>5. trail[1].t < t
  <2>1. trail[l].t - trail[1].t > 0
    BY <1>2, <1>3
  <2> QED
    BY <1>1, <1>4, <2>1
<1>6. PICK k \in 1..Len(g.trail) : g.trail[k] = trail[1]
  BY <1>1, <1>4, <1>5 DEF In
<1>7. trail[1].t <= m
  BY <1>6 DEF Tracked
<1>8. m \in Nat
  BY DEF Contacts
<1> HIDE DEF m
<1>9. t - m <= Window
  BY <1>1, <1>4, <1>7, <1>8, GestureAssumption
<1> QED
  BY <1>9 DEF m

LEMMA ReleaseKnown ==
  ASSUME clock \in Nat, NEW c, NEW g, NEW n, Known(c, g, n, clock), NEW e, Releases(e)
  PROVE  /\ Result(c, PointerUp(g, clock, c), n, e)
         /\ ~Noticed(n, e, c, PointerUp(g, clock, c).out).open
<1> DEFINE r == PointerUp(g, clock, c)
           p == Pushed(g, clock, c)
           v == Noticed(n, e, c, r.out)
           out == n.out
<1>1. ~Presses(e) /\ ~Continues(n, e) /\ ~Moves(e)
  BY DEF Presses, Releases, Continues, Moves
<1>2. c \in Spots /\ g \in Recognizers /\ n \in Contacts /\ out \in Seq(Outcomes)
  BY DEF Known, Contacts
<1>3. Seen(n, e, c).moved = n.moved /\ Seen(n, e, c).still = n.still /\ n.still \in BOOLEAN
  BY <1>1, <1>2, SeenTyped DEF Contacts
<1>4. ASSUME NEW all \in Seq(Outcomes), v = Goes(n, e, c, all), r.g = Ended(g),
             \E kinds \in Over : CameTo(v, kinds)
      PROVE  Known(c, r.g, v, clock) /\ ~v.open
  BY <1>1, <1>2, <1>4, EndedKnown
<1>5. CASE g.phase \in {"idle", "longPressed"}
  <2>1. r.g = Ended(g) /\ r.out = <<>>
    BY <1>5 DEF PointerUp, Found
  <2>2. v = Goes(n, e, c, out)
    BY <1>1, <1>2, <2>1, NoticedNone
  <2>3. v.out = n.out
    BY <1>2, <2>2, GoesTyped
  <2>4. \E kinds \in Over : CameTo(n, kinds)
    BY <1>5 DEF Known, Over
  <2> HIDE DEF v, r
  <2>5. \E kinds \in Over : CameTo(v, kinds)
    BY <2>3, <2>4, CameSame
  <2> QED
    BY <1>2, <1>4, <2>1, <2>2, <2>5 DEF Result, v, r
<1>6. CASE g.phase = "pending"
  <2> DEFINE x == [kind |-> "Tap", pos |-> c]
             o == Mark(n, e, c, x.kind)
  <2>1. r.g = Ended(g) /\ r.out = <<x>>
    BY <1>6 DEF PointerUp, Found, Known
  <2>2. Gestured(x) /\ x.kind = "Tap" /\ n.open /\ n.still
    BY <1>6 DEF Gestured, Kinds, Known
  <2> HIDE DEF x
  <2>3. o \in Outcomes /\ Sure(o) /\ o.kind = "Tap"
    BY <1>2, <1>3, <2>2, MarkSure
  <2>4. v = Goes(n, e, c, Append(out, o))
    BY <1>1, <1>2, <2>1, <2>2, NoticedOne
  <2> HIDE DEF o, v, r, out
  <2>5. Append(out, o) \in Seq(Outcomes)
    BY <1>2, <2>3
  <2>6. v.out = Append(out, o)
    <3> DEFINE all == Append(out, o)
    <3>1. v = Goes(n, e, c, all) /\ all \in Seq(Outcomes)
      BY <2>4, <2>5
    <3> HIDE DEF all
    <3>2. v.out = all
      BY <1>2, <3>1, GoesTyped
    <3> QED
      BY <3>2 DEF all
  <2>7. CameTo(v, <<"Tap">>)
    <3>1. CameTo(n, <<>>) /\ <<>> \in Seq(Kinds) /\ Append(<<>>, "Tap") = <<"Tap">>
      BY <1>6, KindsInTurn, InTurn DEF Known
    <3>2. v.out = Append(n.out, o)
      BY <2>6 DEF out
    <3>3. CameTo(v, Append(<<>>, o.kind))
      BY <1>2, <2>3, <3>1, <3>2, CameMore
    <3> QED
      BY <2>3, <3>1, <3>3
  <2> QED
    BY <1>4, <2>1, <2>4, <2>5, <2>7 DEF Result, v, r, Over
<1>7. CASE g.phase = "dragging"
  <2> DEFINE x == [kind |-> "DragEnd", pos |-> c]
             y == [kind |-> "Fling", pos |-> c]
             o == Mark(n, e, c, x.kind)
             f == Mark(n, e, c, y.kind)
             fling == IsFling(p.trail)
  <2>1. r.g = Ended(g) /\ r.out = IF fling THEN <<x, y>> ELSE <<x>>
    <3> DEFINE end == <<x>> \o IF fling THEN <<y>> ELSE <<>>
    <3>1. r = Found(Ended(g), end)
      BY <1>7 DEF PointerUp
    <3>2. end = IF fling THEN <<x, y>> ELSE <<x>>
      <4> HIDE DEF fling, x, y
      <4>1. <<x>> \o <<y>> = <<x, y>> /\ <<x>> \o <<>> = <<x>>
        BY InTurn
      <4> QED
        BY <4>1
    <3> HIDE DEF end, fling, x, y
    <3> QED
      BY <3>1, <3>2 DEF Found
  <2>2. /\ Gestured(x) /\ x.kind = "DragEnd" /\ Gestured(y) /\ y.kind = "Fling"
        /\ n.open /\ ~n.still /\ Tracked(g, n, clock)
    BY <1>7 DEF Gestured, Kinds, Known, Begun
  <2> HIDE DEF x, y
  <2>3. o \in Outcomes /\ Sure(o) /\ o.kind = "DragEnd"
    BY <1>2, <1>3, <2>2, MarkSure
  <2>4. fling => f \in Outcomes /\ Sure(f) /\ f.kind = "Fling"
    <3>1. fling => clock - n.moved <= Window
      BY <1>2, <2>2, FlingMoved
    <3> HIDE DEF fling
    <3> QED
      BY <1>2, <1>3, <2>2, <3>1, MarkSure
  <2>5. /\ fling => v = Goes(n, e, c, Append(Append(out, o), f))
        /\ ~fling => v = Goes(n, e, c, Append(out, o))
    <3> HIDE DEF fling
    <3>1. CASE fling
      BY <1>1, <1>2, <2>1, <2>2, <3>1, NoticedTwo
    <3>2. CASE ~fling
      BY <1>1, <1>2, <2>1, <2>2, <3>2, NoticedOne
    <3> QED
      BY <3>1, <3>2
  <2> HIDE DEF o, f, v, r, out, fling
  <2> DEFINE u == [n EXCEPT !.out = Append(out, o)]
  <2>6. /\ Append(out, o) \in Seq(Outcomes)
        /\ fling => Append(Append(out, o), f) \in Seq(Outcomes)
    BY <1>2, <2>3, <2>4
  <2>7. u \in Contacts /\ u.out = Append(out, o)
    BY <1>2, <2>6 DEF Contacts
  <2> HIDE DEF u
  <2>8. CameTo(u, <<"DragBegin", "DragEnd">>)
    <3>1. CameTo(n, <<"DragBegin">>)
      BY <1>7 DEF Known
    <3>2. <<"DragBegin">> \in Seq(Kinds) /\ Append(<<"DragBegin">>, "DragEnd") = <<"DragBegin", "DragEnd">>
      BY KindsInTurn, InTurn
    <3>3. CameTo(u, Append(<<"DragBegin">>, o.kind))
      BY <1>2, <2>3, <2>7, <3>1, <3>2, CameMore DEF out
    <3> QED
      BY <2>3, <3>2, <3>3
  <2>9. CASE ~fling
    <3>0. v = Goes(n, e, c, u.out) /\ u.out \in Seq(Outcomes)
      BY <2>5, <2>6, <2>7, <2>9
    <3>1. v.out = u.out
      BY <1>2, <3>0, GoesTyped
    <3>2. CameTo(v, <<"DragBegin", "DragEnd">>)
      BY <2>8, <3>1, CameSame
    <3> QED
      BY <1>4, <2>1, <2>5, <2>6, <2>9, <3>2 DEF Result, v, r, Over
  <2>10. CASE fling
    <3>0. v = Goes(n, e, c, Append(u.out, f)) /\ Append(u.out, f) \in Seq(Outcomes)
      BY <2>5, <2>6, <2>7, <2>10
    <3>1. v.out = Append(u.out, f)
      <4> DEFINE all == Append(u.out, f)
      <4>1. v = Goes(n, e, c, all) /\ all \in Seq(Outcomes)
        BY <3>0
      <4> HIDE DEF all
      <4>2. v.out = all
        BY <1>2, <4>1, GoesTyped
      <4> QED
        BY <4>2 DEF all
    <3>2. /\ <<"DragBegin", "DragEnd">> \in Seq(Kinds)
          /\ Append(<<"DragBegin", "DragEnd">>, "Fling") = <<"DragBegin", "DragEnd", "Fling">>
      BY KindsInTurn, InTurn
    <3>3. CameTo(v, Append(<<"DragBegin", "DragEnd">>, f.kind))
      BY <2>4, <2>7, <2>8, <2>10, <3>1, <3>2, CameMore
    <3>4. CameTo(v, <<"DragBegin", "DragEnd", "Fling">>)
      BY <2>4, <2>10, <3>2, <3>3
    <3> QED
      BY <1>4, <2>1, <2>5, <2>6, <2>10, <3>4 DEF Result, v, r, Over
  <2> QED
    BY <2>9, <2>10
<1> QED
  BY <1>2, <1>5, <1>6, <1>7 DEF Recognizers

\* After an event of which no gesture comes, and after one of which one comes.
Follows(n, e, c, v) ==
  /\ v \in Contacts /\ (v.open <=> Continues(n, e))
  /\ Continues(n, e) =>
       /\ v.since = n.since /\ v.from = n.from
       /\ v.moved = (IF Moves(e) THEN clock ELSE n.moved)
       /\ v.still <=> n.still /\ (Moves(e) => Square(n.from, c) <= TapSlop)

LEMMA GoesFollows ==
  ASSUME clock \in Nat, NEW n \in Contacts, NEW e, NEW c, NEW all \in Seq(Outcomes),
         NEW v, v = Goes(n, e, c, all)
  PROVE  Follows(n, e, c, v) /\ v.out = all
<1>1. /\ v \in Contacts /\ v.out = all /\ (v.open <=> Continues(n, e))
      /\ Continues(n, e) =>
           /\ v.since = n.since /\ v.from = n.from
           /\ v.moved = Seen(n, e, c).moved /\ v.still = Seen(n, e, c).still
  BY GoesTyped
<1>2. /\ Seen(n, e, c).moved = (IF Moves(e) THEN clock ELSE n.moved)
      /\ Seen(n, e, c).still = (n.still /\ (Moves(e) => Square(n.from, c) <= TapSlop))
  BY SeenTyped
<1> QED
  BY <1>1, <1>2 DEF Follows

LEMMA NoMore ==
  ASSUME clock \in Nat, NEW n \in Contacts, NEW e, NEW c, ~Presses(e), NEW out,
         out = <<>> \/ \E x : x.kind = "DragUpdate" /\ out = <<x>>,
         NEW v, v = Noticed(n, e, c, out)
  PROVE  Follows(n, e, c, v) /\ v.out = n.out
<1> DEFINE all == n.out
<1>1. all \in Seq(Outcomes)
  BY DEF Contacts
<1>2. v = Goes(n, e, c, all)
  BY NoticedNone
<1> HIDE DEF all
<1>3. Follows(n, e, c, v) /\ v.out = all
  BY <1>1, <1>2, GoesFollows
<1> QED
  BY <1>3 DEF all

LEMMA OneMore ==
  ASSUME clock \in Nat, NEW n \in Contacts, n.open, NEW e, NEW c, ~Presses(e), NEW out,
         NEW x, Gestured(x), out = <<x>> \/ \E y : y.kind = "DragUpdate" /\ out = <<x, y>>,
         x.kind \in {"Tap", "LongPress"} <=> Seen(n, e, c).still,
         x.kind = "LongPress" => clock - n.since >= LongPressAt, x.kind # "Fling",
         NEW kinds \in Seq(Kinds), CameTo(n, kinds),
         NEW v, v = Noticed(n, e, c, out)
  PROVE  Follows(n, e, c, v) /\ CameTo(v, Append(kinds, x.kind))
<1> DEFINE o == Mark(n, e, c, x.kind)
           all == Append(n.out, o)
<1>1. o \in Outcomes /\ Sure(o) /\ o.kind = x.kind
  BY MarkSure
<1>2. v = Goes(n, e, c, all)
  BY NoticedOne
<1> HIDE DEF o
<1>3. all \in Seq(Outcomes)
  BY <1>1 DEF Contacts
<1> HIDE DEF all
<1>4. Follows(n, e, c, v) /\ v.out = all
  BY <1>2, <1>3, GoesFollows
<1>5. v.out = Append(n.out, o)
  BY <1>4 DEF all
<1>6. CameTo(v, Append(kinds, o.kind))
  BY <1>1, <1>5, CameMore
<1> QED
  BY <1>1, <1>4, <1>6

LEMMA CancelKnown ==
  ASSUME clock \in Nat, NEW c, NEW g, NEW n, Known(c, g, n, clock), NEW e, e.kind = "cancel"
  PROVE  /\ Result(c, Cancel(g), n, e)
         /\ ~Noticed(n, e, c, Cancel(g).out).open
<1> DEFINE r == Cancel(g)
           v == Noticed(n, e, c, r.out)
<1>1. ~Presses(e) /\ ~Continues(n, e) /\ ~Moves(e)
  BY DEF Presses, Continues, Moves
<1>2. c \in Spots /\ g \in Recognizers /\ n \in Contacts
  BY DEF Known
<1>3. Seen(n, e, c).still = n.still /\ n.still \in BOOLEAN
  BY <1>1, <1>2, SeenTyped DEF Contacts
<1>4. r.g = Ended(g)
  BY DEF Cancel, Found
<1>5. Ended(g) \in Recognizers /\ Ended(g).phase = "idle"
  <2>1. <<>> \in Seq(Samples)
    OBVIOUS
  <2> QED
    BY <1>2, <2>1 DEF Ended, Recognizers
<1>6. ASSUME Follows(n, e, c, v), \E kinds \in Over : CameTo(v, kinds)
      PROVE  Known(c, r.g, v, clock) /\ ~v.open
  <2> HIDE DEF v, r
  <2> QED
    BY <1>1, <1>2, <1>4, <1>5, <1>6 DEF Follows, Known
<1>7. CASE g.phase # "dragging"
  <2>1. r.out = <<>>
    BY <1>7 DEF Cancel, Found
  <2>2. Follows(n, e, c, v) /\ v.out = n.out
    BY <1>1, <1>2, <2>1, NoMore
  <2>3. \E kinds \in Over : CameTo(n, kinds)
    BY <1>2, <1>7 DEF Known, Over, Recognizers
  <2> HIDE DEF v, r
  <2>4. \E kinds \in Over : CameTo(v, kinds)
    BY <2>2, <2>3, CameSame
  <2> QED
    BY <1>6, <2>2, <2>4 DEF Result, v, r
<1>8. CASE g.phase = "dragging"
  <2> DEFINE x == [kind |-> "DragEnd", pos |-> g.last]
  <2>1. r.out = <<x>>
    BY <1>8 DEF Cancel, Found
  <2>2. Gestured(x) /\ x.kind = "DragEnd" /\ n.open /\ ~n.still /\ CameTo(n, <<"DragBegin">>)
    BY <1>8 DEF Gestured, Kinds, Known
  <2> HIDE DEF x
  <2>3. Follows(n, e, c, v) /\ CameTo(v, Append(<<"DragBegin">>, x.kind))
    BY <1>1, <1>2, <1>3, <2>1, <2>2, KindsInTurn, OneMore
  <2> HIDE DEF v, r
  <2>4. CameTo(v, <<"DragBegin", "DragEnd">>)
    BY <2>2, <2>3, InTurn
  <2> QED
    BY <1>6, <2>3, <2>4 DEF Result, v, r, Over
<1> QED
  BY <1>7, <1>8

\* What a phase says of the contact, and what an event that does not end it keeps
\* of the recognizer.
CameOf(c, h, v) ==
  /\ h.phase = "pending" => CameTo(v, <<>>) /\ v.still /\ Square(h.start, c) <= TapSlop
  /\ h.phase = "dragging" => CameTo(v, <<"DragBegin">>) /\ ~v.still
  /\ h.phase = "longPressed" => CameTo(v, <<"LongPress">>)

Carries(g, h, e) ==
  /\ g.phase = "idle" <=> h.phase = "idle"
  /\ h.start = g.start /\ h.downT = g.downT
  /\ \A k \in 1..Len(h.trail) : (Moves(e) /\ h.trail[k].t = clock) \/ In(h.trail[k], g.trail)

\* What lets a contact go on.
LEMMA GoesOnKnown ==
  ASSUME clock \in Nat, NEW c \in Spots, NEW g, NEW n, NEW e, NEW v,
         NEW h \in Recognizers, NEW b, Known(b, g, n, clock), Follows(n, e, c, v),
         Continues(n, e) <=> n.open,
         Carries(g, h, e), h.phase = "idle" => v.out = n.out, CameOf(c, h, v)
  PROVE  Known(c, h, v, clock) /\ v.open = n.open
<1>1. /\ v \in Contacts /\ (v.open <=> n.open)
      /\ n.open => /\ v.since = n.since /\ v.from = n.from
                   /\ v.moved = (IF Moves(e) THEN clock ELSE n.moved)
  BY DEF Follows
<1>2. n \in Contacts /\ (n.open <=> g.phase # "idle") /\ (n.open => Begun(g, n, clock))
  BY DEF Known
<1>3. n.open = v.open
  BY <1>1, <1>2 DEF Contacts
<1>4. ASSUME n.open PROVE Begun(h, v, clock)
  <2>1. /\ n.from = g.start /\ n.since = g.downT /\ n.moved <= clock /\ n.moved \in Nat
        /\ \A k \in 1..Len(g.trail) : g.trail[k].t <= n.moved
    BY <1>2, <1>4 DEF Begun, Tracked, Contacts
  <2>2. v.moved <= clock /\ n.moved <= v.moved /\ v.moved \in Nat
    BY <1>1, <1>4, <2>1
  <2>3. ASSUME NEW k \in 1..Len(h.trail) PROVE h.trail[k].t <= v.moved
    <3>1. CASE Moves(e) /\ h.trail[k].t = clock
      BY <1>1, <1>4, <3>1
    <3>2. CASE In(h.trail[k], g.trail)
      <4>1. h.trail[k].t <= n.moved
        BY <2>1, <3>2 DEF In
      <4>2. h.trail[k].t \in Nat
        <5>1. h.trail \in Seq(Samples)
          BY DEF Recognizers
        <5>2. h.trail[k] \in Samples
          BY <5>1
        <5> QED
          BY <5>2 DEF Samples
      <4> QED
        BY <2>1, <2>2, <4>1, <4>2
    <3> QED
      BY <3>1, <3>2 DEF Carries
  <2> QED
    BY <1>1, <1>4, <2>1, <2>2, <2>3 DEF Begun, Tracked, Carries
<1>5. h.phase = "idle" => \E kinds \in Over : CameTo(v, kinds)
  <2>1. h.phase = "idle" => \E kinds \in Over : CameTo(n, kinds)
    BY DEF Known, Carries
  <2> QED
    BY <2>1, CameSame
<1> QED
  BY <1>1, <1>2, <1>3, <1>4, <1>5 DEF Known, CameOf, Carries


\* What a recognizer finds keeps what is known, where its samples are as they were.
LEMMA MoveKnown ==
  ASSUME clock \in Nat, NEW b, NEW g, NEW n, Known(b, g, n, clock), NEW c \in Spots,
         NEW e, Moves(e)
  PROVE  /\ Result(c, PointerMove(g, clock, c), n, e)
         /\ Noticed(n, e, c, PointerMove(g, clock, c).out).open = n.open
<1> DEFINE r == PointerMove(g, clock, c)
           p == Pushed(g, clock, c)
           v == Noticed(n, e, c, r.out)
<1>1. ~Presses(e) /\ (Continues(n, e) <=> n.open)
  BY DEF Presses, Continues, Moves, Releases
<1>2. g \in Recognizers /\ n \in Contacts
  BY DEF Known
<1>3. /\ p \in Recognizers /\ p.phase = g.phase /\ p.start = g.start /\ p.downT = g.downT
      /\ \A k \in 1..Len(p.trail) : p.trail[k].t = clock \/ In(p.trail[k], g.trail)
  BY <1>2, PushedSamples
<1>4. n.open => n.from = g.start
  BY DEF Known, Begun
<1> HIDE DEF p
<1>5. Carries(g, g, e)
  BY DEF In, Carries
<1>6. CASE g.phase \in {"idle", "longPressed"}
  <2>1. r.g = g /\ r.out = <<>>
    BY <1>6 DEF PointerMove, Found
  <2>2. Follows(n, e, c, v) /\ v.out = n.out
    BY <1>1, <1>2, <2>1, NoMore
  <2>3. g.phase = "longPressed" => CameTo(n, <<"LongPress">>)
    BY DEF Known
  <2> HIDE DEF r, v
  <2>4. CameOf(c, g, v)
    BY <1>6, <2>2, <2>3, CameSame DEF CameOf
  <2>5. Known(c, g, v, clock) /\ v.open = n.open
    BY <1>1, <1>2, <1>5, <2>2, <2>4, GoesOnKnown
  <2> QED
    BY <2>1, <2>5 DEF Result, v, r
<1>7. CASE g.phase = "dragging"
  <2> DEFINE x == [kind |-> "DragUpdate", pos |-> c]
             h == [p EXCEPT !.last = c]
  <2>1. r.g = h /\ r.out = <<x>> /\ x.kind = "DragUpdate"
    BY <1>7 DEF PointerMove, Found, p
  <2> HIDE DEF x
  <2>2. Follows(n, e, c, v) /\ v.out = n.out
    BY <1>1, <1>2, <2>1, NoMore
  <2>3. CameTo(n, <<"DragBegin">>) /\ ~n.still /\ n.open
    BY <1>7 DEF Known
  <2>4. /\ h \in Recognizers /\ h.phase = "dragging" /\ h.start = g.start /\ h.downT = g.downT
        /\ h.trail = p.trail
    BY <1>3, <1>7 DEF Recognizers
  <2> HIDE DEF r, v, h
  <2>5. CameOf(c, h, v)
    BY <1>1, <2>2, <2>3, <2>4, CameSame DEF Follows, CameOf
  <2>6. Carries(g, h, e)
    BY <1>3, <1>7, <2>4 DEF Carries
  <2>7. Known(c, h, v, clock) /\ v.open = n.open
    BY <1>1, <2>2, <2>4, <2>5, <2>6, GoesOnKnown
  <2> QED
    BY <2>1, <2>7 DEF Result, v, r
<1>8. CASE g.phase = "pending" /\ Square(g.start, c) > TapSlop
  <2> DEFINE x == [kind |-> "DragBegin", pos |-> g.start]
             y == [kind |-> "DragUpdate", pos |-> c]
             h == [p EXCEPT !.phase = "dragging", !.last = c]
  <2>1. r.g = h /\ r.out = <<x, y>> /\ x.kind = "DragBegin" /\ y.kind = "DragUpdate" /\ Gestured(x)
    BY <1>8 DEF PointerMove, Found, p, Gestured, Kinds
  <2> HIDE DEF x, y
  <2>2. CameTo(n, <<>>) /\ n.open
    BY <1>8 DEF Known
  <2>3. ~(Square(g.start, c) <= TapSlop)
    <3>1. Square(g.start, c) \in Int
      BY <1>2 DEF Square, Recognizers, Spots, Axes
    <3> QED
      BY <1>8, <3>1, GestureAssumption
  <2>4. ~Seen(n, e, c).still
    BY <1>2, <1>4, <2>2, <2>3, SeenTyped
  <2>5. Follows(n, e, c, v) /\ CameTo(v, Append(<<>>, x.kind))
    BY <1>1, <1>2, <2>1, <2>2, <2>4, KindsInTurn, OneMore
  <2>6. /\ h \in Recognizers /\ h.phase = "dragging" /\ h.start = g.start /\ h.downT = g.downT
        /\ h.trail = p.trail
    BY <1>3, <1>8 DEF Recognizers
  <2> HIDE DEF r, v, h
  <2>7. CameTo(v, <<"DragBegin">>)
    BY <2>1, <2>5, InTurn
  <2>8. ~v.still
    BY <1>1, <1>4, <2>2, <2>3, <2>5 DEF Follows
  <2>9. CameOf(c, h, v)
    BY <2>6, <2>7, <2>8 DEF CameOf
  <2>10. Carries(g, h, e) /\ h.phase # "idle"
    BY <1>3, <1>8, <2>6 DEF Carries
  <2>11. Known(c, h, v, clock) /\ v.open = n.open
    BY <1>1, <2>5, <2>6, <2>9, <2>10, GoesOnKnown
  <2> QED
    BY <2>1, <2>11 DEF Result, v, r
<1>9. CASE g.phase = "pending" /\ ~(Square(g.start, c) > TapSlop)
  <2>1. r.g = p /\ r.out = <<>>
    BY <1>9 DEF PointerMove, Found, p
  <2>2. Follows(n, e, c, v) /\ v.out = n.out
    BY <1>1, <1>2, <2>1, NoMore
  <2>3. CameTo(n, <<>>) /\ n.still /\ n.open
    BY <1>9 DEF Known
  <2>4. Square(g.start, c) <= TapSlop
    <3>1. Square(g.start, c) \in Int
      BY <1>2 DEF Square, Recognizers, Spots, Axes
    <3> QED
      BY <1>9, <3>1, GestureAssumption
  <2> HIDE DEF r, v
  <2>5. CameTo(v, <<>>) /\ v.still
    BY <1>1, <1>4, <2>2, <2>3, <2>4, CameSame DEF Follows
  <2>6. CameOf(c, p, v)
    BY <1>3, <1>9, <2>4, <2>5 DEF CameOf
  <2>7. Carries(g, p, e)
    BY <1>3 DEF Carries
  <2>8. Known(c, p, v, clock) /\ v.open = n.open
    BY <1>1, <1>3, <2>2, <2>6, <2>7, GoesOnKnown
  <2> QED
    BY <2>1, <2>8 DEF Result, v, r
<1> QED
  BY <1>2, <1>6, <1>7, <1>8, <1>9 DEF Recognizers

\* What is no press, release, motion or cancel is nothing to the recognizer.
LEMMA OtherKnown ==
  ASSUME clock \in Nat, NEW c, NEW g, NEW n, Known(c, g, n, clock), NEW e,
         ~Presses(e), ~Releases(e), ~Moves(e), e.kind # "cancel"
  PROVE  /\ Result(c, Found(g, <<>>), n, e)
         /\ Noticed(n, e, c, Found(g, <<>>).out).open = n.open
<1> DEFINE v == Noticed(n, e, c, <<>>)
<1>1. Continues(n, e) <=> n.open
  BY DEF Continues
<1>2. g \in Recognizers /\ n \in Contacts /\ c \in Spots
  BY DEF Known
<1>3. Carries(g, g, e)
  BY DEF In, Carries
<1>4. Follows(n, e, c, v) /\ v.out = n.out
  BY <1>2, NoMore
<1> HIDE DEF v
<1>5. CameOf(c, g, v)
  <2>1. n.open <=> g.phase # "idle"
    BY DEF Known
  <2>2. n.open => (v.still <=> n.still)
    BY <1>1, <1>4 DEF Follows
  <2>3. /\ g.phase = "pending" => CameTo(n, <<>>) /\ n.still /\ Square(g.start, c) <= TapSlop
        /\ g.phase = "dragging" => CameTo(n, <<"DragBegin">>) /\ ~n.still
        /\ g.phase = "longPressed" => CameTo(n, <<"LongPress">>)
    BY DEF Known
  <2>4. \A kinds : CameTo(n, kinds) => CameTo(v, kinds)
    BY <1>4, CameSame
  <2> QED
    BY <2>1, <2>2, <2>3, <2>4 DEF CameOf
<1>6. Known(c, g, v, clock) /\ v.open = n.open
  BY <1>1, <1>2, <1>3, <1>4, <1>5, GoesOnKnown
<1> QED
  BY <1>6 DEF Result, Found, v

\* The frame clock.
LEMMA TickKnown ==
  ASSUME clock \in Nat, NEW c, NEW g, NEW n, Known(c, g, n, clock), NEW e, e.kind = "tick"
  PROVE  /\ Result(c, Poll(g, clock), n, e)
         /\ Noticed(n, e, c, Poll(g, clock).out).open = n.open
<1> DEFINE r == Poll(g, clock)
           v == Noticed(n, e, c, r.out)
<1>1. ~Presses(e) /\ ~Releases(e) /\ ~Moves(e) /\ (Continues(n, e) <=> n.open) /\ e.kind # "cancel"
  BY DEF Presses, Continues, Moves, Releases
<1>2. g \in Recognizers /\ n \in Contacts /\ c \in Spots
  BY DEF Known
<1>3. CASE ~(g.phase = "pending" /\ clock - g.downT >= LongPressAt)
  <2>1. r = Found(g, <<>>)
    BY <1>3 DEF Poll
  <2> HIDE DEF r
  <2> QED
    BY <1>1, <2>1, OtherKnown DEF r
<1>4. CASE g.phase = "pending" /\ clock - g.downT >= LongPressAt
  <2> DEFINE x == [kind |-> "LongPress", pos |-> g.start]
             h == [g EXCEPT !.phase = "longPressed"]
  <2>1. r.g = h /\ r.out = <<x>> /\ x.kind = "LongPress" /\ Gestured(x)
    BY <1>4 DEF Poll, Found, Gestured, Kinds
  <2> HIDE DEF x
  <2>2. CameTo(n, <<>>) /\ n.open /\ n.still /\ n.since = g.downT
    BY <1>4 DEF Known, Begun
  <2>3. Seen(n, e, c).still
    BY <1>1, <1>2, <2>2, SeenTyped
  <2>4. Follows(n, e, c, v) /\ CameTo(v, Append(<<>>, x.kind))
    BY <1>1, <1>2, <1>4, <2>1, <2>2, <2>3, KindsInTurn, OneMore
  <2>5. /\ h \in Recognizers /\ h.phase = "longPressed" /\ h.start = g.start /\ h.downT = g.downT
        /\ h.trail = g.trail
    BY <1>2, <1>4 DEF Recognizers
  <2> HIDE DEF r, v, h
  <2>6. CameTo(v, <<"LongPress">>)
    BY <2>1, <2>4, InTurn
  <2>7. Carries(g, h, e) /\ h.phase # "idle"
    BY <1>4, <2>5 DEF Carries, In
  <2>8. CameOf(c, h, v)
    BY <2>5, <2>6 DEF CameOf
  <2>9. Known(c, h, v, clock) /\ v.open = n.open
    BY <1>1, <1>2, <2>4, <2>5, <2>7, <2>8, GoesOnKnown
  <2> QED
    BY <2>1, <2>9 DEF Result, v, r
<1> QED
  BY <1>3, <1>4


-----------------------------------------------------------------------------
(* handle_input, event by event.                                           *)

KnownIn(s) == Known(s.cursor, s.g, s.told, clock)

\* Whether there is a contact after an event, where o says if there was one.
Opened(o, e) == Presses(e) \/ (o /\ ~Releases(e) /\ e.kind # "cancel")

LEMMA HandledKnown ==
  ASSUME clock \in Nat, NEW s, KnownIn(s), NEW e \in Events
  PROVE  KnownIn(Handled(s, e)) /\ (Handled(s, e).told.open <=> Opened(s.told.open, e))
<1> DEFINE b == s.cursor
           g == s.g
           n == s.told
           c == CursorAfter(b, e)
           r == Recognized(g, e, c)
           v == Noticed(n, e, c, r.out)
<1>1. Handled(s, e).cursor = c /\ Handled(s, e).g = r.g /\ Handled(s, e).told = v
  BY DEF Handled
<1>2. Known(b, g, n, clock)
  BY DEF KnownIn
<1> HIDE DEF b, g, n
<1>3. b \in Spots /\ g \in Recognizers /\ n \in Contacts
  BY <1>2 DEF Known
<1>4. c \in Spots /\ (~Moves(e) /\ ~Presses(e) => c = b)
  BY <1>3, CursorSpot
<1> HIDE DEF c
<1> SUFFICES Result(c, r, n, e) /\ (v.open <=> Opened(n.open, e))
  BY <1>1 DEF KnownIn, Result, n
<1>5. CASE Presses(e)
  <2>1. ~Releases(e) /\ ~Moves(e) /\ e.kind # "cancel"
    BY <1>5 DEF Presses, Releases, Moves
  <2>2. r = PointerDown(g, clock, c)
    BY <1>5, <2>1 DEF Recognized
  <2> HIDE DEF r
  <2> QED
    BY <1>3, <1>4, <1>5, <2>2, PressKnown DEF Opened
<1>6. CASE Releases(e)
  <2>1. ~Presses(e) /\ ~Moves(e) /\ e.kind # "cancel"
    BY <1>6 DEF Presses, Releases, Moves
  <2>2. r = PointerUp(g, clock, c)
    BY <1>6, <2>1 DEF Recognized
  <2> HIDE DEF r
  <2>3. Known(c, g, n, clock)
    BY <1>2, <1>4, <2>1
  <2> QED
    BY <1>6, <2>1, <2>2, <2>3, ReleaseKnown DEF Opened
<1>7. CASE Moves(e)
  <2>1. ~Presses(e) /\ ~Releases(e) /\ e.kind # "cancel"
    BY <1>7 DEF Presses, Releases, Moves
  <2>2. r = PointerMove(g, clock, c)
    BY <1>7, <2>1 DEF Recognized
  <2> HIDE DEF r
  <2> QED
    BY <1>2, <1>4, <1>7, <2>1, <2>2, MoveKnown DEF Opened
<1>8. CASE e.kind = "cancel"
  <2>1. ~Presses(e) /\ ~Releases(e) /\ ~Moves(e)
    BY <1>8 DEF Presses, Releases, Moves
  <2>2. r = Cancel(g)
    BY <1>8, <2>1 DEF Recognized
  <2> HIDE DEF r
  <2>3. Known(c, g, n, clock)
    BY <1>2, <1>4, <2>1
  <2> QED
    BY <1>8, <2>1, <2>2, <2>3, CancelKnown DEF Opened
<1>9. CASE ~Presses(e) /\ ~Releases(e) /\ ~Moves(e) /\ e.kind # "cancel"
  <2>1. r = Found(g, <<>>)
    BY <1>9 DEF Recognized
  <2> HIDE DEF r
  <2>2. Known(c, g, n, clock)
    BY <1>2, <1>4, <1>9
  <2> QED
    BY <1>9, <2>1, <2>2, OtherKnown DEF Opened
<1> QED
  BY <1>5, <1>6, <1>7, <1>8, <1>9

\* The events of a packet in turn: a function of how many were handled.
DoneTo(f, events, n) ==
  f = [k \in 0..n |-> IF k = 0 THEN Here ELSE Handled(f[k - 1], events[k])]

LEMMA AfterFunction ==
  ASSUME NEW events \in Seq(Events)
  PROVE  \E done : /\ done[0] = Here /\ After(events) = done[Len(events)]
                   /\ \A k \in 1..Len(events) : done[k] = Handled(done[k - 1], events[k])
<1> DEFINE N == Len(events)
           done == CHOOSE f : f = [k \in 0..N |-> IF k = 0 THEN Here ELSE Handled(f[k - 1], events[k])]
           S == {n \in 0..N : \E f : DoneTo(f, events, n)}
<1>1. N \in Nat
  OBVIOUS
<1>2. 0 \in S
  <2>1. DoneTo([k \in 0..0 |-> Here], events, 0)
    BY DEF DoneTo
  <2> QED
    BY <1>1, <2>1
<1>3. ASSUME NEW n \in 0..(N - 1), n \in S PROVE n + 1 \in S
  <2>1. PICK f : DoneTo(f, events, n)
    BY <1>3
  <2> DEFINE h == [k \in 0..(n + 1) |-> IF k = n + 1 THEN Handled(f[n], events[n + 1]) ELSE f[k]]
  <2>2. \A k \in 0..n : h[k] = f[k] /\ f[k] = IF k = 0 THEN Here ELSE Handled(f[k - 1], events[k])
    <3>1. \A k \in 0..n : f[k] = IF k = 0 THEN Here ELSE Handled(f[k - 1], events[k])
      BY <2>1 DEF DoneTo
    <3> QED
      BY <1>1, <3>1
  <2>3. h[n + 1] = Handled(f[n], events[n + 1])
    BY <1>1
  <2>4. ASSUME NEW k \in 0..(n + 1)
        PROVE  h[k] = IF k = 0 THEN Here ELSE Handled(h[k - 1], events[k])
    <3>1. CASE k = n + 1
      BY <1>1, <2>2, <2>3, <3>1
    <3>2. CASE k \in 0..n
      <4>1. k # 0 => k - 1 \in 0..n
        BY <1>1, <3>2
      <4> HIDE DEF h
      <4> QED
        BY <2>2, <3>2, <4>1
    <3> QED
      BY <1>1, <3>1, <3>2
  <2>5. h = [k \in 0..(n + 1) |-> h[k]]
    OBVIOUS
  <2> HIDE DEF h
  <2>6. DoneTo(h, events, n + 1)
    BY <2>4, <2>5 DEF DoneTo
  <2> QED
    BY <1>1, <2>6
<1>4. \E f : DoneTo(f, events, N)
  <2> HIDE DEF S, N
  <2>1. 0..N \subseteq S
    BY <1>1, <1>2, <1>3, UpTo
  <2> QED
    BY <1>1, <2>1 DEF S
<1>5. DoneTo(done, events, N)
  BY <1>4 DEF DoneTo
<1>6. After(events) = done[N]
  BY DEF After
<1> HIDE DEF done, N
<1>7. done[0] = Here /\ \A k \in 1..N : done[k] = Handled(done[k - 1], events[k])
  <2>1. \A k \in 0..N : done[k] = IF k = 0 THEN Here ELSE Handled(done[k - 1], events[k])
    BY <1>5 DEF DoneTo
  <2> QED
    BY <1>1, <2>1
<1> QED
  BY <1>6, <1>7 DEF N


-----------------------------------------------------------------------------
(* What a packet comes to.                                                 *)

Raws == [type : {"rel", "abs", "pos"}, axis : Axes, value : Int]
        \cup [type : {"id"}, value : Int]
        \cup [type : {"key"}, code : {"left", "touch"}, value : Int]

Packets(m) == [multitouch : {m}, rel : Spots, abs : [Axes -> Int \cup {None}], slot : {0},
               pending : [Axes -> Int \cup {None}], id : Int \cup {None}]

FeedOne(x, p, e) ==
  [packet |-> Noted(x.packet, e),
   events |-> x.events \o (IF e.type = "key" THEN Buttons(p, e) ELSE <<>>)]

\* The raw events of a packet in turn: a function of how many were fed.
FedTo(f, p, raws, n) ==
  f = [k \in 0..n |-> IF k = 0 THEN [packet |-> p, events |-> <<>>]
                      ELSE [packet |-> Noted(f[k - 1].packet, raws[k]),
                            events |-> f[k - 1].events \o (IF raws[k].type = "key"
                                                           THEN Buttons(p, raws[k]) ELSE <<>>)]]

LEMMA FedFunction ==
  ASSUME NEW p, NEW raws \in Seq(Raws)
  PROVE  \E fed : /\ fed[0] = [packet |-> p, events |-> <<>>] /\ Fed(p, raws) = fed[Len(raws)]
                  /\ \A k \in 1..Len(raws) : fed[k] = FeedOne(fed[k - 1], p, raws[k])
<1> DEFINE N == Len(raws)
           none == [packet |-> p, events |-> <<>>]
           fed == CHOOSE f :
             f = [k \in 0..N |-> IF k = 0 THEN [packet |-> p, events |-> <<>>]
                      ELSE [packet |-> Noted(f[k - 1].packet, raws[k]),
                            events |-> f[k - 1].events \o (IF raws[k].type = "key"
                                                           THEN Buttons(p, raws[k]) ELSE <<>>)]]
           S == {n \in 0..N : \E f : FedTo(f, p, raws, n)}
<1>1. N \in Nat
  OBVIOUS
<1>0. \A f, n : FedTo(f, p, raws, n)
        <=> f = [k \in 0..n |-> IF k = 0 THEN none ELSE FeedOne(f[k - 1], p, raws[k])]
  BY DEF FedTo, FeedOne
<1>6. Fed(p, raws) = fed[N] /\ ((\E f : FedTo(f, p, raws, N)) => FedTo(fed, p, raws, N))
  BY DEF Fed, FedTo
<1> HIDE DEF fed, none
<1>2. 0 \in S
  <2>1. FedTo([k \in 0..0 |-> none], p, raws, 0)
    BY DEF FedTo, none
  <2> QED
    BY <1>1, <2>1
<1>3. ASSUME NEW n \in 0..(N - 1), n \in S PROVE n + 1 \in S
  <2>1. PICK f : FedTo(f, p, raws, n)
    BY <1>3
  <2> DEFINE h == [k \in 0..(n + 1) |-> IF k = n + 1 THEN FeedOne(f[n], p, raws[n + 1]) ELSE f[k]]
  <2>2. \A k \in 0..n : h[k] = f[k] /\ f[k] = IF k = 0 THEN none ELSE FeedOne(f[k - 1], p, raws[k])
    <3>1. \A k \in 0..n : f[k] = IF k = 0 THEN none ELSE FeedOne(f[k - 1], p, raws[k])
      BY <1>0, <2>1
    <3> QED
      BY <1>1, <3>1
  <2>3. h[n + 1] = FeedOne(f[n], p, raws[n + 1])
    BY <1>1
  <2>4. ASSUME NEW k \in 0..(n + 1)
        PROVE  h[k] = IF k = 0 THEN none ELSE FeedOne(h[k - 1], p, raws[k])
    <3>1. CASE k = n + 1
      BY <1>1, <2>2, <2>3, <3>1
    <3>2. CASE k \in 0..n
      <4>1. k # 0 => k - 1 \in 0..n
        BY <1>1, <3>2
      <4> HIDE DEF h
      <4> QED
        BY <2>2, <3>2, <4>1
    <3> QED
      BY <1>1, <3>1, <3>2
  <2>5. h = [k \in 0..(n + 1) |-> h[k]]
    OBVIOUS
  <2> HIDE DEF h
  <2>6. FedTo(h, p, raws, n + 1)
    <3> DEFINE o(k) == FeedOne(h[k - 1], p, raws[k])
    <3>1. h = [k \in 0..(n + 1) |-> IF k = 0 THEN none ELSE o(k)]
      BY <2>4, <2>5
    <3> QED
      BY <3>1 DEF FedTo, FeedOne, none
  <2> QED
    BY <1>1, <2>6
<1>4. \E f : FedTo(f, p, raws, N)
  <2> HIDE DEF S, N
  <2>1. 0..N \subseteq S
    BY <1>1, <1>2, <1>3, UpTo
  <2> QED
    BY <1>1, <2>1 DEF S
<1>5. FedTo(fed, p, raws, N)
  BY <1>4, <1>6
<1> HIDE DEF N
<1>7. fed[0] = none /\ \A k \in 1..N : fed[k] = FeedOne(fed[k - 1], p, raws[k])
  <2>1. \A k \in 0..N : fed[k] = IF k = 0 THEN none ELSE FeedOne(fed[k - 1], p, raws[k])
    BY <1>0, <1>5
  <2> QED
    BY <1>1, <2>1
<1> QED
  BY <1>6, <1>7 DEF N, none

LEMMA NotedTyped ==
  ASSUME NEW m, NEW p \in Packets(m), NEW e \in Raws
  PROVE  Noted(p, e) \in Packets(m)
<1>1. CASE e \in [type : {"rel", "abs", "pos"}, axis : Axes, value : Int]
  <2>1. p.rel[e.axis] + e.value \in Int /\ e.axis \in Axes /\ e.value \in Int
    BY <1>1 DEF Packets, Spots
  <2>2. CASE e.type = "rel"
    <3>1. Noted(p, e) = [p EXCEPT !.rel[e.axis] = p.rel[e.axis] + e.value]
      BY <2>2 DEF Noted
    <3> QED
      BY <2>1, <3>1 DEF Packets, Spots
  <2>3. CASE e.type = "abs"
    <3>1. Noted(p, e) = [p EXCEPT !.abs[e.axis] = e.value]
      BY <2>3 DEF Noted
    <3> QED
      BY <2>1, <3>1 DEF Packets
  <2>4. CASE e.type = "pos"
    <3>1. Noted(p, e) = [p EXCEPT !.pending[e.axis] = e.value]
      BY <2>4 DEF Noted
    <3> QED
      BY <2>1, <3>1 DEF Packets
  <2> QED
    BY <1>1, <2>2, <2>3, <2>4
<1>2. CASE e \in [type : {"id"}, value : Int]
  <2>1. Noted(p, e) = [p EXCEPT !.id = e.value]
    BY <1>2 DEF Noted
  <2> QED
    BY <1>2, <2>1 DEF Packets
<1>3. CASE e \in [type : {"key"}, code : {"left", "touch"}, value : Int]
  <2>1. Noted(p, e) = p
    BY <1>3 DEF Noted
  <2> QED
    BY <2>1
<1> QED
  BY <1>1, <1>2, <1>3 DEF Raws

LEMMA ButtonEvents ==
  ASSUME NEW m, NEW p \in Packets(m), NEW e \in Raws, e.type = "key"
  PROVE  /\ Buttons(p, e) \in Seq(Events)
         /\ ~m => Buttons(p, e) = <<[kind |-> "button", code |-> e.code, down |-> e.value # 0]>>
<1> DEFINE x == [kind |-> "button", code |-> e.code, down |-> e.value # 0]
<1>1. x \in Events
  BY DEF Events, Raws
<1>2. p.multitouch = m
  BY DEF Packets
<1> HIDE DEF x
<1>3. Buttons(p, e) = IF e.code = "touch" /\ m THEN <<>> ELSE <<x>>
  BY <1>2 DEF Buttons, x
<1>4. <<x>> \in Seq(Events) /\ <<>> \in Seq(Events)
  BY <1>1
<1> QED
  BY <1>3, <1>4 DEF x

LEMMA ScaledInt ==
  ASSUME NEW v \in Int, NEW i \in Axes
  PROVE  Scaled(v, i) \in Int
<1> DEFINE h == Highest[i]
           x == Extent[i]
           a == 2 * v * (x - 1) + h
           d == 2 * h
<1>1. h \in Nat \ {0} /\ x \in Nat \ {0}
  BY EvdevAssumption DEF Axes
<1> HIDE DEF h, x
<1>2. a \in Int /\ d \in Nat /\ d > 0
  BY <1>1
<1> HIDE DEF a, d
<1>3. a \div d \in Int
  BY <1>2
<1>4. x - 1 \in Int
  BY <1>1
<1>5. Scaled(v, i) = CASE a \div d < 0 -> 0 [] a \div d > x - 1 -> x - 1 [] OTHER -> a \div d
  BY DEF Scaled, a, d, h, x
<1> QED
  BY <1>3, <1>4, <1>5

LEMMA PixelSpot ==
  ASSUME NEW at \in Spots
  PROVE  Pixel(at) \in Spots
BY ScaledInt DEF Pixel, Spots


LEMMA FlushedEvents ==
  ASSUME NEW m \in BOOLEAN, NEW p \in Packets(m)
  PROVE  /\ Flushed(p) \in Seq(Events)
         /\ ~m => \A e : In(e, Flushed(p)) => Moves(e)
<1> DEFINE a == RelEvents(p)
           b == IF p.multitouch THEN TouchEvents(p) ELSE AbsEvents(p)
<1>0. <<>> \in Seq(Events) /\ \A e \in Events : <<e>> \in Seq(Events)
  OBVIOUS
<1>1. a \in Seq(Events) /\ \A e : In(e, a) => Moves(e)
  <2> DEFINE x == [kind |-> "relative", by |-> p.rel]
  <2>1. x \in Events /\ Moves(x)
    BY DEF Events, Moves, Packets
  <2>2. a = <<>> \/ a = <<x>>
    BY DEF RelEvents
  <2> HIDE DEF a, x
  <2>3. \A e : (In(e, <<>>) => FALSE) /\ (In(e, <<x>>) => e = x)
    BY DEF In
  <2> QED
    BY <1>0, <2>1, <2>2, <2>3
<1>2. CASE m
  <2>1. b = TouchEvents(p)
    BY <1>2 DEF Packets
  <2> DEFINE whole == \A i \in Axes : p.pending[i] # None
             x(kind) == [kind |-> kind, pos |-> Pixel(p.pending)]
             up == [kind |-> "up"]
  <2>2. up \in Events
    BY DEF Events
  <2>3. ASSUME whole PROVE x("down") \in Events /\ x("motion") \in Events
    <3>1. p.pending \in Spots
      BY <2>3 DEF Packets, Spots
    <3>2. Pixel(p.pending) \in Spots
      BY <3>1, PixelSpot
    <3> QED
      BY <3>2 DEF Events
  <2>4. \/ b = <<up>> \/ b = <<>>
        \/ whole /\ (b = <<x("down")>> \/ b = <<x("motion")>>)
    BY <2>1 DEF TouchEvents
  <2> HIDE DEF b, x, up, whole
  <2>5. b \in Seq(Events)
    BY <1>0, <2>2, <2>3, <2>4
  <2>6. Flushed(p) = a \o b
    BY DEF Flushed, b
  <2> HIDE DEF a
  <2> QED
    BY <1>1, <1>2, <2>5, <2>6
<1>3. CASE ~m
  <2> DEFINE at == [i \in Axes |-> IF p.abs[i] = None THEN 0 ELSE p.abs[i]]
             x == [kind |-> "absolute", pos |-> Pixel(at)]
  <2>1. b = <<>> \/ b = <<x>>
    BY <1>3 DEF Packets, AbsEvents
  <2>2. at \in Spots
    BY DEF Packets, Spots
  <2> HIDE DEF at
  <2>3. x \in Events /\ Moves(x)
    BY <2>2, PixelSpot DEF Events, Moves
  <2>4. Flushed(p) = a \o b
    BY DEF Flushed
  <2> HIDE DEF a, b, x
  <2>5. \A e : (In(e, <<>>) => FALSE) /\ (In(e, <<x>>) => e = x)
    BY DEF In
  <2>6. b \in Seq(Events) /\ \A e : In(e, b) => Moves(e)
    BY <1>0, <2>1, <2>3, <2>5
  <2>7. \A e : In(e, a \o b) <=> In(e, a) \/ In(e, b)
    BY <1>1, <2>6, InAppended
  <2>8. a \o b \in Seq(Events)
    BY <1>1, <2>6
  <2> QED
    BY <1>1, <2>4, <2>6, <2>7, <2>8
<1> QED
  BY <1>2, <1>3

\* The buttons of a packet, at once.
ButtonOf(r) == [kind |-> "button", code |-> r.code, down |-> r.value # 0]

FedSo(x, m, raws, n) ==
  /\ x.packet \in Packets(m) /\ x.events \in Seq(Events)
  /\ ~m => \A e : In(e, x.events)
                    <=> \E j \in 1..n : raws[j].type = "key" /\ e = ButtonOf(raws[j])

LEMMA FedOne ==
  ASSUME NEW m \in BOOLEAN, NEW p \in Packets(m), NEW raws \in Seq(Raws), NEW n \in Nat,
         n + 1 \in 1..Len(raws), NEW x, FedSo(x, m, raws, n)
  PROVE  FedSo(FeedOne(x, p, raws[n + 1]), m, raws, n + 1)
<1> DEFINE r == raws[n + 1]
           y == FeedOne(x, p, r)
           b == IF r.type = "key" THEN Buttons(p, r) ELSE <<>>
<1>1. r \in Raws
  OBVIOUS
<1>2. y.packet = Noted(x.packet, r) /\ y.events = x.events \o b
  BY DEF FeedOne
<1>3. \A j : j \in 1..(n + 1) <=> j \in 1..n \/ j = n + 1
  OBVIOUS
<1> HIDE DEF y
<1>4. y.packet \in Packets(m)
  BY <1>1, <1>2, NotedTyped DEF FedSo
<1>5. /\ b \in Seq(Events)
      /\ ~m => \A e : In(e, b) <=> r.type = "key" /\ e = ButtonOf(r)
  <2>1. \A e : In(e, <<>>) => FALSE
    BY DEF In
  <2>2. CASE r.type = "key"
    <3>1. b \in Seq(Events) /\ (~m => b = <<ButtonOf(r)>>)
      BY <1>1, <2>2, ButtonEvents DEF ButtonOf
    <3>2. \A z, e : In(e, <<z>>) <=> e = z
      BY DEF In
    <3> HIDE DEF b, r
    <3> QED
      BY <2>2, <3>1, <3>2
  <2>3. CASE r.type # "key"
    <3>1. b = <<>>
      BY <2>3
    <3> HIDE DEF b, r
    <3> QED
      BY <2>1, <2>3, <3>1
  <2> QED
    BY <2>2, <2>3
<1> HIDE DEF b
<1>6. y.events \in Seq(Events) /\ \A e : In(e, y.events) <=> In(e, x.events) \/ In(e, b)
  <2>1. x.events \in Seq(Events)
    BY DEF FedSo
  <2>2. x.events \o b \in Seq(Events)
    BY <1>5, <2>1
  <2> QED
    BY <1>2, <1>5, <2>1, <2>2, InAppended
<1>7. ASSUME ~m, NEW e
      PROVE  In(e, y.events)
               <=> \E j \in 1..(n + 1) : raws[j].type = "key" /\ e = ButtonOf(raws[j])
  <2>1. In(e, x.events) <=> \E j \in 1..n : raws[j].type = "key" /\ e = ButtonOf(raws[j])
    BY <1>7 DEF FedSo
  <2>2. In(e, b) <=> raws[n + 1].type = "key" /\ e = ButtonOf(raws[n + 1])
    BY <1>5, <1>7
  <2> QED
    BY <1>3, <1>6, <2>1, <2>2
<1> QED
  BY <1>4, <1>6, <1>7 DEF FedSo, y

LEMMA FedTyped ==
  ASSUME NEW m \in BOOLEAN, NEW p \in Packets(m), NEW raws \in Seq(Raws)
  PROVE  FedSo(Fed(p, raws), m, raws, Len(raws))
<1> DEFINE N == Len(raws)
<1>1. PICK fed : /\ fed[0] = [packet |-> p, events |-> <<>>] /\ Fed(p, raws) = fed[N]
                 /\ \A k \in 1..N : fed[k] = FeedOne(fed[k - 1], p, raws[k])
  BY FedFunction
<1> DEFINE S == {k \in Nat : FedSo(fed[k], m, raws, k)}
<1>2. N \in Nat
  OBVIOUS
<1>3. 0 \in S
  <2>1. fed[0].packet = p /\ fed[0].events = <<>>
    BY <1>1
  <2>2. <<>> \in Seq(Events) /\ \A e : In(e, <<>>) => FALSE
    BY DEF In
  <2>3. \A j : ~(j \in 1..0)
    OBVIOUS
  <2>4. FedSo(fed[0], m, raws, 0)
    BY <2>1, <2>2, <2>3 DEF FedSo
  <2> QED
    BY <2>4
<1>4. ASSUME NEW k \in 0..(N - 1), k \in S PROVE k + 1 \in S
  <2>1. k \in Nat /\ k + 1 \in 1..N /\ k + 1 - 1 = k /\ FedSo(fed[k], m, raws, k)
    BY <1>2, <1>4
  <2>2. fed[k + 1] = FeedOne(fed[k], p, raws[k + 1])
    BY <1>1, <2>1
  <2>3. FedSo(FeedOne(fed[k], p, raws[k + 1]), m, raws, k + 1)
    BY <2>1, FedOne
  <2> QED
    BY <2>1, <2>2, <2>3
<1> HIDE DEF N, S
<1>5. 0..N \subseteq S
  BY <1>2, <1>3, <1>4, UpTo
<1>6. FedSo(fed[N], m, raws, N)
  BY <1>2, <1>5 DEF S
<1> QED
  BY <1>1, <1>6 DEF N

LeftUp(r) == r.type = "key" /\ r.code = "left" /\ r.value = 0
KeyDown(r) == r.type = "key" /\ r.value # 0

\* The events of a packet: of a pointer, what its keys say and motions.
LEMMA EventsTyped ==
  ASSUME NEW m \in BOOLEAN, NEW p \in Packets(m), NEW raws \in Seq(Raws)
  PROVE  /\ EventsOf(p, raws) \in Seq(Events)
         /\ ~m /\ (\A k \in 1..Len(raws) : ~KeyDown(raws[k]))
              => \A e : In(e, EventsOf(p, raws)) => ~Presses(e)
         /\ ~m /\ (\E k \in 1..Len(raws) : LeftUp(raws[k]))
              => \E e : In(e, EventsOf(p, raws)) /\ Releases(e)
<1> DEFINE x == Fed(p, raws)
           a == x.events
           b == Flushed(x.packet)
<1>1. /\ x.packet \in Packets(m) /\ a \in Seq(Events)
      /\ ~m => \A e : In(e, a) <=> \E j \in 1..Len(raws) : raws[j].type = "key" /\ e = ButtonOf(raws[j])
  BY FedTyped DEF FedSo
<1>2. b \in Seq(Events) /\ (~m => \A e : In(e, b) => Moves(e))
  BY <1>1, FlushedEvents
<1>3. EventsOf(p, raws) = a \o b
  BY DEF EventsOf
<1> HIDE DEF a, b
<1>4. a \o b \in Seq(Events) /\ \A e : In(e, a \o b) <=> In(e, a) \/ In(e, b)
  BY <1>1, <1>2, InAppended
<1>5. ASSUME ~m, \A k \in 1..Len(raws) : ~KeyDown(raws[k]), NEW e, In(e, a \o b)
      PROVE  ~Presses(e)
  <2>1. CASE In(e, b)
    BY <1>2, <1>5, <2>1 DEF Moves, Presses
  <2>2. CASE In(e, a)
    BY <1>1, <1>5, <2>2 DEF KeyDown, ButtonOf, Presses
  <2> QED
    BY <1>4, <1>5, <2>1, <2>2
<1>6. ASSUME ~m, NEW k \in 1..Len(raws), LeftUp(raws[k])
      PROVE  \E e : In(e, a \o b) /\ Releases(e)
  <2>1. In(ButtonOf(raws[k]), a)
    BY <1>1, <1>6 DEF LeftUp
  <2>2. Releases(ButtonOf(raws[k]))
    BY <1>6 DEF LeftUp, ButtonOf, Releases
  <2> QED
    BY <1>4, <2>1, <2>2
<1> QED
  BY <1>3, <1>4, <1>5, <1>6


\* A finger that lifts.
Lift == <<[type |-> "id", value |-> -1], [type |-> "key", code |-> "touch", value |-> 0]>>

LEMMA LiftEvents ==
  ASSUME NEW p \in Packets(TRUE), p.rel = [i \in Axes |-> 0]
  PROVE  EventsOf(p, Lift) = <<[kind |-> "up"]>>
<1> DEFINE x == [type |-> "id", value |-> -1]
           y == [type |-> "key", code |-> "touch", value |-> 0]
           q == [p EXCEPT !.id = -1]
           up == [kind |-> "up"]
<1>1. Lift \in Seq(Raws) /\ Len(Lift) = 2 /\ Lift[1] = x /\ Lift[2] = y
  <2>1. x \in Raws /\ y \in Raws
    BY DEF Raws
  <2>2. Lift = <<x, y>>
    BY DEF Lift
  <2> HIDE DEF x, y
  <2> QED
    BY <2>1, <2>2
<1>2. PICK fed : /\ fed[0] = [packet |-> p, events |-> <<>>] /\ Fed(p, Lift) = fed[Len(Lift)]
                 /\ \A k \in 1..Len(Lift) : fed[k] = FeedOne(fed[k - 1], p, Lift[k])
  BY <1>1, FedFunction
<1>3. /\ fed[0].packet = p /\ fed[0].events = <<>>
      /\ fed[1] = FeedOne(fed[0], p, x) /\ fed[2] = FeedOne(fed[1], p, y)
      /\ Fed(p, Lift) = fed[2]
  <2>1. 1 \in 1..Len(Lift) /\ 2 \in 1..Len(Lift) /\ 1 - 1 = 0 /\ 2 - 1 = 1
    BY <1>1
  <2> HIDE DEF x, y
  <2> QED
    BY <1>1, <1>2, <2>1
<1>4. <<>> \o <<>> = <<>>
  OBVIOUS
<1>5. fed[1].packet = q /\ fed[1].events = <<>>
  <2>1. Noted(p, x) = q /\ x.type # "key"
    BY DEF Noted
  <2> HIDE DEF q, x
  <2> QED
    BY <1>3, <1>4, <2>1 DEF FeedOne
<1>6. fed[2].packet = q /\ fed[2].events = <<>>
  <2>1. Noted(q, y) = q /\ y.type = "key"
    BY DEF Noted
  <2>2. Buttons(p, y) = <<>>
    BY DEF Buttons, Packets
  <2> HIDE DEF q, y
  <2> QED
    BY <1>3, <1>4, <1>5, <2>1, <2>2 DEF FeedOne
<1>7. Flushed(q) = <<up>>
  <2>1. q.multitouch = TRUE /\ q.id = -1 /\ q.rel = p.rel
    BY DEF Packets
  <2>2. RelEvents(q) = <<>>
    BY <2>1 DEF RelEvents
  <2>3. TouchEvents(q) = <<up>>
    BY <2>1 DEF TouchEvents
  <2> HIDE DEF q, up
  <2>4. Flushed(q) = <<>> \o <<up>>
    BY <2>1, <2>2, <2>3 DEF Flushed
  <2> QED
    BY <2>4
<1> HIDE DEF q, up
<1>8. EventsOf(p, Lift) = <<>> \o <<up>>
  BY <1>3, <1>6, <1>7 DEF EventsOf
<1>9. <<>> \o <<up>> = <<up>>
  OBVIOUS
<1> QED
  BY <1>8, <1>9 DEF up

\* A packet leaves nothing for the next one.
LEMMA RestNew ==
  ASSUME NEW m \in BOOLEAN, NEW raws \in Seq(Raws), NewPacket(m) \in Packets(m)
  PROVE  Rest(NewPacket(m), raws) = NewPacket(m)
<1> DEFINE q == Fed(NewPacket(m), raws).packet
<1>1. q \in Packets(m)
  BY FedTyped DEF FedSo
<1>2. Rest(NewPacket(m), raws) = Cleared(q)
  BY DEF Rest
<1> HIDE DEF q
<1>3. Cleared(q) = NewPacket(m)
  <2> DEFINE zero == [i \in Axes |-> 0]
  <2>1. PICK a, b, c, d : q = [multitouch |-> m, rel |-> a, abs |-> b, slot |-> 0,
                               pending |-> c, id |-> d]
    BY <1>1 DEF Packets
  <2>2. Cleared(q) = [q EXCEPT !.rel = zero, !.abs = Nowhere, !.id = None, !.pending = Nowhere]
    BY DEF Cleared
  <2>3. NewPacket(m) = [multitouch |-> m, rel |-> zero, abs |-> Nowhere,
                        slot |-> 0, pending |-> Nowhere, id |-> None]
    BY DEF NewPacket
  <2> HIDE DEF zero
  <2> QED
    BY <2>1, <2>2, <2>3
<1> QED
  BY <1>2, <1>3

LEMMA NewPacketTyped ==
  ASSUME NEW m \in BOOLEAN
  PROVE  NewPacket(m) \in Packets(m) /\ NewPacket(m).rel = [i \in Axes |-> 0]
BY DEF NewPacket, Packets, Spots, Nowhere

\* handle_input over the events of a packet.
LEMMA AfterKnown ==
  ASSUME clock \in Nat, KnownIn(Here), NEW events \in Seq(Events)
  PROVE  /\ KnownIn(After(events))
         /\ (\A e : In(e, events) => ~Presses(e)) /\ (told.open => \E e : In(e, events) /\ Releases(e))
              => ~After(events).told.open
<1> DEFINE N == Len(events)
<1>1. PICK done : /\ done[0] = Here /\ After(events) = done[N]
                  /\ \A k \in 1..N : done[k] = Handled(done[k - 1], events[k])
  BY AfterFunction
<1> DEFINE quiet == \A e : In(e, events) => ~Presses(e)
           S == {k \in Nat : /\ KnownIn(done[k])
                             /\ quiet /\ done[k].told.open =>
                                  told.open /\ \A j \in 1..k : ~Releases(events[j])}
<1>2. N \in Nat
  OBVIOUS
<1>3. 0 \in S
  <2>1. Here.told = told
    BY DEF Here
  <2>2. \A j : ~(j \in 1..0)
    OBVIOUS
  <2> HIDE DEF quiet
  <2> QED
    BY <1>1, <2>1, <2>2
<1>4. ASSUME NEW k \in 0..(N - 1), k \in S PROVE k + 1 \in S
  <2>1. k \in Nat /\ k + 1 \in 1..N /\ k + 1 - 1 = k /\ KnownIn(done[k])
    BY <1>2, <1>4
  <2>2. events[k + 1] \in Events
    BY <2>1
  <2>3. done[k + 1] = Handled(done[k], events[k + 1])
    BY <1>1, <2>1
  <2> DEFINE h == Handled(done[k], events[k + 1])
  <2>4. KnownIn(h) /\ (h.told.open <=> Opened(done[k].told.open, events[k + 1]))
    BY <2>1, <2>2, HandledKnown
  <2> HIDE DEF h
  <2>5. quiet => ~Presses(events[k + 1])
    BY <2>1 DEF In
  <2>6. \A j : j \in 1..(k + 1) <=> j \in 1..k \/ j = k + 1
    BY <2>1
  <2>7. quiet /\ done[k].told.open => told.open /\ \A j \in 1..k : ~Releases(events[j])
    BY <1>4
  <2> HIDE DEF quiet
  <2>8. quiet /\ h.told.open => told.open /\ \A j \in 1..(k + 1) : ~Releases(events[j])
    BY <2>4, <2>5, <2>6, <2>7 DEF Opened
  <2>9. done[k + 1] = h
    BY <2>3 DEF h
  <2> QED
    BY <2>1, <2>4, <2>8, <2>9
<1> HIDE DEF N, S
<1>5. 0..N \subseteq S
  BY <1>2, <1>3, <1>4, UpTo
<1>6. N \in S
  BY <1>2, <1>5
<1>7. /\ KnownIn(done[N])
      /\ quiet /\ done[N].told.open => told.open /\ \A j \in 1..N : ~Releases(events[j])
  BY <1>6 DEF S
<1> QED
  BY <1>1, <1>7 DEF In, N


-----------------------------------------------------------------------------
(* The inductive invariant.                                                *)

Hands == [at : Spots, down : BOOLEAN]

Typed ==
  /\ hand \in Hands /\ clock \in Nat /\ awake \in BOOLEAN /\ reports \in Nat
  /\ packet = NewPacket(device = "panel")
  /\ wire = <<>> \/ \E raws \in Seq(Raws) : wire = <<raws>>

Recognizing == Known(cursor, gestures, told, clock)

\* A packet after which the hand does not press ends the contact.
Ends(raws) ==
  IF device = "panel" THEN raws = Lift
  ELSE /\ \A k \in 1..Len(raws) : ~KeyDown(raws[k])
       /\ told.open => \E k \in 1..Len(raws) : LeftUp(raws[k])

Lifting ==
  /\ wire = <<>> /\ told.open => hand.down
  /\ wire # <<>> /\ ~hand.down => Ends(Head(wire))

\* While the loop sleeps over a contact it wakes at the next frame, and the last
\* one did not find it held long enough.
Timely ==
  told.open /\ ~awake =>
    /\ alarm \in {clock, clock + 1}
    /\ alarm # clock /\ gestures.phase = "pending" => clock - gestures.downT < LongPressAt

IInv == Typed /\ Recognizing /\ Lifting /\ Timely

LEMMA InitInv == Init => IInv
<1> SUFFICES ASSUME Init PROVE IInv
  OBVIOUS
<1>1. Origin \in Spots
  BY DEF Origin, Spots, Axes
<1>2. NewRecognizer \in Recognizers /\ NewRecognizer.phase = "idle"
  BY <1>1 DEF NewRecognizer, Recognizers
<1>3. Nothing \in Contacts /\ Nothing.open = FALSE /\ Nothing.out = <<>>
  BY <1>1 DEF Nothing, Contacts
<1>4. <<>> \in Over
  BY DEF Over
<1>5. Recognizing
  BY <1>1, <1>2, <1>3, <1>4, CameNone DEF Recognizing, Known, Init
<1>6. Typed
  BY <1>1 DEF Typed, Init, Hands
<1> QED
  BY <1>3, <1>5, <1>6 DEF IInv, Lifting, Timely, Init

LEMMA SentOne ==
  ASSUME NEW raws
  PROVE  Head(<<raws>>) = raws /\ Tail(<<raws>>) = <<>> /\ <<raws>> # <<>>
OBVIOUS

LEMMA SendsInv ==
  ASSUME IInv, NEW raws \in Seq(Raws), NEW h \in Hands, Sends(raws, h), h.down \/ Ends(raws)
  PROVE  IInv'
<1>1. /\ hand' = h /\ wire' = <<raws>> /\ reports' = reports + 1
      /\ UNCHANGED <<device, packet, cursor, gestures, clock, alarm, awake, told>>
  BY DEF Sends
<1>2. Typed'
  BY <1>1 DEF Typed, IInv
<1>3. Recognizing'
  BY <1>1 DEF Recognizing, IInv
<1>4. Lifting'
  <2>1. Ends(raws)' = Ends(raws)
    BY <1>1 DEF Ends
  <2>2. (wire # <<>> /\ ~hand.down => Ends(Head(wire)))' =
        (wire' # <<>> /\ ~hand'.down => Ends(raws))
    BY <1>1, SentOne DEF Ends
  <2> QED
    BY <1>1, <2>1, <2>2, SentOne DEF Lifting
<1>5. Timely'
  BY <1>1 DEF Timely, IInv
<1> QED
  BY <1>2, <1>3, <1>4, <1>5 DEF IInv

\* What changed is said of an axis.
LEMMA ChangedTyped ==
  ASSUME hand \in Hands, NEW at \in Spots, NEW type \in {"rel", "abs", "pos"}
  PROVE  /\ Changed(type, at) \in Seq(Raws)
         /\ \A r : In(r, Changed(type, at)) => r.type # "key"
<1> DEFINE x(i) == [type |-> type, axis |-> i,
                    value |-> IF type = "rel" THEN at[i] - hand.at[i] ELSE at[i]]
           on(i) == IF at[i] = hand.at[i] THEN <<>> ELSE <<x(i)>>
<1>1. ASSUME NEW i \in Axes PROVE x(i) \in Raws /\ x(i).type # "key"
  <2>1. at[i] \in Int /\ hand.at[i] \in Int
    BY DEF Hands, Spots
  <2>2. x(i).value \in Int
    BY <2>1
  <2> QED
    BY <2>2 DEF Raws
<1>2. Changed(type, at) = on(1) \o on(2) /\ 1 \in Axes /\ 2 \in Axes
  BY DEF Changed, Axes
<1> HIDE DEF x
<1>3. ASSUME NEW i \in Axes
      PROVE  on(i) \in Seq(Raws) /\ \A r : In(r, on(i)) => r.type # "key"
  <2>1. \A r : (In(r, <<>>) => FALSE) /\ (In(r, <<x(i)>>) => r = x(i))
    BY DEF In
  <2>2. <<>> \in Seq(Raws) /\ <<x(i)>> \in Seq(Raws)
    BY <1>1
  <2> QED
    BY <1>1, <2>1, <2>2
<1> HIDE DEF on
<1>4. on(1) \in Seq(Raws) /\ on(2) \in Seq(Raws)
  BY <1>2, <1>3
<1>5. on(1) \o on(2) \in Seq(Raws) /\ \A r : In(r, on(1) \o on(2)) <=> In(r, on(1)) \/ In(r, on(2))
  BY <1>4, InAppended
<1> QED
  BY <1>2, <1>3, <1>5

LEMMA FingerInv ==
  ASSUME IInv, Finger
  PROVE  IInv'
<1>1. hand \in Hands /\ reports \in Nat /\ device = "panel"
  BY DEF IInv, Typed, Finger
<1>2. ASSUME NEW at \in Places,
             Sends((IF hand.down THEN <<>> ELSE <<[type |-> "id", value |-> reports],
                                                  [type |-> "key", code |-> "touch", value |-> 1]>>)
                   \o Changed("pos", at), [at |-> at, down |-> TRUE])
      PROVE  IInv'
  <2> DEFINE x == [type |-> "id", value |-> reports]
             y == [type |-> "key", code |-> "touch", value |-> 1]
             a == IF hand.down THEN <<>> ELSE <<x, y>>
             b == Changed("pos", at)
             h == [at |-> at, down |-> TRUE]
  <2>1. at \in Spots
    BY TouchAssumption DEF Spots
  <2>2. b \in Seq(Raws)
    BY <1>1, <2>1, ChangedTyped
  <2>3. x \in Raws /\ y \in Raws
    BY <1>1 DEF Raws
  <2>4. h \in Hands /\ h.down
    BY <2>1 DEF Hands
  <2>5. Sends(a \o b, h)
    BY <1>2
  <2> HIDE DEF x, y, b, h
  <2>6. a \in Seq(Raws)
    BY <2>3
  <2> HIDE DEF a
  <2>7. a \o b \in Seq(Raws)
    BY <2>2, <2>6
  <2> QED
    BY <2>4, <2>5, <2>7, SendsInv
<1>3. ASSUME Sends(Lift, [hand EXCEPT !.down = FALSE])
      PROVE  IInv'
  <2> DEFINE h == [hand EXCEPT !.down = FALSE]
  <2>1. h \in Hands
    BY <1>1 DEF Hands
  <2>2. Lift \in Seq(Raws)
    <3> DEFINE x == [type |-> "id", value |-> -1]
               y == [type |-> "key", code |-> "touch", value |-> 0]
    <3>1. x \in Raws /\ y \in Raws /\ Lift = <<x, y>>
      BY DEF Raws, Lift
    <3> HIDE DEF x, y
    <3> QED
      BY <3>1
  <2>3. Ends(Lift)
    BY <1>1 DEF Ends
  <2> HIDE DEF h
  <2> QED
    BY <1>3, <2>1, <2>2, <2>3, SendsInv DEF h
<1> QED
  BY <1>2, <1>3 DEF Finger, Lift

LEMMA PointerInv ==
  ASSUME IInv, Pointer
  PROVE  IInv'
<1>1. hand \in Hands /\ device # "panel"
  BY DEF IInv, Typed, Pointer
<1>2. PICK at \in Places \cup {hand.at}, down \in BOOLEAN :
        LET keys == IF down = hand.down THEN <<>>
                    ELSE <<[type |-> "key", code |-> "left", value |-> IF down THEN 1 ELSE 0]>>
            moves == Changed(IF device = "tablet" THEN "abs" ELSE "rel", at)
        IN  \E raws \in {keys \o moves, moves \o keys} : Sends(raws, [at |-> at, down |-> down])
  BY DEF Pointer
<1> DEFINE x == [type |-> "key", code |-> "left", value |-> IF down THEN 1 ELSE 0]
           keys == IF down = hand.down THEN <<>> ELSE <<x>>
           type == IF device = "tablet" THEN "abs" ELSE "rel"
           moves == Changed(type, at)
           h == [at |-> at, down |-> down]
<1>3. PICK raws \in {keys \o moves, moves \o keys} : Sends(raws, h)
  BY <1>2
<1>4. at \in Spots
  BY <1>1, TouchAssumption DEF Spots, Hands
<1>5. h \in Hands /\ h.down = down
  BY <1>4 DEF Hands
<1>6. type \in {"rel", "abs", "pos"}
  OBVIOUS
<1> HIDE DEF type
<1>7. moves \in Seq(Raws) /\ \A r : In(r, moves) => r.type # "key"
  BY <1>1, <1>4, <1>6, ChangedTyped
<1>8. x \in Raws /\ (~down => ~KeyDown(x) /\ LeftUp(x))
  BY DEF Raws, KeyDown, LeftUp
<1>9. hand.down \in BOOLEAN /\ wire = <<>>
  BY <1>1, <1>3 DEF Hands, Sends
<1> HIDE DEF x, moves, h
<1>10. keys \in Seq(Raws) /\ \A r : In(r, keys) <=> down # hand.down /\ r = x
  <2>1. \A r : (In(r, <<>>) => FALSE) /\ (In(r, <<x>>) <=> r = x)
    BY DEF In
  <2>2. <<>> \in Seq(Raws) /\ <<x>> \in Seq(Raws)
    BY <1>8
  <2> QED
    BY <2>1, <2>2
<1> HIDE DEF keys
<1>11. raws \in Seq(Raws) /\ \A r : In(r, raws) <=> In(r, keys) \/ In(r, moves)
  <2>1. keys \o moves \in Seq(Raws) /\ moves \o keys \in Seq(Raws)
    BY <1>7, <1>10
  <2>2. /\ \A r : In(r, keys \o moves) <=> In(r, keys) \/ In(r, moves)
        /\ \A r : In(r, moves \o keys) <=> In(r, moves) \/ In(r, keys)
    BY <1>7, <1>10, InAppended
  <2> QED
    BY <2>1, <2>2
<1>12. ASSUME ~down PROVE Ends(raws)
  <2>1. \A r : In(r, raws) => ~KeyDown(r)
    BY <1>7, <1>8, <1>10, <1>11, <1>12 DEF KeyDown
  <2>2. told.open => In(x, raws) /\ LeftUp(x)
    <3>1. told.open => hand.down
      BY <1>9 DEF IInv, Lifting
    <3> QED
      BY <1>8, <1>9, <1>10, <1>11, <1>12, <3>1
  <2> QED
    BY <1>1, <2>1, <2>2 DEF Ends, In
<1> QED
  BY <1>3, <1>5, <1>11, <1>12, SendsInv


LEMMA DispatchInv ==
  ASSUME IInv, Dispatch
  PROVE  IInv'
<1>1. wire # <<>> /\ clock \in Nat /\ KnownIn(Here)
  BY DEF IInv, Typed, Recognizing, Dispatch, Here, KnownIn
<1>2. PICK raws \in Seq(Raws) : wire = <<raws>>
  BY <1>1 DEF IInv, Typed
<1>3. Head(wire) = raws /\ Tail(wire) = <<>>
  BY <1>2, SentOne
<1> DEFINE m == device = "panel"
           events == EventsOf(packet, raws)
           s == After(events)
<1>4. m \in BOOLEAN /\ packet = NewPacket(m)
  BY DEF IInv, Typed
<1>5. packet \in Packets(m) /\ packet.rel = [i \in Axes |-> 0]
  <2> HIDE DEF m
  <2> QED
    BY <1>4, NewPacketTyped
<1>6. /\ wire' = <<>> /\ awake' = TRUE /\ packet' = Rest(packet, raws)
      /\ cursor' = s.cursor /\ gestures' = s.g /\ told' = s.told
      /\ UNCHANGED <<device, hand, clock, alarm, reports>>
  BY <1>3 DEF Dispatch, Becomes
<1>7. events \in Seq(Events)
  <2> HIDE DEF m
  <2> QED
    BY <1>4, <1>5, EventsTyped
<1>8. packet' = NewPacket(m)
  <2> HIDE DEF m
  <2> QED
    BY <1>4, <1>5, <1>6, RestNew
<1>9. Typed'
  BY <1>6, <1>8 DEF Typed, IInv
<1>10. KnownIn(s)
  <2> HIDE DEF events
  <2> QED
    BY <1>1, <1>7, AfterKnown
<1>11. Recognizing'
  <2> HIDE DEF s
  <2> QED
    BY <1>6, <1>10 DEF KnownIn, Recognizing
<1>12. ASSUME ~hand.down PROVE ~s.told.open
  <2>1. Ends(raws)
    BY <1>1, <1>3, <1>12 DEF IInv, Lifting
  <2>2. /\ \A e : In(e, events) => ~Presses(e)
        /\ told.open => \E e : In(e, events) /\ Releases(e)
    <3>1. CASE m
      <4>1. raws = Lift
        BY <2>1, <3>1 DEF Ends
      <4>2. packet \in Packets(TRUE)
        BY <1>4, <1>5, <3>1
      <4>3. events = <<[kind |-> "up"]>>
        BY <1>5, <4>1, <4>2, LiftEvents
      <4>4. \A x, e : In(e, <<x>>) <=> e = x
        BY DEF In
      <4> HIDE DEF events
      <4> QED
        BY <4>3, <4>4 DEF Presses, Releases
    <3>2. CASE ~m
      <4>1. /\ \A k \in 1..Len(raws) : ~KeyDown(raws[k])
            /\ told.open => \E k \in 1..Len(raws) : LeftUp(raws[k])
        BY <2>1, <3>2 DEF Ends
      <4> HIDE DEF m
      <4>2. /\ (\A k \in 1..Len(raws) : ~KeyDown(raws[k]))
                 => \A e : In(e, events) => ~Presses(e)
            /\ (\E k \in 1..Len(raws) : LeftUp(raws[k]))
                 => \E e : In(e, events) /\ Releases(e)
        BY <1>4, <1>5, <3>2, EventsTyped
      <4> QED
        BY <4>1, <4>2
    <3> QED
      BY <3>1, <3>2
  <2> HIDE DEF events
  <2> QED
    BY <1>1, <1>7, <2>2, AfterKnown
<1>13. hand \in Hands
  BY DEF IInv, Typed
<1>14. Lifting'
  <2> HIDE DEF s
  <2> QED
    BY <1>6, <1>12, <1>13 DEF Lifting, Hands
<1>15. Timely'
  BY <1>6 DEF Timely
<1> QED
  BY <1>9, <1>11, <1>14, <1>15 DEF IInv

LEMMA TouchCancelInv ==
  ASSUME IInv, TouchCancel
  PROVE  IInv'
<1> DEFINE e == [kind |-> "cancel"]
           s == Handled(Here, e)
<1>1. clock \in Nat /\ KnownIn(Here)
  BY DEF IInv, Typed, Recognizing, Here, KnownIn
<1>2. e \in Events /\ ~Opened(Here.told.open, e)
  BY DEF Events, Opened, Presses
<1>3. /\ awake' = TRUE /\ reports' = reports + 1
      /\ cursor' = s.cursor /\ gestures' = s.g /\ told' = s.told
      /\ UNCHANGED <<device, hand, wire, packet, clock, alarm>>
  BY DEF TouchCancel, Becomes
<1> HIDE DEF e
<1>4. KnownIn(s) /\ ~s.told.open
  BY <1>1, <1>2, HandledKnown
<1> HIDE DEF s
<1>5. Typed'
  BY <1>3 DEF Typed, IInv
<1>6. Recognizing'
  BY <1>3, <1>4 DEF KnownIn, Recognizing
<1>7. Lifting'
  <2>1. wire # <<>> /\ ~hand.down => Ends(Head(wire))
    BY DEF IInv, Lifting
  <2>2. Ends(Head(wire)) => Ends(Head(wire))'
    BY <1>3, <1>4 DEF Ends
  <2> QED
    BY <1>3, <1>4, <2>1, <2>2 DEF Lifting
<1>8. Timely'
  BY <1>3 DEF Timely
<1> QED
  BY <1>5, <1>6, <1>7, <1>8 DEF IInv

LEMMA TickInv ==
  ASSUME IInv, Tick
  PROVE  IInv'
<1> DEFINE e == [kind |-> "tick"]
           r == Poll(gestures, clock)
           v == Noticed(told, e, cursor, r.out)
<1>1. clock \in Nat /\ Known(cursor, gestures, told, clock) /\ e.kind = "tick"
  BY DEF IInv, Typed, Recognizing
<1>2. /\ awake' = FALSE /\ cursor' = cursor /\ gestures' = r.g /\ told' = v
      /\ alarm' = NextTimeout(r.g)
      /\ UNCHANGED <<device, hand, wire, packet, clock, reports>>
  BY DEF Tick, Becomes
<1> HIDE DEF e
<1>3. Known(cursor, r.g, v, clock) /\ v.open = told.open
  BY <1>1, TickKnown DEF Result
<1>4. r.g.phase = "pending" => clock - r.g.downT < LongPressAt
  <2>1. gestures \in Recognizers
    BY <1>1 DEF Known
  <2>2. CASE gestures.phase = "pending" /\ clock - gestures.downT >= LongPressAt
    <3>1. r.g = [gestures EXCEPT !.phase = "longPressed"]
      BY <2>2 DEF Poll, Found
    <3> HIDE DEF r
    <3>2. r.g.phase = "longPressed"
      BY <2>1, <3>1 DEF Recognizers
    <3> QED
      BY <3>2
  <2>3. CASE ~(gestures.phase = "pending" /\ clock - gestures.downT >= LongPressAt)
    <3>1. r.g = gestures
      BY <2>3 DEF Poll, Found
    <3> HIDE DEF r
    <3>2. gestures.downT \in Nat
      BY <2>1 DEF Recognizers
    <3> QED
      BY <1>1, <2>3, <3>1, <3>2, GestureAssumption
  <2> QED
    BY <2>2, <2>3
<1> HIDE DEF r, v
<1>5. Typed'
  BY <1>2 DEF Typed, IInv
<1>6. Recognizing'
  BY <1>2, <1>3 DEF Recognizing
<1>7. Lifting'
  <2>1. told'.open = told.open
    BY <1>2, <1>3
  <2>2. Ends(Head(wire)) => Ends(Head(wire))'
    BY <1>2, <2>1 DEF Ends
  <2> QED
    BY <1>2, <2>1, <2>2 DEF Lifting, IInv
<1>8. Timely'
  <2>1. v.open => r.g.phase # "idle"
    BY <1>3 DEF Known
  <2>2. v.open => alarm' = clock + 1
    BY <1>2, <2>1 DEF NextTimeout, IsActive
  <2> QED
    BY <1>2, <1>4, <2>2 DEF Timely
<1> QED
  BY <1>5, <1>6, <1>7, <1>8 DEF IInv

LEMMA PassInv ==
  ASSUME IInv, Pass
  PROVE  IInv'
<1>1. /\ ~awake /\ alarm # clock /\ IsActive(gestures) /\ clock' = clock + 1
      /\ UNCHANGED <<device, hand, wire, packet, cursor, gestures, alarm, awake, reports, told>>
  BY DEF Pass
<1>2. clock \in Nat
  BY DEF IInv, Typed
<1>3. Typed'
  BY <1>1 DEF Typed, IInv
<1>4. Recognizing'
  <2>1. Known(cursor, gestures, told, clock)
    BY DEF IInv, Recognizing
  <2>2. told.moved \in Nat
    BY <2>1 DEF Known, Contacts
  <2>3. Tracked(gestures, told, clock) => Tracked(gestures, told, clock + 1)
    BY <1>2, <2>2 DEF Tracked
  <2>4. Known(cursor, gestures, told, clock + 1)
    BY <2>1, <2>3 DEF Known, Begun
  <2> QED
    BY <1>1, <2>4 DEF Recognizing
<1>5. Lifting'
  BY <1>1 DEF Lifting, IInv, Ends
<1>6. Timely'
  BY <1>1, <1>2 DEF Timely, IInv
<1> QED
  BY <1>3, <1>4, <1>5, <1>6 DEF IInv

LEMMA NextInv == IInv /\ [Next]_vars => IInv'
<1> SUFFICES ASSUME IInv, [Next]_vars PROVE IInv'
  OBVIOUS
<1>1. CASE Finger
  BY <1>1, FingerInv
<1>2. CASE Pointer
  BY <1>2, PointerInv
<1>3. CASE Dispatch
  BY <1>3, DispatchInv
<1>4. CASE TouchCancel
  BY <1>4, TouchCancelInv
<1>5. CASE Tick
  BY <1>5, TickInv
<1>6. CASE Pass
  BY <1>6, PassInv
<1>7. CASE UNCHANGED vars
  BY <1>7 DEF IInv, Typed, Recognizing, Lifting, Timely, Ends, vars
<1> QED
  BY <1>1, <1>2, <1>3, <1>4, <1>5, <1>6, <1>7 DEF Next

\* The invariant: what holds between the hand, the wire, the recognizer and what
\* is known of the contact, for any places, times, slop and window.
THEOREM Invariance == Spec => []IInv
BY InitInv, NextInv, PTL DEF Spec


-----------------------------------------------------------------------------
(* What the invariant says.                                                *)

\* NoStuckPress: a press the program knows of is a press of the hand, once the
\* packets that were sent are read: the lift of a finger is read as one though it
\* brings no position, and a button that is released as a release.
THEOREM PressIsHeld == Spec => []NoStuckPress
<1>1. IInv => NoStuckPress
  BY DEF IInv, Lifting, NoStuckPress
<1> QED
  BY <1>1, Invariance, PTL

Outcome == {<<>>, <<"Tap">>, <<"LongPress">>, <<"DragBegin">>, <<"DragBegin", "DragEnd">>,
            <<"DragBegin", "DragEnd", "Fling">>}

LEMMA OutcomeKnown ==
  ASSUME IInv
  PROVE  told \in Contacts /\ \E kinds \in Outcome : CameTo(told, kinds)
<1>1. Known(cursor, gestures, told, clock)
  BY DEF IInv, Recognizing
<1>2. gestures.phase \in {"idle", "pending", "dragging", "longPressed"}
  BY <1>1 DEF Known, Recognizers
<1>3. Over \subseteq Outcome /\ {<<>>, <<"DragBegin">>, <<"LongPress">>} \subseteq Outcome
  BY DEF Over, Outcome
<1> HIDE DEF Over, Outcome
<1> QED
  BY <1>1, <1>2, <1>3 DEF Known

LEMMA CameSure ==
  ASSUME IInv, NEW o \in Came
  PROVE  Sure(o)
<1>1. PICK k \in DOMAIN told.out : o = told.out[k]
  BY DEF Came
<1>2. PICK kinds \in Outcome : CameTo(told, kinds)
  BY OutcomeKnown
<1>3. told.out \in Seq(Outcomes)
  BY OutcomeKnown DEF Contacts
<1>4. k \in 1..Len(kinds)
  BY <1>1, <1>2, <1>3 DEF CameTo
<1> QED
  BY <1>1, <1>2, <1>4 DEF CameTo

\* OneOutcome: a contact comes to one gesture, or to one drag and its end, and is
\* on when it does; a tap and a long press are contacts that did not wander.
THEOREM ComesToOne == Spec => []OneOutcome
<1>1. ASSUME IInv PROVE OneOutcome
  <2>1. told.out \in Seq(Outcomes)
    BY <1>1, OutcomeKnown DEF Contacts
  <2>2. PICK kinds \in Outcome : CameTo(told, kinds)
    BY <1>1, OutcomeKnown
  <2>3. kinds = [k \in DOMAIN told.out |-> told.out[k].kind]
    <3> DEFINE s == [k \in DOMAIN told.out |-> told.out[k].kind]
    <3>1. DOMAIN told.out = 1..Len(told.out) /\ Len(told.out) = Len(kinds)
      BY <2>1, <2>2 DEF CameTo
    <3>2. s = [k \in 1..Len(kinds) |-> kinds[k]]
      BY <2>2, <3>1 DEF CameTo
    <3>3. kinds = [k \in 1..Len(kinds) |-> kinds[k]]
      <4>1. kinds \in Seq(Kinds)
        <5>1. /\ "Tap" \in Kinds /\ "LongPress" \in Kinds /\ "DragBegin" \in Kinds
              /\ "DragEnd" \in Kinds /\ "Fling" \in Kinds
          BY DEF Kinds
        <5>2. \A x, y, z \in Kinds : /\ <<>> \in Seq(Kinds) /\ <<x>> \in Seq(Kinds)
                                     /\ <<x, y>> \in Seq(Kinds) /\ <<x, y, z>> \in Seq(Kinds)
          <6> HIDE DEF Kinds
          <6> QED
            OBVIOUS
        <5> QED
          BY <5>1, <5>2 DEF Outcome
      <4> QED
        BY <4>1
    <3> QED
      BY <3>2, <3>3
  <2>4. \A o \in Came : Sure(o)
    BY <1>1, CameSure
  <2> QED
    BY <2>3, <2>4 DEF OneOutcome, Outcome, Sure
<1> QED
  BY <1>1, Invariance, PTL

\* FlingIsFresh: whatever the window and the times between samples, the speed of a
\* fling was not measured over a rest longer than the window.
THEOREM FlingMovedLately == Spec => []FlingIsFresh
<1>1. ASSUME IInv PROVE FlingIsFresh
  BY <1>1, CameSure DEF FlingIsFresh, Sure
<1> QED
  BY <1>1, Invariance, PTL

\* HeldOnTime: the frame clock finds a contact that is held, within a frame.
THEOREM LongPressOnTime == Spec => []HeldOnTime
<1>1. ASSUME IInv, told.open, told.still, ~awake, alarm # clock,
             clock >= told.since + LongPressAt
      PROVE  \E o \in Came : o.kind = "LongPress"
  <2>1. Known(cursor, gestures, told, clock)
    BY <1>1 DEF IInv, Recognizing
  <2>2. gestures \in Recognizers /\ told \in Contacts /\ told.since = gestures.downT
        /\ gestures.phase # "idle"
    BY <1>1, <2>1 DEF Known, Begun
  <2>3. clock \in Nat /\ told.since \in Nat
    BY <1>1, <2>2 DEF IInv, Typed, Contacts
  <2>4. gestures.phase # "pending"
    <3>1. ~(clock - told.since < LongPressAt)
      BY <1>1, <2>3, GestureAssumption
    <3> QED
      BY <1>1, <2>2, <3>1 DEF IInv, Timely
  <2>5. gestures.phase # "dragging"
    BY <1>1, <2>1 DEF Known
  <2>6. gestures.phase = "longPressed"
    BY <2>2, <2>4, <2>5 DEF Recognizers
  <2>7. CameTo(told, <<"LongPress">>)
    BY <2>1, <2>6 DEF Known
  <2>8. told.out \in Seq(Outcomes)
    BY <2>2 DEF Contacts
  <2>9. 1 \in DOMAIN told.out /\ told.out[1].kind = "LongPress"
    <3>1. Len(<<"LongPress">>) = 1 /\ <<"LongPress">>[1] = "LongPress"
      OBVIOUS
    <3>2. Len(told.out) = 1 /\ 1 \in 1..1 /\ told.out[1].kind = "LongPress"
      BY <2>7, <3>1 DEF CameTo
    <3> QED
      BY <2>8, <3>2
  <2> QED
    BY <2>9 DEF Came
<1>2. IInv => HeldOnTime
  BY <1>1 DEF HeldOnTime
<1> QED
  BY <1>2, Invariance, PTL

=============================================================================
