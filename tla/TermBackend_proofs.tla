------------------------- MODULE TermBackend_proofs --------------------------
(* Proofs about the terminal backend: TermSession for any geometries, colours   *)
(* and damage, TermInput for any number of acts and any way to cut their bytes.  *)
EXTENDS TermSession, TermInput, WellFoundedInduction, TLAPS

--------------------------------------------------------------------------------
(* Facts about sequences.                                                       *)

\* A set closed under successor up to n holds all of 0..n.
LEMMA UpTo ==
  ASSUME NEW n \in Nat, NEW S, 0 \in S,
         \A k \in 0..(n - 1) : k \in S => k + 1 \in S
  PROVE  0..n \subseteq S
<1> DEFINE R == OpToRel(<, Nat)
           T == {k \in 0..n : k \notin S}
<1>1. IsWellFoundedOn(R, Nat)
  BY NatLessThanWellFounded
<1>2. \A x, y \in Nat : <<x, y>> \in R <=> x < y
  BY DEF OpToRel
<1> SUFFICES ASSUME T # {} PROVE FALSE
  OBVIOUS
<1>3. T \subseteq Nat
  OBVIOUS
<1> HIDE DEF R
<1>4. PICK m \in T : \A y \in T : ~(<<y, m>> \in R)
  <2> HIDE DEF T
  <2> QED
    BY <1>1, <1>3, WFMin
<1>5. m # 0 /\ m - 1 \in 0..(n - 1)
  OBVIOUS
<1>6. m - 1 \notin T
  <2>1. m \in Nat /\ m - 1 \in Nat /\ m - 1 < m
    BY <1>3, <1>5
  <2>2. <<m - 1, m>> \in R
    BY <1>2, <2>1
  <2> HIDE DEF T
  <2> QED
    BY <1>4, <2>2
<1> QED
  BY <1>5, <1>6

\* x is an element of the sequence s.
In(x, s) == \E n \in 1..Len(s) : s[n] = x

LEMMA Sequence ==
  ASSUME NEW X, NEW n \in Nat, NEW f \in [1..n -> X]
  PROVE  f \in Seq(X) /\ Len(f) = n
OBVIOUS

LEMMA Divided ==
  ASSUME NEW n \in Nat, NEW c \in Nat, c > 0
  PROVE  n \div c \in Nat /\ n % c \in Nat /\ (n \div c) * c + (n % c) = n
<1>1. n % c \in 0..(c - 1)
  OBVIOUS
<1>2. n = c * (n \div c) + (n % c)
  OBVIOUS
<1>3. n \div c \in Nat
  OBVIOUS
<1> DEFINE q == n \div c
<1>4. c * q = q * c
  BY <1>3
<1> QED
  BY <1>1, <1>2, <1>3, <1>4

LEMMA Slice ==
  ASSUME NEW X, NEW s \in Seq(X), NEW m \in Nat, NEW n \in Nat, m <= n, n <= Len(s)
  PROVE  /\ SubSeq(s, m + 1, n) \in Seq(X) /\ Len(SubSeq(s, m + 1, n)) = n - m
         /\ \A k \in 1..(n - m) : SubSeq(s, m + 1, n)[k] = s[m + k]
OBVIOUS

LEMMA Joined ==
  ASSUME NEW X, NEW s \in Seq(X), NEW t \in Seq(X)
  PROVE  /\ s \o t \in Seq(X) /\ Len(s \o t) = Len(s) + Len(t)
         /\ Len(s) \in Nat /\ Len(t) \in Nat
         /\ \A k \in 1..Len(s) : (s \o t)[k] = s[k]
         /\ \A k \in 1..Len(t) : (s \o t)[Len(s) + k] = t[k]
OBVIOUS

LEMMA InAppended ==
  ASSUME NEW X, NEW s \in Seq(X), NEW t \in Seq(X), NEW x
  PROVE  In(x, s \o t) <=> In(x, s) \/ In(x, t)
<1>1. \A n \in 1..Len(t) : Len(s) + n \in 1..Len(s \o t) /\ (s \o t)[Len(s) + n] = t[n]
  OBVIOUS
<1>2. \A n \in 1..Len(s) : n \in 1..Len(s \o t) /\ (s \o t)[n] = s[n]
  OBVIOUS
<1>3. \A n \in 1..Len(s \o t) :
        n \notin 1..Len(s) => n - Len(s) \in 1..Len(t) /\ (s \o t)[n] = t[n - Len(s)]
  OBVIOUS
<1> QED
  BY <1>1, <1>2, <1>3 DEF In

\* Flattened sequences: a sequence of the elements of all of them.
LEMMA Flattened ==
  ASSUME NEW X, NEW ss \in Seq(Seq(X))
  PROVE  /\ FlattenSeq(ss) \in Seq(X)
         /\ \A x : In(x, FlattenSeq(ss)) <=> \E k \in 1..Len(ss) : In(x, ss[k])
<1> DEFINE N == Len(ss)
           Next1(f, i) == IF i = 1 THEN ss[i] ELSE f[i - 1] \o ss[i]
           F == CHOOSE f : f = [i \in 1..N |-> Next1(f, i)]
<1>0. N \in Nat /\ \A k \in 1..N : ss[k] \in Seq(X)
  OBVIOUS
<1>1. CASE N = 0
  BY <1>1 DEF FlattenSeq, In
<1>2. CASE N # 0
  <2>1. FlattenSeq(ss) = F[N]
    BY <1>2 DEF FlattenSeq
  <2>2. \E f \in [1..N -> Seq(X)] : f = [i \in 1..N |-> Next1(f, i)]
    <3> DEFINE Built(n) == \E f \in [1..n -> Seq(X)] : \A i \in 1..n : f[i] = Next1(f, i)
               S == {n \in 0..N : Built(n)}
    <3>1. 0 \in S
      <4>1. [i \in 1..0 |-> ss] \in [1..0 -> Seq(X)]
        OBVIOUS
      <4>2. \A i \in 1..0 : FALSE
        OBVIOUS
      <4>3. Built(0)
        BY <4>1, <4>2
      <4> HIDE DEF Built
      <4> QED
        BY <1>0, <4>3
    <3>2. ASSUME NEW n \in 0..(N - 1), n \in S PROVE n + 1 \in S
      <4>1. PICK f \in [1..n -> Seq(X)] : \A i \in 1..n : f[i] = Next1(f, i)
        BY <3>2
      <4> DEFINE last == IF n = 0 THEN ss[1] ELSE f[n] \o ss[n + 1]
                 g == [i \in 1..(n + 1) |-> IF i <= n THEN f[i] ELSE last]
      <4>2. last \in Seq(X)
        BY <1>0
      <4>3. g \in [1..(n + 1) -> Seq(X)]
        BY <4>2
      <4>4. \A i \in 1..n : g[i] = f[i]
        OBVIOUS
      <4>5. g[n + 1] = last
        OBVIOUS
      <4> HIDE DEF last, g
      <4>6. ASSUME NEW i \in 1..n PROVE g[i] = Next1(g, i)
        <5>1. g[i] = f[i] /\ f[i] = Next1(f, i)
          BY <4>1, <4>4
        <5>2. i # 1 => i - 1 \in 1..n /\ g[i - 1] = f[i - 1]
          BY <4>4
        <5> QED
          BY <5>1, <5>2
      <4>7. last = Next1(g, n + 1)
        BY <4>4 DEF last
      <4>8. \A i \in 1..(n + 1) : g[i] = Next1(g, i)
        BY <4>5, <4>6, <4>7
      <4>9. n + 1 \in 0..N
        BY <1>0
      <4>10. Built(n + 1)
        BY <4>3, <4>8
      <4> HIDE DEF Built
      <4> QED
        BY <4>9, <4>10
    <3> HIDE DEF S
    <3>3. N \in S
      <4>1. \A n \in 0..(N - 1) : n \in S => n + 1 \in S
        BY <3>2
      <4> HIDE DEF N
      <4>2. 0..N \subseteq S
        BY <1>0, <3>1, <4>1, UpTo
      <4> QED
        BY <1>0, <4>2
    <3>4. PICK f \in [1..N -> Seq(X)] : \A i \in 1..N : f[i] = Next1(f, i)
      BY <3>3 DEF S
    <3>5. f = [i \in 1..N |-> Next1(f, i)]
      BY <3>4
    <3> QED
      BY <3>5
  <2>3. F = [i \in 1..N |-> Next1(F, i)]
    BY <2>2
  <2> HIDE DEF F
  <2>4. \A i \in 1..N : F[i] = Next1(F, i)
    BY <2>3
  <2> DEFINE Some(x, n) == \E k \in 1..n : In(x, ss[k])
             S == {n \in 0..N : n # 0 => /\ F[n] \in Seq(X)
                                         /\ \A x : In(x, F[n]) <=> Some(x, n)}
  <2>5. ASSUME NEW n \in 0..(N - 1), n \in S PROVE n + 1 \in S
    <3>1. CASE n = 0
      <4>1. F[1] = ss[1]
        BY <1>0, <1>2, <2>4
      <4>2. \A x : Some(x, 1) <=> In(x, ss[1])
        OBVIOUS
      <4> QED
        BY <1>0, <1>2, <3>1, <4>1, <4>2
    <3>2. CASE n # 0
      <4>1. F[n + 1] = F[n] \o ss[n + 1]
        <5>1. n + 1 \in 1..N /\ n + 1 # 1 /\ (n + 1) - 1 = n
          BY <1>0, <3>2
        <5>2. F[n + 1] = Next1(F, n + 1)
          BY <2>4, <5>1
        <5> QED
          BY <5>1, <5>2
      <4>2. F[n] \in Seq(X) /\ ss[n + 1] \in Seq(X)
        BY <1>0, <2>5, <3>2
      <4>3. \A x : In(x, F[n + 1]) <=> In(x, F[n]) \/ In(x, ss[n + 1])
        BY <4>1, <4>2, InAppended
      <4>4. \A x : Some(x, n + 1) <=> Some(x, n) \/ In(x, ss[n + 1])
        OBVIOUS
      <4>5. \A x : In(x, F[n]) <=> Some(x, n)
        BY <2>5, <3>2
      <4>6. F[n + 1] \in Seq(X)
        BY <4>1, <4>2
      <4> HIDE DEF Some
      <4>7. \A x : In(x, F[n + 1]) <=> Some(x, n + 1)
        BY <4>3, <4>4, <4>5
      <4> QED
        BY <4>6, <4>7
    <3> QED
      BY <3>1, <3>2
  <2>6. 0 \in S
    BY <1>0
  <2> HIDE DEF S
  <2>7. N \in S
    <3>1. \A n \in 0..(N - 1) : n \in S => n + 1 \in S
      BY <2>5
    <3> HIDE DEF N
    <3>2. 0..N \subseteq S
      BY <1>0, <2>6, <3>1, UpTo
    <3> QED
      BY <1>0, <3>2
  <2> QED
    BY <1>2, <2>1, <2>7 DEF S
<1> QED
  BY <1>1, <1>2

--------------------------------------------------------------------------------
(* The inductive invariant.                                                     *)

Geos == [rows : Nat, cell : Nat \ {0}]
Spans == [y : Nat, b : Nat]
Pictures == [id : Nat, z : Nat, row : Nat, off : Nat, pix : Seq(Colours)]
Commands == [op : {"setup", "restore", "deleteAll", "clear"}]
              \cup [op : {"place"}, image : Pictures]
              \cup [op : {"delete"}, id : Nat]
              \cup [op : {"cell"}, row : Nat, halves : Seq(Colours)]

Displays == [protocol : {"kitty", "cells"}, geo : Geos, shadow : Seq(Colours),
             presented : BOOLEAN, slot : BOOLEAN, nextId : Nat, patches : Seq(Nat), nextZ : Nat]

\* What a display keeps of itself: as many pixels as its geometry has, patches
\* of ids of their own, and no more of them than may live.
Sound(d) == /\ d \in Displays
            /\ Len(d.shadow) = Heighten(d.geo)
            /\ d.protocol = "cells" => d.geo.cell = 2
            /\ Len(d.patches) <= MaxPatches
            /\ d.nextId >= FirstPatchId /\ d.nextZ >= 1
            /\ \A k \in 1..Len(d.patches) : FirstPatchId <= d.patches[k] /\ d.patches[k] < d.nextId

\* A terminal, with a grid as high as its window.
Emulates(t) == /\ t.geo \in Geos /\ t.raw \in BOOLEAN /\ t.alt \in BOOLEAN
               /\ t.images \subseteq Pictures
               /\ t = [geo |-> t.geo, raw |-> t.raw, alt |-> t.alt,
                       images |-> t.images, grid |-> t.grid]
               /\ t.grid = [r \in 0..(t.geo.rows - 1) |-> t.grid[r]]

Typed == /\ pc \in {"new", "armed", "raw", "taken", "running", "dropping",
                    "restoring", "cooking", "gone", "left"}
         /\ active \in BOOLEAN /\ pixels \in BOOLEAN /\ resizes \in 0..MaxResizes
         /\ Sound(display)
         /\ tty \in Seq(Commands)
         /\ Emulates(term)

\* A restore is owed by the process, or written past place n.
Owed == active \/ pc = "restoring"
RestoredAfter(s, n) == \E k \in 1..Len(s) : n < k /\ s[k].op = "restore"

\* Nothing is done to the terminal before a restore is owed for it, and what
\* was done stays undone once the process is over.
Restoring ==
  /\ pc \in {"new", "armed", "raw"} => tty = <<>> /\ ~term.alt /\ term.images = {}
  /\ pc \in {"armed", "raw", "taken"} => active
  /\ active => pc \in {"armed", "raw", "taken", "running", "dropping"}
  /\ pc \in {"new", "armed"} => ~term.raw
  /\ term.raw => active \/ pc \in {"restoring", "cooking"}
  /\ term.alt => Owed \/ RestoredAfter(tty, 0)
  /\ \A n \in 1..Len(tty) : tty[n].op = "setup" => Owed \/ RestoredAfter(tty, n)
  /\ pc \in {"cooking", "gone"} =>
       /\ term.images # {} => RestoredAfter(tty, 0)
       /\ \A n \in 1..Len(tty) : tty[n].op = "place" => RestoredAfter(tty, n)

\* The base a sequence in the tty deletes has its successor placed just before.
Succeeded ==
  \A n \in 1..Len(tty) :
    tty[n].op = "delete" /\ tty[n].id < FirstPatchId
      => /\ tty[n].id \in {1, 2}
         /\ IF n = 1 THEN \E i \in term.images : i.id = 3 - tty[n].id
            ELSE tty[n - 1].op = "place" /\ tty[n - 1].image.id = 3 - tty[n].id

\* Sequences that decide what is shown under an id, and what they leave there.
Decides(c, id) == \/ c.op = "place" /\ c.image.id = id
                  \/ c.op = "delete" /\ c.id = id
                  \/ c.op \in {"deleteAll", "restore"}
Leaves(c) == IF c.op = "place" THEN {c.image} ELSE {}
Under(images, id) == {i \in images : i.id = id}

\* Once the tty is drained, id shows what it has in W: the last sequence that
\* decides says so, or the terminal if there is none.
Comes(id, W) ==
  \E n \in 0..Len(tty) :
    /\ n = 0 => Under(term.images, id) = Under(W, id)
    /\ n # 0 => Decides(tty[n], id) /\ Leaves(tty[n]) = Under(W, id)
    /\ \A k \in 1..Len(tty) :
         n < k /\ Decides(tty[k], id) => Leaves(tty[k]) = Under(W, id)

Covers(d, i, p) == Top(d, i) <= p /\ p < Top(d, i) + Len(i.pix)
Below(j, i) == j.z < i.z \/ (j.z = i.z /\ j.id <= i.id)

\* The images W compose to the shadow buffer of d.
Composes(W, d) ==
  \A p \in 0..(Len(d.shadow) - 1) :
    \E i \in W : /\ Covers(d, i, p) /\ i.pix[p + 1 - Top(d, i)] = d.shadow[p + 1]
                 /\ \A j \in W : Covers(d, j, p) => Below(j, i)

\* W is what d believes to be on the screen.
Believed(W, d) ==
  /\ W \subseteq Pictures
  /\ \A i, j \in W : i.id = j.id => i = j
  /\ ~d.presented => W = {}
  /\ d.presented =>
       /\ \A i \in W : i.z < d.nextZ /\ i.id < d.nextId
       /\ \A i \in W : i.id = Base(~d.slot) \/ In(i.id, d.patches)
       /\ Composes(W, d)

\* Row r of the grid becomes that of the shadow buffer.
RowComes(r) ==
  \E n \in 0..Len(tty) :
    /\ n = 0 => term.grid[r] = Cell(display, r).halves
    /\ n # 0 => tty[n] = Cell(display, r)
    /\ \A k \in 1..Len(tty) : n < k => /\ tty[k].op \notin {"setup", "clear"}
                                       /\ tty[k].op = "cell" /\ tty[k].row = r => tty[k] = Cell(display, r)

\* The program draws, on a terminal that is its own and of the size it knows.
Live == pc = "running" /\ active /\ Derived(display, term.geo, TRUE) = display.geo

Drawing ==
  /\ pc = "taken" => /\ term.images = {}
                     /\ \A n \in 1..Len(tty) : tty[n].op = "setup"
  /\ Live /\ display.protocol = "kitty" =>
       \E W \in SUBSET Pictures : Believed(W, display) /\ \A id \in Nat : Comes(id, W)
  /\ Live /\ display.protocol = "cells" /\ display.presented =>
       \A r \in 0..(display.geo.rows - 1) : RowComes(r)

Inv == Typed /\ Restoring /\ Succeeded /\ Drawing

--------------------------------------------------------------------------------
(* What the display does to its state and what it writes.                       *)

LEMMA Heights == \A g \in Geos : Heighten(g) \in Nat
<1> TAKE g \in Geos
<1> DEFINE r == g.rows
           c == g.cell
<1>1. r \in Nat /\ c \in Nat
  BY DEF Geos
<1>2. r * c \in Nat
  BY <1>1
<1> QED
  BY <1>2 DEF Heighten

LEMMA NewSound ==
  ASSUME NEW p \in {"kitty", "cells"}, NEW g \in Geos, p = "cells" => g.cell = 2
  PROVE  Sound(NewDisplay(p, g))
<1>1. Heighten(g) \in Nat
  BY Heights
<1>2. [n \in 1..Heighten(g) |-> Black] \in Seq(Colours)
  BY <1>1, TermAssumption
<1>3. Len([n \in 1..Heighten(g) |-> Black]) = Heighten(g)
  BY <1>1
<1> QED
  BY <1>1, <1>2, <1>3, TermAssumption DEF NewDisplay, Sound, Displays

LEMMA DerivedGeos ==
  ASSUME NEW d, Sound(d), NEW g \in Geos, NEW b \in BOOLEAN
  PROVE  Derived(d, g, b) \in Geos /\ (d.protocol = "cells" => Derived(d, g, b).cell = 2)
BY DEF Derived, Geos, Sound, Displays

\* Painting changes nothing but pixels, and those only inside the damage.
LEMMA Painted ==
  ASSUME NEW d, Sound(d), NEW damage, NEW c \in Colours
  PROVE  /\ Sound(Drawn(d, damage, c))
         /\ Drawn(d, damage, c) = [d EXCEPT !.shadow = Drawn(d, damage, c).shadow]
         /\ \A n \in 1..Len(d.shadow) :
              (\A k \in DOMAIN damage : ~(damage[k].y < n /\ n <= damage[k].b))
                => Drawn(d, damage, c).shadow[n] = d.shadow[n]
<1> DEFINE e == Drawn(d, damage, c)
           In1(n) == \E k \in DOMAIN damage : damage[k].y < n /\ n <= damage[k].b
           s == [n \in DOMAIN d.shadow |-> IF In1(n) THEN c ELSE d.shadow[n]]
<1>1. d.shadow \in Seq(Colours) /\ Len(d.shadow) \in Nat
  BY DEF Sound, Displays
<1>2. DOMAIN d.shadow = 1..Len(d.shadow)
  BY <1>1
<1> HIDE DEF In1
<1>3. s \in [1..Len(d.shadow) -> Colours]
  BY <1>1, <1>2
<1>4. s \in Seq(Colours) /\ Len(s) = Len(d.shadow)
  BY <1>1, <1>3
<1>5. \A n \in 1..Len(d.shadow) : ~In1(n) => s[n] = d.shadow[n]
  BY <1>2
<1>6. e = [d EXCEPT !.shadow = s]
  BY DEF Drawn, In1, Sound, Displays
<1> HIDE DEF s
<1>7. e.shadow = s /\ e = [d EXCEPT !.shadow = e.shadow]
  BY <1>6 DEF Sound, Displays
<1>8. Sound(e)
  BY <1>4, <1>6 DEF Sound, Displays, Heighten
<1> HIDE DEF e
<1> QED
  BY <1>5, <1>7, <1>8 DEF In1, e

\* Clamped damage: the parts of the rectangles that are on the surface.
LEMMA ClampedIn ==
  ASSUME NEW d, Sound(d), NEW damage \in Seq(Spans)
  PROVE  /\ Clamped(d, damage) \in Seq({r \in Spans : r.y < r.b /\ r.b <= Len(d.shadow)})
         /\ \A k \in 1..Len(damage), n \in 1..Len(d.shadow) :
              damage[k].y < n /\ n <= damage[k].b
                => \E m \in 1..Len(Clamped(d, damage)) :
                     Clamped(d, damage)[m].y < n /\ n <= Clamped(d, damage)[m].b
<1> DEFINE L == Len(d.shadow)
           X == {r \in Spans : r.y < r.b /\ r.b <= L}
           cut(r) == [y |-> r.y, b |-> IF r.b > L THEN L ELSE r.b]
           part(r) == IF cut(r).y < cut(r).b THEN <<cut(r)>> ELSE <<>>
           ss == [k \in DOMAIN damage |-> part(damage[k])]
<1>1. L \in Nat
  BY DEF Sound, Displays
<1>2. \A r \in Spans : cut(r) \in Spans /\ cut(r).b <= L
  BY <1>1 DEF Spans
<1>3. ASSUME NEW r \in Spans PROVE part(r) \in Seq(X)
  <2>1. cut(r).y < cut(r).b => cut(r) \in X
    BY <1>2
  <2> HIDE DEF cut, X
  <2> QED
    BY <2>1
<1>4. ss \in Seq(Seq(X)) /\ Len(ss) = Len(damage)
  <2>1. Len(damage) \in Nat /\ DOMAIN damage = 1..Len(damage)
    OBVIOUS
  <2>2. \A k \in 1..Len(damage) : damage[k] \in Spans
    OBVIOUS
  <2> HIDE DEF part, X
  <2>3. ss \in [1..Len(damage) -> Seq(X)]
    BY <1>3, <2>1, <2>2
  <2> HIDE DEF ss
  <2> QED
    BY <2>1, <2>3, Sequence
<1>5. Clamped(d, damage) = FlattenSeq(ss)
  BY DEF Clamped
<1> DEFINE C == Clamped(d, damage)
<1> HIDE DEF ss, C
<1>6. C \in Seq(X) /\ \A x : In(x, C) <=> \E k \in 1..Len(ss) : In(x, ss[k])
  BY <1>4, <1>5, Flattened DEF C
<1>7. ASSUME NEW k \in 1..Len(damage), NEW n \in 1..L, damage[k].y < n, n <= damage[k].b
      PROVE  \E m \in 1..Len(C) : C[m].y < n /\ n <= C[m].b
  <2>1. damage[k] \in Spans
    OBVIOUS
  <2>2. cut(damage[k]).y < n /\ n <= cut(damage[k]).b /\ cut(damage[k]).y < cut(damage[k]).b
    BY <1>1, <1>7, <2>1 DEF Spans
  <2>3. ss[k] = <<cut(damage[k])>>
    BY <2>2 DEF ss
  <2>4. In(cut(damage[k]), ss[k])
    BY <2>3 DEF In
  <2>5. In(cut(damage[k]), C)
    BY <1>4, <1>6, <2>4
  <2> HIDE DEF cut
  <2> QED
    BY <2>2, <2>5 DEF In
<1> QED
  BY <1>6, <1>7 DEF C

\* The part of the surface that clamped damage may cover.
Within(d) == {r \in Spans : r.y <= r.b /\ r.b <= Len(d.shadow)}

\* An image lies over the pixels it was cut from.
LEMMA Cut ==
  ASSUME NEW d, Sound(d), NEW id \in Nat, NEW z \in Nat, NEW r \in Within(d)
  PROVE  /\ Image(d, id, z, r) \in Pictures
         /\ Image(d, id, z, r).id = id /\ Image(d, id, z, r).z = z
         /\ Top(d, Image(d, id, z, r)) = r.y
         /\ Len(Image(d, id, z, r).pix) = r.b - r.y
         /\ \A n \in 1..(r.b - r.y) : Image(d, id, z, r).pix[n] = d.shadow[r.y + n]
<1> DEFINE c == d.geo.cell
           q == r.y \div c
           f == r.y % c
           x == SubSeq(d.shadow, r.y + 1, r.b)
<1>1. r.y \in Nat /\ r.b \in Nat /\ r.y <= r.b /\ r.b <= Len(d.shadow)
  BY DEF Within, Spans
<1>2. c \in Nat /\ c > 0
  BY DEF Sound, Displays, Geos
<1>3. q \in Nat /\ f \in Nat /\ q * c + f = r.y
  BY <1>1, <1>2, Divided
<1>4. d.shadow \in Seq(Colours)
  BY DEF Sound, Displays
<1>5. /\ x \in Seq(Colours) /\ Len(x) = r.b - r.y
      /\ \A n \in 1..(r.b - r.y) : x[n] = d.shadow[r.y + n]
  <2> DEFINE s == d.shadow
             m == r.y
             n == r.b
  <2>1. s \in Seq(Colours) /\ m \in Nat /\ n \in Nat /\ m <= n /\ n <= Len(s)
    BY <1>1, <1>4
  <2> HIDE DEF s, m, n
  <2>2. /\ SubSeq(s, m + 1, n) \in Seq(Colours) /\ Len(SubSeq(s, m + 1, n)) = n - m
        /\ \A k \in 1..(n - m) : SubSeq(s, m + 1, n)[k] = s[m + k]
    BY <2>1, Slice
  <2> QED
    BY <2>2 DEF s, m, n
<1>6. Image(d, id, z, r) = [id |-> id, z |-> z, row |-> q, off |-> f, pix |-> x]
  BY DEF Image
<1> HIDE DEF q, f, x
<1> QED
  BY <1>3, <1>5, <1>6 DEF Pictures, Top

LEMMA Replies ==
  /\ \A i \in Pictures : Place(i) \in Commands /\ Place(i).op = "place" /\ Place(i).image = i
  /\ \A id \in Nat : Delete(id) \in Commands /\ Delete(id).op = "delete" /\ Delete(id).id = id
BY DEF Place, Delete, Commands

LEMMA PatchesWritten ==
  ASSUME NEW d, Sound(d), NEW r \in Seq(Within(d))
  PROVE  /\ PatchOut(d, r) \in Seq(Commands) /\ Len(PatchOut(d, r)) = Len(r)
         /\ \A k \in 1..Len(r) :
              PatchOut(d, r)[k] = Place(Image(d, d.nextId + k - 1, d.nextZ + k - 1, r[k]))
<1> DEFINE P(k) == Place(Image(d, d.nextId + k - 1, d.nextZ + k - 1, r[k]))
<1>1. Len(r) \in Nat /\ DOMAIN r = 1..Len(r) /\ \A k \in 1..Len(r) : r[k] \in Within(d)
  OBVIOUS
<1>2. d.nextId \in Nat /\ d.nextZ \in Nat
  BY DEF Sound, Displays
<1>3. ASSUME NEW k \in 1..Len(r) PROVE P(k) \in Commands
  <2>1. d.nextId + k - 1 \in Nat /\ d.nextZ + k - 1 \in Nat
    BY <1>1, <1>2
  <2>2. Image(d, d.nextId + k - 1, d.nextZ + k - 1, r[k]) \in Pictures
    BY <1>1, <2>1, Cut
  <2> QED
    BY <2>2, Replies
<1> HIDE DEF P
<1>4. [k \in 1..Len(r) |-> P(k)] \in [1..Len(r) -> Commands]
  BY <1>3
<1>5. PatchOut(d, r) = [k \in 1..Len(r) |-> P(k)]
  BY <1>1 DEF PatchOut, P
<1> QED
  BY <1>1, <1>4, <1>5, Sequence DEF P

\* A whole frame: the new base, the old one deleted, the patches deleted.
LEMMA WholeWritten ==
  ASSUME NEW d, Sound(d)
  PROVE  LET o == FullOut(d)
             h == IF d.presented THEN 2 ELSE 1
         IN  /\ o \in Seq(Commands) /\ Len(o) = h + Len(d.patches)
             /\ Whole(d) \in Within(d)
             /\ o[1] = Place(Image(d, Base(d.slot), 0, Whole(d)))
             /\ d.presented => o[2] = Delete(Base(~d.slot))
             /\ \A k \in 1..Len(d.patches) : o[h + k] = Delete(d.patches[k])
<1> DEFINE a == <<Place(Image(d, Base(d.slot), 0, Whole(d)))>>
           b == IF d.presented THEN <<Delete(Base(~d.slot))>> ELSE <<>>
           c == [k \in 1..Len(d.patches) |-> Delete(d.patches[k])]
<1>1. Len(d.shadow) \in Nat /\ Whole(d) \in Within(d)
  BY DEF Sound, Displays, Whole, Within, Spans
<1>2. Base(d.slot) \in Nat /\ Base(~d.slot) \in Nat
  BY DEF Base
<1>3. Image(d, Base(d.slot), 0, Whole(d)) \in Pictures
  BY <1>1, <1>2, Cut
<1>4. a \in Seq(Commands) /\ Len(a) = 1 /\ a[1] = Place(Image(d, Base(d.slot), 0, Whole(d)))
  BY <1>3, Replies
<1>5. b \in Seq(Commands) /\ Len(b) = (IF d.presented THEN 1 ELSE 0)
      /\ (d.presented => b[1] = Delete(Base(~d.slot)))
  BY <1>2, Replies
<1>6. Len(d.patches) \in Nat /\ DOMAIN d.patches = 1..Len(d.patches)
      /\ \A k \in 1..Len(d.patches) : d.patches[k] \in Nat
  BY DEF Sound, Displays
<1>7. c \in [1..Len(d.patches) -> Commands]
  BY <1>6, Replies
<1>8. c \in Seq(Commands) /\ Len(c) = Len(d.patches)
      /\ \A k \in 1..Len(d.patches) : c[k] = Delete(d.patches[k])
  BY <1>6, <1>7, Sequence
<1>9. FullOut(d) = (a \o b) \o c
  BY <1>6 DEF FullOut
<1> HIDE DEF a, b, c
<1> DEFINE ab == a \o b
           o == ab \o c
           h == IF d.presented THEN 2 ELSE 1
<1>10. /\ ab \in Seq(Commands) /\ Len(ab) = h
       /\ ab[1] = a[1] /\ (d.presented => ab[2] = b[1])
  <2>1. /\ ab \in Seq(Commands) /\ Len(ab) = Len(a) + Len(b)
        /\ \A k \in 1..Len(a) : ab[k] = a[k]
        /\ \A k \in 1..Len(b) : ab[Len(a) + k] = b[k]
    BY <1>4, <1>5, Joined
  <2> HIDE DEF ab
  <2>2. ab[1] = a[1]
    BY <1>4, <2>1
  <2>3. d.presented => 1 \in 1..Len(b) /\ ab[2] = b[1]
    BY <1>4, <1>5, <2>1
  <2>4. Len(ab) = h
    BY <1>4, <1>5, <2>1
  <2> QED
    BY <2>1, <2>2, <2>3, <2>4
<1> HIDE DEF ab
<1>11. /\ o \in Seq(Commands) /\ Len(o) = h + Len(c)
       /\ \A k \in 1..h : o[k] = ab[k]
       /\ \A k \in 1..Len(c) : o[h + k] = c[k]
  <2>0. ab \in Seq(Commands) /\ c \in Seq(Commands)
    BY <1>8, <1>10
  <2>1. /\ o \in Seq(Commands) /\ Len(o) = Len(ab) + Len(c)
        /\ \A k \in 1..Len(ab) : o[k] = ab[k]
        /\ \A k \in 1..Len(c) : o[Len(ab) + k] = c[k]
    BY <2>0, Joined
  <2> HIDE DEF o
  <2> QED
    BY <1>10, <2>1
<1>12. o = FullOut(d)
  BY <1>9 DEF ab
<1> HIDE DEF o
<1>13. o[1] = ab[1] /\ (d.presented => o[2] = ab[2])
  BY <1>11
<1> QED
  BY <1>1, <1>4, <1>5, <1>6, <1>8, <1>10, <1>11, <1>12, <1>13

\* The cell rows of a surface of cells: two pixels each, drawn as they are.
LEMMA RowsWritten ==
  ASSUME NEW d, Sound(d), d.protocol = "cells", NEW damage \in Seq(Within(d))
  PROVE  LET o == CellsOut(d, damage)
         IN  /\ o \in Seq(Commands)
             /\ \A k \in 1..Len(o) : o[k].op = "cell" /\ o[k] = Cell(d, o[k].row)
             /\ \A k \in 1..Len(damage), n \in 1..Len(d.shadow) :
                  damage[k].y < n /\ n <= damage[k].b => In(Cell(d, (n - 1) \div 2), o)
<1> DEFINE L == Len(d.shadow)
           o == CellsOut(d, damage)
           X == {Cell(d, q) : q \in 0..(d.geo.rows - 1)}
           first(r) == r.y \div 2
           many(r) == ((r.b + 1) \div 2) - first(r)
           rows(r) == [k \in 1..many(r) |-> Cell(d, first(r) + k - 1)]
           ss == [k \in 1..Len(damage) |-> rows(damage[k])]
<1>1. d.geo.rows \in Nat /\ L = d.geo.rows * 2
  BY DEF Sound, Displays, Geos, Heighten
<1>2. ASSUME NEW r \in Within(d)
      PROVE  /\ first(r) \in Nat /\ many(r) \in Nat
             /\ first(r) + many(r) <= d.geo.rows
             /\ \A n \in 1..L : r.y < n /\ n <= r.b =>
                  /\ first(r) <= (n - 1) \div 2
                  /\ (n - 1) \div 2 < first(r) + many(r)
  <2>1. r.y \in Nat /\ r.b \in Nat /\ r.y <= r.b /\ r.b <= L
    BY DEF Within, Spans
  <2>2. many(r) \in Nat /\ first(r) \in Nat
    BY <2>1
  <2>3. first(r) + many(r) = (r.b + 1) \div 2
    BY <2>1
  <2>4. (r.b + 1) \div 2 <= d.geo.rows
    BY <1>1, <2>1
  <2>5. ASSUME NEW n \in 1..L, r.y < n, n <= r.b
        PROVE  first(r) <= (n - 1) \div 2 /\ (n - 1) \div 2 < (r.b + 1) \div 2
    BY <1>1, <2>1, <2>5
  <2> QED
    BY <2>2, <2>3, <2>4, <2>5
<1>3. Len(damage) \in Nat /\ DOMAIN damage = 1..Len(damage)
      /\ \A k \in 1..Len(damage) : damage[k] \in Within(d)
  OBVIOUS
<1>4. o = FlattenSeq(ss)
  BY <1>3 DEF CellsOut, CellRows
<1> HIDE DEF first, many, X, L
<1>5. ASSUME NEW r \in Within(d) PROVE rows(r) \in Seq(X) /\ Len(rows(r)) = many(r)
  <2>1. \A k \in 1..many(r) : first(r) + k - 1 \in 0..(d.geo.rows - 1)
    BY <1>1, <1>2
  <2>2. rows(r) \in [1..many(r) -> X]
    BY <2>1 DEF X
  <2> HIDE DEF rows
  <2> QED
    BY <1>2, <2>2, Sequence
<1> HIDE DEF rows
<1>6. ss \in Seq(Seq(X)) /\ Len(ss) = Len(damage)
  <2>1. ss \in [1..Len(damage) -> Seq(X)]
    BY <1>3, <1>5
  <2> HIDE DEF ss
  <2> QED
    BY <1>3, <2>1, Sequence
<1> HIDE DEF ss, o
<1>7. o \in Seq(X) /\ \A x : In(x, o) <=> \E k \in 1..Len(ss) : In(x, ss[k])
  BY <1>4, <1>6, Flattened
<1>8. ASSUME NEW q \in 0..(d.geo.rows - 1)
      PROVE  Cell(d, q) \in Commands /\ Cell(d, q).op = "cell" /\ Cell(d, q).row = q
  <2>1. d.shadow \in Seq(Colours) /\ 2 * q \in Nat /\ 2 * q + 2 \in Nat
        /\ 2 * q <= 2 * q + 2 /\ 2 * q + 2 <= Len(d.shadow)
    BY <1>1 DEF Sound, Displays, L
  <2>2. SubSeq(d.shadow, 2 * q + 1, 2 * q + 2) \in Seq(Colours)
    BY <2>1, Slice
  <2> QED
    BY <1>1, <2>2 DEF Cell, Commands
<1>9. \A x \in X : x \in Commands /\ x.op = "cell" /\ x = Cell(d, x.row)
  BY <1>8 DEF X
<1>10. o \in Seq(Commands) /\ \A k \in 1..Len(o) : o[k].op = "cell" /\ o[k] = Cell(d, o[k].row)
  <2>1. Len(o) \in Nat /\ o \in [1..Len(o) -> X]
    BY <1>7
  <2>2. o \in [1..Len(o) -> Commands]
    BY <1>9, <2>1
  <2>3. o \in Seq(Commands)
    BY <2>1, <2>2, Sequence
  <2> QED
    BY <1>9, <2>1, <2>3
<1>11. ASSUME NEW k \in 1..Len(damage), NEW n \in 1..L, damage[k].y < n, n <= damage[k].b
       PROVE  In(Cell(d, (n - 1) \div 2), o)
  <2> DEFINE r == damage[k]
             q == (n - 1) \div 2
             m == q - first(r) + 1
  <2>1. r \in Within(d) /\ L \in Nat
    BY <1>1, <1>3
  <2>2. q \in Nat /\ first(r) \in Nat /\ many(r) \in Nat /\ first(r) <= q /\ q < first(r) + many(r)
    <3>1. q \in Nat
      BY <2>1
    <3>2. first(r) <= q /\ q < first(r) + many(r) /\ first(r) \in Nat /\ many(r) \in Nat
      BY <1>2, <1>11, <2>1
    <3> QED
      BY <3>1, <3>2
  <2> HIDE DEF q
  <2>3. m \in 1..many(r) /\ first(r) + m - 1 = q
    BY <2>2
  <2>4. m \in 1..Len(rows(r)) /\ rows(r)[m] = Cell(d, q)
    <3>1. rows(r)[m] = Cell(d, first(r) + m - 1)
      <4> HIDE DEF m
      <4> QED
        BY <2>3 DEF rows
    <3> QED
      BY <1>5, <2>1, <2>3, <3>1
  <2>5. ss[k] = rows(r)
    BY DEF ss
  <2>6. In(Cell(d, q), ss[k])
    BY <2>4, <2>5 DEF In
  <2> QED
    BY <1>6, <1>7, <2>6 DEF q
<1> QED
  BY <1>10, <1>11 DEF o, L

\* The four ways a frame goes out, r being what is left of its damage.
Nothing(d, damage, r) ==
  /\ r = <<>> /\ d.presented
  /\ PresentOut(d, damage) = <<>> /\ Presented(d, damage) = d
Fully(d, damage, r) ==
  /\ d.protocol = "kitty"
  /\ PresentOut(d, damage) = FullOut(d) /\ Presented(d, damage) = Consolidated(d)
InPatches(d, damage, r) ==
  /\ d.protocol = "kitty" /\ d.presented /\ Len(d.patches) + Len(r) <= MaxPatches
  /\ PresentOut(d, damage) = PatchOut(d, r) /\ Presented(d, damage) = Patched(d, r)
InCells(d, damage, r) ==
  /\ d.protocol = "cells"
  /\ PresentOut(d, damage) = CellsOut(d, IF d.presented THEN r ELSE <<Whole(d)>>)
  /\ Presented(d, damage) = [d EXCEPT !.presented = TRUE]

LEMMA Ways ==
  ASSUME NEW d, Sound(d), NEW damage \in Seq(Spans)
  PROVE  LET r == Clamped(d, damage)
         IN  /\ r \in Seq(Within(d))
             /\ \/ Nothing(d, damage, r) \/ Fully(d, damage, r)
                \/ InPatches(d, damage, r) \/ InCells(d, damage, r)
<1> DEFINE r == Clamped(d, damage)
           X == {q \in Spans : q.y < q.b /\ q.b <= Len(d.shadow)}
<1>1. r \in Seq(X)
  BY ClampedIn
<1>2. Len(d.shadow) \in Nat
  BY DEF Sound, Displays
<1>3. X \subseteq Within(d)
  BY <1>2 DEF Within, Spans
<1>4. r \in Seq(Within(d)) /\ Len(r) \in Nat
  <2> HIDE DEF r, X
  <2>1. Len(r) \in Nat /\ r \in [1..Len(r) -> Within(d)]
    BY <1>1, <1>3
  <2> QED
    BY <2>1, Sequence
<1>5. Len(d.patches) \in Nat /\ MaxPatches \in Nat /\ d.protocol \in {"kitty", "cells"}
  BY TermAssumption DEF Sound, Displays
<1> HIDE DEF r
<1> QED
  BY <1>4, <1>5 DEF PresentOut, Presented, GoesFull, Nothing, Fully, InPatches, InCells, r

LEMMA Flipped == \A b \in BOOLEAN : (~b) \in BOOLEAN
OBVIOUS

LEMMA ConsolidatedSound ==
  ASSUME NEW d, Sound(d)
  PROVE  LET e == Consolidated(d)
         IN  /\ Sound(e) /\ e.shadow = d.shadow /\ e.geo = d.geo /\ e.protocol = d.protocol
             /\ e.patches = <<>> /\ e.nextId = FirstPatchId /\ e.nextZ = 1
             /\ e.presented /\ e.slot = ~d.slot
<1> DEFINE e == Consolidated(d)
<1>0. d \in Displays /\ FirstPatchId \in Nat
  BY TermAssumption DEF Sound
<1>1. /\ e \in Displays /\ e.shadow = d.shadow /\ e.geo = d.geo /\ e.protocol = d.protocol
      /\ e.patches = <<>> /\ e.nextId = FirstPatchId /\ e.nextZ = 1
      /\ e.presented = TRUE /\ e.slot = ~d.slot
  <2>0. <<>> \in Seq(Nat) /\ (~d.slot) \in BOOLEAN
    <3>1. d.slot \in BOOLEAN
      BY <1>0 DEF Displays
    <3>2. (~d.slot) \in BOOLEAN
      BY <3>1, Flipped
    <3>3. <<>> \in Seq(Nat)
      OBVIOUS
    <3> QED
      BY <3>2, <3>3
  <2> DEFINE n == ~d.slot
             d1 == [d EXCEPT !.slot = n]
             d2 == [d1 EXCEPT !.patches = <<>>, !.nextZ = 1]
  <2>2. e = [d2 EXCEPT !.nextId = FirstPatchId, !.presented = TRUE]
    BY DEF Consolidated
  <2>3. n \in BOOLEAN
    BY <2>0
  <2> HIDE DEF n, e
  <2>4. d1 \in Displays /\ d1.shadow = d.shadow /\ d1.geo = d.geo /\ d1.protocol = d.protocol
        /\ d1.slot = n
    BY <1>0, <2>3 DEF Displays
  <2> HIDE DEF d1
  <2>5. d2 \in Displays /\ d2.shadow = d1.shadow /\ d2.geo = d1.geo /\ d2.protocol = d1.protocol
        /\ d2.patches = <<>> /\ d2.nextZ = 1 /\ d2.slot = d1.slot
    BY <2>0, <2>4 DEF Displays
  <2> HIDE DEF d2
  <2>6. e \in Displays /\ e.shadow = d2.shadow /\ e.geo = d2.geo /\ e.protocol = d2.protocol
        /\ e.patches = d2.patches /\ e.nextZ = d2.nextZ /\ e.nextId = FirstPatchId
        /\ e.presented = TRUE /\ e.slot = d2.slot
    BY <1>0, <2>2, <2>5 DEF Displays
  <2> QED
    BY <2>4, <2>5, <2>6 DEF n
<1> HIDE DEF e
<1>2. Len(e.patches) = 0
  BY <1>1
<1> QED
  BY <1>1, <1>2, TermAssumption DEF Sound, e

\* The ids of new patches are new.
LEMMA PatchedSound ==
  ASSUME NEW d, Sound(d), NEW r \in Seq(Within(d)), Len(d.patches) + Len(r) <= MaxPatches
  PROVE  /\ Sound(Patched(d, r))
         /\ Patched(d, r) = [d EXCEPT !.patches = Patched(d, r).patches,
                                      !.nextId = @ + Len(r), !.nextZ = @ + Len(r)]
         /\ \A id : In(id, d.patches) => In(id, Patched(d, r).patches)
         /\ \A k \in 1..Len(r) : In(d.nextId + k - 1, Patched(d, r).patches)
<1> DEFINE new == [k \in 1..Len(r) |-> d.nextId + k - 1]
           ps == d.patches \o new
<1>1. Len(r) \in Nat /\ DOMAIN r = 1..Len(r)
  OBVIOUS
<1>2. d.nextId \in Nat /\ d.nextZ \in Nat /\ d.nextZ >= 1 /\ d.nextId >= FirstPatchId
      /\ d.patches \in Seq(Nat) /\ FirstPatchId \in Nat
  BY TermAssumption DEF Sound, Displays
<1>3. new \in [1..Len(r) -> Nat]
  BY <1>1, <1>2
<1>4. new \in Seq(Nat) /\ Len(new) = Len(r)
  BY <1>1, <1>3, Sequence
<1>5. /\ ps \in Seq(Nat) /\ Len(ps) = Len(d.patches) + Len(new) /\ Len(d.patches) \in Nat
      /\ \A k \in 1..Len(d.patches) : ps[k] = d.patches[k]
      /\ \A k \in 1..Len(new) : ps[Len(d.patches) + k] = new[k]
  BY <1>2, <1>4, Joined
<1>6. Patched(d, r) = [d EXCEPT !.patches = ps, !.nextId = @ + Len(r), !.nextZ = @ + Len(r)]
  BY <1>1 DEF Patched
<1>7. \A k \in 1..Len(r) : new[k] = d.nextId + k - 1
  OBVIOUS
<1> HIDE DEF new, ps
<1>8. \A k \in 1..Len(ps) : \/ k \in 1..Len(d.patches) /\ ps[k] = d.patches[k]
                            \/ k - Len(d.patches) \in 1..Len(r)
                               /\ ps[k] = d.nextId + (k - Len(d.patches)) - 1
  <2> SUFFICES ASSUME NEW k \in 1..Len(ps), k \notin 1..Len(d.patches)
               PROVE  k - Len(d.patches) \in 1..Len(r)
                      /\ ps[k] = d.nextId + (k - Len(d.patches)) - 1
    BY <1>5
  <2> DEFINE j == k - Len(d.patches)
  <2>1. j \in 1..Len(r) /\ Len(d.patches) + j = k
    BY <1>1, <1>4, <1>5
  <2> HIDE DEF j
  <2>2. ps[k] = new[j] /\ new[j] = d.nextId + j - 1
    BY <1>4, <1>5, <1>7, <2>1
  <2> QED
    BY <2>1, <2>2 DEF j
<1>9. \A k \in 1..Len(ps) : FirstPatchId <= ps[k] /\ ps[k] < d.nextId + Len(r)
  <2> TAKE k \in 1..Len(ps)
  <2>1. k \in 1..Len(d.patches) =>
          FirstPatchId <= d.patches[k] /\ d.patches[k] < d.nextId /\ d.patches[k] \in Nat
    BY DEF Sound, Displays
  <2>2. CASE k \in 1..Len(d.patches) /\ ps[k] = d.patches[k]
    BY <1>1, <1>2, <2>1, <2>2
  <2>3. CASE k - Len(d.patches) \in 1..Len(r) /\ ps[k] = d.nextId + (k - Len(d.patches)) - 1
    <3> DEFINE j == k - Len(d.patches)
    <3>1. j \in 1..Len(r) /\ ps[k] = d.nextId + j - 1
      BY <2>3
    <3> HIDE DEF j
    <3> QED
      BY <1>1, <1>2, <3>1
  <2> QED
    BY <1>8, <2>2, <2>3
<1>10. Len(ps) <= MaxPatches
  BY <1>4, <1>5
<1> DEFINE e == Patched(d, r)
<1>11. /\ e \in Displays /\ e.shadow = d.shadow /\ e.geo = d.geo /\ e.protocol = d.protocol
       /\ e.nextId = d.nextId + Len(r) /\ e.nextZ = d.nextZ + Len(r) /\ e.patches = ps
  <2>1. e = [protocol |-> d.protocol, geo |-> d.geo, shadow |-> d.shadow,
             presented |-> d.presented, slot |-> d.slot, nextId |-> d.nextId + Len(r),
             patches |-> ps, nextZ |-> d.nextZ + Len(r)]
    BY <1>6 DEF Sound, Displays
  <2>2. d \in Displays /\ d.nextId + Len(r) \in Nat /\ d.nextZ + Len(r) \in Nat
    BY <1>1, <1>2 DEF Sound
  <2> HIDE DEF e
  <2>3. e \in Displays
    BY <1>5, <2>1, <2>2 DEF Displays
  <2> QED
    BY <2>1, <2>3
<1>12. Sound(e)
  <2> HIDE DEF e
  <2>1. e.nextId >= FirstPatchId /\ e.nextZ >= 1
    BY <1>1, <1>2, <1>11
  <2> QED
    BY <1>9, <1>10, <1>11, <2>1 DEF Sound
<1>13. \A id : In(id, d.patches) => In(id, ps)
  <2>1. \A k \in 1..Len(d.patches) : k \in 1..Len(ps) /\ ps[k] = d.patches[k]
    BY <1>1, <1>4, <1>5
  <2> QED
    BY <2>1 DEF In
<1>14. ASSUME NEW k \in 1..Len(r) PROVE In(d.nextId + k - 1, ps)
  <2>1. Len(d.patches) + k \in 1..Len(ps)
    BY <1>1, <1>4, <1>5
  <2>2. ps[Len(d.patches) + k] = d.nextId + k - 1
    BY <1>4, <1>5, <1>7
  <2> QED
    BY <2>1, <2>2 DEF In
<1> QED
  BY <1>6, <1>11, <1>12, <1>13, <1>14 DEF e

\* What a frame writes: places, deletes and cells; and the old base is deleted
\* only just after the new one.
LEMMA FrameWritten ==
  ASSUME NEW d, Sound(d), NEW damage \in Seq(Spans)
  PROVE  LET o == PresentOut(d, damage)
             e == Presented(d, damage)
         IN  /\ o \in Seq(Commands)
             /\ \A k \in 1..Len(o) : o[k].op \in {"place", "delete", "cell"}
             /\ \A k \in 1..Len(o) : o[k].op = "delete" /\ o[k].id < FirstPatchId =>
                  /\ k # 1 /\ o[k].id \in {1, 2}
                  /\ o[k - 1].op = "place" /\ o[k - 1].image.id = 3 - o[k].id
             /\ Sound(e) /\ e.protocol = d.protocol /\ e.geo = d.geo /\ e.shadow = d.shadow
<1> DEFINE o == PresentOut(d, damage)
           e == Presented(d, damage)
           r == Clamped(d, damage)
           Good == /\ o \in Seq(Commands)
                   /\ \A k \in 1..Len(o) : o[k].op \in {"place", "delete", "cell"}
                   /\ \A k \in 1..Len(o) : o[k].op = "delete" /\ o[k].id < FirstPatchId =>
                        /\ k # 1 /\ o[k].id \in {1, 2}
                        /\ o[k - 1].op = "place" /\ o[k - 1].image.id = 3 - o[k].id
<1>1. /\ r \in Seq(Within(d))
      /\ \/ Nothing(d, damage, r) \/ Fully(d, damage, r)
         \/ InPatches(d, damage, r) \/ InCells(d, damage, r)
  BY Ways
<1>2. Len(r) \in Nat /\ \A k \in 1..Len(r) : r[k] \in Within(d)
  BY <1>1
<1> HIDE DEF r
<1>3. CASE Nothing(d, damage, r)
  <2>1. o = <<>> /\ e = d
    BY <1>3 DEF Nothing
  <2> QED
    BY <2>1
<1>4. CASE Fully(d, damage, r)
  <2> DEFINE f == FullOut(d)
             h == IF d.presented THEN 2 ELSE 1
             i == Image(d, Base(d.slot), 0, Whole(d))
  <2>1. /\ f \in Seq(Commands) /\ Len(f) = h + Len(d.patches)
        /\ Whole(d) \in Within(d)
        /\ f[1] = Place(i)
        /\ d.presented => f[2] = Delete(Base(~d.slot))
        /\ \A k \in 1..Len(d.patches) : f[h + k] = Delete(d.patches[k])
    BY WholeWritten
  <2>0. h \in {1, 2} /\ (d.presented <=> h = 2)
    OBVIOUS
  <2> HIDE DEF h, f
  <2>2. Base(d.slot) \in {1, 2} /\ Base(~d.slot) = 3 - Base(d.slot)
    BY DEF Base
  <2>3. i \in Pictures /\ i.id = Base(d.slot)
    <3>1. Base(d.slot) \in Nat /\ 0 \in Nat /\ Whole(d) \in Within(d)
      BY <2>1, <2>2
    <3> QED
      BY <3>1, Cut
  <2>4. f[1].op = "place" /\ f[1].image.id = Base(d.slot)
    BY <2>1, <2>3, Replies
  <2>5. d.presented => f[2].op = "delete" /\ f[2].id = 3 - Base(d.slot)
    BY <2>1, <2>2, Replies
  <2>6. Len(d.patches) \in Nat
        /\ \A k \in 1..Len(d.patches) : d.patches[k] \in Nat /\ FirstPatchId <= d.patches[k]
    BY DEF Sound, Displays
  <2>7. \A k \in 1..Len(d.patches) : f[h + k].op = "delete" /\ FirstPatchId <= f[h + k].id /\ f[h + k].id \in Nat
    <3> TAKE k \in 1..Len(d.patches)
    <3>1. f[h + k] = Delete(d.patches[k]) /\ d.patches[k] \in Nat
      BY <2>1, <2>6
    <3>2. Delete(d.patches[k]).op = "delete" /\ Delete(d.patches[k]).id = d.patches[k]
      BY <3>1, Replies
    <3> QED
      BY <2>6, <3>1, <3>2
  <2> HIDE DEF i
  <2>8. \A k \in 1..Len(f) : k = 1 \/ (d.presented /\ k = 2) \/ (k - h \in 1..Len(d.patches) /\ h + (k - h) = k)
    <3> DEFINE p == Len(d.patches)
               l == Len(f)
    <3>1. p \in Nat /\ l = h + p
      BY <2>1, <2>6
    <3> HIDE DEF p, l
    <3>2. \A k \in 1..l : k = 1 \/ (d.presented /\ k = 2) \/ (k - h \in 1..p /\ h + (k - h) = k)
      BY <2>0, <3>1
    <3> QED
      BY <3>2 DEF p, l
  <2>9. ASSUME NEW k \in 1..Len(f)
        PROVE  /\ f[k].op \in {"place", "delete", "cell"}
               /\ f[k].op = "delete" /\ f[k].id < FirstPatchId =>
                    /\ k # 1 /\ f[k].id \in {1, 2}
                    /\ f[k - 1].op = "place" /\ f[k - 1].image.id = 3 - f[k].id
    <3>1. CASE k = 1
      BY <2>4, <3>1
    <3>2. CASE d.presented /\ k = 2
      BY <2>2, <2>4, <2>5, <3>2
    <3>3. CASE k - h \in 1..Len(d.patches) /\ h + (k - h) = k
      <4> DEFINE j == k - h
      <4>1. j \in 1..Len(d.patches) /\ h + j = k
        BY <3>3
      <4> HIDE DEF j
      <4> QED
        BY <2>7, <4>1, TermAssumption
    <3> QED
      BY <2>8, <3>1, <3>2, <3>3
  <2>10. o = f /\ e = Consolidated(d)
    BY <1>4 DEF Fully, f
  <2>11. Sound(e) /\ e.protocol = d.protocol /\ e.geo = d.geo /\ e.shadow = d.shadow
    BY <2>10, ConsolidatedSound
  <2>12. /\ f \in Seq(Commands)
         /\ \A k \in 1..Len(f) : f[k].op \in {"place", "delete", "cell"}
         /\ \A k \in 1..Len(f) : f[k].op = "delete" /\ f[k].id < FirstPatchId =>
              /\ k # 1 /\ f[k].id \in {1, 2}
              /\ f[k - 1].op = "place" /\ f[k - 1].image.id = 3 - f[k].id
    BY <2>1, <2>9
  <2>13. Good
    BY <2>10, <2>12
  <2> HIDE DEF o, e, Good
  <2>14. Good /\ Sound(e) /\ e.protocol = d.protocol /\ e.geo = d.geo /\ e.shadow = d.shadow
    BY <2>11, <2>13
  <2> QED
    BY <2>14 DEF o, e, Good
<1>5. CASE InPatches(d, damage, r)
  <2>1. o = PatchOut(d, r) /\ e = Patched(d, r) /\ Len(d.patches) + Len(r) <= MaxPatches
    BY <1>5 DEF InPatches
  <2>2. /\ o \in Seq(Commands) /\ Len(o) = Len(r)
        /\ \A k \in 1..Len(r) :
             o[k] = Place(Image(d, d.nextId + k - 1, d.nextZ + k - 1, r[k]))
    BY <1>1, <2>1, PatchesWritten
  <2>3. \A k \in 1..Len(o) : o[k].op = "place"
    <3>1. \A i : Place(i).op = "place"
      BY DEF Place
    <3> HIDE DEF o
    <3> QED
      BY <1>2, <2>2, <3>1
  <2>4. Sound(e) /\ e = [d EXCEPT !.patches = e.patches, !.nextId = @ + Len(r), !.nextZ = @ + Len(r)]
    BY <1>1, <2>1, PatchedSound
  <2> HIDE DEF o, e
  <2>5. e.protocol = d.protocol /\ e.geo = d.geo /\ e.shadow = d.shadow
    BY <2>4 DEF Sound, Displays
  <2> QED
    BY <2>2, <2>3, <2>4, <2>5 DEF o, e
<1>6. CASE InCells(d, damage, r)
  <2> DEFINE w == IF d.presented THEN r ELSE <<Whole(d)>>
  <2>1. Whole(d) \in Within(d)
    BY WholeWritten
  <2>2. w \in Seq(Within(d))
    BY <1>1, <2>1
  <2> HIDE DEF w
  <2>3. o = CellsOut(d, w) /\ e = [d EXCEPT !.presented = TRUE] /\ d.protocol = "cells"
    BY <1>6 DEF InCells, w
  <2>4. o \in Seq(Commands) /\ \A k \in 1..Len(o) : o[k].op = "cell"
    BY <2>2, <2>3, RowsWritten
  <2>5. Sound(e) /\ e.protocol = d.protocol /\ e.geo = d.geo /\ e.shadow = d.shadow
    BY <2>3 DEF Sound, Displays
  <2> HIDE DEF o, e
  <2> QED
    BY <2>4, <2>5 DEF o, e
<1> QED
  BY <1>1, <1>3, <1>4, <1>5, <1>6

\* What the terminal does with one sequence.
Effect(t, c, u) ==
  /\ Emulates(u) /\ u.geo = t.geo /\ u.raw = t.raw
  /\ u.alt = IF c.op = "setup" THEN TRUE ELSE IF c.op = "restore" THEN FALSE ELSE t.alt
  /\ c.op = "place" => u.images = Others(t.images, c.image.id) \cup {c.image}
  /\ c.op = "delete" => u.images = Others(t.images, c.id)
  /\ c.op \in {"deleteAll", "restore"} => u.images = {}
  /\ c.op \in {"setup", "clear", "cell"} => u.images = t.images
  /\ \A r \in 0..(t.geo.rows - 1) :
       /\ c.op = "cell" /\ c.row = r => u.grid[r] = c.halves
       /\ (c.op = "cell" => c.row # r) /\ c.op \notin {"setup", "clear"}
            => u.grid[r] = t.grid[r]

LEMMA Obeys ==
  ASSUME NEW t, Emulates(t), NEW c \in Commands
  PROVE  Effect(t, c, Obeyed(t, c))
<1> DEFINE u == Obeyed(t, c)
           g == t.geo
           R == 0..(g.rows - 1)
           cells == [r \in R |-> IF r = c.row THEN c.halves ELSE t.grid[r]]
<1>0. c.op \in {"setup", "restore", "deleteAll", "clear", "place", "delete", "cell"}
      /\ (c.op = "place" => c.image \in Pictures)
  BY DEF Commands
<1>1. DOMAIN t.grid = R
  BY DEF Emulates
<1>2. BlankGrid(g) = [r \in R |-> BlankGrid(g)[r]]
  BY DEF BlankGrid
<1>3. cells = [r \in R |-> cells[r]]
  OBVIOUS
<1>4. \A r \in R : cells[r] = IF r = c.row THEN c.halves ELSE t.grid[r]
  OBVIOUS
<1>5. c.op = "cell" => u = [t EXCEPT !.grid = cells]
  BY <1>1 DEF Obeyed
<1> HIDE DEF cells
<1>6. CASE c.op = "setup"
  <2>1. u = [t EXCEPT !.alt = TRUE, !.grid = BlankGrid(g)]
    BY <1>6 DEF Obeyed
  <2> QED
    BY <1>2, <1>6, <2>1 DEF Effect, Emulates
<1>7. CASE c.op = "restore"
  <2>1. u = [t EXCEPT !.alt = FALSE, !.images = {}]
    BY <1>7 DEF Obeyed
  <2> QED
    BY <1>7, <2>1 DEF Effect, Emulates
<1>8. CASE c.op = "place"
  <2>1. u = [t EXCEPT !.images = Others(t.images, c.image.id) \cup {c.image}]
    BY <1>8 DEF Obeyed, Emulates
  <2>2. Others(t.images, c.image.id) \cup {c.image} \subseteq Pictures
    BY <1>0, <1>8 DEF Emulates, Others
  <2> QED
    BY <1>8, <2>1, <2>2 DEF Effect, Emulates
<1>9. CASE c.op = "delete"
  <2>1. u = [t EXCEPT !.images = Others(t.images, c.id)]
    BY <1>9 DEF Obeyed, Emulates
  <2>2. Others(t.images, c.id) \subseteq Pictures
    BY DEF Emulates, Others
  <2> QED
    BY <1>9, <2>1, <2>2 DEF Effect, Emulates
<1>10. CASE c.op = "deleteAll"
  <2>1. u = [t EXCEPT !.images = {}]
    BY <1>10 DEF Obeyed
  <2> QED
    BY <1>10, <2>1 DEF Effect, Emulates
<1>11. CASE c.op = "clear"
  <2>1. u = [t EXCEPT !.grid = BlankGrid(g)]
    BY <1>11 DEF Obeyed
  <2> QED
    BY <1>2, <1>11, <2>1 DEF Effect, Emulates
<1>12. CASE c.op = "cell"
  BY <1>3, <1>4, <1>5, <1>12 DEF Effect, Emulates
<1> QED
  BY <1>0, <1>6, <1>7, <1>8, <1>9, <1>10, <1>11, <1>12

\* The images of one id, before and after a sequence.
LEMMA ObeysUnder ==
  ASSUME NEW t, Emulates(t), NEW c \in Commands, NEW id \in Nat
  PROVE  Under(Obeyed(t, c).images, id) = IF Decides(c, id) THEN Leaves(c) ELSE Under(t.images, id)
<1>1. c.op \in {"setup", "restore", "deleteAll", "clear", "place", "delete", "cell"}
  BY DEF Commands
<1> DEFINE u == Obeyed(t, c)
<1>2. /\ c.op = "place" => u.images = Others(t.images, c.image.id) \cup {c.image}
      /\ c.op = "delete" => u.images = Others(t.images, c.id)
      /\ c.op \in {"deleteAll", "restore"} => u.images = {}
      /\ c.op \in {"setup", "clear", "cell"} => u.images = t.images
  BY Obeys DEF Effect
<1> HIDE DEF u
<1>3. CASE c.op = "place"
  <2>1. CASE c.image.id = id
    <3>1. Under(u.images, id) = {c.image}
      BY <1>2, <1>3, <2>1 DEF Under, Others
    <3> QED
      BY <1>3, <2>1, <3>1 DEF Decides, Leaves, u
  <2>2. CASE c.image.id # id
    <3>1. Under(u.images, id) = Under(t.images, id)
      BY <1>2, <1>3, <2>2 DEF Under, Others
    <3> QED
      BY <1>3, <2>2, <3>1 DEF Decides, u
  <2> QED
    BY <2>1, <2>2
<1>4. CASE c.op = "delete"
  <2>1. CASE c.id = id
    <3>1. Under(u.images, id) = {}
      BY <1>2, <1>4, <2>1 DEF Under, Others
    <3> QED
      BY <1>4, <2>1, <3>1 DEF Decides, Leaves, u
  <2>2. CASE c.id # id
    <3>1. Under(u.images, id) = Under(t.images, id)
      BY <1>2, <1>4, <2>2 DEF Under, Others
    <3> QED
      BY <1>4, <2>2, <3>1 DEF Decides, u
  <2> QED
    BY <2>1, <2>2
<1>5. CASE c.op \in {"deleteAll", "restore"}
  BY <1>2, <1>5 DEF Under, Decides, Leaves, u
<1>6. CASE c.op \in {"setup", "clear", "cell"}
  BY <1>2, <1>6 DEF Under, Decides, Leaves, u
<1> QED
  BY <1>1, <1>3, <1>4, <1>5, <1>6

--------------------------------------------------------------------------------
(* Types.                                                                       *)

\* The damage of a frame, and what is painted before it is presented.
LEMMA FrameDamage ==
  ASSUME Typed, NEW damage \in Frames(display)
  PROVE  damage \in Seq(Spans)
<1>1. CASE display.presented
  <2>1. PICK n \in 0..MaxDamage : damage \in [1..n -> Rects]
    BY <1>1 DEF Frames
  <2>2. damage \in [1..n -> Spans] /\ n \in Nat
    BY <2>1, TermAssumption DEF Spans
  <2> QED
    BY <2>2, Sequence
<1>2. CASE ~display.presented
  <2>1. damage = <<Whole(display)>>
    BY <1>2 DEF Frames
  <2>2. Whole(display) \in Spans
    BY WholeWritten DEF Within, Typed
  <2> QED
    BY <2>1, <2>2
<1> QED
  BY <1>1, <1>2

LEMMA ForgottenSound ==
  ASSUME Typed
  PROVE  Sound(Forgotten)
<1>1. display.protocol \in {"kitty", "cells"} /\ display.geo \in Geos
      /\ (display.protocol = "cells" => display.geo.cell = 2)
  BY DEF Typed, Sound, Displays
<1> QED
  BY <1>1, NewSound DEF Forgotten

LEMMA Appended ==
  ASSUME NEW s \in Seq(Commands), NEW c \in Commands
  PROVE  /\ Append(s, c) \in Seq(Commands) /\ Len(Append(s, c)) = Len(s) + 1 /\ Len(s) \in Nat
         /\ Append(s, c)[Len(s) + 1] = c
         /\ \A k \in 1..Len(s) : Append(s, c)[k] = s[k]
OBVIOUS

\* Sequences written whole by the guard and its hooks.
LEMMA Restores ==
  /\ [op |-> "setup"] \in Commands /\ [op |-> "restore"] \in Commands
  /\ [op |-> "deleteAll"] \in Commands /\ [op |-> "clear"] \in Commands
  /\ RestoreOut \in Seq(Commands)
<1>1. /\ [op |-> "setup"] \in Commands /\ [op |-> "restore"] \in Commands
      /\ [op |-> "deleteAll"] \in Commands /\ [op |-> "clear"] \in Commands
  BY DEF Commands
<1> QED
  BY <1>1 DEF RestoreOut

LEMMA ResizedTerm ==
  ASSUME NEW t, Emulates(t), NEW g \in Geos
  PROVE  /\ Emulates(Resized(t, g)) /\ Resized(t, g).geo = g /\ Resized(t, g).raw = t.raw
         /\ Resized(t, g).alt = t.alt /\ Resized(t, g).images = t.images
<1> DEFINE grid == [r \in 0..(g.rows - 1) |->
                      IF r \in DOMAIN t.grid THEN t.grid[r] ELSE <<Black, Black>>]
           u == Resized(t, g)
<1>1. grid = [r \in 0..(g.rows - 1) |-> grid[r]]
  OBVIOUS
<1>2. u = [t EXCEPT !.geo = g, !.grid = grid]
  BY DEF Resized
<1> HIDE DEF grid
<1>3. u = [geo |-> g, raw |-> t.raw, alt |-> t.alt, images |-> t.images, grid |-> grid]
  BY <1>2 DEF Emulates
<1> HIDE DEF u
<1> QED
  BY <1>1, <1>3 DEF Emulates, u

LEMMA RawSet ==
  ASSUME NEW t, Emulates(t), NEW b \in BOOLEAN
  PROVE  LET u == [t EXCEPT !.raw = b]
         IN  /\ Emulates(u) /\ u.geo = t.geo /\ u.raw = b /\ u.alt = t.alt
             /\ u.images = t.images /\ u.grid = t.grid
<1> DEFINE u == [t EXCEPT !.raw = b]
<1>1. u = [geo |-> t.geo, raw |-> b, alt |-> t.alt, images |-> t.images, grid |-> t.grid]
  <2>1. \A g, w, a, i, c :
          [[geo |-> g, raw |-> w, alt |-> a, images |-> i, grid |-> c] EXCEPT !.raw = b]
            = [geo |-> g, raw |-> b, alt |-> a, images |-> i, grid |-> c]
    OBVIOUS
  <2>2. t = [geo |-> t.geo, raw |-> t.raw, alt |-> t.alt, images |-> t.images, grid |-> t.grid]
    BY DEF Emulates
  <2> QED
    BY <2>1, <2>2
<1> HIDE DEF u
<1>2. u.geo = t.geo /\ u.raw = b /\ u.alt = t.alt /\ u.images = t.images /\ u.grid = t.grid
  BY <1>1
<1>3. Emulates(u)
  BY <1>1, <1>2 DEF Emulates
<1> QED
  BY <1>2, <1>3 DEF u

LEMMA TypedInit == Init => Typed
<1> SUFFICES ASSUME Init PROVE Typed
  OBVIOUS
<1>1. PICK g \in Geometries, p \in {"kitty", "cells"} :
        /\ pc = "new" /\ active = FALSE
        /\ display = NewDisplay(p, [g EXCEPT !.cell = IF p = "cells" THEN 2 ELSE @])
        /\ tty = <<>> /\ term = NewTerminal(g)
        /\ pixels \in BOOLEAN /\ resizes = 0
  BY DEF Init
<1>2. g \in Geos
  BY TermAssumption DEF Geos
<1> DEFINE h == [g EXCEPT !.cell = IF p = "cells" THEN 2 ELSE @]
<1>3. h \in Geos /\ (p = "cells" => h.cell = 2)
  BY <1>2 DEF Geos
<1> HIDE DEF h
<1>4. Sound(NewDisplay(p, h))
  BY <1>3, NewSound
<1>5. Sound(display)
  BY <1>1, <1>4 DEF h
<1>6. Emulates(NewTerminal(g))
  BY <1>2 DEF Emulates, NewTerminal, BlankGrid
<1>7. tty \in Seq(Commands)
  BY <1>1
<1>8. Emulates(term)
  BY <1>1, <1>6
<1>9. resizes \in 0..MaxResizes
  BY <1>1, TermAssumption
<1> QED
  BY <1>1, <1>5, <1>7, <1>8, <1>9 DEF Typed

LEMMA TypedStep == Typed /\ [Next]_vars => Typed'
<1> SUFFICES ASSUME Typed, [Next]_vars PROVE Typed'
  OBVIOUS
<1>0. /\ Sound(display) /\ tty \in Seq(Commands) /\ Emulates(term)
      /\ active \in BOOLEAN /\ pixels \in BOOLEAN /\ resizes \in 0..MaxResizes
      /\ MaxResizes \in Nat
  BY TermAssumption DEF Typed
<1> USE DEF Typed
<1>1. CASE Arm
  BY <1>1 DEF Arm
<1>2. CASE SetRaw
  <2>1. Emulates([term EXCEPT !.raw = TRUE])
    BY <1>0, RawSet
  <2> QED
    BY <1>2, <2>1 DEF SetRaw
<1>3. CASE WriteSetup
  BY <1>3, Restores, Appended DEF WriteSetup
<1>4. CASE OpenPair
  <2>1. Sound(NewDisplay(display.protocol, Derived(display, term.geo, TRUE)))
    <3>1. term.geo \in Geos /\ display.protocol \in {"kitty", "cells"}
      BY <1>0 DEF Emulates, Sound, Displays
    <3>2. Derived(display, term.geo, TRUE) \in Geos
          /\ (display.protocol = "cells" => Derived(display, term.geo, TRUE).cell = 2)
      BY <1>0, <3>1, DerivedGeos
    <3> QED
      BY <3>1, <3>2, NewSound
  <2> QED
    BY <1>4, <2>1 DEF OpenPair
<1>5. CASE Frame
  <2>1. PICK damage \in Frames(display), c \in Colours :
          /\ display' = Presented(Drawn(display, damage, c), damage)
          /\ tty' = tty \o PresentOut(Drawn(display, damage, c), damage)
    BY <1>5 DEF Frame
  <2> DEFINE d == Drawn(display, damage, c)
  <2>2. Sound(d)
    BY <1>0, Painted
  <2>3. damage \in Seq(Spans)
    BY FrameDamage
  <2> HIDE DEF d
  <2>4. PresentOut(d, damage) \in Seq(Commands) /\ Sound(Presented(d, damage))
    BY <2>2, <2>3, FrameWritten
  <2>5. tty \o PresentOut(d, damage) \in Seq(Commands)
    BY <1>0, <2>4, Joined
  <2>6. tty' \in Seq(Commands) /\ Sound(display)'
    BY <2>1, <2>4, <2>5 DEF d
  <2> QED
    BY <1>5, <2>6 DEF Frame
<1>6. CASE Reconfigure
  <2> DEFINE g == Derived(display, term.geo, pixels)
  <2>1. display' = Reconfigured(display, g) /\ tty' = tty \o ReconfigureOut(display, g)
    BY <1>6 DEF Reconfigure
  <2>2. term.geo \in Geos /\ display.protocol \in {"kitty", "cells"}
    BY <1>0 DEF Emulates, Sound, Displays
  <2>3. g \in Geos /\ (display.protocol = "cells" => g.cell = 2)
    BY <1>0, <2>2, DerivedGeos
  <2> HIDE DEF g
  <2>4. Sound(NewDisplay(display.protocol, g))
    BY <2>2, <2>3, NewSound
  <2>5. Sound(Reconfigured(display, g))
    BY <1>0, <2>4 DEF Reconfigured
  <2>6. ReconfigureOut(display, g) \in Seq(Commands)
    BY Restores DEF ReconfigureOut
  <2>7. tty \o ReconfigureOut(display, g) \in Seq(Commands)
    BY <1>0, <2>6, Joined
  <2> QED
    BY <1>6, <2>1, <2>5, <2>7 DEF Reconfigure
<1>7. CASE Quit
  BY <1>7 DEF Quit
<1>8. CASE Drop
  BY <1>8, ForgottenSound DEF Drop
<1>9. CASE WriteRestore
  BY <1>9, Restores, Appended DEF WriteRestore
<1>10. CASE Cook
  <2>1. Emulates([term EXCEPT !.raw = FALSE])
    BY <1>0, RawSet
  <2> QED
    BY <1>10, <2>1 DEF Cook
<1>11. Emulates(Restored(term))
  BY <1>0, RawSet DEF Restored
<1>12. CASE Die
  <2>1. PICK n \in Uncut : tty' = SubSeq(tty, 1, n) \o RestoreOut
    BY <1>12 DEF Die
  <2>2. n \in 0..Len(tty)
    BY <2>1 DEF Uncut
  <2>3. SubSeq(tty, 1, n) \in Seq(Commands)
    BY <1>0, <2>2
  <2>4. SubSeq(tty, 1, n) \o RestoreOut \in Seq(Commands)
    BY <2>3, Restores, Joined
  <2> QED
    BY <1>11, <1>12, <2>1, <2>4, ForgottenSound DEF Die
<1>13. CASE WorkerPanic
  <2>1. tty \o RestoreOut \in Seq(Commands)
    BY <1>0, Restores, Joined
  <2> QED
    BY <1>11, <1>13, <2>1 DEF WorkerPanic
<1>14. CASE Obey
  <2>1. Head(tty) \in Commands /\ Tail(tty) \in Seq(Commands)
    BY <1>0, <1>14 DEF Obey
  <2>2. Emulates(Obeyed(term, Head(tty)))
    BY <1>0, <2>1, Obeys DEF Effect
  <2> QED
    BY <1>14, <2>1, <2>2 DEF Obey
<1>15. CASE Resize
  <2>1. PICK g \in Geometries : term' = Resized(term, g)
    BY <1>15 DEF Resize
  <2>2. g \in Geos
    BY TermAssumption DEF Geos
  <2>3. Emulates(Resized(term, g))
    BY <1>0, <2>2, ResizedTerm
  <2> QED
    BY <1>0, <1>15, <2>1, <2>3 DEF Resize
<1>16. CASE UNCHANGED vars
  BY <1>16 DEF vars
<1> QED
  BY <1>1, <1>2, <1>3, <1>4, <1>5, <1>6, <1>7, <1>8, <1>9, <1>10, <1>12, <1>13, <1>14,
     <1>15, <1>16 DEF Next

--------------------------------------------------------------------------------
(* The terminal is given back.                                                  *)

LEMMA AfterJoined ==
  ASSUME NEW s \in Seq(Commands), NEW t \in Seq(Commands)
  PROVE  /\ \A n \in Nat : RestoredAfter(s, n) => RestoredAfter(s \o t, n)
         /\ t = <<[op |-> "restore"]>> => \A n \in 0..Len(s) : RestoredAfter(s \o t, n)
<1>1. /\ s \o t \in Seq(Commands) /\ Len(s \o t) = Len(s) + Len(t)
      /\ Len(s) \in Nat /\ Len(t) \in Nat
      /\ \A k \in 1..Len(s) : (s \o t)[k] = s[k]
      /\ \A k \in 1..Len(t) : (s \o t)[Len(s) + k] = t[k]
  BY Joined
<1> DEFINE u == s \o t
<1> HIDE DEF u
<1>2. \A k \in 1..Len(s) : k \in 1..Len(u) /\ u[k] = s[k]
  BY <1>1 DEF u
<1>3. ASSUME t = <<[op |-> "restore"]>>, NEW n \in 0..Len(s) PROVE RestoredAfter(u, n)
  <2>1. Len(t) = 1 /\ t[1].op = "restore"
    BY <1>3
  <2>2. Len(s) + 1 \in 1..Len(u) /\ u[Len(s) + 1].op = "restore" /\ n < Len(s) + 1
    BY <1>1, <2>1 DEF u
  <2> QED
    BY <2>2 DEF RestoredAfter
<1> QED
  BY <1>2, <1>3 DEF RestoredAfter, u

LEMMA AfterTail ==
  ASSUME NEW s \in Seq(Commands), s # <<>>
  PROVE  /\ Tail(s) \in Seq(Commands) /\ Len(Tail(s)) = Len(s) - 1 /\ Len(s) \in Nat \ {0}
         /\ Head(s) = s[1] /\ s[1] \in Commands
         /\ \A k \in 1..Len(Tail(s)) : Tail(s)[k] = s[k + 1]
         /\ \A n \in Nat : RestoredAfter(s, n + 1) => RestoredAfter(Tail(s), n)
         /\ Head(s).op # "restore" /\ RestoredAfter(s, 0) => RestoredAfter(Tail(s), 0)
<1>1. /\ Tail(s) \in Seq(Commands) /\ Len(Tail(s)) = Len(s) - 1 /\ Len(s) \in Nat \ {0}
      /\ Head(s) = s[1] /\ s[1] \in Commands
      /\ \A k \in 1..Len(Tail(s)) : Tail(s)[k] = s[k + 1]
  OBVIOUS
<1> DEFINE t == Tail(s)
<1> HIDE DEF t
<1>2. \A k \in 1..Len(s) : k # 1 => k - 1 \in 1..Len(t) /\ t[k - 1] = s[k]
  BY <1>1 DEF t
<1>3. ASSUME NEW n \in Nat, RestoredAfter(s, n + 1) PROVE RestoredAfter(t, n)
  <2>1. PICK k \in 1..Len(s) : n + 1 < k /\ s[k].op = "restore"
    BY <1>3 DEF RestoredAfter
  <2>2. k # 1 /\ n < k - 1
    BY <2>1
  <2>3. k - 1 \in 1..Len(t) /\ t[k - 1].op = "restore"
    BY <1>2, <2>1, <2>2
  <2> QED
    BY <2>2, <2>3 DEF RestoredAfter
<1>4. ASSUME Head(s).op # "restore", RestoredAfter(s, 0) PROVE RestoredAfter(t, 0)
  <2>1. PICK k \in 1..Len(s) : s[k].op = "restore"
    BY <1>4 DEF RestoredAfter
  <2>2. k # 1
    BY <1>1, <1>4, <2>1
  <2>3. k - 1 \in 1..Len(t) /\ t[k - 1].op = "restore" /\ 0 < k - 1
    BY <1>2, <2>1, <2>2
  <2> QED
    BY <2>3 DEF RestoredAfter
<1> QED
  BY <1>1, <1>3, <1>4 DEF t

\* What the running program writes neither takes the terminal nor gives it back.
LEMMA RestoringWrite ==
  ASSUME Typed, Restoring, pc = "running", NEW o \in Seq(Commands),
         \A k \in 1..Len(o) : o[k].op \notin {"setup", "restore"},
         tty' = tty \o o, UNCHANGED <<pc, active, term>>
  PROVE  Restoring'
<1>1. tty \in Seq(Commands)
  BY DEF Typed
<1>2. /\ Len(tty') = Len(tty) + Len(o) /\ Len(tty) \in Nat /\ Len(o) \in Nat
      /\ \A k \in 1..Len(tty) : tty'[k] = tty[k]
      /\ \A k \in 1..Len(o) : tty'[Len(tty) + k] = o[k]
  BY <1>1, Joined
<1>3. \A n \in Nat : RestoredAfter(tty, n) => RestoredAfter(tty', n)
  BY <1>1, AfterJoined
<1>4. ASSUME NEW n \in 1..Len(tty'), tty'[n].op = "setup" PROVE Owed' \/ RestoredAfter(tty', n)
  <2>1. CASE n \in 1..Len(tty)
    <3>1. tty[n].op = "setup"
      BY <1>2, <1>4, <2>1
    <3> QED
      BY <1>3, <2>1, <3>1 DEF Restoring, Owed
  <2>2. CASE n \notin 1..Len(tty)
    <3> DEFINE j == n - Len(tty)
    <3>1. j \in 1..Len(o) /\ Len(tty) + j = n
      BY <1>2, <2>2
    <3> HIDE DEF j
    <3> QED
      BY <1>2, <1>4, <3>1
  <2> QED
    BY <2>1, <2>2
<1>5. term'.alt => Owed' \/ RestoredAfter(tty', 0)
  BY <1>3 DEF Restoring, Owed
<1> QED
  BY <1>4, <1>5 DEF Restoring

LEMMA RestoringInit == Init => Restoring
<1> SUFFICES ASSUME Init PROVE Restoring
  OBVIOUS
<1>1. pc = "new" /\ active = FALSE /\ tty = <<>>
  BY DEF Init
<1>2. ~term.raw /\ ~term.alt /\ term.images = {}
  BY DEF Init, NewTerminal
<1> QED
  BY <1>1, <1>2 DEF Restoring

LEMMA RestoringStep == Typed /\ Typed' /\ Restoring /\ [Next]_vars => Restoring'
<1> SUFFICES ASSUME Typed, Typed', Restoring, [Next]_vars PROVE Restoring'
  OBVIOUS
<1>0. /\ tty \in Seq(Commands) /\ Len(tty) \in Nat /\ Emulates(term) /\ Sound(display)
      /\ active \in BOOLEAN
  BY DEF Typed
<1>1. CASE Arm
  BY <1>1 DEF Arm, Restoring, Owed
<1>2. CASE SetRaw
  <2>1. CASE pc' = "raw" /\ term' = [term EXCEPT !.raw = TRUE] /\ UNCHANGED active
    <3>1. term'.alt = term.alt /\ term'.images = term.images
      BY <1>0, <2>1, RawSet
    <3> QED
      BY <1>2, <2>1, <3>1 DEF SetRaw, Restoring, Owed
  <2>2. CASE pc' = "gone" /\ active' = FALSE /\ UNCHANGED term
    <3>1. term.raw => FALSE
      BY <1>2, <2>2 DEF SetRaw, Restoring
    <3> QED
      BY <1>2, <2>2, <3>1 DEF SetRaw, Restoring, Owed
  <2> QED
    BY <1>2, <2>1, <2>2 DEF SetRaw
<1>3. CASE WriteSetup
  BY <1>3 DEF WriteSetup, Restoring, Owed
<1>4. CASE OpenPair
  BY <1>4 DEF OpenPair, Restoring, Owed
<1>5. CASE Frame
  <2>1. PICK damage \in Frames(display), c \in Colours :
          tty' = tty \o PresentOut(Drawn(display, damage, c), damage)
    BY <1>5 DEF Frame
  <2> DEFINE o == PresentOut(Drawn(display, damage, c), damage)
  <2>2. Sound(Drawn(display, damage, c)) /\ damage \in Seq(Spans)
    BY <1>0, Painted, FrameDamage
  <2>3. o \in Seq(Commands) /\ \A k \in 1..Len(o) : o[k].op \in {"place", "delete", "cell"}
    BY <2>2, FrameWritten
  <2> HIDE DEF o
  <2>4. \A k \in 1..Len(o) : o[k].op \notin {"setup", "restore"}
    BY <2>3
  <2>5. pc = "running" /\ tty' = tty \o o /\ UNCHANGED <<pc, active, term>>
    BY <1>5, <2>1 DEF Frame, o
  <2> QED
    BY <2>3, <2>4, <2>5, RestoringWrite
<1>6. CASE Reconfigure
  <2> DEFINE o == ReconfigureOut(display, Derived(display, term.geo, pixels))
  <2>1. o \in Seq(Commands) /\ \A k \in 1..Len(o) : o[k].op \notin {"setup", "restore"}
    BY Restores DEF ReconfigureOut
  <2>2. pc = "running" /\ tty' = tty \o o /\ UNCHANGED <<pc, active, term>>
    BY <1>6 DEF Reconfigure
  <2> HIDE DEF o
  <2> QED
    BY <2>1, <2>2, RestoringWrite
<1>7. CASE Quit
  BY <1>7 DEF Quit, Restoring, Owed
<1>8. CASE Drop
  BY <1>8 DEF Drop, Restoring, Owed
<1>9. CASE WriteRestore
  <2>1. [op |-> "restore"] \in Commands
    BY Restores
  <2>2. tty' = tty \o <<[op |-> "restore"]>> /\ <<[op |-> "restore"]>> \in Seq(Commands)
    BY <1>0, <1>9, <2>1 DEF WriteRestore
  <2>3. \A n \in 0..Len(tty) : RestoredAfter(tty', n)
    BY <1>0, <2>2, AfterJoined
  <2>4. /\ Len(tty') = Len(tty) + 1 /\ tty'[Len(tty) + 1] = [op |-> "restore"]
        /\ \A k \in 1..Len(tty) : tty'[k] = tty[k]
    BY <1>0, <1>9, <2>1, Appended DEF WriteRestore
  <2>5. \A n \in 1..Len(tty') : tty'[n].op \in {"setup", "place"} => n \in 0..Len(tty)
    BY <1>0, <2>4
  <2> QED
    BY <1>0, <1>9, <2>3, <2>5 DEF WriteRestore, Restoring
<1>10. CASE Cook
  <2>1. term'.raw = FALSE /\ term'.alt = term.alt /\ term'.images = term.images
    BY <1>0, <1>10, RawSet DEF Cook
  <2> QED
    BY <1>10, <2>1 DEF Cook, Restoring, Owed
<1>11. /\ Restored(term).raw = (term.raw /\ ~active) /\ Restored(term).alt = term.alt
       /\ Restored(term).images = term.images
  BY <1>0, RawSet DEF Restored, Emulates
<1>12. CASE Die
  <2>1. PICK n \in Uncut : tty' = SubSeq(tty, 1, n) \o RestoreOut
    BY <1>12 DEF Die
  <2>2. n \in 0..Len(tty) /\ \A k \in (n + 1)..Len(tty) : tty[k].op # "restore"
    BY <2>1 DEF Uncut
  <2> DEFINE s == SubSeq(tty, 1, n)
  <2>3. s \in Seq(Commands) /\ Len(s) = n /\ \A k \in 1..n : s[k] = tty[k]
    BY <1>0, <2>2
  <2> HIDE DEF s
  <2>4. CASE active
    <3>1. RestoreOut = <<[op |-> "restore"]>> /\ RestoreOut \in Seq(Commands)
      BY <2>4, Restores DEF RestoreOut
    <3>2. \A k \in 0..n : RestoredAfter(tty', k)
      BY <2>1, <2>3, <3>1, AfterJoined DEF s
    <3>3. /\ Len(tty') = n + 1 /\ tty'[n + 1] = [op |-> "restore"]
          /\ \A k \in 1..n : tty'[k] = s[k]
      BY <2>1, <2>2, <2>3, <3>1, Joined DEF s
    <3>4. \A k \in 1..Len(tty') : tty'[k].op \in {"setup", "place"} => k \in 0..n
      BY <2>2, <3>3
    <3>5. pc' = "gone" /\ active' = FALSE /\ term'.raw = FALSE
      BY <1>11, <1>12, <2>4 DEF Die
    <3>6. 0 \in 0..n
      BY <2>2
    <3> QED
      BY <3>2, <3>4, <3>5, <3>6 DEF Restoring
  <2>5. CASE ~active
    <3>1. tty' = s
      BY <2>1, <2>3, <2>5 DEF RestoreOut, s
    <3>2. \A k \in Nat : RestoredAfter(tty, k) => RestoredAfter(tty', k)
      BY <1>0, <2>2, <2>3, <3>1 DEF RestoredAfter
    <3>3. pc' = "left" /\ active' = FALSE /\ term'.raw = FALSE /\ term'.alt = term.alt
          /\ ~Owed
      BY <1>11, <1>12, <2>5 DEF Die, Restoring, Owed
    <3>4. term.alt => RestoredAfter(tty', 0)
      BY <3>2, <3>3 DEF Restoring
    <3>5. \A k \in 1..Len(tty') : tty'[k].op = "setup" => RestoredAfter(tty', k)
      BY <1>0, <2>2, <2>3, <3>1, <3>2, <3>3 DEF Restoring
    <3> QED
      BY <3>3, <3>4, <3>5 DEF Restoring
  <2> QED
    BY <2>4, <2>5
<1>13. CASE WorkerPanic
  <2>1. tty' = tty \o <<[op |-> "restore"]>> /\ <<[op |-> "restore"]>> \in Seq(Commands)
    BY <1>13, Restores DEF WorkerPanic, RestoreOut
  <2>2. \A n \in 0..Len(tty) : RestoredAfter(tty', n)
    BY <1>0, <2>1, AfterJoined
  <2>3. /\ Len(tty') = Len(tty) + 1 /\ tty'[Len(tty) + 1] = [op |-> "restore"]
        /\ \A k \in 1..Len(tty) : tty'[k] = tty[k]
    BY <1>0, <2>1, Joined
  <2>4. \A n \in 1..Len(tty') : tty'[n].op = "setup" => n \in 0..Len(tty)
    BY <1>0, <2>3
  <2>5. pc' = "running" /\ active' = FALSE /\ term'.raw = FALSE
    BY <1>11, <1>13 DEF WorkerPanic
  <2> QED
    BY <1>0, <2>2, <2>4, <2>5 DEF Restoring
<1>14. CASE Obey
  <2> DEFINE c == Head(tty)
  <2>1. tty # <<>> /\ tty' = Tail(tty) /\ term' = Obeyed(term, c)
        /\ UNCHANGED <<pc, active>>
    BY <1>14 DEF Obey
  <2>2. /\ tty' = Tail(tty) /\ Len(tty') = Len(tty) - 1 /\ Len(tty) \in Nat \ {0}
        /\ c = tty[1] /\ c \in Commands
        /\ \A k \in 1..Len(tty') : tty'[k] = tty[k + 1]
        /\ \A n \in Nat : RestoredAfter(tty, n + 1) => RestoredAfter(tty', n)
        /\ c.op # "restore" /\ RestoredAfter(tty, 0) => RestoredAfter(tty', 0)
    BY <1>0, <2>1, AfterTail
  <2> HIDE DEF c
  <2>3. /\ term'.raw = term.raw
        /\ term'.alt = IF c.op = "setup" THEN TRUE ELSE IF c.op = "restore" THEN FALSE ELSE term.alt
        /\ c.op = "place" => term'.images = Others(term.images, c.image.id) \cup {c.image}
        /\ c.op = "delete" => term'.images = Others(term.images, c.id)
        /\ c.op \in {"deleteAll", "restore"} => term'.images = {}
        /\ c.op \in {"setup", "clear", "cell"} => term'.images = term.images
    <3>1. Effect(term, c, Obeyed(term, c))
      BY <1>0, <2>2, Obeys
    <3>2. Effect(term, c, term')
      BY <2>1, <3>1
    <3> QED
      BY <3>2 DEF Effect
  <2>4. RestoredAfter(tty, 1) => RestoredAfter(tty', 0)
    BY <2>2
  <2>5. term'.alt => Owed' \/ RestoredAfter(tty', 0)
    <3>1. CASE c.op = "setup"
      <4>1. Owed \/ RestoredAfter(tty, 1)
        BY <2>2, <3>1 DEF Restoring
      <4> QED
        BY <2>1, <2>4, <4>1 DEF Owed
    <3>2. CASE c.op # "setup"
      BY <2>1, <2>2, <2>3, <3>2 DEF Restoring, Owed
    <3> QED
      BY <3>1, <3>2
  <2>6. ASSUME NEW n \in 1..Len(tty')
        PROVE  /\ n + 1 \in 1..Len(tty) /\ tty'[n] = tty[n + 1]
               /\ RestoredAfter(tty, n + 1) => RestoredAfter(tty', n)
    BY <2>2
  <2>7. \A n \in 1..Len(tty') : tty'[n].op = "setup" => Owed' \/ RestoredAfter(tty', n)
    BY <2>1, <2>6 DEF Restoring, Owed
  <2>8. ASSUME pc \in {"cooking", "gone"}
        PROVE  /\ term'.images # {} => RestoredAfter(tty', 0)
               /\ \A n \in 1..Len(tty') : tty'[n].op = "place" => RestoredAfter(tty', n)
    <3>1. \A n \in 1..Len(tty) : tty[n].op = "place" => RestoredAfter(tty, n)
      BY <2>8 DEF Restoring
    <3>2. c.op = "place" => RestoredAfter(tty', 0)
      BY <2>2, <2>4, <3>1
    <3>3. c.op # "place" /\ term'.images # {} => RestoredAfter(tty', 0)
      <4>1. c.op \in {"setup", "restore", "deleteAll", "clear", "place", "delete", "cell"}
        BY <2>2 DEF Commands
      <4>2. c.op # "place" => term'.images \subseteq term.images
        BY <2>3, <4>1 DEF Others
      <4>3. term.images # {} => RestoredAfter(tty, 0)
        BY <2>8 DEF Restoring
      <4> QED
        BY <2>2, <2>3, <4>2, <4>3
    <3> QED
      BY <2>6, <3>1, <3>2, <3>3
  <2>9. pc \notin {"new", "armed", "raw"}
    BY <2>1 DEF Restoring
  <2> QED
    BY <2>1, <2>3, <2>5, <2>7, <2>8, <2>9 DEF Restoring
<1>15. CASE Resize
  <2>1. PICK g \in Geometries : term' = Resized(term, g)
    BY <1>15 DEF Resize
  <2>2. g \in Geos
    BY TermAssumption DEF Geos
  <2>3. term'.raw = term.raw /\ term'.alt = term.alt /\ term'.images = term.images
    BY <1>0, <2>1, <2>2, ResizedTerm
  <2> QED
    BY <1>15, <2>3 DEF Resize, Restoring, Owed
<1>16. CASE UNCHANGED vars
  BY <1>16 DEF vars, Restoring, Owed
<1> QED
  BY <1>1, <1>2, <1>3, <1>4, <1>5, <1>6, <1>7, <1>8, <1>9, <1>10, <1>12, <1>13, <1>14,
     <1>15, <1>16 DEF Next

--------------------------------------------------------------------------------
(* A base is deleted only after its successor.                                  *)

\* A sequence of commands that deletes no base but after placing the other.
Ordered(o) ==
  \A k \in 1..Len(o) : o[k].op = "delete" /\ o[k].id < FirstPatchId =>
    /\ k # 1 /\ o[k].id \in {1, 2}
    /\ o[k - 1].op = "place" /\ o[k - 1].image.id = 3 - o[k].id

LEMMA SucceededWrite ==
  ASSUME Typed, Succeeded, NEW m \in 0..Len(tty), NEW o \in Seq(Commands), Ordered(o),
         tty' = SubSeq(tty, 1, m) \o o, term'.images = term.images
  PROVE  Succeeded'
<1> DEFINE s == SubSeq(tty, 1, m)
<1>1. tty \in Seq(Commands) /\ Len(tty) \in Nat /\ m \in Nat
  BY DEF Typed
<1>2. s \in Seq(Commands) /\ Len(s) = m /\ \A k \in 1..m : s[k] = tty[k]
  BY <1>1
<1> HIDE DEF s
<1>3. /\ Len(tty') = m + Len(o) /\ Len(o) \in Nat
      /\ \A k \in 1..m : tty'[k] = tty[k]
      /\ \A k \in 1..Len(o) : tty'[m + k] = o[k]
  BY <1>1, <1>2, Joined DEF s
<1>4. ASSUME NEW n \in 1..Len(tty'), tty'[n].op = "delete", tty'[n].id < FirstPatchId
      PROVE  /\ tty'[n].id \in {1, 2}
             /\ IF n = 1 THEN \E i \in term'.images : i.id = 3 - tty'[n].id
                ELSE tty'[n - 1].op = "place" /\ tty'[n - 1].image.id = 3 - tty'[n].id
  <2>1. CASE n <= m
    <3>1. n \in 1..m /\ n \in 1..Len(tty) /\ tty'[n] = tty[n]
      BY <1>1, <1>3, <2>1
    <3>2. n # 1 => tty'[n - 1] = tty[n - 1]
      BY <1>1, <1>3, <2>1
    <3> QED
      BY <1>4, <3>1, <3>2 DEF Succeeded
  <2>2. CASE ~(n <= m)
    <3> DEFINE j == n - m
    <3>1. j \in 1..Len(o) /\ m + j = n
      BY <1>1, <1>3, <2>2
    <3> HIDE DEF j
    <3>2. tty'[n] = o[j]
      BY <1>3, <3>1
    <3>3. /\ j # 1 /\ o[j].id \in {1, 2}
          /\ o[j - 1].op = "place" /\ o[j - 1].image.id = 3 - o[j].id
      BY <1>4, <3>1, <3>2 DEF Ordered
    <3>4. j - 1 \in 1..Len(o) /\ m + (j - 1) = n - 1 /\ n # 1
      <4>1. j \in Nat /\ j # 1 /\ j >= 1 /\ j <= Len(o) /\ Len(o) \in Nat /\ m + j = n
        BY <1>3, <3>1, <3>3
      <4> QED
        BY <1>1, <4>1
    <3>5. tty'[n - 1] = o[j - 1]
      BY <1>3, <3>4
    <3> QED
      BY <3>2, <3>3, <3>4, <3>5
  <2> QED
    BY <2>1, <2>2
<1> QED
  BY <1>4 DEF Succeeded

LEMMA OrderedSingles ==
  /\ Ordered(<<>>) /\ Ordered(<<[op |-> "setup"]>>) /\ Ordered(RestoreOut)
  /\ Ordered(<<[op |-> "restore"]>>)
  /\ \A d, g : Ordered(ReconfigureOut(d, g))
BY DEF Ordered, RestoreOut, ReconfigureOut

LEMMA SucceededInit == Init => Succeeded
<1> SUFFICES ASSUME Init PROVE Succeeded
  OBVIOUS
<1>1. tty = <<>>
  BY DEF Init
<1> QED
  BY <1>1 DEF Succeeded

LEMMA SucceededStep == Typed /\ Succeeded /\ [Next]_vars => Succeeded'
<1> SUFFICES ASSUME Typed, Succeeded, [Next]_vars PROVE Succeeded'
  OBVIOUS
<1>0. /\ tty \in Seq(Commands) /\ Len(tty) \in Nat /\ Emulates(term) /\ Sound(display)
      /\ active \in BOOLEAN /\ Len(tty) \in 0..Len(tty) /\ SubSeq(tty, 1, Len(tty)) = tty
  BY DEF Typed
<1>1. CASE Arm
  BY <1>1 DEF Arm, Succeeded
<1>2. CASE SetRaw
  <2>1. term'.images = term.images /\ tty' = tty
    BY <1>0, <1>2, RawSet DEF SetRaw
  <2> QED
    BY <2>1 DEF Succeeded
<1>3. CASE WriteSetup
  <2>1. tty' = tty \o <<[op |-> "setup"]>> /\ <<[op |-> "setup"]>> \in Seq(Commands)
    BY <1>0, <1>3, Restores DEF WriteSetup
  <2> QED
    BY <1>0, <1>3, <2>1, OrderedSingles, SucceededWrite DEF WriteSetup
<1>4. CASE OpenPair
  BY <1>4 DEF OpenPair, Succeeded
<1>5. CASE Frame
  <2>1. PICK damage \in Frames(display), c \in Colours :
          tty' = tty \o PresentOut(Drawn(display, damage, c), damage)
    BY <1>5 DEF Frame
  <2> DEFINE o == PresentOut(Drawn(display, damage, c), damage)
  <2>2. Sound(Drawn(display, damage, c)) /\ damage \in Seq(Spans)
    BY <1>0, Painted, FrameDamage
  <2>3. o \in Seq(Commands) /\ Ordered(o)
    BY <2>2, FrameWritten DEF Ordered
  <2>4. tty' = tty \o o /\ UNCHANGED term
    BY <1>5, <2>1 DEF Frame
  <2> HIDE DEF o
  <2> QED
    BY <1>0, <2>3, <2>4, SucceededWrite
<1>6. CASE Reconfigure
  <2> DEFINE o == ReconfigureOut(display, Derived(display, term.geo, pixels))
  <2>1. o \in Seq(Commands) /\ Ordered(o)
    <3>1. Ordered(o)
      BY OrderedSingles
    <3>2. o \in Seq(Commands)
      BY Restores DEF ReconfigureOut
    <3> QED
      BY <3>1, <3>2
  <2>2. tty' = tty \o o /\ UNCHANGED term
    BY <1>6 DEF Reconfigure
  <2> HIDE DEF o
  <2> QED
    BY <1>0, <2>1, <2>2, SucceededWrite
<1>7. CASE Quit
  BY <1>7 DEF Quit, Succeeded
<1>8. CASE Drop
  BY <1>8 DEF Drop, Succeeded
<1>9. CASE WriteRestore
  <2>1. tty' = tty \o <<[op |-> "restore"]>> /\ <<[op |-> "restore"]>> \in Seq(Commands)
    BY <1>0, <1>9, Restores DEF WriteRestore
  <2> QED
    BY <1>0, <1>9, <2>1, OrderedSingles, SucceededWrite DEF WriteRestore
<1>10. CASE Cook
  <2>1. term'.images = term.images /\ tty' = tty
    BY <1>0, <1>10, RawSet DEF Cook
  <2> QED
    BY <2>1 DEF Succeeded
<1>11. Restored(term).images = term.images
  BY <1>0, RawSet DEF Restored
<1>12. CASE Die
  <2>1. PICK n \in Uncut : tty' = SubSeq(tty, 1, n) \o RestoreOut
    BY <1>12 DEF Die
  <2>2. n \in 0..Len(tty)
    BY <2>1 DEF Uncut
  <2>3. RestoreOut \in Seq(Commands) /\ Ordered(RestoreOut)
    BY Restores, OrderedSingles
  <2>4. term'.images = term.images
    BY <1>11, <1>12 DEF Die
  <2> QED
    BY <2>1, <2>2, <2>3, <2>4, SucceededWrite
<1>13. CASE WorkerPanic
  <2>1. tty' = tty \o RestoreOut /\ RestoreOut \in Seq(Commands) /\ Ordered(RestoreOut)
    BY <1>13, Restores, OrderedSingles DEF WorkerPanic
  <2>2. term'.images = term.images
    BY <1>11, <1>13 DEF WorkerPanic
  <2> QED
    BY <1>0, <2>1, <2>2, SucceededWrite
<1>14. CASE Obey
  <2> DEFINE c == Head(tty)
  <2>1. tty # <<>> /\ tty' = Tail(tty) /\ term' = Obeyed(term, c)
    BY <1>14 DEF Obey
  <2>2. /\ Len(tty') = Len(tty) - 1 /\ Len(tty) \in Nat \ {0}
        /\ c = tty[1] /\ c \in Commands
        /\ \A k \in 1..Len(tty') : tty'[k] = tty[k + 1]
    BY <1>0, <2>1, AfterTail
  <2> HIDE DEF c
  <2>3. c.op = "place" => c.image \in term'.images
    <3>1. Effect(term, c, Obeyed(term, c))
      BY <1>0, <2>2, Obeys
    <3> QED
      BY <2>1, <3>1 DEF Effect
  <2>4. ASSUME NEW n \in 1..Len(tty'), tty'[n].op = "delete", tty'[n].id < FirstPatchId
        PROVE  /\ tty'[n].id \in {1, 2}
               /\ IF n = 1 THEN \E i \in term'.images : i.id = 3 - tty'[n].id
                  ELSE tty'[n - 1].op = "place" /\ tty'[n - 1].image.id = 3 - tty'[n].id
    <3>1. n + 1 \in 1..Len(tty) /\ n + 1 # 1 /\ (n + 1) - 1 = n /\ tty'[n] = tty[n + 1]
      BY <2>2
    <3>2. /\ tty[n + 1].id \in {1, 2}
          /\ tty[n].op = "place" /\ tty[n].image.id = 3 - tty[n + 1].id
      BY <2>4, <3>1 DEF Succeeded
    <3>3. CASE n = 1
      BY <2>2, <2>3, <3>1, <3>2, <3>3
    <3>4. CASE n # 1
      <4>1. n - 1 \in 1..Len(tty') /\ tty'[n - 1] = tty[(n - 1) + 1] /\ (n - 1) + 1 = n
        BY <2>2, <3>4
      <4> QED
        BY <3>1, <3>2, <3>4, <4>1
    <3> QED
      BY <3>3, <3>4
  <2> QED
    BY <2>4 DEF Succeeded
<1>15. CASE Resize
  <2>1. PICK g \in Geometries : term' = Resized(term, g)
    BY <1>15 DEF Resize
  <2>2. g \in Geos
    BY TermAssumption DEF Geos
  <2>3. term'.images = term.images /\ tty' = tty
    BY <1>0, <1>15, <2>1, <2>2, ResizedTerm DEF Resize
  <2> QED
    BY <2>3 DEF Succeeded
<1>16. CASE UNCHANGED vars
  BY <1>16 DEF vars, Succeeded
<1> QED
  BY <1>1, <1>2, <1>3, <1>4, <1>5, <1>6, <1>7, <1>8, <1>9, <1>10, <1>12, <1>13, <1>14,
     <1>15, <1>16 DEF Next

\* No step takes the last base away but one that clears the whole screen.
LEMMA BaseStays ==
  Typed /\ Succeeded /\ [Next]_vars
    => (HasBase(term) /\ ~HasBase(term') => Head(tty).op \in {"deleteAll", "restore"})
<1> SUFFICES ASSUME Typed, Succeeded, [Next]_vars, HasBase(term), ~HasBase(term')
             PROVE  Head(tty).op \in {"deleteAll", "restore"}
  OBVIOUS
<1>0. tty \in Seq(Commands) /\ Emulates(term)
  BY DEF Typed
<1>1. CASE Obey
  <2> DEFINE c == Head(tty)
  <2>1. tty # <<>> /\ term' = Obeyed(term, c)
    BY <1>1 DEF Obey
  <2>2. c = tty[1] /\ c \in Commands /\ 1 \in 1..Len(tty)
    BY <1>0, <2>1, AfterTail
  <2> HIDE DEF c
  <2>3. Effect(term, c, term')
    BY <1>0, <2>1, <2>2, Obeys
  <2>4. PICK i \in term.images : i.id < FirstPatchId
    BY DEF HasBase
  <2>5. c.op = "place" => FALSE
    <3> SUFFICES ASSUME c.op = "place" PROVE FALSE
      OBVIOUS
    <3>1. term'.images = Others(term.images, c.image.id) \cup {c.image}
      BY <2>3 DEF Effect
    <3> QED
      BY <2>4, <3>1 DEF HasBase, Others
  <2>6. c.op = "delete" => FALSE
    <3> SUFFICES ASSUME c.op = "delete" PROVE FALSE
      OBVIOUS
    <3>1. term'.images = Others(term.images, c.id)
      BY <2>3 DEF Effect
    <3>2. c.id = i.id
      BY <2>4, <3>1 DEF HasBase, Others
    <3>3. c.id \in {1, 2} /\ \E j \in term.images : j.id = 3 - c.id
      BY <2>2, <2>4, <3>2 DEF Succeeded
    <3> QED
      BY <3>1, <3>3, TermAssumption DEF HasBase, Others
  <2>7. c.op \in {"setup", "clear", "cell"} => FALSE
    BY <2>3, <2>4 DEF Effect, HasBase
  <2>8. c.op \in {"setup", "restore", "deleteAll", "clear", "place", "delete", "cell"}
    BY <2>2 DEF Commands
  <2> QED
    BY <2>5, <2>6, <2>7, <2>8 DEF c
<1>2. CASE ~Obey
  <2>1. term'.images = term.images
    <3>1. CASE SetRaw \/ Cook \/ Die \/ WorkerPanic
      BY <1>0, <3>1, RawSet DEF SetRaw, Cook, Die, WorkerPanic, Restored
    <3>2. CASE Resize
      <4>1. PICK g \in Geometries : term' = Resized(term, g)
        BY <3>2 DEF Resize
      <4>2. g \in Geos
        BY TermAssumption DEF Geos
      <4> QED
        BY <1>0, <4>1, <4>2, ResizedTerm
    <3>3. CASE UNCHANGED vars
      BY <3>3 DEF vars
    <3>4. CASE Arm \/ WriteSetup \/ OpenPair \/ Frame \/ Reconfigure \/ Quit \/ Drop \/ WriteRestore
      BY <3>4 DEF Arm, WriteSetup, OpenPair, Frame, Reconfigure, Quit, Drop, WriteRestore
    <3> QED
      BY <1>2, <3>1, <3>2, <3>3, <3>4 DEF Next
  <2> QED
    BY <2>1 DEF HasBase
<1> QED
  BY <1>1, <1>2

--------------------------------------------------------------------------------
(* The screen shows the shadow buffer.                                          *)

\* What is to come of an id after more was written: what that decides, or what
\* was to come before.
LEMMA ComesWrite ==
  ASSUME Typed, NEW o \in Seq(Commands), NEW id \in Nat, NEW W, NEW V,
         tty' = tty \o o, term' = term,
         \A k \in 1..Len(o) : Decides(o[k], id) => Leaves(o[k]) = Under(V, id),
         \/ \E k \in 1..Len(o) : Decides(o[k], id)
         \/ Comes(id, W) /\ Under(W, id) = Under(V, id)
  PROVE  Comes(id, V)'
<1>1. /\ Len(tty') = Len(tty) + Len(o) /\ Len(tty) \in Nat /\ Len(o) \in Nat
      /\ \A k \in 1..Len(tty) : tty'[k] = tty[k]
      /\ \A k \in 1..Len(o) : tty'[Len(tty) + k] = o[k]
  BY Joined DEF Typed
<1>2. \A k \in 1..Len(tty') : Len(tty) < k /\ Decides(tty'[k], id) => Leaves(tty'[k]) = Under(V, id)
  <2> SUFFICES ASSUME NEW k \in 1..Len(tty'), Len(tty) < k, Decides(tty'[k], id)
               PROVE  Leaves(tty'[k]) = Under(V, id)
    OBVIOUS
  <2> DEFINE j == k - Len(tty)
  <2>1. j \in 1..Len(o) /\ Len(tty) + j = k
    BY <1>1
  <2> HIDE DEF j
  <2> QED
    BY <1>1, <2>1
<1>3. CASE \E k \in 1..Len(o) : Decides(o[k], id)
  <2>1. PICK k \in 1..Len(o) : Decides(o[k], id)
    BY <1>3
  <2> DEFINE n == Len(tty) + k
  <2>2. n \in 0..Len(tty') /\ n # 0 /\ Decides(tty'[n], id) /\ Leaves(tty'[n]) = Under(V, id)
    BY <1>1, <2>1
  <2>3. \A m \in 1..Len(tty') : n < m => Len(tty) < m
    BY <1>1
  <2> HIDE DEF n
  <2> QED
    BY <1>2, <2>2, <2>3 DEF Comes
<1>4. CASE Comes(id, W) /\ Under(W, id) = Under(V, id)
  <2>1. PICK n \in 0..Len(tty) :
          /\ n = 0 => Under(term.images, id) = Under(W, id)
          /\ n # 0 => Decides(tty[n], id) /\ Leaves(tty[n]) = Under(W, id)
          /\ \A k \in 1..Len(tty) :
               n < k /\ Decides(tty[k], id) => Leaves(tty[k]) = Under(W, id)
    BY <1>4 DEF Comes
  <2>2. n \in 0..Len(tty') /\ (n # 0 => n \in 1..Len(tty) /\ tty'[n] = tty[n])
    BY <1>1
  <2>3. \A k \in 1..Len(tty') :
          n < k /\ Decides(tty'[k], id) => Leaves(tty'[k]) = Under(V, id)
    <3> TAKE k \in 1..Len(tty')
    <3>1. k \in 1..Len(tty) \/ Len(tty) < k
      BY <1>1
    <3>2. k \in 1..Len(tty) => tty'[k] = tty[k]
      BY <1>1
    <3> QED
      BY <1>2, <1>4, <2>1, <3>1, <3>2
  <2>4. n = 0 => Under(term'.images, id) = Under(V, id)
    BY <1>4, <2>1
  <2>5. n # 0 => Decides(tty'[n], id) /\ Leaves(tty'[n]) = Under(V, id)
    BY <1>4, <2>1, <2>2
  <2> QED
    BY <2>2, <2>3, <2>4, <2>5 DEF Comes
<1> QED
  BY <1>3, <1>4

\* Obeying a sequence brings what is to come no further and no nearer.
LEMMA ComesObey ==
  ASSUME Typed, NEW id \in Nat, NEW W, Comes(id, W), Obey
  PROVE  Comes(id, W)'
<1> DEFINE c == Head(tty)
<1>0. tty \in Seq(Commands) /\ Emulates(term) /\ tty # <<>> /\ tty' = Tail(tty)
      /\ term' = Obeyed(term, c)
  BY DEF Typed, Obey
<1>1. /\ Len(tty') = Len(tty) - 1 /\ Len(tty) \in Nat \ {0}
      /\ c = tty[1] /\ c \in Commands
      /\ \A k \in 1..Len(tty') : tty'[k] = tty[k + 1]
  BY <1>0, AfterTail
<1> HIDE DEF c
<1>2. Under(term'.images, id) = IF Decides(c, id) THEN Leaves(c) ELSE Under(term.images, id)
  BY <1>0, <1>1, ObeysUnder
<1>3. PICK n \in 0..Len(tty) :
        /\ n = 0 => Under(term.images, id) = Under(W, id)
        /\ n # 0 => Decides(tty[n], id) /\ Leaves(tty[n]) = Under(W, id)
        /\ \A k \in 1..Len(tty) :
             n < k /\ Decides(tty[k], id) => Leaves(tty[k]) = Under(W, id)
  BY DEF Comes
<1>4. \A k \in 1..Len(tty') :
        n < k + 1 /\ Decides(tty'[k], id) => Leaves(tty'[k]) = Under(W, id)
  <2> TAKE k \in 1..Len(tty')
  <2>1. k + 1 \in 1..Len(tty) /\ tty'[k] = tty[k + 1]
    BY <1>1
  <2> QED
    BY <1>3, <2>1
<1>5. CASE n \in {0, 1}
  <2>1. Under(term'.images, id) = Under(W, id)
    <3>1. CASE n = 1
      BY <1>1, <1>2, <1>3, <3>1
    <3>2. CASE n = 0
      <4>1. Decides(c, id) => Leaves(c) = Under(W, id)
        BY <1>1, <1>3, <3>2
      <4> QED
        BY <1>2, <1>3, <3>2, <4>1
    <3> QED
      BY <1>5, <3>1, <3>2
  <2>2. \A k \in 1..Len(tty') : Decides(tty'[k], id) => Leaves(tty'[k]) = Under(W, id)
    BY <1>4, <1>5
  <2>3. 0 \in 0..Len(tty')
    BY <1>1
  <2> QED
    BY <2>1, <2>2, <2>3 DEF Comes
<1>6. CASE n \notin {0, 1}
  <2> DEFINE m == n - 1
  <2>1. m \in 1..Len(tty') /\ m + 1 = n /\ m # 0 /\ m \in 0..Len(tty')
    BY <1>1, <1>6
  <2> HIDE DEF m
  <2>2. tty'[m] = tty[n]
    BY <1>1, <2>1
  <2>3. \A k \in 1..Len(tty') : m < k => n < k + 1
    BY <2>1
  <2> QED
    BY <1>3, <1>4, <2>1, <2>2, <2>3 DEF Comes
<1> QED
  BY <1>5, <1>6

LEMMA CellFields ==
  \A d, r : Cell(d, r).op = "cell" /\ Cell(d, r).row = r
BY DEF Cell

\* The same for a row of the grid.
LEMMA RowWrite ==
  ASSUME Typed, NEW o \in Seq(Commands), NEW r \in Nat,
         tty' = tty \o o, term' = term,
         \A k \in 1..Len(o) : o[k].op = "cell" /\ (o[k].row = r => o[k] = Cell(display', r)),
         \/ In(Cell(display', r), o)
         \/ RowComes(r) /\ Cell(display', r) = Cell(display, r)
  PROVE  RowComes(r)'
<1>1. /\ Len(tty') = Len(tty) + Len(o) /\ Len(tty) \in Nat /\ Len(o) \in Nat
      /\ \A k \in 1..Len(tty) : tty'[k] = tty[k]
      /\ \A k \in 1..Len(o) : tty'[Len(tty) + k] = o[k]
  BY Joined DEF Typed
<1> DEFINE Fits(c) == /\ c.op \notin {"setup", "clear"}
                      /\ c.op = "cell" /\ c.row = r => c = Cell(display', r)
<1>2. \A k \in 1..Len(tty') : Len(tty) < k => Fits(tty'[k])
  <2> SUFFICES ASSUME NEW k \in 1..Len(tty'), Len(tty) < k PROVE Fits(tty'[k])
    OBVIOUS
  <2> DEFINE j == k - Len(tty)
  <2>1. j \in 1..Len(o) /\ Len(tty) + j = k
    BY <1>1
  <2> HIDE DEF j
  <2>2. tty'[k] = o[j]
    BY <1>1, <2>1
  <2> QED
    BY <2>1, <2>2
<1>3. CASE In(Cell(display', r), o)
  <2>1. PICK k \in 1..Len(o) : o[k] = Cell(display', r)
    BY <1>3 DEF In
  <2> DEFINE n == Len(tty) + k
  <2>2. n \in 0..Len(tty') /\ n # 0 /\ tty'[n] = Cell(display', r)
    BY <1>1, <2>1
  <2>3. \A m \in 1..Len(tty') : n < m => Len(tty) < m
    BY <1>1
  <2> HIDE DEF n
  <2> QED
    BY <1>2, <2>2, <2>3 DEF RowComes
<1>4. CASE RowComes(r) /\ Cell(display', r) = Cell(display, r)
  <2>1. PICK n \in 0..Len(tty) :
          /\ n = 0 => term.grid[r] = Cell(display, r).halves
          /\ n # 0 => tty[n] = Cell(display, r)
          /\ \A k \in 1..Len(tty) : n < k => /\ tty[k].op \notin {"setup", "clear"}
                                             /\ tty[k].op = "cell" /\ tty[k].row = r => tty[k] = Cell(display, r)
    BY <1>4 DEF RowComes
  <2>2. n \in 0..Len(tty') /\ (n # 0 => n \in 1..Len(tty) /\ tty'[n] = tty[n])
    BY <1>1
  <2>3. \A k \in 1..Len(tty') : n < k => Fits(tty'[k])
    <3> TAKE k \in 1..Len(tty')
    <3>1. k \in 1..Len(tty) \/ Len(tty) < k
      BY <1>1
    <3>2. k \in 1..Len(tty) => tty'[k] = tty[k]
      BY <1>1
    <3> QED
      BY <1>2, <1>4, <2>1, <3>1, <3>2
  <2>4. n = 0 => term'.grid[r] = Cell(display', r).halves
    BY <1>4, <2>1
  <2>5. n # 0 => tty'[n] = Cell(display', r)
    BY <1>4, <2>1, <2>2
  <2> QED
    BY <2>2, <2>3, <2>4, <2>5 DEF RowComes
<1> QED
  BY <1>3, <1>4

LEMMA RowObey ==
  ASSUME Typed, NEW r \in 0..(term.geo.rows - 1), RowComes(r), Obey
  PROVE  RowComes(r)'
<1> DEFINE c == Head(tty)
           z == Cell(display, r)
<1>0. tty \in Seq(Commands) /\ Emulates(term) /\ tty # <<>> /\ tty' = Tail(tty)
      /\ term' = Obeyed(term, c) /\ display' = display
  BY DEF Typed, Obey
<1>1. /\ Len(tty') = Len(tty) - 1 /\ Len(tty) \in Nat \ {0}
      /\ c = tty[1] /\ c \in Commands
      /\ \A k \in 1..Len(tty') : tty'[k] = tty[k + 1]
  BY <1>0, AfterTail
<1> HIDE DEF c
<1>2. /\ c.op = "cell" /\ c.row = r => term'.grid[r] = c.halves
      /\ (c.op = "cell" => c.row # r) /\ c.op \notin {"setup", "clear"}
           => term'.grid[r] = term.grid[r]
  <2>1. Effect(term, c, term')
    BY <1>0, <1>1, Obeys
  <2> QED
    BY <2>1 DEF Effect
<1>3. PICK n \in 0..Len(tty) :
        /\ n = 0 => term.grid[r] = z.halves
        /\ n # 0 => tty[n] = z
        /\ \A k \in 1..Len(tty) : n < k => /\ tty[k].op \notin {"setup", "clear"}
                                           /\ tty[k].op = "cell" /\ tty[k].row = r => tty[k] = z
  BY DEF RowComes
<1>4. z = Cell(display', r) /\ z.op = "cell" /\ z.row = r
  BY <1>0, CellFields
<1> HIDE DEF z
<1>5. \A k \in 1..Len(tty') : n < k + 1 => /\ tty'[k].op \notin {"setup", "clear"}
                                           /\ tty'[k].op = "cell" /\ tty'[k].row = r => tty'[k] = z
  <2> TAKE k \in 1..Len(tty')
  <2>1. k + 1 \in 1..Len(tty) /\ tty'[k] = tty[k + 1]
    BY <1>1
  <2> QED
    BY <1>3, <2>1
<1>6. CASE n \in {0, 1}
  <2>1. term'.grid[r] = z.halves
    <3>1. CASE n = 1
      BY <1>1, <1>2, <1>3, <1>4, <3>1
    <3>2. CASE n = 0
      <4>1. c.op \notin {"setup", "clear"} /\ (c.op = "cell" /\ c.row = r => c = z)
        BY <1>1, <1>3, <3>2
      <4> QED
        BY <1>2, <1>3, <3>2, <4>1
    <3> QED
      BY <1>6, <3>1, <3>2
  <2>2. \A k \in 1..Len(tty') : /\ tty'[k].op \notin {"setup", "clear"}
                                /\ tty'[k].op = "cell" /\ tty'[k].row = r => tty'[k] = z
    BY <1>5, <1>6
  <2>3. 0 \in 0..Len(tty')
    BY <1>1
  <2> QED
    BY <1>4, <2>1, <2>2, <2>3 DEF RowComes
<1>7. CASE n \notin {0, 1}
  <2> DEFINE m == n - 1
  <2>1. m \in 1..Len(tty') /\ m + 1 = n /\ m # 0 /\ m \in 0..Len(tty')
    BY <1>1, <1>7
  <2> HIDE DEF m
  <2>2. tty'[m] = z
    BY <1>1, <1>3, <1>7, <2>1
  <2>3. \A k \in 1..Len(tty') : m < k => n < k + 1
    BY <2>1
  <2> QED
    BY <1>4, <1>5, <2>1, <2>2, <2>3 DEF RowComes
<1> QED
  BY <1>6, <1>7

LEMMA Greatest ==
  ASSUME NEW n \in Nat, NEW S, S \subseteq 1..n, S # {}
  PROVE  \E m \in S : \A k \in S : k <= m
<1> DEFINE Has(b) == (\E k \in S : k <= b) => \E m \in S : m <= b /\ \A k \in S : k <= b => k <= m
           T == {b \in 0..n : Has(b)}
<1>0. \A k \in S : k \in Nat /\ 1 <= k /\ k <= n
  OBVIOUS
<1>1. 0 \in T
  <2>1. Has(0) /\ 0 \in 0..n
    BY <1>0
  <2> HIDE DEF Has
  <2> QED
    BY <2>1
<1>2. ASSUME NEW b \in 0..(n - 1), b \in T PROVE b + 1 \in T
  <2>0. b + 1 \in 0..n
    OBVIOUS
  <2>1. Has(b)
    BY <1>2
  <2>2. Has(b + 1)
    <3>1. CASE b + 1 \in S
      BY <1>0, <3>1
    <3>2. CASE b + 1 \notin S
      <4>1. \A k \in S : k <= b + 1 <=> k <= b
        BY <1>0, <3>2
      <4> QED
        BY <2>1, <4>1
    <3> QED
      BY <3>1, <3>2
  <2> HIDE DEF Has
  <2> QED
    BY <2>0, <2>2
<1>3. n \in T
  <2>1. \A b \in 0..(n - 1) : b \in T => b + 1 \in T
    BY <1>2
  <2> HIDE DEF T
  <2>2. 0..n \subseteq T
    BY <1>1, <2>1, UpTo
  <2> QED
    BY <2>2
<1> QED
  BY <1>0, <1>3

\* A surface on which no pixel was painted is what it was.
LEMMA Unpainted ==
  ASSUME NEW d, Sound(d), NEW damage, NEW c \in Colours,
         \A n \in 1..Len(d.shadow), k \in DOMAIN damage : ~(damage[k].y < n /\ n <= damage[k].b)
  PROVE  Drawn(d, damage, c) = d
<1> DEFINE e == Drawn(d, damage, c)
<1>1. /\ Sound(e) /\ e = [d EXCEPT !.shadow = e.shadow]
      /\ \A n \in 1..Len(d.shadow) : e.shadow[n] = d.shadow[n]
  BY Painted
<1>2. e.geo = d.geo
  BY <1>1 DEF Sound, Displays
<1> HIDE DEF e
<1>3. /\ d.shadow \in Seq(Colours) /\ e.shadow \in Seq(Colours)
      /\ Len(d.shadow) = Len(e.shadow) /\ Len(d.shadow) \in Nat
  BY <1>1, <1>2 DEF Sound, Displays
<1>4. e.shadow = d.shadow
  BY <1>1, <1>3
<1>5. [d EXCEPT !.shadow = d.shadow] = d
  BY DEF Sound, Displays
<1> QED
  BY <1>1, <1>4, <1>5 DEF e

\* A frame that writes nothing painted nothing.
LEMMA NothingPainted ==
  ASSUME NEW d, Sound(d), NEW damage \in Seq(Spans), NEW c \in Colours,
         Clamped(Drawn(d, damage, c), damage) = <<>>
  PROVE  Drawn(d, damage, c) = d
<1> DEFINE e == Drawn(d, damage, c)
<1>1. Sound(e) /\ e.geo = d.geo
  <2>1. Sound(e) /\ e = [d EXCEPT !.shadow = e.shadow]
    BY Painted
  <2> HIDE DEF e
  <2> QED
    BY <2>1 DEF Sound, Displays
<1> HIDE DEF e
<1>2. Len(e.shadow) = Len(d.shadow)
  BY <1>1 DEF Sound
<1>3. \A k \in 1..Len(damage), n \in 1..Len(e.shadow) :
        damage[k].y < n /\ n <= damage[k].b
          => \E m \in 1..Len(Clamped(e, damage)) :
               Clamped(e, damage)[m].y < n /\ n <= Clamped(e, damage)[m].b
  BY <1>1, ClampedIn
<1>4. Len(Clamped(e, damage)) = 0
  BY DEF e
<1>5. \A k \in 1..Len(damage), n \in 1..Len(d.shadow) : ~(damage[k].y < n /\ n <= damage[k].b)
  BY <1>2, <1>3, <1>4
<1>6. DOMAIN damage = 1..Len(damage)
  OBVIOUS
<1> QED
  BY <1>5, <1>6, Unpainted

\* The sequences o turn the images W into the images V.
Turns(o, W, V) ==
  \A id \in Nat :
    /\ \A k \in 1..Len(o) : Decides(o[k], id) => Leaves(o[k]) = Under(V, id)
    /\ (\E k \in 1..Len(o) : Decides(o[k], id)) \/ Under(W, id) = Under(V, id)

\* A whole frame leaves its base, and nothing of what was there before.
LEMMA FullyDrawn ==
  ASSUME NEW d, Sound(d), NEW W, ~d.presented => W = {},
         d.presented => \A i \in W : i.id = Base(~d.slot) \/ In(i.id, d.patches)
  PROVE  \E V \in SUBSET Pictures : Believed(V, Consolidated(d)) /\ Turns(FullOut(d), W, V)
<1> DEFINE e == Consolidated(d)
           o == FullOut(d)
           h == IF d.presented THEN 2 ELSE 1
           i == Image(d, Base(d.slot), 0, Whole(d))
           V == {i}
<1>1. /\ o \in Seq(Commands) /\ Len(o) = h + Len(d.patches)
      /\ Whole(d) \in Within(d)
      /\ o[1] = Place(i)
      /\ d.presented => o[2] = Delete(Base(~d.slot))
      /\ \A k \in 1..Len(d.patches) : o[h + k] = Delete(d.patches[k])
  BY WholeWritten
<1>2. Base(d.slot) \in {1, 2} /\ Base(~d.slot) \in {1, 2} /\ Base(d.slot) # Base(~d.slot)
  BY DEF Base
<1>3. /\ i \in Pictures /\ i.id = Base(d.slot) /\ i.z = 0
      /\ Top(d, i) = 0 /\ Len(i.pix) = Len(d.shadow)
      /\ \A n \in 1..Len(d.shadow) : i.pix[n] = d.shadow[n]
  <2>1. Base(d.slot) \in Nat /\ 0 \in Nat
    BY <1>2
  <2>2. Whole(d).y = 0 /\ Whole(d).b = Len(d.shadow) /\ Len(d.shadow) \in Nat
    BY DEF Whole, Sound, Displays
  <2> HIDE DEF o, e, h, V
  <2>3. /\ i \in Pictures /\ i.id = Base(d.slot) /\ i.z = 0
        /\ Top(d, i) = Whole(d).y /\ Len(i.pix) = Whole(d).b - Whole(d).y
        /\ \A n \in 1..(Whole(d).b - Whole(d).y) : i.pix[n] = d.shadow[Whole(d).y + n]
    BY <1>1, <2>1, Cut
  <2> HIDE DEF i
  <2> QED
    BY <2>2, <2>3
<1> HIDE DEF i
<1>4. /\ Sound(e) /\ e.shadow = d.shadow /\ e.geo = d.geo /\ e.protocol = d.protocol
      /\ e.patches = <<>> /\ e.nextId = FirstPatchId /\ e.nextZ = 1
      /\ e.presented /\ e.slot = ~d.slot
  BY ConsolidatedSound
<1>5. Len(d.patches) \in Nat
      /\ \A k \in 1..Len(d.patches) : d.patches[k] \in Nat /\ FirstPatchId <= d.patches[k]
  BY DEF Sound, Displays
<1>6. h \in {1, 2} /\ (d.presented <=> h = 2)
  OBVIOUS
<1> HIDE DEF h, o, e
<1>7. Believed(V, e)
  <2>1. Base(~e.slot) = Base(d.slot)
    BY <1>4 DEF Base
  <2>2. i.z < e.nextZ /\ i.id < e.nextId
    BY <1>2, <1>3, <1>4, TermAssumption
  <2>3. Composes(V, e)
    <3>1. Top(e, i) = 0
      BY <1>3, <1>4 DEF Top
    <3>2. ASSUME NEW p \in 0..(Len(e.shadow) - 1)
          PROVE  /\ Covers(e, i, p) /\ i.pix[p + 1 - Top(e, i)] = e.shadow[p + 1]
                 /\ Below(i, i)
      <4>1. Len(d.shadow) \in Nat /\ p + 1 \in 1..Len(d.shadow) /\ p + 1 - 0 = p + 1
        BY <1>4 DEF Sound, Displays
      <4>2. i.id \in Nat /\ i.z \in Nat
        BY <1>3 DEF Pictures
      <4>3. Covers(e, i, p)
        <5>1. 0 <= p /\ p < 0 + Len(i.pix)
          BY <1>3, <4>1
        <5> QED
          BY <3>1, <5>1 DEF Covers
      <4>4. i.pix[p + 1 - Top(e, i)] = e.shadow[p + 1]
        BY <1>3, <1>4, <3>1, <4>1
      <4> QED
        BY <4>2, <4>3, <4>4 DEF Below
    <3> QED
      BY <3>2 DEF Composes
  <2> QED
    BY <1>3, <1>4, <2>1, <2>2, <2>3 DEF Believed
<1>8. ASSUME NEW k \in 1..Len(o), k # 1
      PROVE  /\ o[k].op = "delete" /\ o[k].id \in Nat /\ o[k].id # Base(d.slot)
  <2>1. CASE d.presented /\ k = 2
    BY <1>1, <1>2, <2>1, Replies
  <2>2. CASE ~(d.presented /\ k = 2)
    <3> DEFINE j == k - h
    <3>0. k > h
      <4>1. h = 1 \/ (h = 2 /\ k # 2)
        BY <1>6, <2>2
      <4>2. k \in Nat /\ k >= 1
        OBVIOUS
      <4> QED
        BY <1>8, <4>1, <4>2
    <3>1. j \in 1..Len(d.patches) /\ h + j = k
      <4>1. k \in Nat /\ k <= h + Len(d.patches)
        BY <1>1, <1>5, <1>6
      <4> QED
        BY <1>5, <1>6, <3>0, <4>1
    <3> HIDE DEF j
    <3>2. o[k] = Delete(d.patches[j]) /\ d.patches[j] \in Nat /\ FirstPatchId <= d.patches[j]
      BY <1>1, <1>5, <3>1
    <3> QED
      BY <1>2, <3>2, Replies, TermAssumption
  <2> QED
    BY <2>1, <2>2
<1>9. 1 \in 1..Len(o) /\ o[1].op = "place" /\ o[1].image = i
  BY <1>1, <1>3, <1>5, <1>6, Replies
<1>10. ASSUME NEW id \in Nat
       PROVE  /\ \A k \in 1..Len(o) : Decides(o[k], id) => Leaves(o[k]) = Under(V, id)
              /\ (\E k \in 1..Len(o) : Decides(o[k], id)) \/ Under(W, id) = Under(V, id)
  <2>1. CASE id = Base(d.slot)
    <3>1. Under(V, id) = {i} /\ Decides(o[1], id) /\ Leaves(o[1]) = {i}
      BY <1>3, <1>9, <2>1 DEF Under, Decides, Leaves
    <3>2. \A k \in 1..Len(o) : k # 1 => ~Decides(o[k], id)
      BY <1>8, <2>1 DEF Decides
    <3> QED
      BY <1>9, <3>1, <3>2
  <2>2. CASE id # Base(d.slot)
    <3>1. Under(V, id) = {}
      BY <1>3, <2>2 DEF Under
    <3>2. \A k \in 1..Len(o) : Decides(o[k], id) => Leaves(o[k]) = {}
      <4> TAKE k \in 1..Len(o)
      <4>1. k = 1 => ~Decides(o[k], id)
        BY <1>3, <1>9, <2>2 DEF Decides
      <4>2. k # 1 => Leaves(o[k]) = {}
        BY <1>8 DEF Leaves
      <4> QED
        BY <4>1, <4>2
    <3>3. ASSUME Under(W, id) # {} PROVE \E k \in 1..Len(o) : Decides(o[k], id)
      <4>1. PICK w \in W : w.id = id
        BY <3>3 DEF Under
      <4>2. d.presented /\ (id = Base(~d.slot) \/ In(id, d.patches))
        BY <4>1
      <4>3. CASE id = Base(~d.slot)
        <5>1. 2 \in 1..Len(o) /\ o[2].op = "delete" /\ o[2].id = id
          BY <1>1, <1>2, <1>5, <1>6, <4>2, <4>3, Replies
        <5> QED
          BY <5>1 DEF Decides
      <4>4. CASE In(id, d.patches)
        <5>1. PICK j \in 1..Len(d.patches) : d.patches[j] = id
          BY <4>4 DEF In
        <5>2. h + j \in 1..Len(o) /\ o[h + j] = Delete(id)
          BY <1>1, <1>5, <1>6, <5>1
        <5>3. Decides(o[h + j], id)
          BY <5>2, Replies DEF Decides
        <5> QED
          BY <5>2, <5>3
      <4> QED
        BY <4>2, <4>3, <4>4
    <3> QED
      BY <3>1, <3>2, <3>3
  <2> QED
    BY <2>1, <2>2
<1>11. Turns(o, W, V)
  BY <1>10 DEF Turns
<1>12. V \in SUBSET Pictures
  BY <1>3
<1> HIDE DEF V
<1> QED
  BY <1>7, <1>11, <1>12 DEF o, e

\* Painting leaves the display as it is but for its pixels.
LEMMA PaintedFields ==
  ASSUME NEW d, Sound(d), NEW damage, NEW c \in Colours
  PROVE  LET e == Drawn(d, damage, c)
         IN  /\ Sound(e) /\ e.protocol = d.protocol /\ e.geo = d.geo /\ e.presented = d.presented
             /\ e.slot = d.slot /\ e.nextId = d.nextId /\ e.patches = d.patches
             /\ e.nextZ = d.nextZ /\ Len(e.shadow) = Len(d.shadow) /\ Len(d.shadow) \in Nat
<1> DEFINE e == Drawn(d, damage, c)
<1>1. Sound(e) /\ e = [d EXCEPT !.shadow = e.shadow]
  BY Painted
<1> HIDE DEF e
<1>2. /\ e.protocol = d.protocol /\ e.geo = d.geo /\ e.presented = d.presented
      /\ e.slot = d.slot /\ e.nextId = d.nextId /\ e.patches = d.patches /\ e.nextZ = d.nextZ
  BY <1>1 DEF Sound, Displays
<1>3. Len(e.shadow) = Len(d.shadow) /\ Len(d.shadow) \in Nat
  BY <1>1, <1>2 DEF Sound, Displays
<1> QED
  BY <1>1, <1>2, <1>3 DEF e

LEMMA PatchedFields ==
  ASSUME NEW d, Sound(d), NEW r \in Seq(Within(d)), Len(d.patches) + Len(r) <= MaxPatches
  PROVE  LET e == Patched(d, r)
         IN  /\ e.protocol = d.protocol /\ e.geo = d.geo /\ e.presented = d.presented
             /\ e.slot = d.slot /\ e.shadow = d.shadow
             /\ e.nextId = d.nextId + Len(r) /\ e.nextZ = d.nextZ + Len(r)
<1> DEFINE e == Patched(d, r)
           d1 == [d EXCEPT !.patches = e.patches]
           a == d.nextId + Len(r)
           b == d.nextZ + Len(r)
<1>1. e = [d EXCEPT !.patches = e.patches, !.nextId = @ + Len(r), !.nextZ = @ + Len(r)]
  BY PatchedSound
<1> HIDE DEF e
<1>2. e = [d1 EXCEPT !.nextId = a, !.nextZ = b]
  BY <1>1 DEF Sound, Displays
<1> HIDE DEF a, b
<1>3. /\ d1.protocol = d.protocol /\ d1.geo = d.geo /\ d1.presented = d.presented
      /\ d1.slot = d.slot /\ d1.shadow = d.shadow
      /\ DOMAIN d1 = DOMAIN d
  BY DEF Sound, Displays
<1>4. DOMAIN d = {"protocol", "geo", "shadow", "presented", "slot", "nextId", "patches", "nextZ"}
  BY DEF Sound, Displays
<1> HIDE DEF d1
<1>5. /\ e.protocol = d1.protocol /\ e.geo = d1.geo /\ e.presented = d1.presented
      /\ e.slot = d1.slot /\ e.shadow = d1.shadow /\ e.nextId = a /\ e.nextZ = b
  BY <1>2, <1>3, <1>4
<1> QED
  BY <1>3, <1>5 DEF a, b, e

\* The image i is cut from d at r, and has this id and this height.
IsCut(i, d, id, z, r) ==
  /\ i \in Pictures /\ i.id = id /\ i.z = z
  /\ Top(d, i) = r.y /\ Len(i.pix) = r.b - r.y
  /\ \A n \in 1..(r.b - r.y) : i.pix[n] = d.shadow[r.y + n]

LEMMA ImageIsCut ==
  ASSUME NEW d, Sound(d), NEW id \in Nat, NEW z \in Nat, NEW r \in Within(d)
  PROVE  IsCut(Image(d, id, z, r), d, id, z, r) /\ r.y \in Nat /\ r.b \in Nat
<1>1. r.y \in Nat /\ r.b \in Nat
  BY DEF Within, Spans
<1>2. /\ Image(d, id, z, r) \in Pictures
      /\ Image(d, id, z, r).id = id /\ Image(d, id, z, r).z = z
      /\ Top(d, Image(d, id, z, r)) = r.y
      /\ Len(Image(d, id, z, r).pix) = r.b - r.y
  BY Cut
<1>3. \A n \in 1..(r.b - r.y) : Image(d, id, z, r).pix[n] = d.shadow[r.y + n]
  BY Cut
<1> QED
  BY <1>1, <1>2, <1>3 DEF IsCut

\* The image of one patch.
LEMMA PatchImage ==
  ASSUME NEW d, Sound(d), NEW r \in Seq(Within(d)), NEW k \in 1..Len(r)
  PROVE  /\ IsCut(Image(d, d.nextId + k - 1, d.nextZ + k - 1, r[k]), d,
                  d.nextId + k - 1, d.nextZ + k - 1, r[k])
         /\ r[k].y \in Nat /\ r[k].b \in Nat
<1>1. r[k] \in Within(d) /\ d.nextId \in Nat /\ d.nextZ \in Nat
  BY DEF Sound, Displays
<1>2. d.nextId + k - 1 \in Nat /\ d.nextZ + k - 1 \in Nat
  BY <1>1
<1> QED
  BY <1>1, <1>2, ImageIsCut

\* Patches lie over what is there, and show every pixel that was painted.
LEMMA PatchesDrawn ==
  ASSUME NEW d0, Sound(d0), d0.presented, NEW damage \in Seq(Spans), NEW c \in Colours,
         NEW d, d = Drawn(d0, damage, c), NEW r \in Seq(Within(d)), r = Clamped(d, damage),
         Len(d.patches) + Len(r) <= MaxPatches, NEW W \in SUBSET Pictures, Believed(W, d0)
  PROVE  \E V \in SUBSET Pictures : Believed(V, Patched(d, r)) /\ Turns(PatchOut(d, r), W, V)
<1> DEFINE e == Patched(d, r)
           o == PatchOut(d, r)
           m == Len(r)
           im(k) == Image(d, d.nextId + k - 1, d.nextZ + k - 1, r[k])
           N == {im(k) : k \in 1..m}
           V == W \cup N
<1>1. /\ Sound(d) /\ d.geo = d0.geo /\ d.presented /\ d.slot = d0.slot /\ d.nextId = d0.nextId
      /\ d.patches = d0.patches /\ d.nextZ = d0.nextZ /\ Len(d.shadow) = Len(d0.shadow)
      /\ Len(d.shadow) \in Nat
  BY PaintedFields
<1>2. /\ Sound(e) /\ e.geo = d.geo /\ e.presented /\ e.slot = d.slot /\ e.shadow = d.shadow
      /\ e.nextId = d.nextId + m /\ e.nextZ = d.nextZ + m
      /\ \A id : In(id, d.patches) => In(id, e.patches)
      /\ \A k \in 1..m : In(d.nextId + k - 1, e.patches)
  <2>0. Sound(d)
    BY <1>1
  <2>1. /\ e.protocol = d.protocol /\ e.geo = d.geo /\ e.presented = d.presented
        /\ e.slot = d.slot /\ e.shadow = d.shadow
        /\ e.nextId = d.nextId + m /\ e.nextZ = d.nextZ + m
    BY <2>0, PatchedFields
  <2>2. /\ Sound(e)
        /\ \A id : In(id, d.patches) => In(id, e.patches)
        /\ \A k \in 1..m : In(d.nextId + k - 1, e.patches)
    BY <2>0, PatchedSound
  <2> HIDE DEF e, m
  <2> QED
    BY <1>1, <2>1, <2>2
<1>3. d.nextId \in Nat /\ d.nextZ \in Nat /\ m \in Nat /\ \A k \in 1..m : r[k] \in Within(d)
  BY <1>1 DEF Sound, Displays
<1>4. ASSUME NEW k \in 1..m
      PROVE  /\ im(k) \in Pictures /\ im(k).id = d.nextId + k - 1 /\ im(k).z = d.nextZ + k - 1
             /\ Top(d, im(k)) = r[k].y /\ Len(im(k).pix) = r[k].b - r[k].y
             /\ \A n \in 1..(r[k].b - r[k].y) : im(k).pix[n] = d.shadow[r[k].y + n]
             /\ r[k].y \in Nat /\ r[k].b \in Nat
  <2>1. Sound(d) /\ k \in 1..Len(r)
    BY <1>1
  <2>2. /\ IsCut(im(k), d, d.nextId + k - 1, d.nextZ + k - 1, r[k])
        /\ r[k].y \in Nat /\ r[k].b \in Nat
    BY <2>1, PatchImage
  <2> HIDE DEF im
  <2> QED
    BY <2>2 DEF IsCut
<1>5. /\ o \in Seq(Commands) /\ Len(o) = m /\ \A k \in 1..m : o[k] = Place(im(k))
  BY <1>1, PatchesWritten
<1>6. /\ \A i, j \in W : i.id = j.id => i = j
      /\ \A i \in W : i.z < d.nextZ /\ i.id < d.nextId
      /\ \A i \in W : i.id = Base(~d.slot) \/ In(i.id, d.patches)
      /\ Composes(W, d0)
  BY <1>1 DEF Believed
<1> HIDE DEF e, o, m, im
<1>7. \A k, l \in 1..m : im(k).id = im(l).id => k = l
  BY <1>3, <1>4
<1>8. \A i \in W : i \in Pictures /\ i.id \in Nat /\ i.z \in Nat
  BY DEF Pictures
<1>9. \A i \in W, k \in 1..m : i.id < im(k).id /\ i.z < im(k).z /\ i.id # im(k).id
  BY <1>3, <1>4, <1>6, <1>8
<1>10. V \in SUBSET Pictures
  BY <1>4
<1>11. \A i, j \in V : i.id = j.id => i = j
  BY <1>6, <1>7, <1>9
<1>12. \A i \in V : i.z < e.nextZ /\ i.id < e.nextId
  <2>1. \A i \in W : i.z < e.nextZ /\ i.id < e.nextId
    BY <1>2, <1>3, <1>6, <1>8
  <2>2. \A k \in 1..m : im(k).z < e.nextZ /\ im(k).id < e.nextId
    BY <1>2, <1>3, <1>4
  <2> QED
    BY <2>1, <2>2
<1>13. \A i \in V : i.id = Base(~e.slot) \/ In(i.id, e.patches)
  BY <1>2, <1>4, <1>6
<1>14. Composes(V, e)
  <2> SUFFICES ASSUME NEW p \in 0..(Len(e.shadow) - 1)
               PROVE  \E i \in V : /\ Covers(e, i, p)
                                   /\ i.pix[p + 1 - Top(e, i)] = e.shadow[p + 1]
                                   /\ \A j \in V : Covers(e, j, p) => Below(j, i)
    BY DEF Composes
  <2> DEFINE n == p + 1
             K == {k \in 1..m : r[k].y < n /\ n <= r[k].b}
  <2>1. p \in Nat /\ n \in 1..Len(d.shadow)
    BY <1>1, <1>2
  <2>2. \A i : Top(e, i) = Top(d, i) /\ Top(d0, i) = Top(d, i)
    BY <1>1, <1>2 DEF Top
  <2>3. \A k \in 1..m : Covers(e, im(k), p) <=> k \in K
    <3> TAKE k \in 1..m
    <3>1. Covers(e, im(k), p) <=> r[k].y <= p /\ p < r[k].y + (r[k].b - r[k].y)
      BY <1>4, <2>2 DEF Covers
    <3>2. r[k].y \in Nat /\ r[k].b \in Nat
      BY <1>4
    <3>3. r[k].y + (r[k].b - r[k].y) = r[k].b
      BY <3>2
    <3>4. (r[k].y <= p <=> r[k].y < n) /\ (p < r[k].b <=> n <= r[k].b)
      BY <2>1, <3>2
    <3> QED
      BY <3>1, <3>3, <3>4
  <2>4. CASE K # {}
    <3>1. PICK k \in K : \A l \in K : l <= k
      <4>1. K \subseteq 1..m
        OBVIOUS
      <4> HIDE DEF K
      <4> QED
        BY <1>3, <2>4, <4>1, Greatest
    <3>2. k \in 1..m /\ im(k) \in V
      OBVIOUS
    <3>3. im(k).pix[p + 1 - Top(e, im(k))] = e.shadow[p + 1]
      <4> DEFINE q == p + 1 - r[k].y
      <4>0. r[k].y \in Nat /\ r[k].b \in Nat /\ r[k].y < p + 1 /\ p + 1 <= r[k].b
        BY <1>4
      <4>1. q \in 1..(r[k].b - r[k].y) /\ r[k].y + q = p + 1
        <5>1. p \in Nat /\ r[k].y \in Nat /\ r[k].b \in Nat
          BY <2>1, <4>0
        <5>2. p + 1 - r[k].y >= 1 /\ p + 1 - r[k].y <= r[k].b - r[k].y
          BY <4>0, <5>1
        <5> QED
          BY <5>1, <5>2
      <4> HIDE DEF q
      <4>2. im(k).pix[q] = d.shadow[r[k].y + q]
        BY <1>4, <3>2, <4>1
      <4>3. im(k).pix[q] = d.shadow[p + 1]
        BY <4>1, <4>2
      <4> QED
        BY <1>2, <1>4, <2>2, <3>2, <4>3 DEF q
    <3>4. ASSUME NEW j \in V, Covers(e, j, p) PROVE Below(j, im(k))
      <4>1. CASE j \in W
        BY <1>9, <3>2, <4>1 DEF Below
      <4>2. CASE j \in N
        <5>1. PICK l \in 1..m : j = im(l)
          BY <4>2
        <5>2. l \in K /\ l <= k
          BY <2>3, <3>1, <3>4, <5>1
        <5>3. im(l).z <= im(k).z /\ im(l).id <= im(k).id
          <6>1. /\ im(l).id = d.nextId + l - 1 /\ im(l).z = d.nextZ + l - 1
                /\ im(k).id = d.nextId + k - 1 /\ im(k).z = d.nextZ + k - 1
            BY <1>4, <3>2
          <6>2. k \in Nat /\ l \in Nat /\ l <= k
            BY <3>2, <5>2
          <6> QED
            BY <1>3, <6>1, <6>2
        <5>4. im(l).z \in Nat /\ im(k).z \in Nat
          BY <1>4, <3>2 DEF Pictures
        <5> QED
          BY <5>1, <5>3, <5>4 DEF Below
      <4> QED
        BY <4>1, <4>2
    <3> HIDE DEF V, K
    <3> QED
      BY <2>3, <3>1, <3>2, <3>3, <3>4
  <2>5. CASE K = {}
    <3>1. \A k \in DOMAIN damage : ~(damage[k].y < n /\ n <= damage[k].b)
      <4>1. DOMAIN damage = 1..Len(damage)
        OBVIOUS
      <4>2. \A k \in 1..Len(damage), q \in 1..Len(d.shadow) :
              damage[k].y < q /\ q <= damage[k].b
                => \E l \in 1..Len(r) : r[l].y < q /\ q <= r[l].b
        BY <1>1, ClampedIn
      <4> QED
        BY <2>1, <2>5, <4>1, <4>2 DEF m
    <3>2. d.shadow[n] = d0.shadow[n]
      <4>1. \A q \in 1..Len(d0.shadow) :
              (\A k \in DOMAIN damage : ~(damage[k].y < q /\ q <= damage[k].b))
                => d.shadow[q] = d0.shadow[q]
        BY Painted
      <4>2. n \in 1..Len(d0.shadow)
        BY <1>1, <2>1
      <4> HIDE DEF n
      <4> QED
        BY <3>1, <4>1, <4>2
    <3>3. p \in 0..(Len(d0.shadow) - 1)
      BY <1>1, <1>2
    <3>4. PICK i \in W : /\ Covers(d0, i, p) /\ i.pix[p + 1 - Top(d0, i)] = d0.shadow[p + 1]
                         /\ \A j \in W : Covers(d0, j, p) => Below(j, i)
      BY <1>6, <3>3 DEF Composes
    <3>5. \A j : Covers(e, j, p) <=> Covers(d0, j, p)
      BY <2>2 DEF Covers
    <3>6. i.pix[p + 1 - Top(e, i)] = e.shadow[p + 1]
      BY <1>2, <2>2, <3>2, <3>4
    <3>7. \A j \in N : ~Covers(e, j, p)
      BY <2>3, <2>5
    <3> QED
      BY <3>4, <3>5, <3>6, <3>7
  <2> QED
    BY <2>4, <2>5
<1>15. Believed(V, e)
  BY <1>2, <1>10, <1>11, <1>12, <1>13, <1>14 DEF Believed
<1>16. \A k \in 1..m : o[k].op = "place" /\ o[k].image = im(k)
  BY <1>4, <1>5, Replies
<1>17. ASSUME NEW id \in Nat
       PROVE  /\ \A k \in 1..Len(o) : Decides(o[k], id) => Leaves(o[k]) = Under(V, id)
              /\ (\E k \in 1..Len(o) : Decides(o[k], id)) \/ Under(W, id) = Under(V, id)
  <2>1. ASSUME NEW k \in 1..m, Decides(o[k], id) PROVE Leaves(o[k]) = Under(V, id)
    <3>1. im(k).id = id /\ Leaves(o[k]) = {im(k)}
      BY <1>16, <2>1 DEF Decides, Leaves
    <3>2. im(k) \in V
      OBVIOUS
    <3> HIDE DEF V
    <3>3. Under(V, id) = {im(k)}
      BY <1>11, <3>1, <3>2 DEF Under
    <3> QED
      BY <3>1, <3>3
  <2>2. ASSUME ~\E k \in 1..m : Decides(o[k], id) PROVE Under(W, id) = Under(V, id)
    <3>1. \A k \in 1..m : im(k).id # id
      BY <1>16, <2>2 DEF Decides
    <3> QED
      BY <3>1 DEF Under
  <2> QED
    BY <1>5, <2>1, <2>2
<1>18. Turns(o, W, V)
  BY <1>17 DEF Turns
<1> HIDE DEF V
<1> QED
  BY <1>10, <1>15, <1>18 DEF o, e

\* A row of cells that no damage touches shows the pixels it showed.
LEMMA RowUntouched ==
  ASSUME NEW d, Sound(d), d.protocol = "cells", NEW e, Sound(e), Len(e.shadow) = Len(d.shadow),
         NEW q \in 0..(d.geo.rows - 1),
         e.shadow[2 * q + 1] = d.shadow[2 * q + 1], e.shadow[2 * q + 2] = d.shadow[2 * q + 2]
  PROVE  Cell(e, q) = Cell(d, q)
<1> DEFINE m == 2 * q
           x == SubSeq(e.shadow, m + 1, m + 2)
           y == SubSeq(d.shadow, m + 1, m + 2)
<1>1. d.geo.rows \in Nat /\ Len(d.shadow) = d.geo.rows * 2
  BY DEF Sound, Displays, Geos, Heighten
<1>2. m \in Nat /\ m + 2 \in Nat /\ m <= m + 2 /\ m + 2 <= Len(d.shadow) /\ (m + 2) - m = 2
  BY <1>1
<1>3. d.shadow \in Seq(Colours) /\ e.shadow \in Seq(Colours)
  BY DEF Sound, Displays
<1> HIDE DEF m
<1>4. x \in Seq(Colours) /\ Len(x) = 2 /\ \A k \in 1..2 : x[k] = e.shadow[m + k]
  BY <1>2, <1>3, Slice
<1>5. y \in Seq(Colours) /\ Len(y) = 2 /\ \A k \in 1..2 : y[k] = d.shadow[m + k]
  BY <1>2, <1>3, Slice
<1> HIDE DEF x, y
<1>6. x[1] = y[1] /\ x[2] = y[2]
  BY <1>4, <1>5 DEF m
<1>7. x = y
  BY <1>4, <1>5, <1>6
<1> QED
  BY <1>7 DEF Cell, x, y, m

\* A pixel outside the clamped damage keeps its colour.
LEMMA PaintedWithin ==
  ASSUME NEW d, Sound(d), NEW damage \in Seq(Spans), NEW c \in Colours, NEW n \in 1..Len(d.shadow),
         NEW e, e = Drawn(d, damage, c),
         \A m \in 1..Len(Clamped(e, damage)) :
           ~(Clamped(e, damage)[m].y < n /\ n <= Clamped(e, damage)[m].b)
  PROVE  e.shadow[n] = d.shadow[n]
<1>1. Sound(e) /\ Len(e.shadow) = Len(d.shadow)
  BY PaintedFields
<1>2. \A k \in 1..Len(damage), l \in 1..Len(e.shadow) :
        damage[k].y < l /\ l <= damage[k].b
          => \E m \in 1..Len(Clamped(e, damage)) :
               Clamped(e, damage)[m].y < l /\ l <= Clamped(e, damage)[m].b
  BY <1>1, ClampedIn
<1>3. \A k \in 1..Len(damage) : ~(damage[k].y < n /\ n <= damage[k].b)
  BY <1>1, <1>2
<1>4. DOMAIN damage = 1..Len(damage)
  OBVIOUS
<1>5. \A l \in 1..Len(d.shadow) :
        (\A k \in DOMAIN damage : ~(damage[k].y < l /\ l <= damage[k].b))
          => e.shadow[l] = d.shadow[l]
  BY Painted
<1> QED
  BY <1>3, <1>4, <1>5

LEMMA HalvesOf ==
  ASSUME NEW q \in Nat, NEW n \in Nat, NEW l \in Nat, q < n, l = n * 2
  PROVE  /\ 2 * q + 1 \in 1..l /\ 2 * q + 2 \in 1..l
         /\ ((2 * q + 1) - 1) \div 2 = q /\ ((2 * q + 2) - 1) \div 2 = q
OBVIOUS

\* Every row of cells that damage changes is written, and of a first frame all.
LEMMA RowsDrawn ==
  ASSUME NEW d0, Sound(d0), d0.protocol = "cells", NEW damage \in Seq(Spans), NEW c \in Colours,
         NEW d, d = Drawn(d0, damage, c), NEW r \in Seq(Within(d)), r = Clamped(d, damage),
         NEW q \in 0..(d0.geo.rows - 1)
  PROVE  LET o == CellsOut(d, IF d.presented THEN r ELSE <<Whole(d)>>)
         IN  /\ o \in Seq(Commands)
             /\ \A k \in 1..Len(o) : o[k].op = "cell" /\ o[k] = Cell(d, o[k].row)
             /\ In(Cell(d, q), o) \/ (d0.presented /\ Cell(d, q) = Cell(d0, q))
<1> DEFINE x == IF d.presented THEN r ELSE <<Whole(d)>>
           o == CellsOut(d, x)
<1>1. /\ Sound(d) /\ d.geo = d0.geo /\ d.protocol = "cells" /\ d.presented = d0.presented
      /\ Len(d.shadow) = Len(d0.shadow) /\ Len(d.shadow) \in Nat
  BY PaintedFields
<1>2. Whole(d) \in Within(d) /\ Whole(d).y = 0 /\ Whole(d).b = Len(d.shadow)
  BY <1>1, WholeWritten DEF Whole
<1>3. x \in Seq(Within(d))
  BY <1>2
<1>4. d.geo.rows \in Nat /\ Len(d.shadow) = d.geo.rows * 2
  BY <1>1 DEF Sound, Displays, Geos, Heighten
<1>5. /\ 2 * q + 1 \in 1..Len(d.shadow) /\ 2 * q + 2 \in 1..Len(d.shadow)
      /\ ((2 * q + 1) - 1) \div 2 = q /\ ((2 * q + 2) - 1) \div 2 = q
  <2>1. q \in Nat /\ q < d.geo.rows
    BY <1>1, <1>4
  <2> QED
    BY <1>1, <1>4, <2>1, HalvesOf
<1> HIDE DEF x
<1>6. /\ o \in Seq(Commands)
      /\ \A k \in 1..Len(o) : o[k].op = "cell" /\ o[k] = Cell(d, o[k].row)
      /\ \A k \in 1..Len(x), n \in 1..Len(d.shadow) :
           x[k].y < n /\ n <= x[k].b => In(Cell(d, (n - 1) \div 2), o)
  BY <1>1, <1>3, RowsWritten
<1> HIDE DEF o
<1>7. ASSUME ~In(Cell(d, q), o) PROVE d0.presented /\ Cell(d, q) = Cell(d0, q)
  <2>1. \A k \in 1..Len(x), n \in {2 * q + 1, 2 * q + 2} : ~(x[k].y < n /\ n <= x[k].b)
    BY <1>5, <1>6, <1>7
  <2>2. d.presented
    <3>1. CASE ~d.presented
      <4>1. x = <<Whole(d)>>
        BY <3>1 DEF x
      <4>2. 1 \in 1..Len(x) /\ x[1].y = 0 /\ x[1].b = Len(d.shadow)
        BY <1>2, <4>1
      <4>3. 0 < 2 * q + 1 /\ 2 * q + 1 <= Len(d.shadow)
        BY <1>1, <1>5
      <4> QED
        BY <2>1, <4>2, <4>3
    <3> QED
      BY <3>1
  <2>3. x = r
    BY <2>2 DEF x
  <2>4. \A n \in {2 * q + 1, 2 * q + 2} : d.shadow[n] = d0.shadow[n]
    <3> TAKE n \in {2 * q + 1, 2 * q + 2}
    <3>1. n \in 1..Len(d.shadow)
      BY <1>5
    <3>2. \A m \in 1..Len(Clamped(d, damage)) :
            ~(Clamped(d, damage)[m].y < n /\ n <= Clamped(d, damage)[m].b)
      BY <2>1, <2>3
    <3>3. n \in 1..Len(d0.shadow)
      BY <1>1, <3>1
    <3> HIDE DEF o, x
    <3> QED
      BY <3>2, <3>3, PaintedWithin
  <2>5. d.shadow[2 * q + 1] = d0.shadow[2 * q + 1] /\ d.shadow[2 * q + 2] = d0.shadow[2 * q + 2]
    BY <2>4
  <2>6. Cell(d, q) = Cell(d0, q)
    BY <1>1, <2>5, RowUntouched
  <2> QED
    BY <1>1, <2>2, <2>6
<1> QED
  BY <1>6, <1>7 DEF o, x

LEMMA ComesTurned ==
  ASSUME Typed, NEW o \in Seq(Commands), NEW W, NEW V, Turns(o, W, V),
         \A id \in Nat : Comes(id, W), tty' = tty \o o, term' = term
  PROVE  \A id \in Nat : Comes(id, V)'
<1> TAKE id \in Nat
<1>1. \A k \in 1..Len(o) : Decides(o[k], id) => Leaves(o[k]) = Under(V, id)
  BY DEF Turns
<1>2. (\E k \in 1..Len(o) : Decides(o[k], id)) \/ Under(W, id) = Under(V, id)
  BY DEF Turns
<1>3. Comes(id, W)
  OBVIOUS
<1> QED
  BY <1>1, <1>2, <1>3, ComesWrite

\* A frame in kitty mode: there are images to come that compose to its pixels.
LEMMA FrameKitty ==
  ASSUME Typed, NEW damage \in Seq(Spans), NEW c \in Colours,
         NEW d, d = Drawn(display, damage, c), display.protocol = "kitty",
         display' = Presented(d, damage), tty' = tty \o PresentOut(d, damage), term' = term,
         NEW W \in SUBSET Pictures, Believed(W, display), \A id \in Nat : Comes(id, W)
  PROVE  \E V \in SUBSET Pictures : Believed(V, display') /\ \A id \in Nat : Comes(id, V)'
<1>1. Sound(display) /\ tty \in Seq(Commands)
  BY DEF Typed
<1>2. /\ Sound(d) /\ d.protocol = "kitty" /\ d.presented = display.presented
      /\ d.slot = display.slot /\ d.patches = display.patches
  BY <1>1, PaintedFields
<1>3. PICK r : r = Clamped(d, damage)
  OBVIOUS
<1>4. /\ r \in Seq(Within(d))
      /\ \/ Nothing(d, damage, r) \/ Fully(d, damage, r)
         \/ InPatches(d, damage, r) \/ InCells(d, damage, r)
  BY <1>2, <1>3, Ways
<1>5. PresentOut(d, damage) \in Seq(Commands)
  BY <1>2, FrameWritten
<1>6. CASE Nothing(d, damage, r)
  <2>1. d = display
    BY <1>1, <1>3, <1>6, NothingPainted DEF Nothing
  <2>2. display' = display /\ tty' = tty \o <<>>
    BY <1>6, <2>1 DEF Nothing
  <2>3. tty' = tty
    BY <1>1, <2>2
  <2>4. \A id \in Nat : Comes(id, W)'
    BY <2>3 DEF Comes
  <2> QED
    BY <2>2, <2>4
<1>7. CASE Fully(d, damage, r)
  <2>1. display' = Consolidated(d) /\ tty' = tty \o FullOut(d) /\ FullOut(d) \in Seq(Commands)
    BY <1>5, <1>7 DEF Fully
  <2>2. /\ ~d.presented => W = {}
        /\ d.presented => \A i \in W : i.id = Base(~d.slot) \/ In(i.id, d.patches)
    BY <1>2 DEF Believed
  <2>3. PICK V \in SUBSET Pictures : Believed(V, Consolidated(d)) /\ Turns(FullOut(d), W, V)
    BY <1>2, <2>2, FullyDrawn
  <2>4. \A id \in Nat : Comes(id, V)'
    BY <2>1, <2>3, ComesTurned
  <2> QED
    BY <2>1, <2>3, <2>4
<1>8. CASE InPatches(d, damage, r)
  <2>1. /\ display' = Patched(d, r) /\ tty' = tty \o PatchOut(d, r)
        /\ PatchOut(d, r) \in Seq(Commands)
        /\ display.presented /\ Len(d.patches) + Len(r) <= MaxPatches
    BY <1>2, <1>5, <1>8 DEF InPatches
  <2>2. PICK V \in SUBSET Pictures : Believed(V, Patched(d, r)) /\ Turns(PatchOut(d, r), W, V)
    BY <1>1, <1>3, <1>4, <2>1, PatchesDrawn
  <2>3. \A id \in Nat : Comes(id, V)'
    BY <2>1, <2>2, ComesTurned
  <2> QED
    BY <2>1, <2>2, <2>3
<1> QED
  BY <1>2, <1>4, <1>6, <1>7, <1>8 DEF InCells

\* A frame in cells mode: every row comes to show its pixels.
LEMMA FrameCells ==
  ASSUME Typed, NEW damage \in Seq(Spans), NEW c \in Colours,
         NEW d, d = Drawn(display, damage, c), display.protocol = "cells",
         display' = Presented(d, damage), tty' = tty \o PresentOut(d, damage), term' = term,
         NEW q \in 0..(display.geo.rows - 1), display.presented => RowComes(q)
  PROVE  RowComes(q)'
<1>1. Sound(display) /\ tty \in Seq(Commands)
  BY DEF Typed
<1>2. Sound(d) /\ d.protocol = "cells" /\ d.presented = display.presented /\ d.geo = display.geo
  BY <1>1, PaintedFields
<1>3. PICK r : r = Clamped(d, damage)
  OBVIOUS
<1>4. /\ r \in Seq(Within(d))
      /\ \/ Nothing(d, damage, r) \/ Fully(d, damage, r)
         \/ InPatches(d, damage, r) \/ InCells(d, damage, r)
  BY <1>2, <1>3, Ways
<1>5. q \in Nat
  OBVIOUS
<1>6. CASE Nothing(d, damage, r)
  <2>1. d = display
    BY <1>1, <1>3, <1>6, NothingPainted DEF Nothing
  <2>2. display' = display /\ tty' = tty \o <<>> /\ display.presented
    BY <1>6, <2>1 DEF Nothing
  <2>3. tty' = tty
    BY <1>1, <2>2
  <2> QED
    BY <2>2, <2>3 DEF RowComes
<1>7. CASE InCells(d, damage, r)
  <2> DEFINE o == CellsOut(d, IF d.presented THEN r ELSE <<Whole(d)>>)
  <2>1. display' = [d EXCEPT !.presented = TRUE] /\ tty' = tty \o o
    BY <1>7 DEF InCells
  <2>2. /\ o \in Seq(Commands)
        /\ \A k \in 1..Len(o) : o[k].op = "cell" /\ o[k] = Cell(d, o[k].row)
        /\ In(Cell(d, q), o) \/ (display.presented /\ Cell(d, q) = Cell(display, q))
    BY <1>1, <1>3, <1>4, RowsDrawn
  <2> HIDE DEF o
  <2>3. display'.shadow = d.shadow
    BY <1>2, <2>1 DEF Sound, Displays
  <2>4. Cell(display', q) = Cell(d, q)
    BY <2>3 DEF Cell
  <2>5. \A k \in 1..Len(o) : o[k].op = "cell" /\ (o[k].row = q => o[k] = Cell(display', q))
    BY <2>2, <2>4
  <2>6. \/ In(Cell(display', q), o)
        \/ RowComes(q) /\ Cell(display', q) = Cell(display, q)
    BY <2>2, <2>4
  <2> QED
    BY <1>5, <2>1, <2>2, <2>5, <2>6, RowWrite
<1> QED
  BY <1>2, <1>4, <1>6, <1>7 DEF Fully, InPatches

LEMMA DrawingInit == Init => Drawing
<1> SUFFICES ASSUME Init PROVE Drawing
  OBVIOUS
<1>1. pc = "new"
  BY DEF Init
<1> QED
  BY <1>1 DEF Drawing, Live

\* A display that never presented believes in no image, and none is to come.
LEMMA DrawingAnew ==
  ASSUME NEW p, NEW g, ~NewDisplay(p, g).presented
  PROVE  Believed({}, NewDisplay(p, g))
BY DEF Believed

LEMMA NewFields ==
  \A p, g : ~NewDisplay(p, g).presented /\ NewDisplay(p, g).geo = g /\ NewDisplay(p, g).protocol = p
BY DEF NewDisplay

LEMMA DrawingOpen == Typed /\ Drawing /\ OpenPair => Drawing'
<1> SUFFICES ASSUME Typed, Drawing, OpenPair PROVE Drawing'
  OBVIOUS
<1>1. /\ pc = "taken" /\ tty' = tty /\ term' = term
      /\ pc' \in {"running", "dropping"}
      /\ pc' = "running" => \E g : display' = NewDisplay(display.protocol, g)
  BY DEF OpenPair
<1>2. term.images = {} /\ \A n \in 1..Len(tty) : tty[n].op = "setup"
  BY <1>1 DEF Drawing
<1>3. CASE pc' = "dropping"
  BY <1>3 DEF Drawing, Live
<1>4. CASE pc' = "running"
  <2>1. PICK g : display' = NewDisplay(display.protocol, g)
    BY <1>1, <1>4
  <2>2. ~display'.presented
    BY <2>1, NewFields
  <2>3. Believed({}, display')
    BY <2>1, <2>2, DrawingAnew
  <2>4. \A id \in Nat : Comes(id, {})'
    <3> TAKE id \in Nat
    <3>1. 0 \in 0..Len(tty)
      BY DEF Typed
    <3>2. Under(term.images, id) = Under({}, id)
      BY <1>2 DEF Under
    <3>3. \A k \in 1..Len(tty) : ~Decides(tty[k], id)
      BY <1>2 DEF Decides
    <3> QED
      BY <1>1, <3>1, <3>2, <3>3 DEF Comes
  <2> QED
    BY <1>4, <2>2, <2>3, <2>4 DEF Drawing
<1> QED
  BY <1>1, <1>3, <1>4

LEMMA DrawingFrame == Typed /\ Drawing /\ Frame => Drawing'
<1> SUFFICES ASSUME Typed, Drawing, Frame PROVE Drawing'
  OBVIOUS
<1>1. PICK damage \in Frames(display), c \in Colours :
        /\ display' = Presented(Drawn(display, damage, c), damage)
        /\ tty' = tty \o PresentOut(Drawn(display, damage, c), damage)
  BY DEF Frame
<1>2. pc = "running" /\ pc' = pc /\ active' = active /\ term' = term
  BY DEF Frame
<1>3. damage \in Seq(Spans) /\ Sound(display)
  BY FrameDamage DEF Typed
<1>4. PICK d : d = Drawn(display, damage, c)
  OBVIOUS
<1>5. Sound(d) /\ d.geo = display.geo /\ d.protocol = display.protocol
  BY <1>3, <1>4, PaintedFields
<1>6. display' = Presented(d, damage) /\ tty' = tty \o PresentOut(d, damage)
  BY <1>1, <1>4
<1>7. display'.geo = display.geo /\ display'.protocol = display.protocol
  BY <1>3, <1>5, <1>6, FrameWritten
<1>8. display.protocol \in {"kitty", "cells"}
  BY <1>3 DEF Sound, Displays
<1>9. Live' <=> Live
  BY <1>2, <1>7, <1>8 DEF Live, Derived
<1>10. ASSUME Live', display'.protocol = "kitty"
       PROVE  \E W \in SUBSET Pictures : Believed(W, display') /\ \A id \in Nat : Comes(id, W)'
  <2>1. PICK W \in SUBSET Pictures : Believed(W, display) /\ \A id \in Nat : Comes(id, W)
    BY <1>7, <1>9, <1>10 DEF Drawing
  <2>2. display.protocol = "kitty"
    BY <1>7, <1>10
  <2> QED
    BY <1>2, <1>3, <1>4, <1>6, <2>1, <2>2, FrameKitty
<1>11. ASSUME Live', display'.protocol = "cells", NEW r \in 0..(display'.geo.rows - 1)
       PROVE  RowComes(r)'
  <2>1. display.protocol = "cells" /\ r \in 0..(display.geo.rows - 1)
    BY <1>7, <1>11
  <2>2. display.presented => RowComes(r)
    BY <1>9, <1>11, <2>1 DEF Drawing
  <2> QED
    BY <1>2, <1>3, <1>4, <1>6, <2>1, <2>2, FrameCells
<1> QED
  BY <1>2, <1>10, <1>11 DEF Drawing

LEMMA DrawingReconfigure == Typed /\ Drawing /\ Reconfigure => Drawing'
<1> SUFFICES ASSUME Typed, Drawing, Reconfigure PROVE Drawing'
  OBVIOUS
<1> DEFINE g == Derived(display, term.geo, pixels)
<1>1. /\ pc = "running" /\ pc' = pc /\ active' = active /\ term' = term
      /\ display' = Reconfigured(display, g) /\ tty' = tty \o ReconfigureOut(display, g)
      /\ tty \in Seq(Commands)
  BY DEF Reconfigure, Typed
<1> HIDE DEF g
<1>2. CASE g = display.geo
  <2>1. display' = display /\ tty' = tty \o <<>>
    BY <1>1, <1>2 DEF Reconfigured, ReconfigureOut
  <2>2. tty' = tty
    BY <1>1, <2>1
  <2>3. Live' <=> Live
    BY <1>1, <2>1 DEF Live
  <2>4. \A r : RowComes(r)' <=> RowComes(r)
    BY <1>1, <2>1, <2>2 DEF RowComes
  <2>5. \A W, id : Comes(id, W)' <=> Comes(id, W)
    BY <1>1, <2>2 DEF Comes
  <2> QED
    BY <1>1, <2>1, <2>3, <2>4, <2>5 DEF Drawing
<1>3. CASE g # display.geo
  <2> DEFINE o == <<[op |-> "deleteAll"], [op |-> "clear"]>>
  <2>1. display' = NewDisplay(display.protocol, g) /\ tty' = tty \o o
    BY <1>1, <1>3 DEF Reconfigured, ReconfigureOut
  <2>2. ~display'.presented /\ Believed({}, display') /\ display'.protocol = display.protocol
    BY <2>1, NewFields, DrawingAnew
  <2>3. o \in Seq(Commands) /\ Len(o) = 2 /\ o[1].op = "deleteAll" /\ o[2].op = "clear"
    BY Restores
  <2> HIDE DEF o
  <2>4. ASSUME NEW id \in Nat PROVE Comes(id, {})'
    <3>1. Under({}, id) = {}
      BY DEF Under
    <3>2. \A k \in 1..Len(o) : Leaves(o[k]) = {}
      BY <2>3 DEF Leaves
    <3>3. 1 \in 1..Len(o) /\ Decides(o[1], id)
      BY <2>3 DEF Decides
    <3> QED
      BY <1>1, <2>1, <2>3, <3>1, <3>2, <3>3, ComesWrite
  <2> QED
    BY <1>1, <2>2, <2>4 DEF Drawing
<1> QED
  BY <1>2, <1>3

LEMMA DrawingObey == Typed /\ Drawing /\ Obey => Drawing'
<1> SUFFICES ASSUME Typed, Drawing, Obey PROVE Drawing'
  OBVIOUS
<1> DEFINE c == Head(tty)
<1>1. /\ tty \in Seq(Commands) /\ tty # <<>> /\ tty' = Tail(tty) /\ Emulates(term)
      /\ term' = Obeyed(term, c) /\ pc' = pc /\ active' = active /\ display' = display
  BY DEF Obey, Typed
<1>2. /\ Len(tty') = Len(tty) - 1 /\ Len(tty) \in Nat \ {0}
      /\ c = tty[1] /\ c \in Commands
      /\ \A k \in 1..Len(tty') : tty'[k] = tty[k + 1]
  BY <1>1, AfterTail
<1> HIDE DEF c
<1>3. Effect(term, c, term')
  BY <1>1, <1>2, Obeys
<1>4. Live' <=> Live
  BY <1>1, <1>3 DEF Live, Effect
<1>5. ASSUME pc' = "taken"
      PROVE  term'.images = {} /\ \A n \in 1..Len(tty') : tty'[n].op = "setup"
  <2>1. term.images = {} /\ \A n \in 1..Len(tty) : tty[n].op = "setup"
    BY <1>1, <1>5 DEF Drawing
  <2>2. c.op = "setup"
    BY <1>2, <2>1
  <2>3. \A k \in 1..Len(tty') : k + 1 \in 1..Len(tty)
    BY <1>2
  <2> QED
    BY <1>2, <1>3, <2>1, <2>2, <2>3 DEF Effect
<1>6. ASSUME Live', display'.protocol = "kitty"
      PROVE  \E W \in SUBSET Pictures : Believed(W, display') /\ \A id \in Nat : Comes(id, W)'
  <2>1. PICK W \in SUBSET Pictures : Believed(W, display) /\ \A id \in Nat : Comes(id, W)
    BY <1>1, <1>4, <1>6 DEF Drawing
  <2>2. \A id \in Nat : Comes(id, W)'
    BY <2>1, ComesObey
  <2> QED
    BY <1>1, <2>1, <2>2
<1>7. ASSUME Live', display'.protocol = "cells", display'.presented,
             NEW r \in 0..(display'.geo.rows - 1)
      PROVE  RowComes(r)'
  <2>1. r \in 0..(display.geo.rows - 1) /\ RowComes(r)
    BY <1>1, <1>4, <1>7 DEF Drawing
  <2>2. r \in 0..(term.geo.rows - 1)
    <3>1. Derived(display, term.geo, TRUE).rows = term.geo.rows
      BY DEF Derived
    <3> QED
      BY <1>4, <1>7, <2>1, <3>1 DEF Live
  <2> QED
    BY <2>1, <2>2, RowObey
<1> QED
  BY <1>5, <1>6, <1>7 DEF Drawing

LEMMA DrawingStep == Typed /\ Restoring /\ Drawing /\ [Next]_vars => Drawing'
<1> SUFFICES ASSUME Typed, Restoring, Drawing, [Next]_vars PROVE Drawing'
  OBVIOUS
<1>1. CASE OpenPair
  BY <1>1, DrawingOpen
<1>2. CASE Frame
  BY <1>2, DrawingFrame
<1>3. CASE Reconfigure
  BY <1>3, DrawingReconfigure
<1>4. CASE Obey
  BY <1>4, DrawingObey
<1>5. CASE WriteSetup
  <2>1. pc = "raw" /\ pc' = "taken" /\ tty' = Append(tty, [op |-> "setup"]) /\ term' = term
    BY <1>5 DEF WriteSetup
  <2>2. tty = <<>> /\ term.images = {}
    BY <2>1 DEF Restoring
  <2>3. Len(tty') = 1 /\ tty'[1].op = "setup"
    BY <2>1, <2>2
  <2> QED
    BY <2>1, <2>2, <2>3 DEF Drawing, Live
<1>6. CASE Arm \/ SetRaw \/ Quit \/ Drop \/ WriteRestore \/ Cook \/ Die \/ WorkerPanic
  <2>1. pc' # "taken" /\ ~(pc' = "running" /\ active')
    BY <1>6 DEF Arm, SetRaw, Quit, Drop, WriteRestore, Cook, Die, WorkerPanic
  <2> QED
    BY <2>1 DEF Drawing, Live
<1>7. CASE Resize
  <2>1. PICK g \in Geometries : /\ pc = "running" => Derived(display, g, TRUE) # display.geo
                                /\ term' = Resized(term, g)
    BY <1>7 DEF Resize
  <2>2. pc' = pc /\ tty' = tty /\ display' = display
    BY <1>7 DEF Resize
  <2>3. g \in Geos /\ Emulates(term)
    BY TermAssumption DEF Geos, Typed
  <2>4. term'.geo = g /\ term'.images = term.images
    BY <2>1, <2>3, ResizedTerm
  <2>5. ~Live'
    BY <2>1, <2>2, <2>4 DEF Live
  <2> QED
    BY <2>2, <2>4, <2>5 DEF Drawing
<1>8. CASE UNCHANGED vars
  <2>1. pc' = pc /\ active' = active /\ term' = term /\ display' = display /\ tty' = tty
    BY <1>8 DEF vars
  <2>2. Live' <=> Live
    BY <2>1 DEF Live
  <2>3. \A r : RowComes(r)' <=> RowComes(r)
    BY <2>1 DEF RowComes
  <2>4. \A W, id : Comes(id, W)' <=> Comes(id, W)
    BY <2>1 DEF Comes
  <2> QED
    BY <2>1, <2>2, <2>3, <2>4 DEF Drawing
<1> QED
  BY <1>1, <1>2, <1>3, <1>4, <1>5, <1>6, <1>7, <1>8 DEF Next

--------------------------------------------------------------------------------
(* What the invariant says of a drained tty.                                    *)

\* The images under every id being those of W, the images are W.
LEMMA SameImages ==
  ASSUME NEW S, S \subseteq Pictures, NEW W, W \subseteq Pictures,
         \A id \in Nat : Under(S, id) = Under(W, id)
  PROVE  S = W
<1>1. ASSUME NEW i \in S PROVE i \in W
  <2>1. i.id \in Nat
    BY DEF Pictures
  <2>2. i \in Under(S, i.id)
    BY DEF Under
  <2> QED
    BY <2>1, <2>2 DEF Under
<1>2. ASSUME NEW i \in W PROVE i \in S
  <2>1. i.id \in Nat
    BY DEF Pictures
  <2>2. i \in Under(W, i.id)
    BY DEF Under
  <2> QED
    BY <2>1, <2>2 DEF Under
<1> QED
  BY <1>1, <1>2

\* The image above all others is the one a pixel belongs to.
LEMMA UpperIs ==
  ASSUME NEW S, S \subseteq Pictures, \A i, j \in S : i.id = j.id => i = j,
         NEW i \in S, \A j \in S : Below(j, i)
  PROVE  Upper(S) = i
<1> DEFINE Up(u) == \A j \in S : j.z < u.z \/ (j.z = u.z /\ j.id <= u.id)
           x == CHOOSE u \in S : Up(u)
<1>1. Up(i)
  BY DEF Below
<1>2. x \in S /\ Up(x)
  <2> HIDE DEF Up
  <2> QED
    BY <1>1
<1>3. Upper(S) = x
  BY DEF Upper
<1> HIDE DEF x
<1>4. /\ x.z \in Nat /\ i.z \in Nat /\ x.id \in Nat /\ i.id \in Nat
  BY <1>2 DEF Pictures
<1>5. x.z <= i.z /\ i.z <= x.z /\ x.id <= i.id /\ i.id <= x.id
  <2>1. i.z < x.z \/ (i.z = x.z /\ i.id <= x.id)
    BY <1>2
  <2>2. x.z < i.z \/ (x.z = i.z /\ x.id <= i.id)
    BY <1>1, <1>2
  <2> QED
    BY <1>4, <2>1, <2>2
<1>6. x.id = i.id
  BY <1>4, <1>5
<1> QED
  BY <1>2, <1>3, <1>6

\* Images that compose to the shadow buffer are seen as the shadow buffer.
LEMMA CompositeIs ==
  ASSUME NEW t, Emulates(t), NEW d, Sound(d), t.geo = d.geo, Believed(t.images, d), d.presented
  PROVE  Composite(t) = d.shadow
<1> DEFINE W == t.images
           px(n) == LET S == Covering(t, n - 1)
                    IN  IF S = {} THEN Black ELSE LET i == Upper(S) IN i.pix[n - Top(t, i)]
<1>1. /\ W \subseteq Pictures /\ Composes(W, d) /\ \A i, j \in W : i.id = j.id => i = j
  BY DEF Believed
<1>2. d.shadow \in Seq(Colours) /\ Len(d.shadow) = Heighten(t.geo) /\ Len(d.shadow) \in Nat
  BY DEF Sound, Displays
<1>3. ASSUME NEW n \in 1..Len(d.shadow) PROVE px(n) = d.shadow[n]
  <2> DEFINE p == n - 1
             S == Covering(t, p)
  <2>1. p \in 0..(Len(d.shadow) - 1) /\ p + 1 = n
    BY <1>2
  <2> HIDE DEF p
  <2>2. PICK i \in W : /\ Covers(d, i, p) /\ i.pix[p + 1 - Top(d, i)] = d.shadow[p + 1]
                       /\ \A j \in W : Covers(d, j, p) => Below(j, i)
    BY <1>1, <2>1 DEF Composes
  <2>3. \A j : Top(t, j) = Top(d, j)
    BY DEF Top
  <2>4. S = {j \in W : Covers(d, j, p)}
    BY <2>3 DEF Covering, Covers
  <2> HIDE DEF S
  <2>5. Upper(S) = i
    <3>1. S \subseteq Pictures /\ i \in S /\ \A j, k \in S : j.id = k.id => j = k
      BY <1>1, <2>2, <2>4
    <3>2. \A j \in S : Below(j, i)
      BY <2>2, <2>4
    <3> QED
      BY <3>1, <3>2, UpperIs
  <2>6. S # {}
    BY <2>2, <2>4
  <2>7. px(n) = i.pix[n - Top(t, i)]
    BY <2>5, <2>6 DEF S, p
  <2>8. n - Top(t, i) = p + 1 - Top(d, i)
    <3>1. i.row \in Nat /\ i.off \in Nat /\ t.geo.cell \in Nat
      BY <1>1 DEF Pictures, Emulates, Geos
    <3>2. PICK a \in Nat, b \in Nat, c \in Nat : a = i.row /\ b = i.off /\ c = t.geo.cell
      BY <3>1
    <3>3. a * c + b \in Nat
      OBVIOUS
    <3>4. Top(t, i) \in Nat
      BY <3>2, <3>3 DEF Top
    <3>5. \A v \in Nat : n - v = p + 1 - v
      BY <2>1
    <3> QED
      BY <2>3, <3>4, <3>5
  <2>9. i.pix[n - Top(t, i)] = i.pix[p + 1 - Top(d, i)]
    BY <2>8
  <2>10. d.shadow[p + 1] = d.shadow[n]
    BY <2>1
  <2>11. i.pix[p + 1 - Top(d, i)] = d.shadow[p + 1]
    BY <2>2
  <2> HIDE DEF px
  <2> QED
    BY <2>7, <2>9, <2>10, <2>11
<1>4. Composite(t) = [n \in 1..Len(d.shadow) |-> px(n)]
  BY <1>2 DEF Composite
<1> HIDE DEF px
<1>5. Composite(t) = [n \in 1..Len(d.shadow) |-> d.shadow[n]]
  BY <1>3, <1>4
<1> QED
  BY <1>2, <1>5

LEMMA RowOf ==
  ASSUME NEW l \in Nat, NEW n \in 1..(2 * l)
  PROVE  /\ (n - 1) \div 2 \in 0..(l - 1) /\ (n - 1) % 2 \in {0, 1}
         /\ 2 * ((n - 1) \div 2) + ((n - 1) % 2) = n - 1
OBVIOUS

\* So are rows of cells that hold its pixels.
LEMMA HalvesAre ==
  ASSUME NEW t, NEW d, Sound(d), d.protocol = "cells", t.geo.rows = d.geo.rows,
         \A r \in 0..(d.geo.rows - 1) : t.grid[r] = Cell(d, r).halves
  PROVE  Halves(t) = d.shadow
<1>1. /\ d.shadow \in Seq(Colours) /\ Len(d.shadow) = 2 * t.geo.rows /\ Len(d.shadow) \in Nat
      /\ d.geo.rows \in Nat
  BY DEF Sound, Displays, Geos, Heighten
<1>2. ASSUME NEW n \in 1..(2 * t.geo.rows)
      PROVE  t.grid[(n - 1) \div 2][((n - 1) % 2) + 1] = d.shadow[n]
  <2> DEFINE r == (n - 1) \div 2
             q == (n - 1) % 2
  <2>1. r \in 0..(d.geo.rows - 1) /\ q \in {0, 1} /\ 2 * r + q = n - 1
    BY <1>1, RowOf
  <2> HIDE DEF r, q
  <2> DEFINE m == 2 * r
             x == SubSeq(d.shadow, m + 1, m + 2)
  <2>2. m \in Nat /\ m + 2 \in Nat /\ m <= m + 2 /\ m + 2 <= Len(d.shadow) /\ (m + 2) - m = 2
    BY <1>1, <2>1
  <2>3. t.grid[r] = x
    BY <2>1 DEF Cell
  <2> HIDE DEF m
  <2>4. x \in Seq(Colours) /\ Len(x) = 2 /\ \A k \in 1..2 : x[k] = d.shadow[m + k]
    BY <1>1, <2>2, Slice
  <2> HIDE DEF x
  <2>5. q + 1 \in 1..2 /\ m + (q + 1) = n
    BY <1>1, <2>1 DEF m
  <2>6. x[q + 1] = d.shadow[n]
    BY <2>4, <2>5
  <2> QED
    BY <2>3, <2>6 DEF r, q
<1>3. Halves(t) = [n \in 1..Len(d.shadow) |-> d.shadow[n]]
  BY <1>1, <1>2 DEF Halves
<1> QED
  BY <1>1, <1>3

LEMMA DrainedKitty ==
  ASSUME Typed, Drawing, Live, tty = <<>>, display.presented, display.protocol = "kitty"
  PROVE  Composite(term) = display.shadow
<1>1. Sound(display) /\ Emulates(term) /\ term.images \subseteq Pictures
  BY DEF Typed, Emulates
<1>2. PICK W \in SUBSET Pictures : Believed(W, display) /\ \A id \in Nat : Comes(id, W)
  BY DEF Drawing
<1>3. ASSUME NEW id \in Nat PROVE Under(term.images, id) = Under(W, id)
  <2>1. PICK n \in 0..Len(tty) : n = 0 => Under(term.images, id) = Under(W, id)
    BY <1>2 DEF Comes
  <2>2. n = 0
    BY <2>1
  <2> QED
    BY <2>1, <2>2
<1>4. term.images = W
  BY <1>1, <1>2, <1>3, SameImages
<1>5. term.geo = display.geo
  <2>1. term.geo \in Geos /\ display.geo = [rows |-> term.geo.rows, cell |-> term.geo.cell]
    BY <1>1 DEF Live, Derived, Emulates
  <2> QED
    BY <2>1 DEF Geos
<1> QED
  BY <1>1, <1>2, <1>4, <1>5, CompositeIs

LEMMA DrainedCells ==
  ASSUME Typed, Drawing, Live, tty = <<>>, display.presented, display.protocol = "cells"
  PROVE  Halves(term) = display.shadow
<1>1. Sound(display)
  BY DEF Typed
<1>2. ASSUME NEW r \in 0..(display.geo.rows - 1) PROVE term.grid[r] = Cell(display, r).halves
  <2>1. RowComes(r)
    BY DEF Drawing
  <2>2. PICK n \in 0..Len(tty) : n = 0 => term.grid[r] = Cell(display, r).halves
    BY <2>1 DEF RowComes
  <2>3. n = 0
    BY <2>2
  <2> QED
    BY <2>2, <2>3
<1>3. term.geo.rows = display.geo.rows
  <2>1. Derived(display, term.geo, TRUE).rows = term.geo.rows
    BY DEF Derived
  <2> QED
    BY <2>1 DEF Live
<1> QED
  BY <1>1, <1>2, <1>3, HalvesAre

LEMMA ShownNow == Typed /\ Drawing => ScreenShowsShadow
<1> SUFFICES ASSUME Typed, Drawing, pc = "running", active, tty = <<>>, display.presented,
                    Derived(display, term.geo, TRUE) = display.geo
             PROVE  Seen = display.shadow
  BY DEF ScreenShowsShadow
<1>1. Live /\ display.protocol \in {"kitty", "cells"}
  BY DEF Live, Typed, Sound, Displays
<1>2. CASE display.protocol = "kitty"
  BY <1>1, <1>2, DrainedKitty DEF Seen
<1>3. CASE display.protocol = "cells"
  BY <1>1, <1>3, DrainedCells DEF Seen
<1> QED
  BY <1>1, <1>2, <1>3

LEMMA GivenBackNow == Typed /\ Restoring => TerminalRestored
<1> SUFFICES ASSUME Typed, Restoring, pc \in {"gone", "left"}, tty = <<>>
             PROVE  /\ ~term.raw /\ ~term.alt
                    /\ pc = "gone" => term.images = {}
  BY DEF TerminalRestored, Ended
<1>1. ~active /\ ~Owed
  BY DEF Restoring, Owed
<1>2. ~RestoredAfter(tty, 0)
  BY DEF RestoredAfter
<1> QED
  BY <1>1, <1>2 DEF Restoring

LEMMA TypesNow == Typed => TypeOK
BY DEF Typed, TypeOK, Sound, Displays, Geos

LEMMA InvInit == Init => Inv
BY TypedInit, RestoringInit, SucceededInit, DrawingInit DEF Inv

LEMMA InvStep == Inv /\ [Next]_vars => Inv'
<1> SUFFICES ASSUME Inv, [Next]_vars PROVE Inv'
  OBVIOUS
<1>1. Typed /\ Restoring /\ Succeeded /\ Drawing
  BY DEF Inv
<1>2. Typed'
  BY <1>1, TypedStep
<1>3. Restoring' /\ Succeeded' /\ Drawing'
  BY <1>1, <1>2, RestoringStep, SucceededStep, DrawingStep
<1> QED
  BY <1>2, <1>3 DEF Inv

--------------------------------------------------------------------------------
(* The theorems.                                                                *)

\* The inductive invariant holds throughout: what is in the tty and not yet
\* obeyed is enough to bring the screen to what the program believes of it.
THEOREM Invariance == Spec => []Inv
BY InvInit, InvStep, PTL DEF Spec

\* The state keeps its types: the shadow buffer is as high as its geometry, and
\* no more patches live than the display allows.
THEOREM TypeCorrect == Spec => []TypeOK
<1>1. Inv => TypeOK
  BY TypesNow DEF Inv
<1> QED
  BY <1>1, Invariance, PTL

\* However the process ended, a drained tty leaves the terminal cooked, on its
\* main screen and without images: TtyGuard's drop and the hooks of term/mod.rs.
THEOREM GivenBack == Spec => []TerminalRestored
<1>1. Inv => TerminalRestored
  BY GivenBackNow DEF Inv
<1> QED
  BY <1>1, Invariance, PTL

\* The base on the screen goes only when its successor is there: the order in
\* which a consolidation of term/display.rs writes, obeyed one at a time.
THEOREM BaseKept == Spec => NeverBlank
<1>1. Inv /\ [Next]_vars
        => [HasBase(term) /\ ~HasBase(term') => Head(tty).op \in {"deleteAll", "restore"}]_vars
  BY BaseStays DEF Inv
<1> QED
  BY <1>1, Invariance, PTL DEF Spec, NeverBlank

\* Between frames the screen is the shadow buffer to the pixel: after any
\* damage, patches, consolidations and resizes, in both of the protocols.
THEOREM ScreenIsShadow == Spec => []ScreenShowsShadow
<1>1. Inv => ScreenShowsShadow
  BY ShownNow DEF Inv
<1> QED
  BY <1>1, Invariance, PTL

--------------------------------------------------------------------------------
(* Recursive functions over 0..n, given their step as a function.               *)

Recurs(n, X, x0, step) == \E f \in [0..n -> X] : /\ f[0] = x0
                                                 /\ \A k \in 1..n : f[k] = step[<<k, f[k - 1]>>]

LEMMA Recursion ==
  ASSUME NEW n \in Nat, NEW X, NEW x0 \in X, NEW step \in [(1..n) \X X -> X]
  PROVE  Recurs(n, X, x0, step)
<1> DEFINE Built(m) == \E f \in [0..m -> X] : /\ f[0] = x0
                                              /\ \A k \in 1..m : f[k] = step[<<k, f[k - 1]>>]
           S == {m \in 0..n : Built(m)}
<1>1. 0 \in S
  <2>1. [k \in 0..0 |-> x0] \in [0..0 -> X] /\ [k \in 0..0 |-> x0][0] = x0
    OBVIOUS
  <2>2. \A k \in 1..0 : FALSE
    OBVIOUS
  <2>3. Built(0)
    BY <2>1, <2>2
  <2> HIDE DEF Built
  <2> QED
    BY <2>3
<1>2. ASSUME NEW m \in 0..(n - 1), m \in S PROVE m + 1 \in S
  <2>1. PICK f \in [0..m -> X] : f[0] = x0 /\ \A k \in 1..m : f[k] = step[<<k, f[k - 1]>>]
    BY <1>2
  <2> DEFINE next == step[<<m + 1, f[m]>>]
             g == [k \in 0..(m + 1) |-> IF k <= m THEN f[k] ELSE next]
  <2>2. next \in X
    <3>1. m + 1 \in 1..n /\ f[m] \in X
      OBVIOUS
    <3> QED
      BY <3>1
  <2> HIDE DEF next
  <2>3. g \in [0..(m + 1) -> X] /\ g[0] = x0
    BY <2>1, <2>2
  <2>4. \A k \in 0..m : g[k] = f[k]
    OBVIOUS
  <2>5. g[m + 1] = next
    OBVIOUS
  <2> HIDE DEF g
  <2>6. ASSUME NEW k \in 1..(m + 1) PROVE g[k] = step[<<k, g[k - 1]>>]
    <3>1. CASE k = m + 1
      <4>1. k - 1 = m /\ g[k - 1] = f[m]
        BY <2>4, <3>1
      <4> QED
        BY <2>5, <3>1, <4>1 DEF next
    <3>2. CASE k # m + 1
      <4>1. k \in 1..m /\ k \in 0..m /\ k - 1 \in 0..m
        BY <3>2
      <4>2. g[k] = f[k] /\ g[k - 1] = f[k - 1] /\ f[k] = step[<<k, f[k - 1]>>]
        BY <2>1, <2>4, <4>1
      <4> QED
        BY <4>2
    <3> QED
      BY <3>1, <3>2
  <2>7. Built(m + 1)
    BY <2>3, <2>6
  <2> HIDE DEF Built
  <2> QED
    BY <2>7
<1> HIDE DEF S
<1>3. 0..n \subseteq S
  BY <1>1, <1>2, UpTo
<1> QED
  BY <1>3 DEF S, Recurs

--------------------------------------------------------------------------------
(* The bytes of each act.                                                       *)

Alphabet == Digits \cup {"a", "A", "C", "L", "M", "O", "t", "ESC", "BEL", "LB", "RB", "LT", "SEP",
                         "APC", "BS"}
All == Known \cup {"size"}

\* Any act, one by one.
LEMMA ActCases ==
  ASSUME NEW a \in All
  PROVE  a \in {"a", "Escape", "AltA", "Up", "CtrlUp", "AppUp", "eacute", "click1", "move2",
                "wheel2", "status", "reply", "size"}
BY DEF All, Known

LEMMA LetterBytes ==
  ASSUME NEW b, b = Bytes("a")
  PROVE  /\ b \in Seq(Alphabet) /\ Len(b) = 1
         /\ b[1] = "a"
<1> DEFINE s == <<"a">>
<1>1. /\ s \in Seq(Alphabet) /\ Len(s) = 1
      /\ s[1] = "a"
  BY DEF Alphabet, Digits
<1>2. b = s
  BY DEF Bytes
<1> HIDE DEF s
<1> QED
  BY <1>1, <1>2

LEMMA EscapeBytes ==
  ASSUME NEW b, b = Bytes("Escape")
  PROVE  /\ b \in Seq(Alphabet) /\ Len(b) = 1
         /\ b[1] = "ESC"
<1> DEFINE s == <<"ESC">>
<1>1. /\ s \in Seq(Alphabet) /\ Len(s) = 1
      /\ s[1] = "ESC"
  BY DEF Alphabet, Digits
<1>2. b = s
  BY DEF Bytes
<1> HIDE DEF s
<1> QED
  BY <1>1, <1>2

LEMMA AltABytes ==
  ASSUME NEW b, b = Bytes("AltA")
  PROVE  /\ b \in Seq(Alphabet) /\ Len(b) = 2
         /\ b[1] = "ESC" /\ b[2] = "a"
<1> DEFINE s == <<"ESC", "a">>
<1>1. /\ s \in Seq(Alphabet) /\ Len(s) = 2
      /\ s[1] = "ESC" /\ s[2] = "a"
  BY DEF Alphabet, Digits
<1>2. b = s
  BY DEF Bytes
<1> HIDE DEF s
<1> QED
  BY <1>1, <1>2

LEMMA UpBytes ==
  ASSUME NEW b, b = Bytes("Up")
  PROVE  /\ b \in Seq(Alphabet) /\ Len(b) = 3
         /\ b[1] = "ESC" /\ b[2] = "LB" /\ b[3] = "A"
<1> DEFINE s == <<"ESC", "LB", "A">>
<1>1. /\ s \in Seq(Alphabet) /\ Len(s) = 3
      /\ s[1] = "ESC" /\ s[2] = "LB" /\ s[3] = "A"
  BY DEF Alphabet, Digits
<1>2. b = s
  BY DEF Bytes
<1> HIDE DEF s
<1> QED
  BY <1>1, <1>2

LEMMA CtrlUpBytes ==
  ASSUME NEW b, b = Bytes("CtrlUp")
  PROVE  /\ b \in Seq(Alphabet) /\ Len(b) = 6
         /\ b[1] = "ESC" /\ b[2] = "LB" /\ b[3] = "p1" /\ b[4] = "SEP" /\ b[5] = "p5"
         /\ b[6] = "A"
<1> DEFINE s == <<"ESC", "LB", "p1", "SEP", "p5", "A">>
<1>1. /\ s \in Seq(Alphabet) /\ Len(s) = 6
      /\ s[1] = "ESC" /\ s[2] = "LB" /\ s[3] = "p1" /\ s[4] = "SEP" /\ s[5] = "p5"
      /\ s[6] = "A"
  BY DEF Alphabet, Digits
<1>2. b = s
  BY DEF Bytes
<1> HIDE DEF s
<1> QED
  BY <1>1, <1>2

LEMMA AppUpBytes ==
  ASSUME NEW b, b = Bytes("AppUp")
  PROVE  /\ b \in Seq(Alphabet) /\ Len(b) = 3
         /\ b[1] = "ESC" /\ b[2] = "O" /\ b[3] = "A"
<1> DEFINE s == <<"ESC", "O", "A">>
<1>1. /\ s \in Seq(Alphabet) /\ Len(s) = 3
      /\ s[1] = "ESC" /\ s[2] = "O" /\ s[3] = "A"
  BY DEF Alphabet, Digits
<1>2. b = s
  BY DEF Bytes
<1> HIDE DEF s
<1> QED
  BY <1>1, <1>2

LEMMA EacuteBytes ==
  ASSUME NEW b, b = Bytes("eacute")
  PROVE  /\ b \in Seq(Alphabet) /\ Len(b) = 2
         /\ b[1] = "L" /\ b[2] = "C"
<1> DEFINE s == <<"L", "C">>
<1>1. /\ s \in Seq(Alphabet) /\ Len(s) = 2
      /\ s[1] = "L" /\ s[2] = "C"
  BY DEF Alphabet, Digits
<1>2. b = s
  BY DEF Bytes
<1> HIDE DEF s
<1> QED
  BY <1>1, <1>2

LEMMA Click1Bytes ==
  ASSUME NEW b, b = Bytes("click1")
  PROVE  /\ b \in Seq(Alphabet) /\ Len(b) = 9
         /\ b[1] = "ESC" /\ b[2] = "LB" /\ b[3] = "LT" /\ b[4] = "p0" /\ b[5] = "SEP"
         /\ b[6] = "p1" /\ b[7] = "SEP" /\ b[8] = "p1" /\ b[9] = "M"
<1> DEFINE s == <<"ESC", "LB", "LT", "p0", "SEP", "p1", "SEP", "p1", "M">>
<1>1. /\ s \in Seq(Alphabet) /\ Len(s) = 9
      /\ s[1] = "ESC" /\ s[2] = "LB" /\ s[3] = "LT" /\ s[4] = "p0" /\ s[5] = "SEP"
      /\ s[6] = "p1" /\ s[7] = "SEP" /\ s[8] = "p1" /\ s[9] = "M"
  BY DEF Alphabet, Digits
<1>2. b = s
  BY DEF Bytes
<1> HIDE DEF s
<1> QED
  BY <1>1, <1>2

LEMMA Move2Bytes ==
  ASSUME NEW b, b = Bytes("move2")
  PROVE  /\ b \in Seq(Alphabet) /\ Len(b) = 9
         /\ b[1] = "ESC" /\ b[2] = "LB" /\ b[3] = "LT" /\ b[4] = "p32" /\ b[5] = "SEP"
         /\ b[6] = "p2" /\ b[7] = "SEP" /\ b[8] = "p1" /\ b[9] = "M"
<1> DEFINE s == <<"ESC", "LB", "LT", "p32", "SEP", "p2", "SEP", "p1", "M">>
<1>1. /\ s \in Seq(Alphabet) /\ Len(s) = 9
      /\ s[1] = "ESC" /\ s[2] = "LB" /\ s[3] = "LT" /\ s[4] = "p32" /\ s[5] = "SEP"
      /\ s[6] = "p2" /\ s[7] = "SEP" /\ s[8] = "p1" /\ s[9] = "M"
  BY DEF Alphabet, Digits
<1>2. b = s
  BY DEF Bytes
<1> HIDE DEF s
<1> QED
  BY <1>1, <1>2

LEMMA Wheel2Bytes ==
  ASSUME NEW b, b = Bytes("wheel2")
  PROVE  /\ b \in Seq(Alphabet) /\ Len(b) = 9
         /\ b[1] = "ESC" /\ b[2] = "LB" /\ b[3] = "LT" /\ b[4] = "p64" /\ b[5] = "SEP"
         /\ b[6] = "p2" /\ b[7] = "SEP" /\ b[8] = "p1" /\ b[9] = "M"
<1> DEFINE s == <<"ESC", "LB", "LT", "p64", "SEP", "p2", "SEP", "p1", "M">>
<1>1. /\ s \in Seq(Alphabet) /\ Len(s) = 9
      /\ s[1] = "ESC" /\ s[2] = "LB" /\ s[3] = "LT" /\ s[4] = "p64" /\ s[5] = "SEP"
      /\ s[6] = "p2" /\ s[7] = "SEP" /\ s[8] = "p1" /\ s[9] = "M"
  BY DEF Alphabet, Digits
<1>2. b = s
  BY DEF Bytes
<1> HIDE DEF s
<1> QED
  BY <1>1, <1>2

LEMMA StatusBytes ==
  ASSUME NEW b, b = Bytes("status")
  PROVE  /\ b \in Seq(Alphabet) /\ Len(b) = 4
         /\ b[1] = "ESC" /\ b[2] = "RB" /\ b[3] = "p4" /\ b[4] = "BEL"
<1> DEFINE s == <<"ESC", "RB", "p4", "BEL">>
<1>1. /\ s \in Seq(Alphabet) /\ Len(s) = 4
      /\ s[1] = "ESC" /\ s[2] = "RB" /\ s[3] = "p4" /\ s[4] = "BEL"
  BY DEF Alphabet, Digits
<1>2. b = s
  BY DEF Bytes
<1> HIDE DEF s
<1> QED
  BY <1>1, <1>2

LEMMA ReplyBytes ==
  ASSUME NEW b, b = Bytes("reply")
  PROVE  /\ b \in Seq(Alphabet) /\ Len(b) = 5
         /\ b[1] = "ESC" /\ b[2] = "APC" /\ b[3] = "a" /\ b[4] = "ESC" /\ b[5] = "BS"
<1> DEFINE s == <<"ESC", "APC", "a", "ESC", "BS">>
<1>1. /\ s \in Seq(Alphabet) /\ Len(s) = 5
      /\ s[1] = "ESC" /\ s[2] = "APC" /\ s[3] = "a" /\ s[4] = "ESC" /\ s[5] = "BS"
  BY DEF Alphabet, Digits
<1>2. b = s
  BY DEF Bytes
<1> HIDE DEF s
<1> QED
  BY <1>1, <1>2

LEMMA SizeBytes ==
  ASSUME NEW b, b = Bytes("size")
  PROVE  /\ b \in Seq(Alphabet) /\ Len(b) = 8
         /\ b[1] = "ESC" /\ b[2] = "LB" /\ b[3] = "p4" /\ b[4] = "SEP" /\ b[5] = "p5"
         /\ b[6] = "SEP" /\ b[7] = "p5" /\ b[8] = "t"
<1> DEFINE s == <<"ESC", "LB", "p4", "SEP", "p5", "SEP", "p5", "t">>
<1>1. /\ s \in Seq(Alphabet) /\ Len(s) = 8
      /\ s[1] = "ESC" /\ s[2] = "LB" /\ s[3] = "p4" /\ s[4] = "SEP" /\ s[5] = "p5"
      /\ s[6] = "SEP" /\ s[7] = "p5" /\ s[8] = "t"
  BY DEF Alphabet, Digits
<1>2. b = s
  BY DEF Bytes
<1> HIDE DEF s
<1> QED
  BY <1>1, <1>2

LEMMA Lengths ==
  ASSUME NEW a \in All, NEW b, b = Bytes(a)
  PROVE  b \in Seq(Alphabet) /\ Len(b) \in 1..9
<1>1. CASE a = "a"
  BY <1>1, LetterBytes
<1>2. CASE a = "Escape"
  BY <1>2, EscapeBytes
<1>3. CASE a = "AltA"
  BY <1>3, AltABytes
<1>4. CASE a = "Up"
  BY <1>4, UpBytes
<1>5. CASE a = "CtrlUp"
  BY <1>5, CtrlUpBytes
<1>6. CASE a = "AppUp"
  BY <1>6, AppUpBytes
<1>7. CASE a = "eacute"
  BY <1>7, EacuteBytes
<1>8. CASE a = "click1"
  BY <1>8, Click1Bytes
<1>9. CASE a = "move2"
  BY <1>9, Move2Bytes
<1>10. CASE a = "wheel2"
  BY <1>10, Wheel2Bytes
<1>11. CASE a = "status"
  BY <1>11, StatusBytes
<1>12. CASE a = "reply"
  BY <1>12, ReplyBytes
<1>13. CASE a = "size"
  BY <1>13, SizeBytes
<1> QED
  BY <1>1, <1>2, <1>3, <1>4, <1>5, <1>6, <1>7, <1>8, <1>9, <1>10, <1>11, <1>12, <1>13, ActCases

\* Nothing but the answer to the query holds a "t", which ends it.
LEMMA OnlySize ==
  ASSUME NEW a \in All, NEW b, b = Bytes(a), NEW o \in 1..Len(b), b[o] = "t"
  PROVE  a = "size" /\ o = 8
<1>1. CASE a = "a"
  BY <1>1, LetterBytes
<1>2. CASE a = "Escape"
  BY <1>2, EscapeBytes
<1>3. CASE a = "AltA"
  BY <1>3, AltABytes
<1>4. CASE a = "Up"
  BY <1>4, UpBytes
<1>5. CASE a = "CtrlUp"
  BY <1>5, CtrlUpBytes
<1>6. CASE a = "AppUp"
  BY <1>6, AppUpBytes
<1>7. CASE a = "eacute"
  BY <1>7, EacuteBytes
<1>8. CASE a = "click1"
  BY <1>8, Click1Bytes
<1>9. CASE a = "move2"
  BY <1>9, Move2Bytes
<1>10. CASE a = "wheel2"
  BY <1>10, Wheel2Bytes
<1>11. CASE a = "status"
  BY <1>11, StatusBytes
<1>12. CASE a = "reply"
  BY <1>12, ReplyBytes
<1>13. CASE a = "size"
  <2>1. o \in 1..8 /\ b[1] # "t" /\ b[2] # "t" /\ b[3] # "t" /\ b[4] # "t" /\ b[5] # "t"
        /\ b[6] # "t" /\ b[7] # "t"
    BY <1>13, SizeBytes
  <2>2. o # 1 /\ o # 2 /\ o # 3 /\ o # 4 /\ o # 5 /\ o # 6 /\ o # 7
    BY <2>1
  <2> QED
    BY <1>13, <2>1, <2>2
<1> QED
  BY <1>1, <1>2, <1>3, <1>4, <1>5, <1>6, <1>7, <1>8, <1>9, <1>10, <1>11, <1>12, <1>13, ActCases
--------------------------------------------------------------------------------
(* What an act is told as: its events if the mouse was last at m, and where the *)
(* mouse is after it.                                                           *)

Heard == [ev : {"key", "alt"}, what : Known] \cup [ev : {"motion", "button", "wheel"}, what : Int]

Toward(v, m, px) == IF ToPixels(v, px) = m THEN <<>> ELSE <<Moved(ToPixels(v, px))>>
Ev(a, m, px) ==
  CASE a \in {"a", "Escape", "Up", "CtrlUp", "eacute"} -> <<Key(a)>>
    [] a = "AppUp"  -> <<Key("Up")>>
    [] a = "AltA"   -> <<[ev |-> "alt", what |-> "a"]>>
    [] a = "click1" -> Toward(1, m, px) \o <<[ev |-> "button", what |-> 0]>>
    [] a = "move2"  -> Toward(2, m, px)
    [] a = "wheel2" -> Toward(2, m, px) \o <<[ev |-> "wheel", what |-> 0]>>
    [] OTHER        -> <<>>
After(a, m, px) == CASE a = "click1" -> ToPixels(1, px)
                     [] a \in {"move2", "wheel2"} -> ToPixels(2, px)
                     [] OTHER -> m

LEMMA Pixels ==
  ASSUME NEW v \in 1..2, NEW px \in BOOLEAN
  PROVE  ToPixels(v, px) \in Nat
<1>1. CellWidth \in Nat /\ CellWidth \div 2 \in Nat
  BY InputAssumption
<1>2. (v - 1) * CellWidth \in Nat
  BY <1>1
<1> QED
  BY <1>1, <1>2 DEF ToPixels

LEMMA TowardType ==
  ASSUME NEW v \in 1..2, NEW m, NEW px \in BOOLEAN
  PROVE  /\ Toward(v, m, px) \in Seq(Heard) /\ Len(Toward(v, m, px)) \in 0..1
<1>1. Moved(ToPixels(v, px)) \in Heard
  BY Pixels DEF Heard, Moved
<1> QED
  BY <1>1 DEF Toward

LEMMA EvType ==
  ASSUME NEW a \in All, NEW m \in Int, NEW px \in BOOLEAN
  PROVE  /\ Ev(a, m, px) \in Seq(Heard) /\ Len(Ev(a, m, px)) \in 0..2
         /\ After(a, m, px) \in Int
<1>1. After(a, m, px) \in Int
  BY Pixels DEF After
<1>2. CASE a \in {"a", "Escape", "Up", "CtrlUp", "eacute"}
  <2>1. Key(a) \in Heard
    BY <1>2 DEF Key, Heard, Known
  <2>2. Ev(a, m, px) = <<Key(a)>>
    BY <1>2 DEF Ev
  <2> QED
    BY <1>1, <2>1, <2>2
<1>3. CASE a = "AppUp"
  <2>1. Key("Up") \in Heard
    BY DEF Key, Heard, Known
  <2>2. Ev(a, m, px) = <<Key("Up")>>
    BY <1>3 DEF Ev
  <2> QED
    BY <1>1, <2>1, <2>2
<1>4. CASE a = "AltA"
  <2>1. [ev |-> "alt", what |-> "a"] \in Heard
    BY DEF Heard, Known
  <2>2. Ev(a, m, px) = <<[ev |-> "alt", what |-> "a"]>>
    BY <1>4 DEF Ev
  <2> QED
    BY <1>1, <2>1, <2>2
<1>5. CASE a = "click1"
  <2>1. [ev |-> "button", what |-> 0] \in Heard
    BY DEF Heard
  <2>2. Ev(a, m, px) = Toward(1, m, px) \o <<[ev |-> "button", what |-> 0]>>
    BY <1>5 DEF Ev
  <2> QED
    BY <1>1, <2>1, <2>2, TowardType
<1>6. CASE a = "move2"
  BY <1>1, <1>6, TowardType DEF Ev
<1>7. CASE a = "wheel2"
  <2>1. [ev |-> "wheel", what |-> 0] \in Heard
    BY DEF Heard
  <2>2. Ev(a, m, px) = Toward(2, m, px) \o <<[ev |-> "wheel", what |-> 0]>>
    BY <1>7 DEF Ev
  <2> QED
    BY <1>1, <2>1, <2>2, TowardType
<1>8. CASE a \in {"status", "reply", "size"}
  <2>1. Ev(a, m, px) = <<>>
    BY <1>8 DEF Ev
  <2> QED
    BY <1>1, <2>1
<1> QED
  BY <1>2, <1>3, <1>4, <1>5, <1>6, <1>7, <1>8, ActCases

--------------------------------------------------------------------------------
(* The stream, byte by byte: each byte is the o-th of an act a, which is told   *)
(* after the first n events that are owed and with the mouse last at m.         *)

Labels == [a : All, o : 1..9, n : Nat, m : Int]
Width(a) == Len(Bytes(a))

\* An Escape is not followed by what would be one sequence with it, nor by the
\* answer, which is taken out again.
Follows(x, y, px) ==
  IF x.o < Width(x.a)
  THEN y.a = x.a /\ y.o = x.o + 1 /\ y.n = x.n /\ y.m = x.m
  ELSE /\ y.o = 1 /\ y.n = x.n + Len(Ev(x.a, x.m, px)) /\ y.m = After(x.a, x.m, px)
       /\ x.a = "Escape" => y.a \notin {"a", "eacute", "size"}

\* Labels one after the other, which end with an act.
Chain(L, px) == \A i \in 1..Len(L) : /\ L[i].o <= Width(L[i].a)
                                     /\ i < Len(L) => Follows(L[i], L[i + 1], px)

WithoutGap(L, own, seen, px) ==
  Len(L) # 0 => LET x == L[Len(L)]
                IN  /\ x.o = Width(x.a) /\ Len(own) = x.n + Len(Ev(x.a, x.m, px))
                    /\ seen = After(x.a, x.m, px)

\* They spell the bytes T, and tell of what is owed.
Spells(L, T) == Len(T) = Len(L) /\ \A i \in 1..Len(L) : T[i] = Bytes(L[i].a)[L[i].o]
Owing(x, own, px) ==
  /\ x.n + Len(Ev(x.a, x.m, px)) <= Len(own)
  /\ \A j \in 1..Len(Ev(x.a, x.m, px)) : own[x.n + j] = Ev(x.a, x.m, px)[j]

Ledger(L, own, seen, px) == /\ L \in Seq(Labels) /\ Chain(L, px) /\ WithoutGap(L, own, seen, px)
                            /\ \A i \in 1..Len(L) : Owing(L[i], own, px)

\* After d bytes an act begins, n events are told and the mouse is at m.
At(L, d, n, m, own, seen) ==
  IF d = Len(L) THEN n = Len(own) /\ m = seen
  ELSE L[d + 1].o = 1 /\ L[d + 1].n = n /\ L[d + 1].m = m

LEMMA LabelType ==
  ASSUME NEW L \in Seq(Labels), NEW i \in 1..Len(L)
  PROVE  /\ L[i] \in Labels /\ L[i].a \in All /\ L[i].o \in 1..9 /\ L[i].n \in Nat /\ L[i].m \in Int
         /\ Width(L[i].a) \in 1..9
<1>1. L[i] \in Labels
  OBVIOUS
<1>2. L[i].a \in All /\ L[i].o \in 1..9 /\ L[i].n \in Nat /\ L[i].m \in Int
  BY <1>1 DEF Labels
<1>3. Width(L[i].a) \in 1..9
  BY <1>2, Lengths DEF Width
<1> QED
  BY <1>1, <1>2, <1>3

WholeAct(L, d, a, n, m, w, own, seen, px) ==
  /\ a \in All /\ n \in Nat /\ m \in Int /\ w \in 1..9 /\ d + w <= Len(L)
  /\ \A i \in 1..w : L[d + i].a = a /\ L[d + i].o = i /\ L[d + i].n = n /\ L[d + i].m = m
  /\ At(L, d + w, n + Len(Ev(a, m, px)), After(a, m, px), own, seen)
  /\ a = "Escape" /\ d + w < Len(L) => L[d + w + 1].a \notin {"a", "eacute"}

\* The act that begins after d bytes is there to its last byte.
LEMMA NextAct ==
  ASSUME NEW own, Len(own) \in Nat, NEW seen, NEW px \in BOOLEAN, NEW L, Ledger(L, own, seen, px),
         NEW d \in Nat, d < Len(L), L[d + 1].o = 1,
         NEW a, NEW n, NEW m, NEW w, a = L[d + 1].a, n = L[d + 1].n, m = L[d + 1].m, w = Width(a)
  PROVE  WholeAct(L, d, a, n, m, w, own, seen, px)
<1>0. L \in Seq(Labels) /\ Len(L) \in Nat
  BY DEF Ledger
<1>1. a \in All /\ n \in Nat /\ m \in Int /\ w \in 1..9
  BY <1>0, LabelType
<1> DEFINE Is(k) == /\ d + k + 1 <= Len(L) /\ L[d + k + 1].a = a /\ L[d + k + 1].o = k + 1
                    /\ L[d + k + 1].n = n /\ L[d + k + 1].m = m
           S == {k \in 0..(w - 1) : Is(k)}
<1>2. 0 \in S
  BY <1>0, <1>1
<1>3. ASSUME NEW k \in 0..(w - 2), k \in S PROVE k + 1 \in S
  <2>1. d + k + 1 \in 1..Len(L) /\ Is(k)
    BY <1>0, <1>3
  <2>2. d + k + 1 # Len(L)
    <3>1. L[d + k + 1].o # Width(L[d + k + 1].a)
      BY <1>1, <2>1
    <3> QED
      BY <3>1, <1>0 DEF Ledger, WithoutGap
  <2>3. Follows(L[d + k + 1], L[d + k + 1 + 1], px)
    <3>1. Chain(L, px) /\ d + k + 1 < Len(L)
      BY <1>0, <2>1, <2>2 DEF Ledger
    <3> QED
      BY <2>1, <3>1 DEF Chain
  <2>4. Is(k + 1)
    <3>1. d + k + 1 + 1 = d + (k + 1) + 1 /\ d + (k + 1) + 1 <= Len(L) /\ k + 1 < w
      BY <1>0, <1>1, <2>1, <2>2
    <3> QED
      BY <2>1, <2>3, <3>1 DEF Follows
  <2> QED
    BY <1>1, <2>4
<1>4. w - 1 \in S
  <2> HIDE DEF S
  <2>1. w - 1 \in Nat /\ \A k \in 0..(w - 1 - 1) : k \in S => k + 1 \in S
    BY <1>1, <1>3
  <2>2. 0..(w - 1) \subseteq S
    BY <1>2, <2>1, UpTo
  <2> QED
    BY <1>1, <2>2
<1>5. \A k \in 0..(w - 1) : Is(k)
  <2> HIDE DEF Is
  <2>1. \A k \in 0..(w - 1) : k \in S
    <3> HIDE DEF S
    <3>1. w - 1 \in Nat /\ \A k \in 0..(w - 1 - 1) : k \in S => k + 1 \in S
      BY <1>1, <1>3
    <3> QED
      BY <1>2, <3>1, UpTo
  <2> QED
    BY <2>1
<1>6. d + w <= Len(L) /\ d + w \in 1..Len(L)
  BY <1>0, <1>1, <1>5
<1>7. ASSUME NEW i \in 1..w PROVE L[d + i].a = a /\ L[d + i].o = i /\ L[d + i].n = n /\ L[d + i].m = m
  <2>1. i - 1 \in 0..(w - 1) /\ d + (i - 1) + 1 = d + i /\ i - 1 + 1 = i
    BY <1>1
  <2>2. Is(i - 1)
    BY <1>5, <2>1
  <2> QED
    BY <2>1, <2>2
<1> HIDE DEF Is, S
<1>8. L[d + w].a = a /\ L[d + w].o = w /\ L[d + w].n = n /\ L[d + w].m = m
  BY <1>1, <1>7
<1> DEFINE Then == /\ At(L, d + w, n + Len(Ev(a, m, px)), After(a, m, px), own, seen)
                   /\ a = "Escape" /\ d + w < Len(L) => L[d + w + 1].a \notin {"a", "eacute"}
<1>9. ASSUME d + w = Len(L) PROVE Then
  <2>1. Len(own) = n + Len(Ev(a, m, px)) /\ seen = After(a, m, px)
    BY <1>6, <1>8, <1>9 DEF Ledger, WithoutGap
  <2> QED
    BY <1>1, <1>6, <1>7, <1>9, <2>1 DEF At
<1>10. ASSUME d + w # Len(L) PROVE Then
  <2>1. Follows(L[d + w], L[d + w + 1], px)
    BY <1>0, <1>6, <1>10 DEF Ledger, Chain
  <2>2. /\ L[d + w + 1].o = 1 /\ L[d + w + 1].n = n + Len(Ev(a, m, px))
        /\ L[d + w + 1].m = After(a, m, px)
        /\ a = "Escape" => L[d + w + 1].a \notin {"a", "eacute"}
    BY <1>1, <1>8, <2>1 DEF Follows
  <2> QED
    BY <1>1, <1>6, <1>7, <1>10, <2>2 DEF At
<1>11. Then
  <2> HIDE DEF Then
  <2> QED
    BY <1>9, <1>10
<1>12. \A i \in 1..w : L[d + i].a = a /\ L[d + i].o = i /\ L[d + i].n = n /\ L[d + i].m = m
  BY <1>7
<1> QED
  BY <1>1, <1>6, <1>11, <1>12, Zenon DEF WholeAct

--------------------------------------------------------------------------------
(* What the parser makes of the bytes of one act.                               *)

Told(a) ==
  CASE a \in {"a", "Escape", "Up", "CtrlUp", "eacute"} -> <<Key(a)>>
    [] a = "AppUp"  -> <<Key("Up")>>
    [] a = "AltA"   -> <<[ev |-> "alt", what |-> "a"]>>
    [] a = "click1" -> <<[ev |-> "mouse", what |-> <<0, 1>>]>>
    [] a = "move2"  -> <<[ev |-> "mouse", what |-> <<32, 2>>]>>
    [] a = "wheel2" -> <<[ev |-> "mouse", what |-> <<64, 2>>]>>
    [] OTHER        -> <<>>

LEMMA FirstIs ==
  ASSUME NEW E, E \subseteq Int, NEW e \in E, \A j \in E : e <= j
  PROVE  First(E) = e
<1> DEFINE P(i) == i \in E /\ \A j \in E : i <= j
           c == First(E)
<1>1. \E i \in E : \A j \in E : i <= j
  OBVIOUS
<1>2. c \in E /\ \A j \in E : c <= j
  BY <1>1 DEF First
<1> HIDE DEF c
<1>3. c <= e /\ e <= c /\ c \in Int /\ e \in Int
  BY <1>2
<1> QED
  BY <1>3 DEF c

Readings == [ps : Seq(Nat), cur : Seq(Nat)]

LEMMA ReadByteType ==
  ASSUME NEW r \in Readings, NEW b
  PROVE  ReadByte(r, b) \in Readings
<1>1. r.ps \in Seq(Nat) /\ r.cur \in Seq(Nat)
  BY DEF Readings
<1>2. CASE b \in Digits
  <2>1. Value(b) \in Nat
    BY <1>2 DEF Digits, Value
  <2> DEFINE c == <<Value(b)>>
  <2>2. c \in Seq(Nat)
    BY <2>1
  <2>3. ReadByte(r, b) = [r EXCEPT !.cur = c]
    <3>1. b # "SEP"
      BY <1>2 DEF Digits
    <3> QED
      BY <1>2, <3>1 DEF ReadByte
  <2> HIDE DEF c
  <2>4. [r EXCEPT !.cur = c] \in Readings
    BY <2>2 DEF Readings
  <2> QED
    BY <2>3, <2>4
<1>3. CASE b \notin Digits /\ b = "SEP"
  <2> DEFINE last == IF r.cur = <<>> THEN <<0>> ELSE r.cur
  <2>1. last \in Seq(Nat)
    BY <1>1
  <2>2. r.ps \o last \in Seq(Nat)
    BY <1>1, <2>1
  <2>3. ReadByte(r, b) = [ps |-> r.ps \o last, cur |-> <<>>]
    BY <1>3 DEF ReadByte
  <2> HIDE DEF last
  <2> QED
    BY <2>2, <2>3 DEF Readings
<1>4. CASE b \notin Digits /\ b # "SEP"
  BY <1>4 DEF ReadByte
<1> QED
  BY <1>2, <1>3, <1>4

LEMMA ParamsRead ==
  ASSUME NEW s \in Seq(Alphabet)
  PROVE  \E r \in [0..Len(s) -> Readings] :
           /\ r[0] = [ps |-> <<>>, cur |-> <<>>]
           /\ \A k \in 1..Len(s) : r[k] = ReadByte(r[k - 1], s[k])
           /\ Params(s) = r[Len(s)].ps \o r[Len(s)].cur
<1> DEFINE N == Len(s)
           x0 == [ps |-> <<>>, cur |-> <<>>]
           step == [p \in (1..N) \X Readings |-> ReadByte(p[2], s[p[1]])]
           Body(f, n) == IF n = 0 THEN x0 ELSE ReadByte(f[n - 1], s[n])
           R == CHOOSE f : f = [n \in 0..N |-> Body(f, n)]
<1>1. N \in Nat /\ x0 \in Readings
  BY DEF Readings
<1>2. step \in [(1..N) \X Readings -> Readings]
  BY ReadByteType
<1>3. \A k \in 1..N, x \in Readings : step[<<k, x>>] = ReadByte(x, s[k])
  OBVIOUS
<1> HIDE DEF step
<1>4. PICK f \in [0..N -> Readings] : f[0] = x0 /\ \A k \in 1..N : f[k] = step[<<k, f[k - 1]>>]
  <2> HIDE DEF N, x0
  <2>1. Recurs(N, Readings, x0, step)
    BY <1>1, <1>2, Recursion
  <2> QED
    BY <2>1 DEF Recurs
<1>5. \A k \in 1..N : f[k] = ReadByte(f[k - 1], s[k])
  <2> TAKE k \in 1..N
  <2>1. k - 1 \in 0..N
    BY <1>1
  <2> QED
    BY <1>3, <1>4, <2>1
<1>6. f = [n \in 0..N |-> Body(f, n)]
  <2>1. \A n \in 0..N : f[n] = Body(f, n)
    BY <1>1, <1>4, <1>5
  <2> HIDE DEF Body
  <2> QED
    BY <2>1
<1>7. R = [n \in 0..N |-> Body(R, n)]
  <2> HIDE DEF Body
  <2> QED
    BY <1>6
<1>8. Params(s) = R[N].ps \o R[N].cur
  BY DEF Params
<1> HIDE DEF R
<1>9. \A n \in 0..N : R[n] = Body(R, n)
  <2> HIDE DEF Body
  <2> QED
    BY <1>7
<1>10. R[0] = x0 /\ \A k \in 1..N : R[k] = ReadByte(R[k - 1], s[k])
  BY <1>1, <1>9
<1>11. \A k \in 0..N : R[k] \in Readings
  <2> DEFINE S == {k \in 0..N : R[k] \in Readings}
  <2>1. 0 \in S
    BY <1>1, <1>10
  <2>2. ASSUME NEW k \in 0..(N - 1), k \in S PROVE k + 1 \in S
    <3>1. k + 1 \in 1..N /\ k + 1 - 1 = k
      BY <1>1
    <3>2. R[k + 1] = ReadByte(R[k], s[k + 1])
      BY <1>10, <3>1
    <3>3. R[k] \in Readings
      BY <2>2
    <3>4. R[k + 1] \in Readings
      BY <3>2, <3>3, ReadByteType
    <3> QED
      BY <1>1, <3>1, <3>4
  <2> HIDE DEF S, N
  <2>3. 0..N \subseteq S
    BY <1>1, <2>1, <2>2, UpTo
  <2> QED
    BY <2>3 DEF S
<1>12. R \in [0..N -> Readings]
  <2>1. R = [n \in 0..N |-> R[n]]
    <3> HIDE DEF Body
    <3> QED
      BY <1>7, <1>9
  <2> QED
    BY <1>11, <2>1
<1> QED
  BY <1>8, <1>10, <1>12

LEMMA NoParams ==
  ASSUME NEW s \in Seq(Alphabet), Len(s) = 0
  PROVE  Params(s) = <<>>
<1>1. PICK r \in [0..Len(s) -> Readings] :
        r[0] = [ps |-> <<>>, cur |-> <<>>] /\ Params(s) = r[Len(s)].ps \o r[Len(s)].cur
  BY ParamsRead
<1> QED
  BY <1>1

\* A byte of a number, and a separator, after the parameters ps.
LEMMA ReadDigit ==
  ASSUME NEW r, NEW ps, r = [ps |-> ps, cur |-> <<>>], NEW b \in Digits
  PROVE  ReadByte(r, b) = [ps |-> ps, cur |-> <<Value(b)>>]
BY DEF ReadByte, Digits

LEMMA ReadSep ==
  ASSUME NEW ps, NEW v
  PROVE  ReadByte([ps |-> ps, cur |-> <<v>>], "SEP") = [ps |-> ps \o <<v>>, cur |-> <<>>]
<1>1. "SEP" \notin Digits
  BY DEF Digits
<1>2. <<v>> # <<>>
  OBVIOUS
<1> QED
  BY <1>1, <1>2 DEF ReadByte

LEMMA OneRead ==
  ASSUME NEW u \in Nat, NEW t, t = <<>> \o <<u>>
  PROVE  t \in Seq(Nat) /\ Len(t) = 1 /\ t[1] = u
OBVIOUS

LEMMA Glued ==
  ASSUME NEW X, NEW s \in Seq(X), NEW t \in Seq(X), NEW r, r = s \o t
  PROVE  /\ r \in Seq(X) /\ Len(r) = Len(s) + Len(t)
         /\ Len(s) \in Nat /\ Len(t) \in Nat
         /\ \A k \in 1..Len(s) : r[k] = s[k]
         /\ \A k \in 1..Len(t) : r[Len(s) + k] = t[k]
OBVIOUS

LEMMA OneMore ==
  ASSUME NEW r \in Seq(Nat), NEW n \in Nat, Len(r) = n, NEW u \in Nat, NEW t, t = r \o <<u>>
  PROVE  t \in Seq(Nat) /\ Len(t) = n + 1 /\ t[n + 1] = u /\ \A k \in 1..n : t[k] = r[k]
<1> DEFINE d == <<u>>
<1>1. d \in Seq(Nat) /\ Len(d) = 1 /\ d[1] = u
  OBVIOUS
<1>2. t = r \o d
  OBVIOUS
<1> HIDE DEF d
<1>3. /\ t \in Seq(Nat) /\ Len(t) = Len(r) + Len(d)
      /\ \A k \in 1..Len(r) : t[k] = r[k]
      /\ \A k \in 1..Len(d) : t[Len(r) + k] = d[k]
  BY <1>1, <1>2
<1> QED
  BY <1>1, <1>3

LEMMA DigitValue ==
  ASSUME NEW b \in Digits
  PROVE  Value(b) \in Nat
BY DEF Digits, Value

LEMMA TwoParams ==
  ASSUME NEW s \in Seq(Alphabet), Len(s) = 3, s[1] \in Digits, s[2] = "SEP", s[3] \in Digits,
         NEW p, p = Params(s)
  PROVE  p \in Seq(Nat) /\ Len(p) = 2 /\ p[1] = Value(s[1]) /\ p[2] = Value(s[3])
<1>1. PICK r \in [0..3 -> Readings] :
        /\ r[0] = [ps |-> <<>>, cur |-> <<>>]
        /\ \A k \in 1..3 : r[k] = ReadByte(r[k - 1], s[k])
        /\ Params(s) = r[3].ps \o r[3].cur
  BY ParamsRead
<1> DEFINE u == Value(s[1])
           v == Value(s[3])
           t1 == <<>> \o <<u>>
           t2 == t1 \o <<v>>
<1>2. r[1] = ReadByte(r[0], s[1]) /\ r[2] = ReadByte(r[1], s[2]) /\ r[3] = ReadByte(r[2], s[3])
  BY <1>1
<1>3. u \in Nat /\ v \in Nat
  BY DigitValue
<1>4. t1 = <<>> \o <<u>> /\ t2 = t1 \o <<v>>
  OBVIOUS
<1>5. r[1] = [ps |-> <<>>, cur |-> <<u>>]
  BY <1>1, <1>2, ReadDigit
<1> HIDE DEF u, v, t1, t2
<1>6. r[2] = [ps |-> t1, cur |-> <<>>]
  <2>1. r[2] = ReadByte([ps |-> <<>>, cur |-> <<u>>], "SEP")
    BY <1>2, <1>5
  <2>2. r[2] = [ps |-> <<>> \o <<u>>, cur |-> <<>>]
    BY <2>1, ReadSep, Zenon
  <2> QED
    BY <1>4, <2>2, Zenon
<1>7. r[3] = [ps |-> t1, cur |-> <<v>>]
  BY <1>2, <1>6, ReadDigit DEF v
<1>8. t1 \in Seq(Nat) /\ Len(t1) = 1 /\ t1[1] = u
  BY <1>3, <1>4, OneRead
<1>9. t2 \in Seq(Nat) /\ Len(t2) = 2 /\ t2[1] = t1[1] /\ t2[2] = v
  BY <1>3, <1>4, <1>8, OneMore
<1>10. p = t2
  BY <1>1, <1>4, <1>7
<1> QED
  BY <1>8, <1>9, <1>10 DEF u, v

LEMMA ThreeParams ==
  ASSUME NEW s \in Seq(Alphabet), Len(s) = 5, s[1] \in Digits, s[2] = "SEP", s[3] \in Digits,
         s[4] = "SEP", s[5] \in Digits, NEW p, p = Params(s)
  PROVE  p \in Seq(Nat) /\ Len(p) = 3 /\ p[1] = Value(s[1]) /\ p[2] = Value(s[3])
<1>1. PICK r \in [0..5 -> Readings] :
        /\ r[0] = [ps |-> <<>>, cur |-> <<>>]
        /\ \A k \in 1..5 : r[k] = ReadByte(r[k - 1], s[k])
        /\ Params(s) = r[5].ps \o r[5].cur
  BY ParamsRead
<1> DEFINE u == Value(s[1])
           v == Value(s[3])
           w == Value(s[5])
           t1 == <<>> \o <<u>>
           t2 == t1 \o <<v>>
           t3 == t2 \o <<w>>
<1>2. /\ r[1] = ReadByte(r[0], s[1]) /\ r[2] = ReadByte(r[1], s[2]) /\ r[3] = ReadByte(r[2], s[3])
      /\ r[4] = ReadByte(r[3], s[4]) /\ r[5] = ReadByte(r[4], s[5])
  BY <1>1
<1>3. u \in Nat /\ v \in Nat /\ w \in Nat
  BY DigitValue
<1>4. t1 = <<>> \o <<u>> /\ t2 = t1 \o <<v>> /\ t3 = t2 \o <<w>>
  OBVIOUS
<1>5. r[1] = [ps |-> <<>>, cur |-> <<u>>]
  BY <1>1, <1>2, ReadDigit
<1> HIDE DEF u, v, w, t1, t2, t3
<1>6. r[2] = [ps |-> t1, cur |-> <<>>]
  <2>1. r[2] = ReadByte([ps |-> <<>>, cur |-> <<u>>], "SEP")
    BY <1>2, <1>5
  <2>2. r[2] = [ps |-> <<>> \o <<u>>, cur |-> <<>>]
    BY <2>1, ReadSep, Zenon
  <2> QED
    BY <1>4, <2>2, Zenon
<1>7. r[3] = [ps |-> t1, cur |-> <<v>>]
  BY <1>2, <1>6, ReadDigit DEF v
<1>8. r[4] = [ps |-> t2, cur |-> <<>>]
  <2>1. r[4] = ReadByte([ps |-> t1, cur |-> <<v>>], "SEP")
    BY <1>2, <1>7
  <2>2. r[4] = [ps |-> t1 \o <<v>>, cur |-> <<>>]
    BY <2>1, ReadSep, Zenon
  <2> QED
    BY <1>4, <2>2, Zenon
<1>9. r[5] = [ps |-> t2, cur |-> <<w>>]
  BY <1>2, <1>8, ReadDigit DEF w
<1>10. t1 \in Seq(Nat) /\ Len(t1) = 1 /\ t1[1] = u
  BY <1>3, <1>4, OneRead
<1>11. t2 \in Seq(Nat) /\ Len(t2) = 2 /\ t2[1] = t1[1] /\ t2[2] = v
  BY <1>3, <1>4, <1>10, OneMore
<1>12. t3 \in Seq(Nat) /\ Len(t3) = 3 /\ t3[1] = t2[1] /\ t3[2] = t2[2]
  BY <1>3, <1>4, <1>11, OneMore
<1>13. p = t3
  BY <1>1, <1>4, <1>9
<1> QED
  BY <1>10, <1>11, <1>12, <1>13 DEF u, v

--------------------------------------------------------------------------------
(* A step of the parser on the bytes of an act, all of them or some.            *)

LEMMA CsiMouse ==
  ASSUME NEW buf \in Seq(Alphabet), Len(buf) > 2, buf[3] = "LT", NEW e \in 4..Len(buf),
         buf[e] \in Finals, \A i \in 4..(e - 1) : buf[i] \notin Finals,
         NEW ps, ps = Params(SubSeq(buf, 4, e - 1)), Len(ps) >= 3
  PROVE  Csi(buf) = Took(e, <<[ev |-> "mouse", what |-> <<ps[1], ps[2]>>]>>)
<1> DEFINE ends == {i \in 4..Len(buf) : buf[i] \in Finals}
           ps0 == Params(SubSeq(buf, 4, First(ends) - 1))
<1>1. e \in ends /\ ends \subseteq Int /\ \A j \in ends : e <= j
  OBVIOUS
<1>2. Csi(buf) = IF ends = {} THEN NeedMore ELSE IF Len(ps0) >= 3
                                                    THEN Took(First(ends), <<[ev |-> "mouse", what |-> <<ps0[1], ps0[2]>>]>>)
                                                    ELSE Took(First(ends), <<>>)
  BY DEF Csi
<1>3. First(ends) = e
  <2> HIDE DEF ends
  <2> QED
    BY <1>1, FirstIs
<1>4. ends # {}
  BY <1>1
<1>5. ps0 = ps
  BY <1>3
<1> HIDE DEF ends, ps0
<1> QED
  BY <1>2, <1>3, <1>4, <1>5

LEMMA CsiKey ==
  ASSUME NEW buf \in Seq(Alphabet), Len(buf) > 2, buf[3] # "LT", NEW e \in 3..Len(buf),
         buf[e] \in Finals, \A i \in 3..(e - 1) : buf[i] \notin Finals,
         NEW ps, ps = Params(SubSeq(buf, 3, e - 1))
  PROVE  Csi(buf) = Took(e, CsiEvents(ps, buf[e]))
<1> DEFINE ends == {i \in 3..Len(buf) : buf[i] \in Finals}
           ps0 == Params(SubSeq(buf, 3, First(ends) - 1))
<1>1. e \in ends /\ ends \subseteq Int /\ \A j \in ends : e <= j
  OBVIOUS
<1>2. Csi(buf) = IF ends = {} THEN NeedMore ELSE Took(First(ends), CsiEvents(ps0, buf[First(ends)]))
  BY DEF Csi
<1>3. First(ends) = e
  <2> HIDE DEF ends
  <2> QED
    BY <1>1, FirstIs
<1>4. ends # {}
  BY <1>1
<1>5. ps0 = ps
  BY <1>3
<1> HIDE DEF ends, ps0
<1> QED
  BY <1>2, <1>3, <1>4, <1>5

\* Where a step goes on.
LEMMA StepCsi ==
  ASSUME NEW buf, Len(buf) \in Nat, Len(buf) >= 2, buf[1] = "ESC", buf[2] = "LB"
  PROVE  Step(buf) = Csi(buf)
BY DEF Step

LEMMA StepString ==
  ASSUME NEW buf, Len(buf) \in Nat, Len(buf) >= 2, buf[1] = "ESC", buf[2] \in {"RB", "APC"}
  PROVE  Step(buf) = StringSequence(buf)
BY DEF Step

LEMMA StepPlain ==
  ASSUME NEW buf, buf[1] # "ESC"
  PROVE  Step(buf) = Plain(buf)
BY DEF Step

LEMMA CsiMore ==
  ASSUME NEW buf \in Seq(Alphabet), \A i \in 3..Len(buf) : buf[i] \notin Finals
  PROVE  Csi(buf) = NeedMore
<1> DEFINE from == IF Len(buf) > 2 /\ buf[3] = "LT" THEN 4 ELSE 3
<1>1. {i \in from..Len(buf) : buf[i] \in Finals} = {}
  OBVIOUS
<1> QED
  BY <1>1 DEF Csi

Starts(buf, a) == /\ Width(a) <= Len(buf)
                  /\ \A i \in 1..Width(a) : buf[i] = Bytes(a)[i]

LEMMA LetterRead ==
  ASSUME NEW buf \in Seq(Alphabet), Starts(buf, "a")
  PROVE  Step(buf) = Took(1, Told("a"))
<1>1. /\ Len(buf) \in Nat /\ Len(buf) >= 1
      /\ buf[1] = "a"
  <2> DEFINE b == Bytes("a")
  <2>1. Len(b) <= Len(buf) /\ \A i \in 1..Len(b) : buf[i] = b[i]
    BY DEF Starts, Width
  <2>2. /\ Len(b) = 1
        /\ b[1] = "a"
    BY LetterBytes
  <2> HIDE DEF b
  <2> QED
    BY <2>1, <2>2
<1> QED
  BY <1>1, StepPlain DEF Plain, Told

LEMMA EscapeRead ==
  ASSUME NEW buf \in Seq(Alphabet), Starts(buf, "Escape"), Len(buf) > 1, buf[2] = "ESC"
  PROVE  Step(buf) = Took(1, Told("Escape"))
<1>1. /\ Len(buf) \in Nat /\ Len(buf) >= 1
      /\ buf[1] = "ESC"
  <2> DEFINE b == Bytes("Escape")
  <2>1. Len(b) <= Len(buf) /\ \A i \in 1..Len(b) : buf[i] = b[i]
    BY DEF Starts, Width
  <2>2. /\ Len(b) = 1
        /\ b[1] = "ESC"
    BY EscapeBytes
  <2> HIDE DEF b
  <2> QED
    BY <2>1, <2>2
<1> QED
  BY <1>1 DEF Step, Told

LEMMA AltARead ==
  ASSUME NEW buf \in Seq(Alphabet), Starts(buf, "AltA")
  PROVE  Step(buf) = Took(2, Told("AltA"))
<1>1. /\ Len(buf) \in Nat /\ Len(buf) >= 2
      /\ buf[1] = "ESC" /\ buf[2] = "a"
  <2> DEFINE b == Bytes("AltA")
  <2>1. Len(b) <= Len(buf) /\ \A i \in 1..Len(b) : buf[i] = b[i]
    BY DEF Starts, Width
  <2>2. /\ Len(b) = 2
        /\ b[1] = "ESC" /\ b[2] = "a"
    BY AltABytes
  <2> HIDE DEF b
  <2> QED
    BY <2>1, <2>2
<1> QED
  BY <1>1 DEF Step, Told

LEMMA UpRead ==
  ASSUME NEW buf \in Seq(Alphabet), Starts(buf, "Up")
  PROVE  Step(buf) = Took(3, Told("Up"))
<1>1. /\ Len(buf) \in Nat /\ Len(buf) >= 3
      /\ buf[1] = "ESC" /\ buf[2] = "LB" /\ buf[3] = "A"
  <2> DEFINE b == Bytes("Up")
  <2>1. Len(b) <= Len(buf) /\ \A i \in 1..Len(b) : buf[i] = b[i]
    BY DEF Starts, Width
  <2>2. /\ Len(b) = 3
        /\ b[1] = "ESC" /\ b[2] = "LB" /\ b[3] = "A"
    BY UpBytes
  <2> HIDE DEF b
  <2> QED
    BY <2>1, <2>2
<1> DEFINE ps == Params(SubSeq(buf, 3, 2))
<1>2. ps = <<>>
  <2>1. SubSeq(buf, 3, 2) \in Seq(Alphabet) /\ Len(SubSeq(buf, 3, 2)) = 0
    BY <1>1
  <2> QED
    BY <2>1, NoParams
<1>3. buf[3] \in Finals /\ buf[3] # "LT"
  BY <1>1 DEF Finals
<1> HIDE DEF ps
<1>4. ps = Params(SubSeq(buf, 3, 3 - 1))
  BY DEF ps
<1>5. Csi(buf) = Took(3, CsiEvents(ps, buf[3]))
  BY <1>1, <1>3, <1>4, CsiKey
<1>6. CsiEvents(ps, buf[3]) = Told("Up")
  BY <1>1, <1>2 DEF CsiEvents, Told
<1> QED
  BY <1>1, <1>5, <1>6, StepCsi

LEMMA CtrlUpRead ==
  ASSUME NEW buf \in Seq(Alphabet), Starts(buf, "CtrlUp")
  PROVE  Step(buf) = Took(6, Told("CtrlUp"))
<1>1. /\ Len(buf) \in Nat /\ Len(buf) >= 6
      /\ buf[1] = "ESC" /\ buf[2] = "LB" /\ buf[3] = "p1" /\ buf[4] = "SEP" /\ buf[5] = "p5"
      /\ buf[6] = "A"
  <2> DEFINE b == Bytes("CtrlUp")
  <2>1. Len(b) <= Len(buf) /\ \A i \in 1..Len(b) : buf[i] = b[i]
    BY DEF Starts, Width
  <2>2. /\ Len(b) = 6
        /\ b[1] = "ESC" /\ b[2] = "LB" /\ b[3] = "p1" /\ b[4] = "SEP" /\ b[5] = "p5"
        /\ b[6] = "A"
    BY CtrlUpBytes
  <2> HIDE DEF b
  <2> QED
    BY <2>1, <2>2
<1> DEFINE s == SubSeq(buf, 3, 5)
           ps == Params(s)
<1>2. s \in Seq(Alphabet) /\ Len(s) = 3 /\ s[1] = buf[3] /\ s[2] = buf[4] /\ s[3] = buf[5]
  BY <1>1
<1>3. s[1] \in Digits /\ s[2] = "SEP" /\ s[3] \in Digits /\ Value(s[3]) = 5
  BY <1>1, <1>2 DEF Digits, Value
<1>4. s = SubSeq(buf, 3, 6 - 1)
  OBVIOUS
<1> HIDE DEF s
<1>5. Len(ps) = 2 /\ ps[2] = 5
  BY <1>2, <1>3, TwoParams
<1>6. /\ buf[6] \in Finals /\ buf[3] # "LT"
      /\ \A i \in 3..(6 - 1) : buf[i] \notin Finals
  BY <1>1 DEF Finals
<1> HIDE DEF ps
<1>7. ps = Params(SubSeq(buf, 3, 6 - 1))
  BY <1>4 DEF ps
<1>8. Csi(buf) = Took(6, CsiEvents(ps, buf[6]))
  BY <1>1, <1>6, <1>7, CsiKey
<1>9. CsiEvents(ps, buf[6]) = Told("CtrlUp")
  BY <1>1, <1>5 DEF CsiEvents, Told
<1> QED
  BY <1>1, <1>8, <1>9, StepCsi

LEMMA AppUpRead ==
  ASSUME NEW buf \in Seq(Alphabet), Starts(buf, "AppUp")
  PROVE  Step(buf) = Took(3, Told("AppUp"))
<1>1. /\ Len(buf) \in Nat /\ Len(buf) >= 3
      /\ buf[1] = "ESC" /\ buf[2] = "O" /\ buf[3] = "A"
  <2> DEFINE b == Bytes("AppUp")
  <2>1. Len(b) <= Len(buf) /\ \A i \in 1..Len(b) : buf[i] = b[i]
    BY DEF Starts, Width
  <2>2. /\ Len(b) = 3
        /\ b[1] = "ESC" /\ b[2] = "O" /\ b[3] = "A"
    BY AppUpBytes
  <2> HIDE DEF b
  <2> QED
    BY <2>1, <2>2
<1> QED
  BY <1>1 DEF Step, Told

LEMMA EacuteRead ==
  ASSUME NEW buf \in Seq(Alphabet), Starts(buf, "eacute")
  PROVE  Step(buf) = Took(2, Told("eacute"))
<1>1. /\ Len(buf) \in Nat /\ Len(buf) >= 2
      /\ buf[1] = "L" /\ buf[2] = "C"
  <2> DEFINE b == Bytes("eacute")
  <2>1. Len(b) <= Len(buf) /\ \A i \in 1..Len(b) : buf[i] = b[i]
    BY DEF Starts, Width
  <2>2. /\ Len(b) = 2
        /\ b[1] = "L" /\ b[2] = "C"
    BY EacuteBytes
  <2> HIDE DEF b
  <2> QED
    BY <2>1, <2>2
<1>2. Plain(buf) = Took(2, <<Key("eacute")>>)
  BY <1>1 DEF Plain
<1>3. Told("eacute") = <<Key("eacute")>>
  BY DEF Told
<1>4. Step(buf) = Plain(buf)
  BY <1>1, StepPlain
<1> QED
  BY <1>2, <1>3, <1>4

LEMMA Click1Read ==
  ASSUME NEW buf \in Seq(Alphabet), Starts(buf, "click1")
  PROVE  Step(buf) = Took(9, Told("click1"))
<1>1. /\ Len(buf) \in Nat /\ Len(buf) >= 9
      /\ buf[1] = "ESC" /\ buf[2] = "LB" /\ buf[3] = "LT" /\ buf[4] = "p0" /\ buf[5] = "SEP"
      /\ buf[6] = "p1" /\ buf[7] = "SEP" /\ buf[8] = "p1" /\ buf[9] = "M"
  <2> DEFINE b == Bytes("click1")
  <2>1. Len(b) <= Len(buf) /\ \A i \in 1..Len(b) : buf[i] = b[i]
    BY DEF Starts, Width
  <2>2. /\ Len(b) = 9
        /\ b[1] = "ESC" /\ b[2] = "LB" /\ b[3] = "LT" /\ b[4] = "p0" /\ b[5] = "SEP"
        /\ b[6] = "p1" /\ b[7] = "SEP" /\ b[8] = "p1" /\ b[9] = "M"
    BY Click1Bytes
  <2> HIDE DEF b
  <2> QED
    BY <2>1, <2>2
<1> DEFINE s == SubSeq(buf, 4, 8)
           ps == Params(s)
<1>2. /\ s \in Seq(Alphabet) /\ Len(s) = 5 /\ s[1] = buf[4] /\ s[2] = buf[5] /\ s[3] = buf[6]
      /\ s[4] = buf[7] /\ s[5] = buf[8]
  BY <1>1
<1>3. /\ s[1] \in Digits /\ s[2] = "SEP" /\ s[3] \in Digits /\ s[4] = "SEP" /\ s[5] \in Digits
      /\ Value(s[1]) = 0 /\ Value(s[3]) = 1
  BY <1>1, <1>2 DEF Digits, Value
<1>4. s = SubSeq(buf, 4, 9 - 1)
  OBVIOUS
<1> HIDE DEF s
<1>5. Len(ps) = 3 /\ ps[1] = 0 /\ ps[2] = 1
  BY <1>2, <1>3, ThreeParams
<1>6. /\ buf[9] \in Finals /\ buf[3] = "LT"
      /\ \A i \in 4..(9 - 1) : buf[i] \notin Finals
  BY <1>1 DEF Finals
<1> HIDE DEF ps
<1>7. ps = Params(SubSeq(buf, 4, 9 - 1))
  BY <1>4 DEF ps
<1>8. Csi(buf) = Took(9, <<[ev |-> "mouse", what |-> <<ps[1], ps[2]>>]>>)
  <2>1. Len(buf) > 2 /\ 9 \in 4..Len(buf) /\ Len(ps) >= 3
    BY <1>1, <1>5
  <2> QED
    BY <1>6, <1>7, <2>1, CsiMouse, Zenon
<1>9. <<[ev |-> "mouse", what |-> <<ps[1], ps[2]>>]>> = Told("click1")
  BY <1>5 DEF Told
<1>10. Step(buf) = Csi(buf)
  BY <1>1, StepCsi
<1> QED
  BY <1>8, <1>9, <1>10, Zenon

LEMMA Move2Read ==
  ASSUME NEW buf \in Seq(Alphabet), Starts(buf, "move2")
  PROVE  Step(buf) = Took(9, Told("move2"))
<1>1. /\ Len(buf) \in Nat /\ Len(buf) >= 9
      /\ buf[1] = "ESC" /\ buf[2] = "LB" /\ buf[3] = "LT" /\ buf[4] = "p32" /\ buf[5] = "SEP"
      /\ buf[6] = "p2" /\ buf[7] = "SEP" /\ buf[8] = "p1" /\ buf[9] = "M"
  <2> DEFINE b == Bytes("move2")
  <2>1. Len(b) <= Len(buf) /\ \A i \in 1..Len(b) : buf[i] = b[i]
    BY DEF Starts, Width
  <2>2. /\ Len(b) = 9
        /\ b[1] = "ESC" /\ b[2] = "LB" /\ b[3] = "LT" /\ b[4] = "p32" /\ b[5] = "SEP"
        /\ b[6] = "p2" /\ b[7] = "SEP" /\ b[8] = "p1" /\ b[9] = "M"
    BY Move2Bytes
  <2> HIDE DEF b
  <2> QED
    BY <2>1, <2>2
<1> DEFINE s == SubSeq(buf, 4, 8)
           ps == Params(s)
<1>2. /\ s \in Seq(Alphabet) /\ Len(s) = 5 /\ s[1] = buf[4] /\ s[2] = buf[5] /\ s[3] = buf[6]
      /\ s[4] = buf[7] /\ s[5] = buf[8]
  BY <1>1
<1>3. /\ s[1] \in Digits /\ s[2] = "SEP" /\ s[3] \in Digits /\ s[4] = "SEP" /\ s[5] \in Digits
      /\ Value(s[1]) = 32 /\ Value(s[3]) = 2
  BY <1>1, <1>2 DEF Digits, Value
<1>4. s = SubSeq(buf, 4, 9 - 1)
  OBVIOUS
<1> HIDE DEF s
<1>5. Len(ps) = 3 /\ ps[1] = 32 /\ ps[2] = 2
  BY <1>2, <1>3, ThreeParams
<1>6. /\ buf[9] \in Finals /\ buf[3] = "LT"
      /\ \A i \in 4..(9 - 1) : buf[i] \notin Finals
  BY <1>1 DEF Finals
<1> HIDE DEF ps
<1>7. ps = Params(SubSeq(buf, 4, 9 - 1))
  BY <1>4 DEF ps
<1>8. Csi(buf) = Took(9, <<[ev |-> "mouse", what |-> <<ps[1], ps[2]>>]>>)
  <2>1. Len(buf) > 2 /\ 9 \in 4..Len(buf) /\ Len(ps) >= 3
    BY <1>1, <1>5
  <2> QED
    BY <1>6, <1>7, <2>1, CsiMouse, Zenon
<1>9. <<[ev |-> "mouse", what |-> <<ps[1], ps[2]>>]>> = Told("move2")
  BY <1>5 DEF Told
<1>10. Step(buf) = Csi(buf)
  BY <1>1, StepCsi
<1> QED
  BY <1>8, <1>9, <1>10, Zenon

LEMMA Wheel2Read ==
  ASSUME NEW buf \in Seq(Alphabet), Starts(buf, "wheel2")
  PROVE  Step(buf) = Took(9, Told("wheel2"))
<1>1. /\ Len(buf) \in Nat /\ Len(buf) >= 9
      /\ buf[1] = "ESC" /\ buf[2] = "LB" /\ buf[3] = "LT" /\ buf[4] = "p64" /\ buf[5] = "SEP"
      /\ buf[6] = "p2" /\ buf[7] = "SEP" /\ buf[8] = "p1" /\ buf[9] = "M"
  <2> DEFINE b == Bytes("wheel2")
  <2>1. Len(b) <= Len(buf) /\ \A i \in 1..Len(b) : buf[i] = b[i]
    BY DEF Starts, Width
  <2>2. /\ Len(b) = 9
        /\ b[1] = "ESC" /\ b[2] = "LB" /\ b[3] = "LT" /\ b[4] = "p64" /\ b[5] = "SEP"
        /\ b[6] = "p2" /\ b[7] = "SEP" /\ b[8] = "p1" /\ b[9] = "M"
    BY Wheel2Bytes
  <2> HIDE DEF b
  <2> QED
    BY <2>1, <2>2
<1> DEFINE s == SubSeq(buf, 4, 8)
           ps == Params(s)
<1>2. /\ s \in Seq(Alphabet) /\ Len(s) = 5 /\ s[1] = buf[4] /\ s[2] = buf[5] /\ s[3] = buf[6]
      /\ s[4] = buf[7] /\ s[5] = buf[8]
  BY <1>1
<1>3. /\ s[1] \in Digits /\ s[2] = "SEP" /\ s[3] \in Digits /\ s[4] = "SEP" /\ s[5] \in Digits
      /\ Value(s[1]) = 64 /\ Value(s[3]) = 2
  BY <1>1, <1>2 DEF Digits, Value
<1>4. s = SubSeq(buf, 4, 9 - 1)
  OBVIOUS
<1> HIDE DEF s
<1>5. Len(ps) = 3 /\ ps[1] = 64 /\ ps[2] = 2
  BY <1>2, <1>3, ThreeParams
<1>6. /\ buf[9] \in Finals /\ buf[3] = "LT"
      /\ \A i \in 4..(9 - 1) : buf[i] \notin Finals
  BY <1>1 DEF Finals
<1> HIDE DEF ps
<1>7. ps = Params(SubSeq(buf, 4, 9 - 1))
  BY <1>4 DEF ps
<1>8. Csi(buf) = Took(9, <<[ev |-> "mouse", what |-> <<ps[1], ps[2]>>]>>)
  <2>1. Len(buf) > 2 /\ 9 \in 4..Len(buf) /\ Len(ps) >= 3
    BY <1>1, <1>5
  <2> QED
    BY <1>6, <1>7, <2>1, CsiMouse, Zenon
<1>9. <<[ev |-> "mouse", what |-> <<ps[1], ps[2]>>]>> = Told("wheel2")
  BY <1>5 DEF Told
<1>10. Step(buf) = Csi(buf)
  BY <1>1, StepCsi
<1> QED
  BY <1>8, <1>9, <1>10, Zenon

LEMMA StatusRead ==
  ASSUME NEW buf \in Seq(Alphabet), Starts(buf, "status")
  PROVE  Step(buf) = Took(4, Told("status"))
<1>1. /\ Len(buf) \in Nat /\ Len(buf) >= 4
      /\ buf[1] = "ESC" /\ buf[2] = "RB" /\ buf[3] = "p4" /\ buf[4] = "BEL"
  <2> DEFINE b == Bytes("status")
  <2>1. Len(b) <= Len(buf) /\ \A i \in 1..Len(b) : buf[i] = b[i]
    BY DEF Starts, Width
  <2>2. /\ Len(b) = 4
        /\ b[1] = "ESC" /\ b[2] = "RB" /\ b[3] = "p4" /\ b[4] = "BEL"
    BY StatusBytes
  <2> HIDE DEF b
  <2> QED
    BY <2>1, <2>2
<1> DEFINE ends == {i \in 3..Len(buf) : \/ buf[i] = "BEL"
                                        \/ buf[i] = "BS" /\ i > 3 /\ buf[i - 1] = "ESC"}
<1>2. 4 \in ends /\ ends \subseteq Int /\ \A j \in ends : 4 <= j
  BY <1>1
<1>3. StringSequence(buf) = IF ends = {} THEN NeedMore ELSE Took(First(ends), <<>>)
  BY DEF StringSequence
<1> HIDE DEF ends
<1>4. First(ends) = 4
  BY <1>2, FirstIs
<1>5. StringSequence(buf) = Took(4, <<>>)
  BY <1>2, <1>3, <1>4
<1> QED
  BY <1>1, <1>5, StepString DEF Told

LEMMA ReplyRead ==
  ASSUME NEW buf \in Seq(Alphabet), Starts(buf, "reply")
  PROVE  Step(buf) = Took(5, Told("reply"))
<1>1. /\ Len(buf) \in Nat /\ Len(buf) >= 5
      /\ buf[1] = "ESC" /\ buf[2] = "APC" /\ buf[3] = "a" /\ buf[4] = "ESC" /\ buf[5] = "BS"
  <2> DEFINE b == Bytes("reply")
  <2>1. Len(b) <= Len(buf) /\ \A i \in 1..Len(b) : buf[i] = b[i]
    BY DEF Starts, Width
  <2>2. /\ Len(b) = 5
        /\ b[1] = "ESC" /\ b[2] = "APC" /\ b[3] = "a" /\ b[4] = "ESC" /\ b[5] = "BS"
    BY ReplyBytes
  <2> HIDE DEF b
  <2> QED
    BY <2>1, <2>2
<1> DEFINE ends == {i \in 3..Len(buf) : \/ buf[i] = "BEL"
                                        \/ buf[i] = "BS" /\ i > 3 /\ buf[i - 1] = "ESC"}
<1>2. 5 \in ends /\ ends \subseteq Int /\ \A j \in ends : 5 <= j
  BY <1>1
<1>3. StringSequence(buf) = IF ends = {} THEN NeedMore ELSE Took(First(ends), <<>>)
  BY DEF StringSequence
<1> HIDE DEF ends
<1>4. First(ends) = 5
  BY <1>2, FirstIs
<1>5. StringSequence(buf) = Took(5, <<>>)
  BY <1>2, <1>3, <1>4
<1> QED
  BY <1>1, <1>5, StepString DEF Told

LEMMA SizeRead ==
  ASSUME NEW buf \in Seq(Alphabet), Starts(buf, "size")
  PROVE  Step(buf) = Took(8, Told("size"))
<1>1. /\ Len(buf) \in Nat /\ Len(buf) >= 8
      /\ buf[1] = "ESC" /\ buf[2] = "LB" /\ buf[3] = "p4" /\ buf[4] = "SEP" /\ buf[5] = "p5"
      /\ buf[6] = "SEP" /\ buf[7] = "p5" /\ buf[8] = "t"
  <2> DEFINE b == Bytes("size")
  <2>1. Len(b) <= Len(buf) /\ \A i \in 1..Len(b) : buf[i] = b[i]
    BY DEF Starts, Width
  <2>2. /\ Len(b) = 8
        /\ b[1] = "ESC" /\ b[2] = "LB" /\ b[3] = "p4" /\ b[4] = "SEP" /\ b[5] = "p5"
        /\ b[6] = "SEP" /\ b[7] = "p5" /\ b[8] = "t"
    BY SizeBytes
  <2> HIDE DEF b
  <2> QED
    BY <2>1, <2>2
<1> DEFINE ps == Params(SubSeq(buf, 3, 7))
<1>2. /\ buf[8] \in Finals /\ buf[3] # "LT"
      /\ \A i \in 3..(8 - 1) : buf[i] \notin Finals
  BY <1>1 DEF Finals
<1>3. ps = Params(SubSeq(buf, 3, 8 - 1))
  OBVIOUS
<1> HIDE DEF ps
<1>4. Csi(buf) = Took(8, CsiEvents(ps, buf[8]))
  BY <1>1, <1>2, <1>3, CsiKey
<1>5. CsiEvents(ps, buf[8]) = Told("size")
  BY <1>1 DEF CsiEvents, Told
<1> QED
  BY <1>1, <1>4, <1>5, StepCsi

\* All the bytes of an act are one step, and told as the act is; an Escape only
\* when another sequence begins behind it.
LEMMA StepWhole ==
  ASSUME NEW buf \in Seq(Alphabet), NEW a \in All, Starts(buf, a),
         a = "Escape" => Len(buf) > 1 /\ buf[2] = "ESC"
  PROVE  Step(buf) = Took(Width(a), Told(a))
<1>1. CASE a = "a"
  <2>1. Width(a) = 1
    BY <1>1, LetterBytes DEF Width
  <2>2. Step(buf) = Took(1, Told("a"))
    BY <1>1, LetterRead
  <2> QED
    BY <1>1, <2>1, <2>2
<1>2. CASE a = "Escape"
  <2>1. Width(a) = 1
    BY <1>2, EscapeBytes DEF Width
  <2>2. Step(buf) = Took(1, Told("Escape"))
    BY <1>2, EscapeRead
  <2> QED
    BY <1>2, <2>1, <2>2
<1>3. CASE a = "AltA"
  <2>1. Width(a) = 2
    BY <1>3, AltABytes DEF Width
  <2>2. Step(buf) = Took(2, Told("AltA"))
    BY <1>3, AltARead
  <2> QED
    BY <1>3, <2>1, <2>2
<1>4. CASE a = "Up"
  <2>1. Width(a) = 3
    BY <1>4, UpBytes DEF Width
  <2>2. Step(buf) = Took(3, Told("Up"))
    BY <1>4, UpRead
  <2> QED
    BY <1>4, <2>1, <2>2
<1>5. CASE a = "CtrlUp"
  <2>1. Width(a) = 6
    BY <1>5, CtrlUpBytes DEF Width
  <2>2. Step(buf) = Took(6, Told("CtrlUp"))
    BY <1>5, CtrlUpRead
  <2> QED
    BY <1>5, <2>1, <2>2
<1>6. CASE a = "AppUp"
  <2>1. Width(a) = 3
    BY <1>6, AppUpBytes DEF Width
  <2>2. Step(buf) = Took(3, Told("AppUp"))
    BY <1>6, AppUpRead
  <2> QED
    BY <1>6, <2>1, <2>2
<1>7. CASE a = "eacute"
  <2>1. Width(a) = 2
    BY <1>7, EacuteBytes DEF Width
  <2>2. Step(buf) = Took(2, Told("eacute"))
    BY <1>7, EacuteRead
  <2> QED
    BY <1>7, <2>1, <2>2
<1>8. CASE a = "click1"
  <2>1. Width(a) = 9
    BY <1>8, Click1Bytes DEF Width
  <2>2. Step(buf) = Took(9, Told("click1"))
    BY <1>8, Click1Read
  <2> QED
    BY <1>8, <2>1, <2>2
<1>9. CASE a = "move2"
  <2>1. Width(a) = 9
    BY <1>9, Move2Bytes DEF Width
  <2>2. Step(buf) = Took(9, Told("move2"))
    BY <1>9, Move2Read
  <2> QED
    BY <1>9, <2>1, <2>2
<1>10. CASE a = "wheel2"
  <2>1. Width(a) = 9
    BY <1>10, Wheel2Bytes DEF Width
  <2>2. Step(buf) = Took(9, Told("wheel2"))
    BY <1>10, Wheel2Read
  <2> QED
    BY <1>10, <2>1, <2>2
<1>11. CASE a = "status"
  <2>1. Width(a) = 4
    BY <1>11, StatusBytes DEF Width
  <2>2. Step(buf) = Took(4, Told("status"))
    BY <1>11, StatusRead
  <2> QED
    BY <1>11, <2>1, <2>2
<1>12. CASE a = "reply"
  <2>1. Width(a) = 5
    BY <1>12, ReplyBytes DEF Width
  <2>2. Step(buf) = Took(5, Told("reply"))
    BY <1>12, ReplyRead
  <2> QED
    BY <1>12, <2>1, <2>2
<1>13. CASE a = "size"
  <2>1. Width(a) = 8
    BY <1>13, SizeBytes DEF Width
  <2>2. Step(buf) = Took(8, Told("size"))
    BY <1>13, SizeRead
  <2> QED
    BY <1>13, <2>1, <2>2
<1> QED
  BY <1>1, <1>2, <1>3, <1>4, <1>5, <1>6, <1>7, <1>8, <1>9, <1>10, <1>11, <1>12, <1>13, ActCases

--------------------------------------------------------------------------------
(* Some of the bytes of an act are no step yet.                                 *)

Part(buf, a) == /\ Len(buf) >= 1
                /\ \A i \in 1..Len(buf) : buf[i] = Bytes(a)[i]
                /\ Len(buf) < Width(a) \/ (a = "Escape" /\ Len(buf) = 1)

LEMMA CsiPart ==
  ASSUME NEW buf \in Seq(Alphabet), NEW b, Len(b) \in Nat, Len(buf) \in 1..(Len(b) - 1),
         \A i \in 1..Len(buf) : buf[i] = b[i], b[1] = "ESC", b[2] = "LB",
         \A i \in 3..(Len(b) - 1) : b[i] \notin Finals
  PROVE  Step(buf) = NeedMore
<1>1. Len(buf) \in Nat /\ buf[1] = "ESC"
  OBVIOUS
<1>2. CASE Len(buf) < 2
  BY <1>1, <1>2 DEF Step
<1>3. CASE Len(buf) >= 2
  <2>1. buf[2] = "LB" /\ \A i \in 3..Len(buf) : buf[i] \notin Finals
    BY <1>1, <1>3
  <2>2. Csi(buf) = NeedMore
    BY <2>1, CsiMore
  <2> QED
    BY <1>1, <1>3, <2>1, <2>2, StepCsi
<1> QED
  BY <1>1, <1>2, <1>3

LEMMA StringPart ==
  ASSUME NEW buf \in Seq(Alphabet), NEW b, Len(b) \in Nat, Len(buf) \in 1..(Len(b) - 1),
         \A i \in 1..Len(buf) : buf[i] = b[i], b[1] = "ESC", b[2] \in {"RB", "APC"},
         \A i \in 3..(Len(b) - 1) : b[i] \notin {"BEL", "BS"}
  PROVE  Step(buf) = NeedMore
<1>1. Len(buf) \in Nat /\ buf[1] = "ESC"
  OBVIOUS
<1>2. CASE Len(buf) < 2
  BY <1>1, <1>2 DEF Step
<1>3. CASE Len(buf) >= 2
  <2>1. buf[2] \in {"RB", "APC"} /\ \A i \in 3..Len(buf) : buf[i] # "BEL" /\ buf[i] # "BS"
    BY <1>1, <1>3
  <2>2. StringSequence(buf) = NeedMore
    <3>1. {i \in 3..Len(buf) : \/ buf[i] = "BEL"
                               \/ buf[i] = "BS" /\ i > 3 /\ buf[i - 1] = "ESC"} = {}
      BY <2>1
    <3> QED
      BY <3>1 DEF StringSequence
  <2> QED
    BY <1>1, <1>3, <2>1, <2>2, StepString
<1> QED
  BY <1>1, <1>2, <1>3

LEMMA StepPart ==
  ASSUME NEW buf \in Seq(Alphabet), NEW a \in All, Part(buf, a)
  PROVE  Step(buf) = NeedMore
<1> DEFINE b == Bytes(a)
<1>0. /\ Len(buf) \in Nat /\ Len(buf) >= 1
      /\ \A i \in 1..Len(buf) : buf[i] = b[i]
      /\ Len(buf) < Len(b) \/ (a = "Escape" /\ Len(buf) = 1)
  BY DEF Part, Width
<1>b. b = Bytes(a)
  OBVIOUS
<1>len. a # "Escape" => Len(buf) \in 1..(Len(b) - 1)
  BY <1>0, Lengths
<1> HIDE DEF b
<1>1. CASE a = "a"
  <2>1. b = Bytes("a")
    BY <1>1, <1>b
  <2>2. Len(b) = 1
    BY <2>1, LetterBytes
  <2> QED
    BY <1>0, <1>1, <2>2
<1>2. CASE a = "Escape"
  <2>1. b = Bytes("Escape")
    BY <1>2, <1>b
  <2>2. Len(b) = 1 /\ b[1] = "ESC"
    BY <2>1, EscapeBytes
  <2>3. buf[1] = "ESC" /\ Len(buf) = 1
    BY <1>0, <2>2
  <2> QED
    BY <2>3 DEF Step
<1>3. CASE a = "AltA"
  <2>4. Len(buf) \in 1..(Len(b) - 1)
    BY <1>3, <1>len
  <2>1. b = Bytes("AltA")
    BY <1>3, <1>b
  <2>2. Len(b) = 2 /\ b[1] = "ESC"
    BY <2>1, AltABytes
  <2>3. buf[1] = "ESC" /\ Len(buf) = 1
    BY <1>0, <2>4, <2>2
  <2> QED
    BY <2>3 DEF Step
<1>4. CASE a = "Up"
  <2>4. Len(buf) \in 1..(Len(b) - 1)
    BY <1>4, <1>len
  <2>1. b = Bytes("Up")
    BY <1>4, <1>b
  <2>2. Len(b) = 3 /\ b[1] = "ESC" /\ b[2] = "LB"
    BY <2>1, UpBytes
  <2>3. Len(b) \in Nat /\ Len(buf) \in 1..(Len(b) - 1)
        /\ \A i \in 3..(Len(b) - 1) : b[i] \notin Finals
    BY <1>0, <2>4, <2>2 DEF Finals
  <2> QED
    BY <1>0, <2>2, <2>3, CsiPart
<1>5. CASE a = "CtrlUp"
  <2>4. Len(buf) \in 1..(Len(b) - 1)
    BY <1>5, <1>len
  <2>1. b = Bytes("CtrlUp")
    BY <1>5, <1>b
  <2>2. Len(b) = 6 /\ b[1] = "ESC" /\ b[2] = "LB"
        /\ b[3] = "p1" /\ b[4] = "SEP" /\ b[5] = "p5"
    BY <2>1, CtrlUpBytes
  <2>3. Len(b) \in Nat /\ Len(buf) \in 1..(Len(b) - 1)
        /\ \A i \in 3..(Len(b) - 1) : b[i] \notin Finals
    BY <1>0, <2>4, <2>2 DEF Finals
  <2> QED
    BY <1>0, <2>2, <2>3, CsiPart
<1>6. CASE a = "AppUp"
  <2>4. Len(buf) \in 1..(Len(b) - 1)
    BY <1>6, <1>len
  <2>1. b = Bytes("AppUp")
    BY <1>6, <1>b
  <2>2. Len(b) = 3 /\ b[1] = "ESC" /\ b[2] = "O"
    BY <2>1, AppUpBytes
  <2>3. buf[1] = "ESC" /\ Len(buf) \in 1..2 /\ (Len(buf) = 2 => buf[2] = "O")
    BY <1>0, <2>4, <2>2
  <2> QED
    BY <2>3 DEF Step
<1>7. CASE a = "eacute"
  <2>4. Len(buf) \in 1..(Len(b) - 1)
    BY <1>7, <1>len
  <2>1. b = Bytes("eacute")
    BY <1>7, <1>b
  <2>2. Len(b) = 2 /\ b[1] = "L"
    BY <2>1, EacuteBytes
  <2>3. buf[1] = "L" /\ Len(buf) = 1
    BY <1>0, <2>4, <2>2
  <2>5. Plain(buf) = NeedMore
    BY <2>3 DEF Plain
  <2> QED
    BY <2>3, <2>5, StepPlain
<1>8. CASE a = "click1"
  <2>4. Len(buf) \in 1..(Len(b) - 1)
    BY <1>8, <1>len
  <2>1. b = Bytes("click1")
    BY <1>8, <1>b
  <2>2. Len(b) = 9 /\ b[1] = "ESC" /\ b[2] = "LB"
        /\ b[3] = "LT" /\ b[4] = "p0" /\ b[5] = "SEP" /\ b[6] = "p1" /\ b[7] = "SEP" /\ b[8] = "p1"
    BY <2>1, Click1Bytes
  <2>3. Len(b) \in Nat /\ Len(buf) \in 1..(Len(b) - 1)
        /\ \A i \in 3..(Len(b) - 1) : b[i] \notin Finals
    BY <1>0, <2>4, <2>2 DEF Finals
  <2> QED
    BY <1>0, <2>2, <2>3, CsiPart
<1>9. CASE a = "move2"
  <2>4. Len(buf) \in 1..(Len(b) - 1)
    BY <1>9, <1>len
  <2>1. b = Bytes("move2")
    BY <1>9, <1>b
  <2>2. Len(b) = 9 /\ b[1] = "ESC" /\ b[2] = "LB"
        /\ b[3] = "LT" /\ b[4] = "p32" /\ b[5] = "SEP" /\ b[6] = "p2" /\ b[7] = "SEP" /\ b[8] = "p1"
    BY <2>1, Move2Bytes
  <2>3. Len(b) \in Nat /\ Len(buf) \in 1..(Len(b) - 1)
        /\ \A i \in 3..(Len(b) - 1) : b[i] \notin Finals
    BY <1>0, <2>4, <2>2 DEF Finals
  <2> QED
    BY <1>0, <2>2, <2>3, CsiPart
<1>10. CASE a = "wheel2"
  <2>4. Len(buf) \in 1..(Len(b) - 1)
    BY <1>10, <1>len
  <2>1. b = Bytes("wheel2")
    BY <1>10, <1>b
  <2>2. Len(b) = 9 /\ b[1] = "ESC" /\ b[2] = "LB"
        /\ b[3] = "LT" /\ b[4] = "p64" /\ b[5] = "SEP" /\ b[6] = "p2" /\ b[7] = "SEP" /\ b[8] = "p1"
    BY <2>1, Wheel2Bytes
  <2>3. Len(b) \in Nat /\ Len(buf) \in 1..(Len(b) - 1)
        /\ \A i \in 3..(Len(b) - 1) : b[i] \notin Finals
    BY <1>0, <2>4, <2>2 DEF Finals
  <2> QED
    BY <1>0, <2>2, <2>3, CsiPart
<1>11. CASE a = "status"
  <2>4. Len(buf) \in 1..(Len(b) - 1)
    BY <1>11, <1>len
  <2>1. b = Bytes("status")
    BY <1>11, <1>b
  <2>2. Len(b) = 4 /\ b[1] = "ESC" /\ b[2] \in {"RB", "APC"}
        /\ b[3] = "p4"
    BY <2>1, StatusBytes
  <2>3. Len(b) \in Nat /\ Len(buf) \in 1..(Len(b) - 1)
        /\ \A i \in 3..(Len(b) - 1) : b[i] \notin {"BEL", "BS"}
    BY <1>0, <2>4, <2>2
  <2> QED
    BY <1>0, <2>2, <2>3, StringPart
<1>12. CASE a = "reply"
  <2>4. Len(buf) \in 1..(Len(b) - 1)
    BY <1>12, <1>len
  <2>1. b = Bytes("reply")
    BY <1>12, <1>b
  <2>2. Len(b) = 5 /\ b[1] = "ESC" /\ b[2] \in {"RB", "APC"}
        /\ b[3] = "a" /\ b[4] = "ESC"
    BY <2>1, ReplyBytes
  <2>3. Len(b) \in Nat /\ Len(buf) \in 1..(Len(b) - 1)
        /\ \A i \in 3..(Len(b) - 1) : b[i] \notin {"BEL", "BS"}
    BY <1>0, <2>4, <2>2
  <2> QED
    BY <1>0, <2>2, <2>3, StringPart
<1>13. CASE a = "size"
  <2>4. Len(buf) \in 1..(Len(b) - 1)
    BY <1>13, <1>len
  <2>1. b = Bytes("size")
    BY <1>13, <1>b
  <2>2. Len(b) = 8 /\ b[1] = "ESC" /\ b[2] = "LB"
        /\ b[3] = "p4" /\ b[4] = "SEP" /\ b[5] = "p5" /\ b[6] = "SEP" /\ b[7] = "p5"
    BY <2>1, SizeBytes
  <2>3. Len(b) \in Nat /\ Len(buf) \in 1..(Len(b) - 1)
        /\ \A i \in 3..(Len(b) - 1) : b[i] \notin Finals
    BY <1>0, <2>4, <2>2 DEF Finals
  <2> QED
    BY <1>0, <2>2, <2>3, CsiPart
<1> QED
  BY <1>1, <1>2, <1>3, <1>4, <1>5, <1>6, <1>7, <1>8, <1>9, <1>10, <1>11, <1>12, <1>13, ActCases

--------------------------------------------------------------------------------
(* A turn of feed's loop reads the act that comes next, or nothing.             *)

ParserTurns == [buf : Seq(Alphabet), last : Int, out : Seq(Heard)]

LEMMA Opening ==
  ASSUME NEW a \in All, a \notin {"a", "eacute"}
  PROVE  Bytes(a)[1] = "ESC"
<1>1. CASE a = "Escape"
  BY <1>1, EscapeBytes
<1>2. CASE a = "AltA"
  BY <1>2, AltABytes
<1>3. CASE a = "Up"
  BY <1>3, UpBytes
<1>4. CASE a = "CtrlUp"
  BY <1>4, CtrlUpBytes
<1>5. CASE a = "AppUp"
  BY <1>5, AppUpBytes
<1>6. CASE a = "click1"
  BY <1>6, Click1Bytes
<1>7. CASE a = "move2"
  BY <1>7, Move2Bytes
<1>8. CASE a = "wheel2"
  BY <1>8, Wheel2Bytes
<1>9. CASE a = "status"
  BY <1>9, StatusBytes
<1>10. CASE a = "reply"
  BY <1>10, ReplyBytes
<1>11. CASE a = "size"
  BY <1>11, SizeBytes
<1> QED
  BY <1>1, <1>2, <1>3, <1>4, <1>5, <1>6, <1>7, <1>8, <1>9, <1>10, <1>11, ActCases

\* A mouse report is told as the act that caused it.
LEMMA MouseTold ==
  ASSUME NEW m \in Int, NEW px \in BOOLEAN
  PROVE  /\ MouseEvents(0, ToPixels(1, px), m) = Toward(1, m, px) \o <<[ev |-> "button", what |-> 0]>>
         /\ MouseEvents(32, ToPixels(2, px), m) = Toward(2, m, px)
         /\ MouseEvents(64, ToPixels(2, px), m) = Toward(2, m, px) \o <<[ev |-> "wheel", what |-> 0]>>
<1>1. Pressed(0) = <<[ev |-> "button", what |-> 0]>>
  BY DEF Pressed
<1>2. Pressed(32) = <<>>
  BY DEF Pressed
<1>3. Pressed(64) = <<[ev |-> "wheel", what |-> 0]>>
  BY DEF Pressed
<1>4. /\ MouseEvents(0, ToPixels(1, px), m) = Toward(1, m, px) \o Pressed(0)
      /\ MouseEvents(32, ToPixels(2, px), m) = Toward(2, m, px) \o Pressed(32)
      /\ MouseEvents(64, ToPixels(2, px), m) = Toward(2, m, px) \o Pressed(64)
  BY DEF MouseEvents, Toward
<1>5. Toward(2, m, px) \o <<>> = Toward(2, m, px)
  BY TowardType
<1> QED
  BY <1>1, <1>2, <1>3, <1>4, <1>5, Zenon

LEMMA ToldMouse ==
  ASSUME NEW c, NEW t, NEW px, t.found # <<>>, t.found[1].ev = "mouse"
  PROVE  Tell(c, t, px) = [buf |-> SubSeq(c.buf, t.n + 1, Len(c.buf)),
                           last |-> ToPixels(t.found[1].what[2], px),
                           out |-> c.out \o MouseEvents(t.found[1].what[1],
                                                       ToPixels(t.found[1].what[2], px), c.last)]
BY DEF Tell

LEMMA ToldKey ==
  ASSUME NEW c, NEW t, NEW px, t.found = <<>> \/ t.found[1].ev # "mouse"
  PROVE  Tell(c, t, px) = [buf |-> SubSeq(c.buf, t.n + 1, Len(c.buf)), last |-> c.last,
                           out |-> c.out \o t.found]
BY DEF Tell

LEMMA Turned ==
  ASSUME NEW c \in ParserTurns, c.buf # <<>>, NEW a \in All, NEW w, Step(c.buf) = Took(w, Told(a)),
         NEW px \in BOOLEAN
  PROVE  Turn(c, px) = [buf |-> SubSeq(c.buf, w + 1, Len(c.buf)), last |-> After(a, c.last, px),
                        out |-> c.out \o Ev(a, c.last, px)]
<1> DEFINE found == Told(a)
           rest == SubSeq(c.buf, w + 1, Len(c.buf))
           m == c.last
<1>1. m \in Int
  BY DEF ParserTurns
<1>2. Turn(c, px) = Tell(c, Took(w, found), px)
  BY DEF Turn
<1> DEFINE t == Took(w, found)
<1>t. t.n = w /\ t.found = found
  BY DEF Took
<1>r. rest = SubSeq(c.buf, w + 1, Len(c.buf)) /\ m = c.last
  OBVIOUS
<1> HIDE DEF found, rest, m, t
<1>e. ASSUME found # <<>>, found[1].ev = "mouse"
      PROVE  Tell(c, t, px) = [buf |-> rest, last |-> ToPixels(found[1].what[2], px),
                               out |-> c.out \o MouseEvents(found[1].what[1], ToPixels(found[1].what[2], px), m)]
  BY <1>e, <1>t, <1>r, ToldMouse, Zenon
<1>f. ASSUME found = <<>> \/ found[1].ev # "mouse"
      PROVE  Tell(c, t, px) = [buf |-> rest, last |-> m, out |-> c.out \o found]
  BY <1>f, <1>t, <1>r, ToldKey, Zenon
<1>g. Turn(c, px) = Tell(c, t, px)
  BY <1>2 DEF t
<1>3. CASE a = "click1"
  <2>1. found # <<>> /\ found[1].ev = "mouse" /\ found[1].what[1] = 0 /\ found[1].what[2] = 1
    BY <1>3 DEF found, Told
  <2>2. After(a, m, px) = ToPixels(1, px)
    BY <1>3 DEF After
  <2>3. Ev(a, m, px) = MouseEvents(0, ToPixels(1, px), m)
    <3>1. Ev("click1", m, px) = MouseEvents(0, ToPixels(1, px), m)
      BY <1>1, MouseTold DEF Ev
    <3> QED
      BY <1>3, <3>1
  <2>4. Turn(c, px) = [buf |-> rest, last |-> ToPixels(found[1].what[2], px),
                       out |-> c.out \o MouseEvents(found[1].what[1], ToPixels(found[1].what[2], px), m)]
    BY <1>e, <1>g, <2>1
  <2> QED
    BY <2>1, <2>2, <2>3, <2>4, <1>r
<1>4. CASE a = "move2"
  <2>1. found # <<>> /\ found[1].ev = "mouse" /\ found[1].what[1] = 32 /\ found[1].what[2] = 2
    BY <1>4 DEF found, Told
  <2>2. After(a, m, px) = ToPixels(2, px)
    BY <1>4 DEF After
  <2>3. Ev(a, m, px) = MouseEvents(32, ToPixels(2, px), m)
    <3>1. Ev("move2", m, px) = MouseEvents(32, ToPixels(2, px), m)
      BY <1>1, MouseTold DEF Ev
    <3> QED
      BY <1>4, <3>1
  <2>4. Turn(c, px) = [buf |-> rest, last |-> ToPixels(found[1].what[2], px),
                       out |-> c.out \o MouseEvents(found[1].what[1], ToPixels(found[1].what[2], px), m)]
    BY <1>e, <1>g, <2>1
  <2> QED
    BY <2>1, <2>2, <2>3, <2>4, <1>r
<1>5. CASE a = "wheel2"
  <2>1. found # <<>> /\ found[1].ev = "mouse" /\ found[1].what[1] = 64 /\ found[1].what[2] = 2
    BY <1>5 DEF found, Told
  <2>2. After(a, m, px) = ToPixels(2, px)
    BY <1>5 DEF After
  <2>3. Ev(a, m, px) = MouseEvents(64, ToPixels(2, px), m)
    <3>1. Ev("wheel2", m, px) = MouseEvents(64, ToPixels(2, px), m)
      BY <1>1, MouseTold DEF Ev
    <3> QED
      BY <1>5, <3>1
  <2>4. Turn(c, px) = [buf |-> rest, last |-> ToPixels(found[1].what[2], px),
                       out |-> c.out \o MouseEvents(found[1].what[1], ToPixels(found[1].what[2], px), m)]
    BY <1>e, <1>g, <2>1
  <2> QED
    BY <2>1, <2>2, <2>3, <2>4, <1>r
<1>6. CASE a \notin {"click1", "move2", "wheel2"}
  <2>1. Ev(a, m, px) = found
    BY <1>6 DEF found, Told, Ev
  <2>2. found = <<>> \/ found[1].ev # "mouse"
    BY <1>6 DEF found, Told, Key
  <2>3. After(a, m, px) = m
    BY <1>6 DEF After
  <2>4. Turn(c, px) = [buf |-> rest, last |-> m, out |-> c.out \o found]
    BY <1>f, <1>g, <2>2
  <2> QED
    BY <2>1, <2>3, <2>4, <1>r
<1> QED
  BY <1>3, <1>4, <1>5, <1>6

LEMMA Stuck ==
  ASSUME NEW c \in ParserTurns, c.buf = <<>> \/ Step(c.buf) = NeedMore, NEW px \in BOOLEAN
  PROVE  Turn(c, px) = c
<1> DEFINE rest == SubSeq(c.buf, 1, Len(c.buf))
<1>1. c.buf \in Seq(Alphabet) /\ c.out \in Seq(Heard) /\ c = [buf |-> c.buf, last |-> c.last, out |-> c.out]
  BY DEF ParserTurns
<1>2. NeedMore.n = 0 /\ NeedMore.found = <<>>
  BY DEF NeedMore, Took
<1>3. rest = c.buf /\ c.out \o <<>> = c.out
  BY <1>1
<1>4. Turn(c, px) = [buf |-> rest, last |-> c.last, out |-> c.out \o <<>>]
  <2>1. 0 + 1 = 1 /\ Turn(c, px) = Tell(c, NeedMore, px)
    BY DEF Turn
  <2> QED
    BY <1>2, <2>1, ToldKey
<1> HIDE DEF rest
<1> QED
  BY <1>1, <1>3, <1>4

LEMMA RestOf ==
  ASSUME NEW X, NEW s \in Seq(X), NEW m \in Nat, m <= Len(s), NEW r, r = SubSeq(s, m + 1, Len(s))
  PROVE  /\ r \in Seq(X) /\ Len(r) = Len(s) - m
         /\ \A k \in 1..(Len(s) - m) : r[k] = s[m + k]
OBVIOUS

\* The bytes buf are those of the labels after the d-th, up to the K-th.
Left(buf, L, d, K) == /\ Len(buf) = K - d
                      /\ \A i \in 1..(K - d) : buf[i] = Bytes(L[d + i].a)[L[d + i].o]

\* Of the K bytes that are there d are told, as what is owed after the first n0.
Aligned(c, L, d, K, n0, own, seen) ==
  /\ c \in ParserTurns /\ d \in 0..K /\ Left(c.buf, L, d, K)
  /\ At(L, d, n0 + Len(c.out), c.last, own, seen)
  /\ n0 + Len(c.out) <= Len(own)
  /\ \A j \in 1..Len(c.out) : c.out[j] = own[n0 + j]

LEMMA ActAt ==
  ASSUME NEW own, Len(own) \in Nat, NEW seen, NEW px \in BOOLEAN, NEW L, Ledger(L, own, seen, px),
         NEW d \in Nat, d < Len(L), L[d + 1].o = 1
  PROVE  WholeAct(L, d, L[d + 1].a, L[d + 1].n, L[d + 1].m, Width(L[d + 1].a), own, seen, px)
<1> DEFINE a == L[d + 1].a
           n == L[d + 1].n
           m == L[d + 1].m
           w == Width(a)
<1>1. a = L[d + 1].a /\ n = L[d + 1].n /\ m = L[d + 1].m /\ w = Width(a)
  OBVIOUS
<1> HIDE DEF a, n, m, w
<1>3. WholeAct(L, d, a, n, m, w, own, seen, px)
  BY <1>1, NextAct
<1> QED
  BY <1>1, <1>3, Zenon

\* The event e of a turn is what is owed next.
LEMMA ToldNext ==
  ASSUME NEW own \in Seq(Heard), NEW n0 \in Nat, NEW out \in Seq(Heard), NEW e \in Seq(Heard),
         \A j \in 1..Len(out) : out[j] = own[n0 + j],
         \A j \in 1..Len(e) : own[n0 + Len(out) + j] = e[j], NEW t, t = out \o e
  PROVE  t \in Seq(Heard) /\ Len(t) = Len(out) + Len(e) /\ \A j \in 1..Len(t) : t[j] = own[n0 + j]
<1>1. /\ t \in Seq(Heard) /\ Len(t) = Len(out) + Len(e) /\ Len(out) \in Nat /\ Len(e) \in Nat
      /\ \A k \in 1..Len(out) : t[k] = out[k]
      /\ \A k \in 1..Len(e) : t[Len(out) + k] = e[k]
  BY Glued
<1>2. ASSUME NEW j \in 1..Len(t) PROVE t[j] = own[n0 + j]
  <2>1. CASE j <= Len(out)
    BY <1>1, <2>1
  <2>2. CASE j > Len(out)
    <3>1. j - Len(out) \in 1..Len(e) /\ Len(out) + (j - Len(out)) = j
          /\ n0 + Len(out) + (j - Len(out)) = n0 + j
      BY <1>1, <2>2
    <3>2. t[j] = e[j - Len(out)]
      BY <1>1, <3>1
    <3>3. own[n0 + j] = e[j - Len(out)]
      BY <3>1
    <3> QED
      BY <3>2, <3>3
  <2> QED
    BY <1>1, <2>1, <2>2
<1> QED
  BY <1>1, <1>2

LEMMA OneTurn ==
  ASSUME NEW own \in Seq(Heard), NEW seen, NEW px \in BOOLEAN, NEW L, Ledger(L, own, seen, px),
         NEW K \in 0..Len(L), NEW d, NEW c, NEW n0 \in Nat, Aligned(c, L, d, K, n0, own, seen)
  PROVE  \/ Turn(c, px) = c /\ Len(c.buf) <= 8
         \/ \E w \in 1..(K - d) : Aligned(Turn(c, px), L, d + w, K, n0, own, seen)
<1> DEFINE buf == c.buf
           out == c.out
           m == c.last
           n == n0 + Len(out)
<1>1. /\ L \in Seq(Labels) /\ Len(L) \in Nat /\ K \in Nat /\ d \in Nat /\ d <= K /\ K <= Len(L)
      /\ c \in ParserTurns /\ buf \in Seq(Alphabet) /\ out \in Seq(Heard) /\ m \in Int
      /\ Len(buf) = K - d /\ n \in Nat /\ Len(buf) \in Nat
  BY DEF Aligned, Ledger, ParserTurns, Left
<1>2. /\ \A i \in 1..(K - d) : buf[i] = Bytes(L[d + i].a)[L[d + i].o]
      /\ At(L, d, n, m, own, seen) /\ n <= Len(own)
      /\ \A j \in 1..Len(out) : out[j] = own[n0 + j]
  BY DEF Aligned, Left
<1>3. CASE d = K
  <2>1. buf = <<>>
    BY <1>1, <1>3
  <2> QED
    BY <1>1, <2>1, Stuck
<1>4. CASE d < K
  <2> DEFINE a == L[d + 1].a
             w == Width(a)
             ev == Ev(a, m, px)
             Behind == \/ w > K - d
                       \/ a = "Escape" /\ K - d = 1
  <2>1. L[d + 1].o = 1 /\ L[d + 1].n = n /\ L[d + 1].m = m
    BY <1>1, <1>2, <1>4 DEF At
  <2> HIDE DEF n, m, buf, out
  <2>2. /\ a \in All /\ w \in 1..9 /\ d + w <= Len(L)
        /\ \A i \in 1..w : L[d + i].a = a /\ L[d + i].o = i
        /\ At(L, d + w, n + Len(ev), After(a, m, px), own, seen)
        /\ a = "Escape" /\ d + w < Len(L) => L[d + w + 1].a \notin {"a", "eacute"}
    <3>1. Len(own) \in Nat /\ d < Len(L)
      BY <1>1, <1>4
    <3>2. WholeAct(L, d, L[d + 1].a, L[d + 1].n, L[d + 1].m, Width(L[d + 1].a), own, seen, px)
      BY <1>1, <2>1, <3>1, ActAt
    <3>3. a = L[d + 1].a /\ w = Width(L[d + 1].a) /\ n = L[d + 1].n /\ m = L[d + 1].m
      BY <2>1
    <3>4. ev = Ev(a, m, px)
      OBVIOUS
    <3> HIDE DEF a, w, ev
    <3>5. WholeAct(L, d, a, n, m, w, own, seen, px)
      BY <3>2, <3>3, Zenon
    <3> QED
      BY <3>4, <3>5, Zenon DEF WholeAct
  <2>3. n + Len(ev) <= Len(own) /\ \A j \in 1..Len(ev) : own[n + j] = ev[j]
    <3>1. Owing(L[d + 1], own, px)
      BY <1>1, <1>4 DEF Ledger
    <3> QED
      BY <2>1, <3>1 DEF Owing
  <2>4. ev \in Seq(Heard) /\ After(a, m, px) \in Int
    BY <1>1, <2>2, EvType
  <2>w. w = Width(a)
    OBVIOUS
  <2>a. a \in All /\ w \in 1..9 /\ w \in Nat /\ d + w <= Len(L)
    BY <2>2
  <2>i. \A i \in 1..w : L[d + i].a = a /\ L[d + i].o = i
    BY <2>2
  <2>k. /\ Len(buf) = K - d /\ Len(buf) \in Nat /\ K \in Nat /\ d \in Nat
    BY <1>1
  <2> HIDE DEF a, ev, w
  <2>5. \A i \in 1..(K - d) : i <= w => buf[i] = Bytes(a)[i]
    <3> TAKE i \in 1..(K - d)
    <3> HAVE i <= w
    <3>1. i \in 1..w
      BY <2>a, <2>k
    <3>2. L[d + i].a = a /\ L[d + i].o = i
      BY <2>i, <3>1
    <3> QED
      BY <1>2, <3>2
  <2>6. CASE Behind
    <3>1. Part(buf, a)
      <4>1. Len(buf) >= 1 /\ Len(buf) <= w
        BY <1>4, <2>k, <2>a, <2>6
      <4>2. \A i \in 1..Len(buf) : buf[i] = Bytes(a)[i]
        BY <2>k, <2>a, <2>5, <4>1
      <4>3. Len(buf) < w \/ (a = "Escape" /\ Len(buf) = 1)
        BY <2>k, <2>a, <2>6
      <4> QED
        BY <2>w, <4>1, <4>2, <4>3 DEF Part
    <3>2. Step(buf) = NeedMore
      BY <1>1, <2>2, <3>1, StepPart
    <3>3. Len(buf) <= 8
      BY <2>k, <2>a, <2>6
    <3>4. Turn(c, px) = c
      BY <1>1, <3>2, Stuck DEF buf
    <3> QED
      BY <3>3, <3>4 DEF buf
  <2>7. CASE ~Behind
    <3>0. w <= K - d /\ (a = "Escape" => K - d # 1)
      BY <2>k, <2>a, <2>7
    <3>1. Starts(buf, a)
      <4>1. w <= Len(buf) /\ \A i \in 1..w : buf[i] = Bytes(a)[i]
        BY <2>k, <2>a, <2>5, <3>0
      <4> QED
        BY <2>w, <4>1 DEF Starts
    <3>2. ASSUME a = "Escape" PROVE Len(buf) > 1 /\ buf[2] = "ESC"
      <4>1. w = 1
        BY <2>w, <3>2, EscapeBytes DEF Width
      <4>2. K - d > 1 /\ d + 1 < Len(L) /\ d + 1 + 1 = d + 2
        BY <1>1, <1>4, <3>0, <3>2
      <4>a. At(L, d + 1, n + Len(ev), After(a, m, px), own, seen)
        BY <2>2, <4>1
      <4>b. L[d + 1 + 1].o = 1
        BY <4>2, <4>a DEF At
      <4>c. L[d + 1 + 1].a \notin {"a", "eacute"}
        BY <2>2, <3>2, <4>1, <4>2
      <4>3. L[d + 2].a \notin {"a", "eacute"} /\ L[d + 2].o = 1
        BY <4>2, <4>b, <4>c, Zenon
      <4>d. d + 2 \in 1..Len(L) /\ L \in Seq(Labels)
        BY <1>1, <4>2
      <4>4. L[d + 2].a \in All
        BY <4>d, LabelType, Zenon
      <4>5. buf[2] = Bytes(L[d + 2].a)[1]
        BY <1>1, <1>2, <4>2, <4>3
      <4>6. Bytes(L[d + 2].a)[1] = "ESC"
        BY <4>3, <4>4, Opening
      <4> QED
        BY <1>1, <4>2, <4>5, <4>6
    <3>3. Step(buf) = Took(w, Told(a))
      BY <1>1, <2>w, <2>2, <3>1, <3>2, StepWhole
    <3> DEFINE t == Turn(c, px)
               rest == SubSeq(buf, w + 1, Len(buf))
               told == out \o ev
    <3>4. t = [buf |-> rest, last |-> After(a, m, px), out |-> told]
      <4>1. c.buf # <<>>
        BY <1>1, <1>4 DEF buf
      <4> QED
        BY <1>1, <2>2, <3>3, <4>1, Turned DEF buf, m, out, ev
    <3> HIDE DEF t
    <3>5. /\ rest \in Seq(Alphabet) /\ Len(rest) = K - (d + w)
          /\ \A i \in 1..(K - (d + w)) : rest[i] = buf[w + i]
      <4>1. w \in Nat /\ Len(buf) \in Nat /\ w <= Len(buf) /\ Len(buf) - w = K - (d + w)
        BY <2>k, <2>a, <3>0
      <4> HIDE DEF rest
      <4>2. rest = SubSeq(buf, w + 1, Len(buf))
        BY DEF rest
      <4>3. /\ rest \in Seq(Alphabet) /\ Len(rest) = Len(buf) - w
            /\ \A k \in 1..(Len(buf) - w) : rest[k] = buf[w + k]
        BY <1>1, <4>1, <4>2, RestOf
      <4> QED
        BY <4>1, <4>3
    <3>6. told \in Seq(Heard) /\ Len(told) = Len(out) + Len(ev)
          /\ \A j \in 1..Len(told) : told[j] = own[n0 + j]
      <4>1. \A j \in 1..Len(ev) : own[n0 + Len(out) + j] = ev[j]
        BY <2>3 DEF n
      <4> HIDE DEF told
      <4>2. told = out \o ev
        BY DEF told
      <4> QED
        <5>1. out \in Seq(Heard) /\ ev \in Seq(Heard) /\ n0 \in Nat /\ own \in Seq(Heard)
          BY <1>1, <2>4
        <5>2. \A j \in 1..Len(out) : out[j] = own[n0 + j]
          BY <1>2
        <5> QED
          BY <4>1, <4>2, <5>1, <5>2, ToldNext
    <3> HIDE DEF rest, told
    <3>7. t \in ParserTurns /\ t.buf = rest /\ t.out = told /\ t.last = After(a, m, px)
      BY <2>4, <3>4, <3>5, <3>6 DEF ParserTurns
    <3>8. d + w \in 0..K
      BY <2>k, <2>a, <3>0
    <3>9. Left(rest, L, d + w, K)
      <4>1. ASSUME NEW i \in 1..(K - (d + w)) PROVE rest[i] = Bytes(L[d + w + i].a)[L[d + w + i].o]
        <5>1. w + i \in 1..(K - d) /\ d + (w + i) = d + w + i
          BY <2>k, <2>a, <3>0
        <5>2. buf[w + i] = Bytes(L[d + w + i].a)[L[d + w + i].o]
          BY <1>2, <5>1
        <5> QED
          BY <3>5, <5>2
      <4> QED
        BY <3>5, <4>1 DEF Left
    <3>10. n0 + Len(told) = n + Len(ev)
      BY <1>1, <2>4, <3>6 DEF n
    <3>11. Aligned(t, L, d + w, K, n0, own, seen)
      BY <2>2, <2>3, <3>6, <3>7, <3>8, <3>9, <3>10 DEF Aligned
    <3>12. w \in 1..(K - d)
      BY <2>k, <2>a, <3>0
    <3> QED
      BY <3>11, <3>12 DEF t
  <2> QED
    BY <2>6, <2>7
<1> QED
  BY <1>1, <1>3, <1>4

--------------------------------------------------------------------------------
(* feed tells all of what is whole, in order, and keeps the rest.               *)

LEMMA FedReads ==
  ASSUME NEW own \in Seq(Heard), NEW seen, NEW px \in BOOLEAN, NEW L, Ledger(L, own, seen, px),
         NEW K \in 0..Len(L), NEW p, p.buf \in Seq(Alphabet), p.last \in Int,
         NEW bytes \in Seq(Alphabet), Left(p.buf \o bytes, L, 0, K),
         NEW n0 \in Nat, n0 <= Len(own), At(L, 0, n0, p.last, own, seen), NEW t, t = Fed(p, bytes, px)
  PROVE  \E d \in 0..K : Aligned(t, L, d, K, n0, own, seen) /\ Len(t.buf) <= 8
<1> DEFINE buf == p.buf \o bytes
           x0 == [buf |-> buf, last |-> p.last, out |-> <<>>]
           N == Len(buf)
           Is(c, d) == Aligned(c, L, d, K, n0, own, seen)
           X == {c \in ParserTurns : \E d \in 0..K : Is(c, d)}
           step == [q \in (1..N) \X X |-> Turn(q[2], px)]
           Body(f, n) == IF n = 0 THEN x0 ELSE Turn(f[n - 1], px)
           R == CHOOSE f : f = [n \in 0..N |-> Body(f, n)]
<1>1. buf \in Seq(Alphabet) /\ N \in Nat /\ N = K /\ K \in Nat /\ Len(L) \in Nat
  BY DEF Left, Ledger
<1>2. Is(x0, 0)
  <2>0. x0.buf = buf /\ x0.last = p.last /\ x0.out = <<>> /\ Len(x0.out) = 0 /\ n0 + Len(x0.out) = n0
    OBVIOUS
  <2>1. x0 \in ParserTurns
    <3>1. <<>> \in Seq(Heard)
      OBVIOUS
    <3> HIDE DEF buf
    <3> QED
      BY <1>1, <3>1 DEF ParserTurns
  <2>2. Left(x0.buf, L, 0, K)
    OBVIOUS
  <2> HIDE DEF x0, buf
  <2>3. 0 \in 0..K /\ \A j \in 1..Len(x0.out) : x0.out[j] = own[n0 + j]
    BY <1>1, <2>0
  <2> QED
    BY <2>0, <2>1, <2>2, <2>3 DEF Aligned
<1> HIDE DEF x0, buf
<1>3. ASSUME NEW c, NEW d \in 0..K, Is(c, d)
      PROVE  \/ Turn(c, px) = c /\ Len(c.buf) <= 8
             \/ \E w \in 1..(K - d) : Is(Turn(c, px), d + w)
  BY <1>3, OneTurn
<1>4. ASSUME NEW c, NEW d, Is(c, d) PROVE c \in X
  BY <1>4 DEF Aligned
<1>5. \A c \in X : Turn(c, px) \in X
  <2> TAKE c \in X
  <2>1. PICK d \in 0..K : Is(c, d)
    OBVIOUS
  <2> HIDE DEF X, Is
  <2>2. CASE Turn(c, px) = c
    BY <2>2
  <2>3. CASE Turn(c, px) # c
    <3>1. PICK w \in 1..(K - d) : Is(Turn(c, px), d + w)
      BY <1>3, <2>1, <2>3
    <3> QED
      BY <1>4, <3>1
  <2> QED
    BY <2>2, <2>3
<1>6. x0 \in X
  BY <1>2, <1>4
<1>7. step \in [(1..N) \X X -> X] /\ \A k \in 1..N, x \in X : step[<<k, x>>] = Turn(x, px)
  <2> HIDE DEF X, N
  <2> QED
    BY <1>5
<1> HIDE DEF step, X, Is
<1>8. PICK f \in [0..N -> X] : f[0] = x0 /\ \A k \in 1..N : f[k] = step[<<k, f[k - 1]>>]
  <2> HIDE DEF N
  <2>1. Recurs(N, X, x0, step)
    BY <1>1, <1>6, <1>7, Recursion
  <2> QED
    BY <2>1 DEF Recurs
<1>9. \A k \in 1..N : f[k] = Turn(f[k - 1], px)
  <2> TAKE k \in 1..N
  <2>1. k - 1 \in 0..N
    BY <1>1
  <2> QED
    BY <1>7, <1>8, <2>1
<1>10. f = [n \in 0..N |-> Body(f, n)]
  <2>1. \A n \in 0..N : f[n] = Body(f, n)
    BY <1>1, <1>8, <1>9
  <2> HIDE DEF Body
  <2> QED
    BY <2>1
<1>11. R = [n \in 0..N |-> Body(R, n)]
  <2> HIDE DEF Body
  <2> QED
    BY <1>10
<1>12. t = [R[N] EXCEPT !.buf = IF Len(@) > MaxSequence THEN <<>> ELSE @]
  BY DEF Fed, buf, x0
<1> HIDE DEF R
<1>13. \A n \in 0..N : R[n] = Body(R, n)
  <2> HIDE DEF Body
  <2> QED
    BY <1>11
<1>14. R[0] = x0 /\ \A k \in 1..N : R[k] = Turn(R[k - 1], px)
  BY <1>1, <1>13
<1> DEFINE Most(k) == \E d \in 0..K : /\ Is(R[k], d)
                                      /\ d >= k \/ (Turn(R[k], px) = R[k] /\ Len(R[k].buf) <= 8)
           S == {k \in 0..N : Most(k)}
<1>15. 0 \in S
  <2>1. 0 \in 0..K /\ Is(R[0], 0) /\ 0 >= 0
    BY <1>1, <1>2, <1>14
  <2> QED
    BY <1>1, <2>1
<1>16. ASSUME NEW k \in 0..(N - 1), k \in S PROVE k + 1 \in S
  <2>1. PICK d \in 0..K : Is(R[k], d) /\ (d >= k \/ (Turn(R[k], px) = R[k] /\ Len(R[k].buf) <= 8))
    BY <1>16
  <2>2. k + 1 \in 1..N /\ k + 1 - 1 = k /\ k \in Nat /\ d \in Nat
    BY <1>1
  <2>3. R[k + 1] = Turn(R[k], px)
    BY <1>14, <2>2
  <2>4. CASE Turn(R[k], px) = R[k] /\ Len(R[k].buf) <= 8
    <3>1. R[k + 1] = R[k]
      BY <2>3, <2>4
    <3>2. Most(k + 1)
      BY <2>1, <2>4, <3>1
    <3> HIDE DEF Most
    <3> QED
      BY <2>2, <3>2
  <2>5. CASE ~(Turn(R[k], px) = R[k] /\ Len(R[k].buf) <= 8)
    <3>1. PICK w \in 1..(K - d) : Is(Turn(R[k], px), d + w)
      BY <1>3, <2>1, <2>5
    <3>2. d + w \in 0..K /\ d + w >= k + 1
      BY <1>1, <2>1, <2>2, <2>5
    <3>3. Is(R[k + 1], d + w)
      BY <2>3, <3>1
    <3>4. Most(k + 1)
      BY <3>2, <3>3
    <3> HIDE DEF Most
    <3> QED
      BY <2>2, <3>4
  <2> QED
    BY <2>4, <2>5
<1>17. Most(N)
  <2> HIDE DEF Most
  <2>1. 0..N \subseteq S
    <3> HIDE DEF S, N
    <3> QED
      BY <1>1, <1>15, <1>16, UpTo
  <2>2. N \in 0..N
    BY <1>1
  <2> QED
    BY <2>1, <2>2
<1>18. PICK d \in 0..K : Is(R[N], d) /\ (d >= N \/ (Turn(R[N], px) = R[N] /\ Len(R[N].buf) <= 8))
  BY <1>17
<1> DEFINE e == R[N]
<1>19. e \in ParserTurns /\ Len(e.buf) = K - d /\ d \in Nat
  BY <1>1, <1>18 DEF Is, Aligned, Left
<1>20. Is(e, d) /\ Len(e.buf) <= 8
  BY <1>1, <1>18, <1>19
<1> HIDE DEF e
<1>21. t = e
  <2>1. t = [e EXCEPT !.buf = IF Len(e.buf) > MaxSequence THEN <<>> ELSE e.buf]
    BY <1>12 DEF e
  <2>2. ~(Len(e.buf) > MaxSequence)
    BY <1>1, <1>19, <1>20, InputAssumption
  <2>3. t = [e EXCEPT !.buf = e.buf]
    BY <2>1, <2>2
  <2> QED
    BY <1>19, <2>3 DEF ParserTurns
<1> QED
  BY <1>20, <1>21 DEF Is

--------------------------------------------------------------------------------
(* What becomes of the labels: the told ones leave, an act adds its own, and    *)
(* the answer to the query is taken out.                                        *)

LEMMA FollowsNext ==
  ASSUME NEW x, NEW y, NEW px, NEW w, w = Width(x.a), w \in Nat, x.o = w, y.o = 1,
         y.n = x.n + Len(Ev(x.a, x.m, px)), y.m = After(x.a, x.m, px),
         x.a = "Escape" => y.a \notin {"a", "eacute", "size"}
  PROVE  Follows(x, y, px)
<1>1. ~(x.o < w)
  OBVIOUS
<1> QED
  BY <1>1, Zenon DEF Follows

LEMMA FollowsIn ==
  ASSUME NEW x, NEW y, NEW px, NEW w, w = Width(x.a), NEW k, x.o = k, k < w, y.o = k + 1,
         y.a = x.a, y.n = x.n, y.m = x.m
  PROVE  Follows(x, y, px)
<1>1. x.o < Width(x.a) /\ y.o = x.o + 1
  OBVIOUS
<1> QED
  BY <1>1, Zenon DEF Follows

\* K is what stands in L after d.
Behind(K, L, d) == Len(K) = Len(L) - d /\ \A i \in 1..Len(K) : K[i] = L[d + i]

LEMMA Beheaded ==
  ASSUME NEW own, NEW seen, NEW px, NEW L, Ledger(L, own, seen, px),
         NEW d \in 0..Len(L), NEW n, NEW m, At(L, d, n, m, own, seen),
         NEW K, K = SubSeq(L, d + 1, Len(L))
  PROVE  /\ Ledger(K, own, seen, px) /\ At(K, 0, n, m, own, seen)
         /\ Behind(K, L, d)
<1>1. L \in Seq(Labels) /\ Len(L) \in Nat /\ d \in Nat /\ d <= Len(L)
  BY DEF Ledger
<1>2. /\ K \in Seq(Labels) /\ Len(K) = Len(L) - d /\ \A i \in 1..(Len(L) - d) : K[i] = L[d + i]
  BY <1>1, RestOf
<1>3. Len(K) \in Nat /\ \A i \in 1..Len(K) : K[i] = L[d + i] /\ d + i \in 1..Len(L)
  BY <1>1, <1>2
<1>4. Chain(K, px)
  <2>1. ASSUME NEW i \in 1..Len(K) PROVE K[i].o <= Width(K[i].a)
    <3>1. L[d + i].o <= Width(L[d + i].a)
      BY <1>3 DEF Ledger, Chain
    <3> QED
      BY <1>3, <3>1
  <2>2. ASSUME NEW i \in 1..Len(K), i < Len(K) PROVE Follows(K[i], K[i + 1], px)
    <3>1. i + 1 \in 1..Len(K) /\ d + i < Len(L) /\ d + (i + 1) = d + i + 1 /\ d + i \in 1..Len(L)
      BY <1>1, <1>2, <2>2
    <3>2. Follows(L[d + i], L[d + i + 1], px)
      BY <3>1 DEF Ledger, Chain
    <3>3. K[i] = L[d + i] /\ K[i + 1] = L[d + (i + 1)]
      BY <1>3, <3>1
    <3> QED
      BY <3>1, <3>2, <3>3
  <2> QED
    BY <2>1, <2>2 DEF Chain
<1>5. WithoutGap(K, own, seen, px)
  <2> SUFFICES ASSUME Len(K) # 0
               PROVE  LET x == K[Len(K)]
                      IN  /\ x.o = Width(x.a) /\ Len(own) = x.n + Len(Ev(x.a, x.m, px))
                          /\ seen = After(x.a, x.m, px)
    BY DEF WithoutGap
  <2>1. Len(L) # 0 /\ Len(K) \in 1..Len(K) /\ d + Len(K) = Len(L)
    BY <1>1, <1>2
  <2>2. K[Len(K)] = L[Len(L)]
    BY <1>3, <2>1
  <2> QED
    BY <2>1, <2>2 DEF Ledger, WithoutGap
<1>6. \A i \in 1..Len(K) : Owing(K[i], own, px)
  BY <1>3 DEF Ledger
<1>7. At(K, 0, n, m, own, seen)
  <2>1. CASE d = Len(L)
    <3>1. Len(K) = 0
      BY <1>1, <1>2, <2>1
    <3> QED
      BY <2>1, <3>1 DEF At
  <2>2. CASE d # Len(L)
    <3>1. Len(K) # 0 /\ 1 \in 1..Len(K)
      BY <1>1, <1>2, <2>2
    <3>2. K[1] = L[d + 1]
      BY <1>3, <3>1
    <3> QED
      BY <2>2, <3>1, <3>2 DEF At
  <2> QED
    BY <2>1, <2>2
<1> QED
  BY <1>2, <1>3, <1>4, <1>5, <1>6, <1>7 DEF Ledger, Behind

\* The labels of an act, behind n events that are owed and the mouse at m.
Sentence(a, n, m) == [k \in 1..Width(a) |-> [a |-> a, o |-> k, n |-> n, m |-> m]]

\* M is L with the bytes of a behind it.
Adds(M, L, a, w) == /\ Len(M) = Len(L) + w /\ \A i \in 1..Len(L) : M[i] = L[i]
                    /\ \A k \in 1..w : M[Len(L) + k].a = a /\ M[Len(L) + k].o = k

Grown(M, L, own, seen, px, n, m, a) ==
  Ledger(M, own, seen, px) /\ At(M, 0, n, m, own, seen) /\ Adds(M, L, a, Width(a))

LEMMA Growing ==
  ASSUME NEW own \in Seq(Heard), NEW px \in BOOLEAN, NEW seen \in Int,
         NEW L, Ledger(L, own, seen, px), NEW n, NEW m, At(L, 0, n, m, own, seen), NEW a \in All,
         Len(L) # 0 /\ L[Len(L)].a = "Escape" => a \notin {"a", "eacute", "size"}
  PROVE  Grown(L \o Sentence(a, Len(own), seen), L, own \o Ev(a, seen, px), After(a, seen, px), px,
               n, m, a)
<1> DEFINE w == Width(a)
           x == Sentence(a, Len(own), seen)
           K == L \o x
           seen2 == After(a, seen, px)
           ev == Ev(a, seen, px)
           own2 == own \o ev
<1>0. /\ w = Width(a) /\ x = Sentence(a, Len(own), seen) /\ K = L \o x /\ seen2 = After(a, seen, px)
      /\ ev = Ev(a, seen, px) /\ own2 = own \o ev
  OBVIOUS
<1> HIDE DEF w, x, K, seen2, ev, own2
<1> USE <1>0
<1>1. /\ L \in Seq(Labels) /\ Len(L) \in Nat /\ w \in 1..9 /\ Len(own) \in Nat
      /\ ev \in Seq(Heard) /\ Len(ev) \in Nat
  <2>1. L \in Seq(Labels) /\ Len(L) \in Nat /\ Len(own) \in Nat
    BY DEF Ledger
  <2>2. w \in 1..9
    BY Lengths DEF Width
  <2>3. ev \in Seq(Heard)
    BY EvType
  <2> QED
    BY <2>1, <2>2, <2>3
<1>2. x \in Seq(Labels) /\ Len(x) = w
  <2>1. \A k \in 1..w : [a |-> a, o |-> k, n |-> Len(own), m |-> seen] \in Labels
    BY <1>1 DEF Labels
  <2>2. x \in [1..w -> Labels]
    BY <2>1 DEF Sentence
  <2>3. w \in Nat
    BY <1>1
  <2> QED
    BY <2>2, <2>3, Sequence
<1>3. /\ K \in Seq(Labels) /\ Len(K) = Len(L) + w
      /\ \A i \in 1..Len(L) : K[i] = L[i]
      /\ \A k \in 1..w : K[Len(L) + k] = x[k]
  BY <1>1, <1>2, Glued
<1>4. \A k \in 1..w : x[k].a = a /\ x[k].o = k /\ x[k].n = Len(own) /\ x[k].m = seen
  BY <1>2 DEF Sentence
<1>5. ASSUME NEW k \in 1..w, NEW i, i = Len(L) + k
      PROVE  K[i].a = a /\ K[i].o = k /\ K[i].n = Len(own) /\ K[i].m = seen
  BY <1>3, <1>4, <1>5
<1>6. /\ own2 \in Seq(Heard) /\ Len(own2) = Len(own) + Len(ev)
      /\ \A k \in 1..Len(own) : own2[k] = own[k]
      /\ \A k \in 1..Len(ev) : own2[Len(own) + k] = ev[k]
  BY <1>1, Glued
<1>7. Chain(K, px)
  <2>1. ASSUME NEW i \in 1..Len(K), i < Len(L) PROVE K[i].o <= Width(K[i].a) /\ Follows(K[i], K[i + 1], px)
    <3>1. i \in 1..Len(L) /\ i + 1 \in 1..Len(L)
      BY <1>1, <2>1
    <3>2. L[i].o <= Width(L[i].a) /\ Follows(L[i], L[i + 1], px)
      BY <2>1, <3>1 DEF Ledger, Chain
    <3> QED
      BY <1>3, <3>1, <3>2
  <2>2. ASSUME NEW i \in 1..Len(K), i = Len(L) PROVE K[i].o <= Width(K[i].a) /\ Follows(K[i], K[i + 1], px)
    <3>1. i \in 1..Len(L) /\ Len(L) # 0 /\ 1 \in 1..w /\ K[i] = L[i]
      BY <1>1, <1>3, <2>2
    <3>2. /\ K[i].o = Width(K[i].a) /\ Len(own) = K[i].n + Len(Ev(K[i].a, K[i].m, px))
          /\ seen = After(K[i].a, K[i].m, px)
      BY <2>2, <3>1 DEF Ledger, WithoutGap
    <3>3. K[i + 1].a = a /\ K[i + 1].o = 1 /\ K[i + 1].n = Len(own) /\ K[i + 1].m = seen
      <4>1. i + 1 = Len(L) + 1
        BY <2>2
      <4> QED
        BY <1>5, <3>1, <4>1, Zenon
    <3>4. Width(K[i].a) \in Nat
      <4>1. Width(L[i].a) \in 1..9
        BY <1>1, <3>1, LabelType
      <4> QED
        BY <3>1, <4>1
    <3>5. K[i].a = "Escape" => a \notin {"a", "eacute", "size"}
      BY <2>2, <3>1
    <3> DEFINE v == Width(K[i].a)
    <3>6. v = Width(K[i].a) /\ v \in Nat /\ K[i].o = v
      BY <3>2, <3>4
    <3>7. /\ K[i + 1].n = K[i].n + Len(Ev(K[i].a, K[i].m, px)) /\ K[i + 1].m = After(K[i].a, K[i].m, px)
          /\ K[i].a = "Escape" => K[i + 1].a \notin {"a", "eacute", "size"}
      BY <3>2, <3>3, <3>5
    <3> HIDE DEF v
    <3>8. Follows(K[i], K[i + 1], px)
      BY <3>3, <3>6, <3>7, FollowsNext, Zenon
    <3>9. v <= v
      BY <3>6
    <3> QED
      BY <3>6, <3>8, <3>9
  <2>3. ASSUME NEW i \in 1..Len(K), i > Len(L)
        PROVE  K[i].o <= Width(K[i].a) /\ (i < Len(K) => Follows(K[i], K[i + 1], px))
    <3> DEFINE k == i - Len(L)
    <3>1. k \in 1..w /\ i = Len(L) + k /\ (i < Len(K) => k + 1 \in 1..w /\ i + 1 = Len(L) + (k + 1) /\ k < w)
      BY <1>1, <1>3, <2>3
    <3> HIDE DEF k
    <3>2. K[i].a = a /\ K[i].o = k /\ K[i].n = Len(own) /\ K[i].m = seen
      BY <1>5, <3>1, Zenon
    <3>3. ASSUME i < Len(K) PROVE Follows(K[i], K[i + 1], px)
      <4>1. K[i + 1].a = a /\ K[i + 1].o = k + 1 /\ K[i + 1].n = Len(own) /\ K[i + 1].m = seen
        BY <1>5, <3>1, <3>3, Zenon
      <4>2. k < w
        BY <3>1, <3>3
      <4> QED
        BY <3>2, <4>1, <4>2, FollowsIn
    <3>4. k <= w
      BY <1>1, <3>1
    <3> QED
      BY <3>2, <3>3, <3>4
  <2>4. \A i \in 1..Len(K) : i < Len(L) \/ i = Len(L) \/ i > Len(L)
    BY <1>1, <1>3
  <2> QED
    BY <2>1, <2>2, <2>3, <2>4 DEF Chain
<1>8. WithoutGap(K, own2, seen2, px)
  <2>0. w \in 1..w /\ Len(K) = Len(L) + w
    BY <1>1, <1>3
  <2>1. K[Len(K)].a = a /\ K[Len(K)].o = w /\ K[Len(K)].n = Len(own) /\ K[Len(K)].m = seen
    BY <1>5, <2>0, Zenon
  <2> QED
    BY <1>6, <2>1 DEF WithoutGap
<1>9. ASSUME NEW i \in 1..Len(K) PROVE Owing(K[i], own2, px)
  <2>1. CASE i <= Len(L)
    <3>1. i \in 1..Len(L) /\ K[i] = L[i]
      BY <1>1, <1>3, <2>1
    <3> DEFINE e == Ev(L[i].a, L[i].m, px)
               n0 == L[i].n
    <3>2. n0 + Len(e) <= Len(own) /\ \A j \in 1..Len(e) : own[n0 + j] = e[j]
      BY <3>1 DEF Ledger, Owing
    <3>3. n0 \in Nat /\ Len(e) \in Nat
      BY <1>1, <3>1, LabelType, EvType
    <3> HIDE DEF e, n0
    <3>4. n0 + Len(e) <= Len(own2) /\ \A j \in 1..Len(e) : own2[n0 + j] = e[j]
      BY <1>1, <1>6, <3>2, <3>3
    <3> QED
      BY <3>1, <3>4 DEF Owing, e, n0
  <2>2. CASE i > Len(L)
    <3>1. i - Len(L) \in 1..w /\ i = Len(L) + (i - Len(L))
      BY <1>1, <1>3, <2>2
    <3>2. K[i].a = a /\ K[i].n = Len(own) /\ K[i].m = seen
      BY <1>5, <3>1, Zenon
    <3> QED
      BY <1>1, <1>6, <3>2 DEF Owing
  <2> QED
    BY <1>1, <1>3, <2>1, <2>2
<1>10. At(K, 0, n, m, own2, seen2)
  <2>0. Len(K) # 0
    BY <1>1, <1>3
  <2>1. CASE Len(L) = 0
    <3>1. K[1].o = 1 /\ K[1].n = Len(own) /\ K[1].m = seen
      <4>1. 1 \in 1..w /\ 1 = Len(L) + 1
        BY <1>1, <2>1
      <4> QED
        BY <1>5, <4>1, Zenon
    <3>2. n = Len(own) /\ m = seen
      BY <2>1 DEF At
    <3> QED
      BY <2>0, <3>1, <3>2 DEF At
  <2>2. CASE Len(L) # 0
    <3>1. K[1] = L[1]
      BY <1>1, <1>3, <2>2
    <3> QED
      BY <2>0, <2>2, <3>1 DEF At
  <2> QED
    BY <2>1, <2>2
<1>11. Ledger(K, own2, seen2, px)
  BY <1>3, <1>7, <1>8, <1>9 DEF Ledger
<1>12. \A k \in 1..w : K[Len(L) + k].a = a /\ K[Len(L) + k].o = k
  BY <1>5, Zenon
<1>13. Adds(K, L, a, w)
  BY <1>3, <1>12 DEF Adds
<1> QED
  BY <1>10, <1>11, <1>13, Zenon DEF Grown

\* The bytes of an answer that end with its t begin with its first.
LEMMA WholeAnswer ==
  ASSUME NEW own, NEW seen, NEW px, NEW L, Ledger(L, own, seen, px),
         NEW i \in Nat, i >= 1, NEW e, e = i + 7, e <= Len(L), NEW x, x = L[e], x.a = "size", x.o = 8,
         NEW n, n = x.n, NEW m, m = x.m
  PROVE  L[i].a = "size" /\ L[i].o = 1 /\ L[i].n = n /\ L[i].m = m
<1>0. L \in Seq(Labels) /\ Len(L) \in Nat
  BY DEF Ledger
<1> DEFINE Is(j) == /\ L[i + 7 - j].a = "size" /\ L[i + 7 - j].o = 8 - j
                    /\ L[i + 7 - j].n = n /\ L[i + 7 - j].m = m
           S == {j \in 0..7 : Is(j)}
<1>1. 0 \in S
  <2>1. i + 7 - 0 = i + 7 /\ 8 - 0 = 8
    OBVIOUS
  <2>2. L[i + 7 - 0] = x
    BY <2>1
  <2>3. Is(0)
    BY <2>1, <2>2
  <2> HIDE DEF Is
  <2> QED
    BY <2>3
<1>2. ASSUME NEW j \in 0..(7 - 1), j \in S PROVE j + 1 \in S
  <2> DEFINE k == i + 7 - (j + 1)
  <2>1. k \in 1..Len(L) /\ k < Len(L) /\ k + 1 = i + 7 - j /\ 8 - j > 1 /\ 8 - j = 8 - (j + 1) + 1
        /\ j + 1 \in 0..7
    BY <1>0
  <2>2. L[i + 7 - j].a = "size" /\ L[i + 7 - j].o = 8 - j /\ L[i + 7 - j].n = n /\ L[i + 7 - j].m = m
    BY <1>2
  <2> HIDE DEF k
  <2>3. L[k + 1].a = "size" /\ L[k + 1].o = 8 - j /\ L[k + 1].n = n /\ L[k + 1].m = m
    BY <2>1, <2>2, Zenon
  <2>4. Follows(L[k], L[k + 1], px)
    BY <2>1 DEF Ledger, Chain
  <2>5. L[k].o \in Nat
    <3>1. L[k].o \in 1..9
      BY <1>0, <2>1, LabelType, Zenon
    <3> QED
      BY <3>1
  <2>6. /\ L[k].a = L[k + 1].a /\ L[k + 1].o = L[k].o + 1 /\ L[k].n = L[k + 1].n
        /\ L[k].m = L[k + 1].m
    <3>1. L[k + 1].o # 1
      BY <2>1, <2>3
    <3>2. L[k].o < Width(L[k].a)
      BY <2>4, <3>1, Zenon DEF Follows
    <3> QED
      BY <2>4, <3>2 DEF Follows
  <2>7. L[k].o = 8 - (j + 1)
    BY <2>1, <2>3, <2>5, <2>6
  <2>8. L[k].a = "size" /\ L[k].n = n /\ L[k].m = m
    BY <2>3, <2>6
  <2>9. Is(j + 1)
    BY <2>7, <2>8 DEF k
  <2> HIDE DEF Is
  <2> QED
    BY <2>1, <2>9
<1>3. 7 \in S
  <2>1. 7 \in Nat /\ \A j \in 0..(7 - 1) : j \in S => j + 1 \in S
    BY <1>2
  <2> HIDE DEF S
  <2>2. 0..7 \subseteq S
    BY <1>1, <2>1, UpTo
  <2> QED
    BY <2>2
<1>4. i + 7 - 7 = i /\ 8 - 7 = 1
  OBVIOUS
<1>5. Is(7)
  <2> HIDE DEF Is
  <2> QED
    BY <1>3
<1> QED
  BY <1>4, <1>5

\* What is left of s without eight of its elements, from the i-th.
Without(r, s, i) == /\ Len(r) = Len(s) - 8
                    /\ \A k \in 1..(i - 1) : r[k] = s[k]
                    /\ \A k \in i..(Len(s) - 8) : \A q \in 1..Len(s) : q = k + 8 => r[k] = s[q]

LEMMA CutParts ==
  ASSUME NEW X, NEW s \in Seq(X), NEW i \in Nat, i >= 1, i + 7 <= Len(s),
         NEW t \in Seq(X), Len(t) = i - 1, \A k \in 1..(i - 1) : t[k] = s[k],
         NEW u \in Seq(X), Len(u) = Len(s) - i - 7,
         \A q \in 1..Len(s) : \A k \in 1..Len(u) : q = i + 7 + k => u[k] = s[q],
         NEW r \in Seq(X), Len(r) = Len(t) + Len(u), \A k \in 1..Len(t) : r[k] = t[k],
         \A k \in 1..Len(u) : r[Len(t) + k] = u[k]
  PROVE  Without(r, s, i)
<1>1. Len(s) \in Nat
  OBVIOUS
<1>3. ASSUME NEW k \in i..(Len(s) - 8), NEW q \in 1..Len(s), q = k + 8 PROVE r[k] = s[q]
  <2> DEFINE j == k - i + 1
  <2>1. j \in 1..Len(u) /\ Len(t) + j = k /\ q = i + 7 + j
    BY <1>1, <1>3
  <2> HIDE DEF j
  <2>2. u[j] = s[q] /\ r[Len(t) + j] = u[j]
    BY <2>1, Zenon
  <2> QED
    BY <2>1, <2>2, Zenon
<1>4. Len(r) = Len(s) - 8
  BY <1>1
<1> QED
  BY <1>1, <1>3, <1>4 DEF Without

LEMMA Halved ==
  ASSUME NEW X, NEW s \in Seq(X), NEW t \in Seq(X)
  PROVE  /\ s \o t \in Seq(X) /\ Len(s \o t) = Len(s) + Len(t)
         /\ \A k \in 1..Len(s) : (s \o t)[k] = s[k]
         /\ \A k \in 1..Len(t) : (s \o t)[Len(s) + k] = t[k]
OBVIOUS

LEMMA CutOut ==
  ASSUME NEW X, NEW s \in Seq(X), NEW i \in Nat, i >= 1, i + 7 <= Len(s)
  PROVE  /\ SubSeq(s, 1, i - 1) \o SubSeq(s, i + 8, Len(s)) \in Seq(X)
         /\ Without(SubSeq(s, 1, i - 1) \o SubSeq(s, i + 8, Len(s)), s, i)
<1> DEFINE t == SubSeq(s, 1, i - 1)
           u == SubSeq(s, i + 8, Len(s))
           r == t \o u
           Rest8 == \A q \in 1..Len(s) : \A k \in 1..Len(u) : q = i + 7 + k => u[k] = s[q]
<1>1. t \in Seq(X) /\ Len(t) = i - 1 /\ \A k \in 1..(i - 1) : t[k] = s[k]
  OBVIOUS
<1>2. u \in Seq(X) /\ Len(u) = Len(s) - i - 7 /\ Rest8
  OBVIOUS
<1> HIDE DEF t, u, Rest8
<1>3. r \in Seq(X)
      /\ Len(r) = Len(t) + Len(u)
      /\ (\A k \in 1..Len(t) : r[k] = t[k])
      /\ \A k \in 1..Len(u) : r[Len(t) + k] = u[k]
  <2>1. t \in Seq(X) /\ u \in Seq(X)
    BY <1>1, <1>2
  <2> QED
    BY <2>1, Halved
<1> HIDE DEF r
<1>4. Without(r, s, i)
  BY <1>1, <1>2, <1>3, CutParts, Zenon DEF Rest8
<1> QED
  BY <1>3, <1>4 DEF r, t, u

\* Without the eight bytes of an answer the rest is as it was.
LEMMA Removed ==
  ASSUME NEW own, Len(own) \in Nat, NEW seen, NEW px \in BOOLEAN, NEW L, Ledger(L, own, seen, px),
         NEW n, NEW m, At(L, 0, n, m, own, seen),
         NEW i \in Nat, i >= 1, NEW e, e = i + 7, e <= Len(L), NEW x, x = L[e], x.a = "size", x.o = 8,
         NEW K \in Seq(Labels), Without(K, L, i)
  PROVE  Ledger(K, own, seen, px) /\ At(K, 0, n, m, own, seen)
<1>0. L \in Seq(Labels) /\ Len(L) \in Nat
  BY DEF Ledger
<1> DEFINE n0 == x.n
           m0 == x.m
<1>1. L[i].a = "size" /\ L[i].o = 1 /\ L[i].n = n0 /\ L[i].m = m0
  <2>1. n0 = x.n /\ m0 = x.m
    OBVIOUS
  <2> HIDE DEF n0, m0
  <2> QED
    BY <2>1, WholeAnswer
<1>5. Len(K) = Len(L) - 8 /\ Len(K) \in Nat
  BY <1>0 DEF Without
<1>6. ASSUME NEW k \in 1..Len(K), k < i PROVE K[k] = L[k] /\ k \in 1..Len(L)
  <2>1. k \in 1..(i - 1) /\ k \in 1..Len(L)
    BY <1>0, <1>5, <1>6
  <2> QED
    BY <2>1 DEF Without
<1>7. ASSUME NEW k \in 1..Len(K), k >= i, NEW q, q = k + 8 PROVE K[k] = L[q] /\ q \in 1..Len(L)
  <2>1. k \in i..(Len(L) - 8) /\ q \in 1..Len(L)
    BY <1>0, <1>5, <1>7
  <2> QED
    BY <1>7, <2>1 DEF Without
<1>8. Width("size") = 8 /\ Ev("size", m0, px) = <<>> /\ Len(Ev("size", m0, px)) = 0
      /\ After("size", m0, px) = m0
  BY SizeBytes DEF Width, Ev, After
<1>9. n0 \in Nat
  <2>1. e \in 1..Len(L)
    BY <1>0
  <2>2. L[e].n \in Nat
    BY <1>0, <2>1, LabelType, Zenon
  <2> QED
    BY <2>2
<1>10. ASSUME i + 8 <= Len(L) PROVE L[i + 8].o = 1 /\ L[i + 8].n = n0 /\ L[i + 8].m = m0
  <2>1. e \in 1..Len(L) /\ e < Len(L) /\ e + 1 = i + 8
    BY <1>0, <1>10
  <2>2. Follows(x, L[e + 1], px)
    BY <2>1 DEF Ledger, Chain
  <2>3. ~(x.o < Width(x.a))
    BY <1>8
  <2>4. L[e + 1].o = 1 /\ L[e + 1].n = n0 + Len(Ev("size", m0, px))
        /\ L[e + 1].m = After("size", m0, px)
    BY <2>2, <2>3, Zenon DEF Follows
  <2>5. L[e + 1] = L[i + 8]
    BY <2>1, Zenon
  <2> QED
    BY <1>8, <1>9, <2>4, <2>5
<1>11. ASSUME i > 1
       PROVE  /\ i - 1 \in 1..Len(L) /\ L[i - 1].o = Width(L[i - 1].a) /\ Width(L[i - 1].a) \in Nat
              /\ n0 = L[i - 1].n + Len(Ev(L[i - 1].a, L[i - 1].m, px))
              /\ m0 = After(L[i - 1].a, L[i - 1].m, px) /\ L[i - 1].a # "Escape"
  <2> DEFINE k == i - 1
  <2>1. k \in 1..Len(L) /\ k < Len(L) /\ k + 1 = i
    BY <1>0, <1>11
  <2> HIDE DEF k
  <2>2. L[k].o \in 1..9 /\ Width(L[k].a) \in 1..9
    BY <1>0, <2>1, LabelType
  <2>3. Follows(L[k], L[k + 1], px) /\ L[k].o <= Width(L[k].a)
    BY <2>1 DEF Ledger, Chain
  <2>4. L[k + 1].a = "size" /\ L[k + 1].o = 1 /\ L[k + 1].n = n0 /\ L[k + 1].m = m0
    BY <1>1, <2>1
  <2>5. ~(L[k].o < Width(L[k].a))
    <3>1. L[k].o + 1 # 1
      BY <2>2
    <3> QED
      BY <2>3, <2>4, <3>1, Zenon DEF Follows
  <2>6. /\ L[k + 1].n = L[k].n + Len(Ev(L[k].a, L[k].m, px)) /\ L[k + 1].m = After(L[k].a, L[k].m, px)
        /\ L[k].a = "Escape" => L[k + 1].a \notin {"a", "eacute", "size"}
    BY <2>3, <2>5, Zenon DEF Follows
  <2>7. L[k].o = Width(L[k].a) /\ Width(L[k].a) \in Nat
    <3> DEFINE o == L[k].o
               w == Width(L[k].a)
    <3>1. o \in 1..9 /\ w \in 1..9 /\ o <= w /\ ~(o < w)
      BY <2>2, <2>3, <2>5
    <3> HIDE DEF o, w
    <3>2. o = w /\ w \in Nat
      BY <3>1
    <3> QED
      BY <3>2 DEF o, w
  <2>8. n0 = L[k].n + Len(Ev(L[k].a, L[k].m, px)) /\ m0 = After(L[k].a, L[k].m, px)
    BY <2>4, <2>6, Zenon
  <2>9. L[k].a # "Escape"
    BY <2>4, <2>6
  <2> QED
    BY <2>1, <2>7, <2>8, <2>9 DEF k
<1>12. Chain(K, px)
  <2>1. ASSUME NEW k \in 1..Len(K) PROVE K[k].o <= Width(K[k].a)
    <3>1. \E q \in 1..Len(L) : K[k] = L[q]
      BY <1>5, <1>6, <1>7
    <3> QED
      BY <3>1 DEF Ledger, Chain
  <2>2. ASSUME NEW k \in 1..Len(K), k < Len(K) PROVE Follows(K[k], K[k + 1], px)
    <3>0. k \in Nat /\ k + 1 \in 1..Len(K)
      BY <1>5, <2>2
    <3>1. CASE k + 1 < i
      <4>1. k < i /\ k < Len(L) /\ k \in 1..Len(L)
        BY <1>0, <1>5, <3>0, <3>1
      <4>2. K[k] = L[k] /\ K[k + 1] = L[k + 1]
        BY <1>6, <3>0, <3>1, <4>1
      <4> QED
        BY <4>1, <4>2 DEF Ledger, Chain
    <3>2. CASE k >= i
      <4> DEFINE q == k + 8
      <4>1. k + 1 >= i /\ k + 1 + 8 = q + 1 /\ q + 1 = k + 1 + 8 /\ q \in 1..Len(L) /\ q < Len(L) /\ q = k + 8
        BY <1>0, <1>5, <2>2, <3>0, <3>2
      <4> HIDE DEF q
      <4>2. K[k] = L[q] /\ K[k + 1] = L[q + 1]
        BY <1>7, <3>0, <3>2, <4>1
      <4> QED
        BY <4>1, <4>2 DEF Ledger, Chain
    <3>3. CASE k + 1 = i
      <4> DEFINE w == Width(L[i - 1].a)
      <4>1. i > 1 /\ k = i - 1 /\ k < i /\ k + 1 >= i /\ i + 8 = k + 1 + 8 /\ i + 8 <= Len(L)
        BY <1>0, <1>5, <2>2, <3>0, <3>3
      <4>2. K[k] = L[i - 1]
        BY <1>6, <4>1
      <4>3. K[k + 1] = L[i + 8]
        BY <1>7, <3>0, <4>1
      <4>4. L[i + 8].o = 1 /\ L[i + 8].n = n0 /\ L[i + 8].m = m0
        BY <1>10, <4>1
      <4>5. /\ L[i - 1].o = w /\ w \in Nat /\ w = Width(L[i - 1].a)
            /\ n0 = L[i - 1].n + Len(Ev(L[i - 1].a, L[i - 1].m, px))
            /\ m0 = After(L[i - 1].a, L[i - 1].m, px) /\ L[i - 1].a # "Escape"
        BY <1>11, <4>1
      <4> HIDE DEF w, n0, m0
      <4>6. /\ L[i + 8].n = L[i - 1].n + Len(Ev(L[i - 1].a, L[i - 1].m, px))
            /\ L[i + 8].m = After(L[i - 1].a, L[i - 1].m, px)
            /\ L[i - 1].a = "Escape" => L[i + 8].a \notin {"a", "eacute", "size"}
        BY <4>4, <4>5, Zenon
      <4>7. Follows(L[i - 1], L[i + 8], px)
        BY <4>4, <4>5, <4>6, FollowsNext, Zenon
      <4> QED
        BY <4>2, <4>3, <4>7
    <3> QED
      BY <3>0, <3>1, <3>2, <3>3
  <2> QED
    BY <2>1, <2>2 DEF Chain
<1>13. WithoutGap(K, own, seen, px)
  <2> SUFFICES ASSUME Len(K) # 0
               PROVE  LET y == K[Len(K)]
                      IN  /\ y.o = Width(y.a) /\ Len(own) = y.n + Len(Ev(y.a, y.m, px))
                          /\ seen = After(y.a, y.m, px)
    BY DEF WithoutGap
  <2>0. /\ L[Len(L)].o = Width(L[Len(L)].a)
        /\ Len(own) = L[Len(L)].n + Len(Ev(L[Len(L)].a, L[Len(L)].m, px))
        /\ seen = After(L[Len(L)].a, L[Len(L)].m, px)
    <3>1. Len(L) # 0
      BY <1>0
    <3> QED
      BY <3>1 DEF Ledger, WithoutGap
  <2>1. CASE Len(K) >= i
    <3>1. Len(L) = Len(K) + 8 /\ Len(K) \in 1..Len(K)
      BY <1>0, <1>5
    <3>2. K[Len(K)] = L[Len(L)]
      BY <1>7, <2>1, <3>1
    <3> QED
      BY <2>0, <3>2
  <2>2. CASE Len(K) < i
    <3>1. i > 1 /\ Len(K) = i - 1 /\ Len(K) \in 1..Len(K) /\ Len(L) = i + 7
      BY <1>0, <1>5, <2>2
    <3>2. K[Len(K)] = L[i - 1]
      BY <1>6, <2>2, <3>1
    <3>3. Len(own) = n0 + Len(Ev("size", m0, px)) /\ seen = After("size", m0, px)
      BY <2>0, <3>1
    <3>4. Len(own) = n0 /\ seen = m0
      BY <1>8, <1>9, <3>3
    <3>5. /\ L[i - 1].o = Width(L[i - 1].a) /\ n0 = L[i - 1].n + Len(Ev(L[i - 1].a, L[i - 1].m, px))
          /\ m0 = After(L[i - 1].a, L[i - 1].m, px)
      BY <1>11, <3>1
    <3> HIDE DEF n0, m0
    <3> QED
      BY <3>2, <3>4, <3>5
  <2> QED
    BY <1>5, <2>1, <2>2
<1>14. \A k \in 1..Len(K) : Owing(K[k], own, px)
  <2> TAKE k \in 1..Len(K)
  <2>1. \E q \in 1..Len(L) : K[k] = L[q]
    BY <1>5, <1>6, <1>7
  <2> QED
    BY <2>1 DEF Ledger
<1>15. At(K, 0, n, m, own, seen)
  <2>0. L[1].o = 1 /\ L[1].n = n /\ L[1].m = m
    BY <1>0 DEF At
  <2>1. CASE i > 1
    <3>1. Len(K) # 0 /\ 1 \in 1..Len(K) /\ 1 < i
      BY <1>0, <1>5, <2>1
    <3>2. K[1] = L[1]
      BY <1>6, <3>1
    <3> QED
      BY <2>0, <3>1, <3>2 DEF At
  <2>2. CASE i = 1 /\ Len(K) # 0
    <3>1. 1 \in 1..Len(K) /\ 1 >= i /\ i + 8 = 1 + 8 /\ i + 8 <= Len(L)
      BY <1>0, <1>5, <2>2
    <3>2. K[1] = L[i + 8]
      BY <1>7, <3>1
    <3>3. n0 = n /\ m0 = m
      BY <1>1, <2>0, <2>2
    <3>4. K[1].o = 1 /\ K[1].n = n /\ K[1].m = m
      BY <1>10, <3>1, <3>2, <3>3
    <3> QED
      BY <2>2, <3>4 DEF At
  <2>3. CASE i = 1 /\ Len(K) = 0
    <3>1. Len(L) = i + 7 /\ Len(L) # 0
      BY <1>0, <1>5, <2>3
    <3>2. Len(own) = n0 + Len(Ev("size", m0, px)) /\ seen = After("size", m0, px)
      BY <3>1 DEF Ledger, WithoutGap
    <3>3. Len(own) = n0 /\ seen = m0
      BY <1>8, <1>9, <3>2
    <3>4. n0 = n /\ m0 = m
      BY <1>1, <2>0, <2>3
    <3> QED
      BY <2>3, <3>3, <3>4 DEF At
  <2> QED
    BY <2>1, <2>2, <2>3
<1>16. Ledger(K, own, seen, px)
  BY <1>12, <1>13, <1>14 DEF Ledger
<1> QED
  BY <1>15, <1>16

--------------------------------------------------------------------------------
(* Where the mouse was last seen, in what is owed.                              *)

\* After the events s the mouse is at v.
SeenAt(s, v) ==
  \/ v = None /\ \A i \in 1..Len(s) : s[i].ev # "motion"
  \/ \E i \in 1..Len(s) : /\ s[i].ev = "motion" /\ v = s[i].what
                          /\ \A j \in 1..Len(s) : j > i => s[j].ev # "motion"

SeenIn(s) == LET at == {i \in DOMAIN s : s[i].ev = "motion"}
             IN  IF at = {} THEN None ELSE s[CHOOSE i \in at : \A j \in at : j <= i].what

LEMMA SeenIs ==
  ASSUME NEW s \in Seq(Heard)
  PROVE  SeenAt(s, SeenIn(s)) /\ SeenIn(s) \in Int
<1> DEFINE at == {i \in DOMAIN s : s[i].ev = "motion"}
           g == CHOOSE i \in at : \A j \in at : j <= i
<1>0. DOMAIN s = 1..Len(s) /\ Len(s) \in Nat
  OBVIOUS
<1>1. CASE at = {}
  <2>1. SeenIn(s) = None
    BY <1>1 DEF SeenIn
  <2>2. \A i \in 1..Len(s) : s[i].ev # "motion"
    BY <1>0, <1>1
  <2> QED
    BY <2>1, <2>2 DEF SeenAt, None
<1>2. CASE at # {}
  <2>1. \E i \in at : \A j \in at : j <= i
    BY <1>0, <1>2, Greatest
  <2>2. g \in at /\ \A j \in at : j <= g
    BY <2>1
  <2>3. SeenIn(s) = s[g].what
    BY <1>2 DEF SeenIn
  <2> HIDE DEF g
  <2>4. g \in 1..Len(s) /\ s[g].ev = "motion"
    BY <1>0, <2>2
  <2>5. ASSUME NEW j \in 1..Len(s), j > g PROVE s[j].ev # "motion"
    <3>1. ~(j <= g)
      BY <1>0, <2>4, <2>5
    <3> QED
      BY <1>0, <2>2, <3>1
  <2>6. s[g].what \in Int
    <3>1. s[g] \in Heard
      BY <2>4
    <3> QED
      BY <2>4, <3>1 DEF Heard
  <2> QED
    BY <2>3, <2>4, <2>5, <2>6 DEF SeenAt
<1> QED
  BY <1>1, <1>2

LEMMA SeenOnce ==
  ASSUME NEW s, Len(s) \in Nat, NEW v, NEW w, SeenAt(s, v), SeenAt(s, w)
  PROVE  v = w
<1>1. ASSUME NEW i \in 1..Len(s), NEW j \in 1..Len(s), s[i].ev = "motion", s[j].ev = "motion",
             \A k \in 1..Len(s) : k > i => s[k].ev # "motion",
             \A k \in 1..Len(s) : k > j => s[k].ev # "motion"
      PROVE  i = j
  BY <1>1
<1> QED
  BY <1>1 DEF SeenAt

\* Events that move the mouse nowhere, and events that begin with a motion.
LEMMA SeenStill ==
  ASSUME NEW s \in Seq(Heard), NEW v, SeenAt(s, v), NEW e \in Seq(Heard),
         \A k \in 1..Len(e) : e[k].ev # "motion", NEW r, r = s \o e
  PROVE  SeenAt(r, v)
<1>1. /\ Len(r) = Len(s) + Len(e) /\ Len(s) \in Nat /\ Len(e) \in Nat
      /\ \A k \in 1..Len(s) : r[k] = s[k]
      /\ \A k \in 1..Len(e) : r[Len(s) + k] = e[k]
  BY Glued
<1>2. ASSUME NEW k \in 1..Len(r), k > Len(s) PROVE r[k].ev # "motion"
  <2>1. k - Len(s) \in 1..Len(e) /\ Len(s) + (k - Len(s)) = k
    BY <1>1, <1>2
  <2> QED
    BY <1>1, <2>1
<1>3. CASE v = None /\ \A i \in 1..Len(s) : s[i].ev # "motion"
  <2>1. ASSUME NEW k \in 1..Len(r) PROVE r[k].ev # "motion"
    <3>1. CASE k <= Len(s)
      BY <1>1, <1>3, <3>1
    <3>2. CASE k > Len(s)
      BY <1>2, <3>2
    <3> QED
      BY <1>1, <3>1, <3>2
  <2> QED
    BY <1>3, <2>1 DEF SeenAt
<1>4. ASSUME NEW i \in 1..Len(s), s[i].ev = "motion", v = s[i].what,
             \A j \in 1..Len(s) : j > i => s[j].ev # "motion"
      PROVE  SeenAt(r, v)
  <2>1. i \in 1..Len(r) /\ r[i] = s[i]
    BY <1>1
  <2>2. ASSUME NEW k \in 1..Len(r), k > i PROVE r[k].ev # "motion"
    <3>1. CASE k <= Len(s)
      BY <1>1, <1>4, <2>2, <3>1
    <3>2. CASE k > Len(s)
      BY <1>2, <3>2
    <3> QED
      BY <1>1, <3>1, <3>2
  <2> QED
    BY <1>4, <2>1, <2>2 DEF SeenAt
<1> QED
  BY <1>3, <1>4 DEF SeenAt

LEMMA SeenMoved ==
  ASSUME NEW s \in Seq(Heard), NEW e \in Seq(Heard), Len(e) >= 1, e[1].ev = "motion",
         \A k \in 2..Len(e) : e[k].ev # "motion", NEW r, r = s \o e
  PROVE  SeenAt(r, e[1].what)
<1>1. /\ Len(r) = Len(s) + Len(e) /\ Len(s) \in Nat /\ Len(e) \in Nat
      /\ \A k \in 1..Len(s) : r[k] = s[k]
      /\ \A k \in 1..Len(e) : r[Len(s) + k] = e[k]
  BY Glued
<1> DEFINE i == Len(s) + 1
<1>2. i \in 1..Len(r) /\ r[i] = e[1]
  BY <1>1
<1>3. ASSUME NEW k \in 1..Len(r), k > i PROVE r[k].ev # "motion"
  <2>1. k - Len(s) \in 2..Len(e) /\ k - Len(s) \in 1..Len(e) /\ Len(s) + (k - Len(s)) = k
    BY <1>1, <1>3
  <2> QED
    BY <1>1, <2>1
<1> HIDE DEF i
<1> QED
  BY <1>2, <1>3 DEF SeenAt

\* e is b with h before it.
Led(e, h, b) == /\ e \in Seq(Heard) /\ Len(e) = 1 + Len(b) /\ Len(b) \in Nat /\ e[1] = h
                /\ \A k \in 2..(1 + Len(b)) : \E j \in 1..Len(b) : e[k] = b[j]

LEMMA Leading ==
  ASSUME NEW h \in Heard, NEW b \in Seq(Heard)
  PROVE  Led(<<h>> \o b, h, b)
<1>1. /\ <<h>> \o b \in Seq(Heard) /\ Len(<<h>> \o b) = 1 + Len(b) /\ Len(b) \in Nat
      /\ (<<h>> \o b)[1] = h
  OBVIOUS
<1>2. ASSUME NEW k \in 2..(1 + Len(b)) PROVE \E j \in 1..Len(b) : (<<h>> \o b)[k] = b[j]
  <2>1. k - 1 \in 1..Len(b) /\ (<<h>> \o b)[k] = b[k - 1]
    BY <1>1
  <2> QED
    BY <2>1
<1> QED
  BY <1>1, <1>2 DEF Led

\* A report moves the mouse there first, unless it is there.
LEMMA SeenToward ==
  ASSUME NEW s \in Seq(Heard), NEW v, SeenAt(s, v), NEW px \in BOOLEAN, NEW n \in 1..2,
         NEW b \in Seq(Heard), \A k \in 1..Len(b) : b[k].ev # "motion",
         NEW e, e = Toward(n, v, px) \o b, NEW r, r = s \o e
  PROVE  SeenAt(r, ToPixels(n, px))
<1> DEFINE p == ToPixels(n, px)
<1>0. p \in Int
  BY Pixels
<1>1. Toward(n, v, px) = IF p = v THEN <<>> ELSE <<Moved(p)>>
  BY DEF Toward
<1> HIDE DEF p
<1>2. CASE p = v
  <2>1. e = b
    BY <1>1, <1>2
  <2>2. SeenAt(r, v)
    BY <2>1, SeenStill
  <2> QED
    BY <1>2, <2>2 DEF p
<1>3. CASE p # v
  <2>1. Moved(p) \in Heard /\ Moved(p).ev = "motion" /\ Moved(p).what = p
    BY <1>0 DEF Moved, Heard
  <2>2. e = <<Moved(p)>> \o b
    BY <1>1, <1>3
  <2>3. /\ e \in Seq(Heard) /\ Len(e) = 1 + Len(b) /\ Len(b) \in Nat /\ e[1] = Moved(p)
        /\ \A k \in 2..(1 + Len(b)) : \E j \in 1..Len(b) : e[k] = b[j]
    <3>1. Led(<<Moved(p)>> \o b, Moved(p), b)
      BY <2>1, Leading, Zenon
    <3>2. Led(e, Moved(p), b)
      BY <2>2, <3>1, Zenon
    <3> QED
      BY <3>2 DEF Led
  <2>4. \A k \in 2..Len(e) : e[k].ev # "motion"
    BY <2>3
  <2>5. Len(e) >= 1 /\ e[1].ev = "motion" /\ e[1].what = p
    BY <2>1, <2>3
  <2>6. SeenAt(r, e[1].what)
    BY <2>3, <2>4, <2>5, SeenMoved, Zenon
  <2> QED
    BY <2>5, <2>6 DEF p
<1> QED
  BY <1>2, <1>3

\* The events of an act leave the mouse where the act does.
LEMMA SeenAfter ==
  ASSUME NEW s \in Seq(Heard), NEW v \in Int, SeenAt(s, v), NEW px \in BOOLEAN, NEW a \in All,
         NEW e, e = Ev(a, v, px), NEW r, r = s \o e
  PROVE  SeenAt(r, After(a, v, px))
<1>0. e \in Seq(Heard) /\ Len(e) \in Nat
  BY EvType
<1>1. CASE a \in {"a", "Escape", "Up", "CtrlUp", "eacute", "AppUp"}
  <2>1. After(a, v, px) = v
    BY <1>1 DEF After
  <2>2. Len(e) = 1 /\ e[1].ev = "key"
    BY <1>1 DEF Ev, Key
  <2>3. \A k \in 1..Len(e) : e[k].ev # "motion"
    BY <2>2
  <2> QED
    BY <1>0, <2>1, <2>3, SeenStill
<1>2. CASE a = "AltA"
  <2>1. After(a, v, px) = v
    BY <1>2 DEF After
  <2>2. Len(e) = 1 /\ e[1].ev = "alt"
    BY <1>2 DEF Ev
  <2>3. \A k \in 1..Len(e) : e[k].ev # "motion"
    BY <2>2
  <2> QED
    BY <1>0, <2>1, <2>3, SeenStill
<1>3. CASE a \in {"status", "reply", "size"}
  <2>1. After(a, v, px) = v
    BY <1>3 DEF After
  <2>2. Len(e) = 0
    BY <1>3 DEF Ev
  <2>3. \A k \in 1..Len(e) : e[k].ev # "motion"
    BY <2>2
  <2> QED
    BY <1>0, <2>1, <2>3, SeenStill
<1>5. CASE a = "click1"
  <2> DEFINE b == <<[ev |-> "button", what |-> 0]>>
  <2>1. b \in Seq(Heard) /\ \A k \in 1..Len(b) : b[k].ev # "motion"
    BY DEF Heard
  <2>2. e = Toward(1, v, px) \o b /\ After(a, v, px) = ToPixels(1, px)
    BY <1>5 DEF Ev, After
  <2> HIDE DEF b
  <2>3. SeenAt(r, ToPixels(1, px))
    <3>1. 1 \in 1..2
      OBVIOUS
    <3> QED
      BY <2>1, <2>2, <3>1, SeenToward, Zenon
  <2> QED
    BY <2>2, <2>3
<1>6. CASE a = "move2"
  <2> DEFINE b == <<>>
  <2>1. b \in Seq(Heard) /\ \A k \in 1..Len(b) : b[k].ev # "motion"
    OBVIOUS
  <2>2. e = Toward(2, v, px) \o b /\ After(a, v, px) = ToPixels(2, px)
    BY <1>6, TowardType DEF Ev, After
  <2> HIDE DEF b
  <2>3. SeenAt(r, ToPixels(2, px))
    <3>1. 2 \in 1..2
      OBVIOUS
    <3> QED
      BY <2>1, <2>2, <3>1, SeenToward, Zenon
  <2> QED
    BY <2>2, <2>3
<1>7. CASE a = "wheel2"
  <2> DEFINE b == <<[ev |-> "wheel", what |-> 0]>>
  <2>1. b \in Seq(Heard) /\ \A k \in 1..Len(b) : b[k].ev # "motion"
    BY DEF Heard
  <2>2. e = Toward(2, v, px) \o b /\ After(a, v, px) = ToPixels(2, px)
    BY <1>7 DEF Ev, After
  <2> HIDE DEF b
  <2>3. SeenAt(r, ToPixels(2, px))
    <3>1. 2 \in 1..2
      OBVIOUS
    <3> QED
      BY <2>1, <2>2, <3>1, SeenToward, Zenon
  <2> QED
    BY <2>2, <2>3
<1> QED
  BY <1>1, <1>2, <1>3, <1>5, <1>6, <1>7, ActCases

--------------------------------------------------------------------------------
(* An Escape at the end of the stream is one that is owed, not yet told.        *)

LEMMA Rising ==
  ASSUME NEW own, NEW seen, NEW px \in BOOLEAN, NEW L, Ledger(L, own, seen, px),
         NEW i \in 1..Len(L), NEW n, n = L[1].n, n \in Nat
  PROVE  n <= L[i].n
<1>0. L \in Seq(Labels) /\ Len(L) \in Nat
  BY DEF Ledger
<1> DEFINE Is(j) == n <= L[j + 1].n
           S == {j \in 0..(Len(L) - 1) : Is(j)}
<1>1. 0 \in S
  BY <1>0
<1>2. ASSUME NEW j \in 0..(Len(L) - 1 - 1), j \in S PROVE j + 1 \in S
  <2> DEFINE k == j + 1
  <2>1. k \in 1..Len(L) /\ k < Len(L) /\ k + 1 \in 1..Len(L) /\ k \in 0..(Len(L) - 1) /\ n <= L[k].n
    BY <1>0, <1>2
  <2> HIDE DEF k
  <2>2. Follows(L[k], L[k + 1], px)
    BY <2>1 DEF Ledger, Chain
  <2>3. L[k].n \in Nat /\ L[k + 1].n \in Nat /\ L[k].a \in All /\ L[k].m \in Int
    BY <1>0, <2>1, LabelType
  <2> DEFINE e == Len(Ev(L[k].a, L[k].m, px))
  <2>4. e \in Nat
    <3>1. e \in 0..2
      BY <2>3, EvType
    <3> QED
      BY <3>1
  <2>5. L[k + 1].n = L[k].n \/ L[k + 1].n = L[k].n + e
    BY <2>2 DEF Follows
  <2> HIDE DEF e
  <2> DEFINE x == L[k].n
             y == L[k + 1].n
  <2>6. x \in Nat /\ y \in Nat /\ n <= x /\ (y = x \/ y = x + e)
    BY <2>1, <2>3, <2>5
  <2> HIDE DEF x, y
  <2>7. n <= y
    BY <2>4, <2>6
  <2>8. Is(k)
    BY <2>7 DEF y
  <2> HIDE DEF Is
  <2> QED
    BY <2>1, <2>8 DEF k
<1>3. i - 1 \in S
  <2>1. \A j \in 0..(Len(L) - 1 - 1) : j \in S => j + 1 \in S
    BY <1>2
  <2>2. Len(L) - 1 \in Nat /\ i - 1 \in 0..(Len(L) - 1)
    BY <1>0
  <2> HIDE DEF S
  <2>3. 0..(Len(L) - 1) \subseteq S
    BY <1>1, <2>1, <2>2, UpTo
  <2> QED
    BY <2>2, <2>3
<1>4. i - 1 + 1 = i /\ Is(i - 1)
  BY <1>3
<1> QED
  BY <1>4

LEMMA Pending ==
  ASSUME NEW own, NEW seen, NEW px \in BOOLEAN, NEW L, Ledger(L, own, seen, px), Len(own) \in Nat,
         NEW n \in Nat, NEW m, At(L, 0, n, m, own, seen), Len(L) # 0, L[Len(L)].a = "Escape"
  PROVE  n < Len(own) /\ own[Len(own)] = Key("Escape")
<1>0. L \in Seq(Labels) /\ Len(L) \in Nat /\ Len(L) \in 1..Len(L)
  <2>1. L \in Seq(Labels) /\ Len(L) \in Nat
    BY DEF Ledger
  <2> QED
    BY <2>1
<1>1. n = L[1].n
  BY <1>0 DEF At
<1> DEFINE x == L[Len(L)]
<1>2. n <= x.n /\ x.n \in Nat
  BY <1>0, <1>1, Rising, LabelType
<1>3. Ev("Escape", x.m, px) = <<Key("Escape")>>
  BY DEF Ev
<1>4. Len(Ev(x.a, x.m, px)) = 1 /\ Ev(x.a, x.m, px)[1] = Key("Escape")
  BY <1>3
<1>5. Len(own) = x.n + Len(Ev(x.a, x.m, px))
  BY <1>0 DEF Ledger, WithoutGap
<1>6. Owing(x, own, px)
  BY <1>0 DEF Ledger
<1> HIDE DEF x
<1>7. own[x.n + 1] = Key("Escape")
  BY <1>4, <1>6 DEF Owing
<1> QED
  BY <1>2, <1>4, <1>5, <1>7

LEMMA OneByte ==
  ASSUME NEW a \in All, NEW b, b = Bytes(a), Len(b) = 1, b[1] = "ESC"
  PROVE  a = "Escape"
<1>1. CASE a = "a"
  BY <1>1, LetterBytes
<1>2. CASE a = "AltA"
  BY <1>2, AltABytes
<1>3. CASE a = "Up"
  BY <1>3, UpBytes
<1>4. CASE a = "CtrlUp"
  BY <1>4, CtrlUpBytes
<1>5. CASE a = "AppUp"
  BY <1>5, AppUpBytes
<1>6. CASE a = "eacute"
  BY <1>6, EacuteBytes
<1>7. CASE a = "click1"
  BY <1>7, Click1Bytes
<1>8. CASE a = "move2"
  BY <1>8, Move2Bytes
<1>9. CASE a = "wheel2"
  BY <1>9, Wheel2Bytes
<1>10. CASE a = "status"
  BY <1>10, StatusBytes
<1>11. CASE a = "reply"
  BY <1>11, ReplyBytes
<1>12. CASE a = "size"
  BY <1>12, SizeBytes
<1> QED
  BY <1>1, <1>2, <1>3, <1>4, <1>5, <1>6, <1>7, <1>8, <1>9, <1>10, <1>11, <1>12, ActCases

\* Neither a letter nor a character can stand behind an Escape.
LEMMA NotEscaped ==
  ASSUME NEW a, NEW b, b = Bytes(a), b[1] = "ESC"
  PROVE  a \notin {"a", "eacute"}
<1>1. a # "a"
  BY LetterBytes
<1>2. a # "eacute"
  BY EacuteBytes
<1> QED
  BY <1>1, <1>2

--------------------------------------------------------------------------------
(* The bytes at the parser, in the stash and on the line.                       *)

\* The bytes s are those of the labels after the k-th.
Holds(s, L, k) == \A i \in 1..Len(s) : s[i] = Bytes(L[k + i].a)[L[k + i].o]
Lies(l, L, k) == \A i \in 1..Len(l) : /\ l[i].b = Bytes(L[k + i].a)[L[k + i].o]
                                      /\ l[i].first <=> L[k + i].o = 1
Told0(g, own) == Len(g) <= Len(own) /\ \A j \in 1..Len(g) : g[j] = own[j]

Left0(M, t, h, rest, own, seen, px) ==
  /\ Ledger(M, own, seen, px) /\ At(M, 0, Len(h), t.last, own, seen)
  /\ Len(M) = Len(t.buf) + Len(rest) /\ Holds(t.buf, M, 0) /\ Lies(rest, M, Len(t.buf))

Fresh(t, h, rest, own, seen, px) ==
  /\ t.buf \in Seq(Alphabet) /\ Len(t.buf) <= 8 /\ t.last \in Int
  /\ h \in Seq(Heard) /\ Told0(h, own)
  /\ \E M : Left0(M, t, h, rest, own, seen, px)

\* What the parser is given, it tells of.
LEMMA Delivered ==
  ASSUME NEW own \in Seq(Heard), NEW seen, NEW px \in BOOLEAN, NEW L, Ledger(L, own, seen, px),
         NEW p, p.buf \in Seq(Alphabet), p.last \in Int, NEW bytes \in Seq(Alphabet),
         NEW rest, Len(rest) \in Nat, Len(L) = Len(p.buf) + Len(bytes) + Len(rest),
         Holds(p.buf, L, 0), Holds(bytes, L, Len(p.buf)), Lies(rest, L, Len(p.buf) + Len(bytes)),
         NEW g \in Seq(Heard), Told0(g, own), At(L, 0, Len(g), p.last, own, seen)
  PROVE  Fresh(Fed(p, bytes, px), g \o Fed(p, bytes, px).out, rest, own, seen, px)
<1> DEFINE k == Len(p.buf)
           K == k + Len(bytes)
           t == Fed(p, bytes, px)
           h == g \o t.out
<1>a. /\ k = Len(p.buf) /\ K = k + Len(bytes) /\ t = Fed(p, bytes, px) /\ h = g \o t.out
      /\ Len(L) = K + Len(rest) /\ Holds(bytes, L, k) /\ Lies(rest, L, K)
  OBVIOUS
<1> HIDE DEF k, K, t, h
<1> USE <1>a
<1>0. L \in Seq(Labels) /\ Len(L) \in Nat /\ Len(own) \in Nat /\ Len(g) \in Nat /\ k \in Nat
      /\ Len(bytes) \in Nat /\ K \in Nat /\ K <= Len(L) /\ K \in 0..Len(L) /\ Len(g) <= Len(own)
  BY DEF Ledger, Told0
<1>1. Left(p.buf \o bytes, L, 0, K)
  <2> DEFINE b == p.buf \o bytes
  <2>1. /\ Len(b) = k + Len(bytes) /\ \A i \in 1..k : b[i] = p.buf[i]
        /\ \A i \in 1..Len(bytes) : b[k + i] = bytes[i]
    BY Halved
  <2> HIDE DEF b
  <2>2. ASSUME NEW i \in 1..K PROVE b[i] = Bytes(L[0 + i].a)[L[0 + i].o]
    <3>1. CASE i <= k
      <4>1. i \in 1..k
        BY <1>0, <3>1
      <4> QED
        BY <2>1, <4>1 DEF Holds
    <3>2. CASE i > k
      <4> DEFINE j == i - k
      <4>1. j \in 1..Len(bytes) /\ k + j = i /\ 0 + i = i
        BY <1>0, <3>2
      <4> HIDE DEF j
      <4>2. b[k + j] = bytes[j] /\ bytes[j] = Bytes(L[k + j].a)[L[k + j].o]
        BY <2>1, <4>1 DEF Holds
      <4> QED
        BY <4>1, <4>2
    <3> QED
      BY <1>0, <3>1, <3>2
  <2>3. Len(b) = K - 0 /\ K - 0 = K
    BY <1>0, <2>1
  <2>4. Left(b, L, 0, K)
    BY <2>2, <2>3 DEF Left
  <2> QED
    BY <2>4 DEF b
<1>2. PICK d \in 0..K : Aligned(t, L, d, K, Len(g), own, seen) /\ Len(t.buf) <= 8
  <2> DEFINE n0 == Len(g)
  <2>1. n0 \in Nat /\ n0 <= Len(own) /\ At(L, 0, n0, p.last, own, seen) /\ K \in 0..Len(L)
    BY <1>0
  <2> HIDE DEF n0
  <2>2. \E d \in 0..K : Aligned(t, L, d, K, n0, own, seen) /\ Len(t.buf) <= 8
    BY <1>1, <2>1, FedReads
  <2> QED
    BY <2>2 DEF n0
<1>3. /\ t \in ParserTurns /\ Left(t.buf, L, d, K) /\ At(L, d, Len(g) + Len(t.out), t.last, own, seen)
      /\ Len(g) + Len(t.out) <= Len(own) /\ \A j \in 1..Len(t.out) : t.out[j] = own[Len(g) + j]
  BY <1>2 DEF Aligned
<1>4. t.buf \in Seq(Alphabet) /\ t.last \in Int /\ t.out \in Seq(Heard)
  BY <1>3 DEF ParserTurns
<1>5. h \in Seq(Heard) /\ Len(h) = Len(g) + Len(t.out) /\ Told0(h, own)
  <2>1. /\ h \in Seq(Heard) /\ Len(h) = Len(g) + Len(t.out) /\ Len(t.out) \in Nat
        /\ \A j \in 1..Len(g) : h[j] = g[j]
        /\ \A j \in 1..Len(t.out) : h[Len(g) + j] = t.out[j]
    <3> DEFINE o == t.out
    <3>1. o \in Seq(Heard) /\ h = g \o o
      BY <1>4
    <3> HIDE DEF o
    <3>2. /\ h \in Seq(Heard) /\ Len(h) = Len(g) + Len(o) /\ Len(o) \in Nat
          /\ \A j \in 1..Len(g) : h[j] = g[j]
          /\ \A j \in 1..Len(o) : h[Len(g) + j] = o[j]
      BY <3>1, Glued
    <3> QED
      BY <3>2 DEF o
  <2>2. ASSUME NEW j \in 1..Len(h) PROVE h[j] = own[j]
    <3>1. CASE j <= Len(g)
      BY <1>0, <2>1, <3>1 DEF Told0
    <3>2. CASE j > Len(g)
      <4> DEFINE i == j - Len(g)
      <4>1. i \in 1..Len(t.out) /\ Len(g) + i = j
        BY <1>0, <2>1, <3>2
      <4> HIDE DEF i
      <4>2. h[Len(g) + i] = t.out[i] /\ t.out[i] = own[Len(g) + i]
        BY <1>3, <2>1, <4>1
      <4> QED
        BY <4>1, <4>2
    <3> QED
      BY <1>0, <2>1, <3>1, <3>2
  <2> QED
    BY <1>3, <2>1, <2>2 DEF Told0
<1> DEFINE M == SubSeq(L, d + 1, Len(L))
<1>6. d \in 0..Len(L) /\ d \in Nat /\ d <= K
  BY <1>0
<1>7. /\ Ledger(M, own, seen, px) /\ At(M, 0, Len(h), t.last, own, seen)
      /\ Len(M) = Len(L) - d /\ \A i \in 1..Len(M) : M[i] = L[d + i]
  <2>1. At(L, d, Len(h), t.last, own, seen) /\ M = SubSeq(L, d + 1, Len(L))
    BY <1>3, <1>5
  <2> HIDE DEF M
  <2>2. Ledger(M, own, seen, px) /\ At(M, 0, Len(h), t.last, own, seen) /\ Behind(M, L, d)
    BY <1>6, <2>1, Beheaded
  <2> QED
    BY <2>2 DEF Behind
<1> HIDE DEF M
<1>8. Len(t.buf) = K - d /\ \A i \in 1..(K - d) : t.buf[i] = Bytes(L[d + i].a)[L[d + i].o]
  BY <1>3 DEF Left
<1>9. Len(M) = Len(t.buf) + Len(rest)
  BY <1>0, <1>6, <1>7, <1>8
<1>10. Holds(t.buf, M, 0)
  <2>1. ASSUME NEW i \in 1..Len(t.buf) PROVE t.buf[i] = Bytes(M[0 + i].a)[M[0 + i].o]
    <3>1. i \in 1..(K - d) /\ i \in 1..Len(M) /\ 0 + i = i
      BY <1>0, <1>6, <1>8, <1>9
    <3>2. M[i] = L[d + i] /\ t.buf[i] = Bytes(L[d + i].a)[L[d + i].o]
      BY <1>7, <1>8, <3>1
    <3> QED
      BY <3>1, <3>2
  <2> QED
    BY <2>1 DEF Holds
<1>11. Lies(rest, M, Len(t.buf))
  <2> DEFINE c == Len(t.buf)
  <2>1. ASSUME NEW i \in 1..Len(rest)
        PROVE  /\ rest[i].b = Bytes(M[c + i].a)[M[c + i].o]
               /\ rest[i].first <=> M[c + i].o = 1
    <3>1. c + i \in 1..Len(M) /\ d + (c + i) = K + i
      BY <1>0, <1>6, <1>8, <1>9
    <3> HIDE DEF c
    <3>2. M[c + i] = L[d + (c + i)]
      BY <1>7, <3>1
    <3>3. M[c + i] = L[K + i]
      BY <3>1, <3>2, Zenon
    <3>4. rest[i].b = Bytes(L[K + i].a)[L[K + i].o] /\ (rest[i].first <=> L[K + i].o = 1)
      BY DEF Lies
    <3> QED
      BY <3>3, <3>4, Zenon
  <2> QED
    BY <2>1 DEF Lies
<1>12. Left0(M, t, h, rest, own, seen, px)
  BY <1>7, <1>9, <1>10, <1>11, Zenon DEF Left0
<1>13. Fresh(t, h, rest, own, seen, px)
  BY <1>2, <1>4, <1>5, <1>12, Zenon DEF Fresh
<1> QED
  BY <1>13, Zenon DEF t, h

\* What is read ahead of the line.
LineBytes == [b : Alphabet, first : BOOLEAN]

Ahead(t, r, L, c, e, l, n) ==
  /\ t \in Seq(Alphabet) /\ Len(t) = n /\ Holds(t, L, c)
  /\ r \in Seq(LineBytes) /\ Len(r) = Len(l) - n /\ Lies(r, L, e)

LEMMA ReadAhead ==
  ASSUME NEW L, NEW c \in Nat, NEW l \in Seq(LineBytes), Lies(l, L, c), NEW n \in 0..Len(l)
  PROVE  Ahead(BytesOf(l, n), Rest(l, n), L, c, c + n, l, n)
<1> DEFINE e == c + n
           t == BytesOf(l, n)
           r == Rest(l, n)
<1>a. e = c + n /\ t = BytesOf(l, n) /\ r = Rest(l, n)
  OBVIOUS
<1> HIDE DEF e, t, r
<1> USE <1>a
<1>1. /\ n \in Nat /\ n <= Len(l) /\ Len(l) \in Nat
      /\ \A k \in 1..n : k \in 1..Len(l) /\ l[k].b \in Alphabet
  <2>1. n \in Nat /\ n <= Len(l) /\ Len(l) \in Nat /\ \A k \in 1..n : k \in 1..Len(l)
    OBVIOUS
  <2>2. \A k \in 1..Len(l) : l[k] \in LineBytes
    OBVIOUS
  <2> QED
    BY <2>1, <2>2 DEF LineBytes
<1>2. t = [k \in 1..n |-> l[k].b]
  BY DEF BytesOf
<1>3. t \in Seq(Alphabet) /\ Len(t) = n /\ \A k \in 1..n : t[k] = l[k].b
  <2>1. t \in [1..n -> Alphabet]
    BY <1>1, <1>2
  <2> QED
    BY <1>1, <1>2, <2>1, Sequence
<1>4. Holds(t, L, c)
  BY <1>1, <1>3 DEF Holds, Lies
<1>5. r = SubSeq(l, n + 1, Len(l))
  BY DEF Rest
<1>6. r \in Seq(LineBytes) /\ Len(r) = Len(l) - n /\ \A k \in 1..(Len(l) - n) : r[k] = l[n + k]
  BY <1>1, <1>5, RestOf
<1>7. Lies(r, L, e)
  <2>1. ASSUME NEW i \in 1..Len(r)
        PROVE  r[i].b = Bytes(L[e + i].a)[L[e + i].o] /\ (r[i].first <=> L[e + i].o = 1)
    <3> DEFINE j == n + i
    <3>1. j \in 1..Len(l) /\ c + j = e + i /\ r[i] = l[j]
      BY <1>1, <1>6
    <3> HIDE DEF j
    <3>2. l[j].b = Bytes(L[c + j].a)[L[c + j].o] /\ (l[j].first <=> L[c + j].o = 1)
      BY <3>1 DEF Lies
    <3> QED
      BY <3>1, <3>2, Zenon
  <2> QED
    BY <2>1 DEF Lies
<1>8. Ahead(t, r, L, c, e, l, n)
  BY <1>3, <1>4, <1>6, <1>7 DEF Ahead
<1> QED
  BY <1>8, Zenon

Both(r, s, t, L, k) ==
  r \in Seq(Alphabet) /\ Len(r) = Len(s) + Len(t) /\ Holds(r, L, k)

LEMMA HeldBoth ==
  ASSUME NEW L, NEW k \in Nat, NEW s \in Seq(Alphabet), NEW t \in Seq(Alphabet), Holds(s, L, k),
         Holds(t, L, k + Len(s))
  PROVE  Both(s \o t, s, t, L, k)
<1> DEFINE c == k + Len(s)
           r == s \o t
<1>a. c = k + Len(s) /\ r = s \o t /\ Holds(t, L, c)
  OBVIOUS
<1> HIDE DEF c, r
<1> USE <1>a
<1>1. /\ r \in Seq(Alphabet) /\ Len(r) = Len(s) + Len(t) /\ Len(s) \in Nat /\ Len(t) \in Nat
      /\ \A i \in 1..Len(s) : r[i] = s[i]
      /\ \A i \in 1..Len(t) : r[Len(s) + i] = t[i]
  BY Glued
<1>2. ASSUME NEW i \in 1..Len(r) PROVE r[i] = Bytes(L[k + i].a)[L[k + i].o]
  <2>1. CASE i <= Len(s)
    <3>1. i \in 1..Len(s)
      BY <1>1, <2>1
    <3> QED
      BY <1>1, <3>1 DEF Holds
  <2>2. CASE i > Len(s)
    <3> DEFINE j == i - Len(s)
    <3>1. j \in 1..Len(t) /\ Len(s) + j = i /\ c + j = k + i
      BY <1>1, <2>2
    <3> HIDE DEF j
    <3>2. t[j] = Bytes(L[c + j].a)[L[c + j].o] /\ r[Len(s) + j] = t[j]
      BY <1>1, <3>1 DEF Holds
    <3> QED
      BY <3>1, <3>2, Zenon
  <2> QED
    BY <1>1, <2>1, <2>2
<1>3. Both(r, s, t, L, k)
  BY <1>1, <1>2 DEF Holds, Both
<1> QED
  BY <1>3, Zenon

\* The query takes an answer of the terminal out of the stream, and nothing else.
Taken(own, seen, px, n, m, s, rest) ==
  \E M : /\ Ledger(M, own, seen, px) /\ At(M, 0, n, m, own, seen)
         /\ Len(M) = Len(s) + Len(rest) /\ Holds(s, M, 0) /\ Lies(rest, M, Len(s))

LEMMA AnswerTaken ==
  ASSUME NEW own, Len(own) \in Nat, NEW seen, NEW px \in BOOLEAN, NEW L, Ledger(L, own, seen, px),
         NEW n, NEW m, At(L, 0, n, m, own, seen), NEW buf \in Seq(Alphabet), Holds(buf, L, 0),
         NEW rest, Len(rest) \in Nat, Lies(rest, L, Len(buf)), Len(L) = Len(buf) + Len(rest),
         NEW i \in Nat, i >= 1, NEW e, e = i + 7, e <= Len(buf), buf[e] = "t",
         NEW s \in Seq(Alphabet), Without(s, buf, i)
  PROVE  Taken(own, seen, px, n, m, s, rest)
<1> DEFINE c == Len(buf)
<1>a. c = Len(buf) /\ Lies(rest, L, c) /\ Len(L) = c + Len(rest)
  OBVIOUS
<1> HIDE DEF c
<1> USE <1>a
<1>0. L \in Seq(Labels) /\ Len(L) \in Nat /\ c \in Nat /\ e \in 1..Len(L) /\ e <= Len(L)
      /\ e \in 1..c /\ i + 7 <= Len(L) /\ c <= Len(L)
  BY DEF Ledger
<1> DEFINE x == L[e]
           M == SubSeq(L, 1, i - 1) \o SubSeq(L, i + 8, Len(L))
<1>1. x.a = "size" /\ x.o = 8
  <2> DEFINE b == Bytes(x.a)
  <2>1. 0 + e = e
    BY <1>0
  <2>2. buf[e] = Bytes(L[0 + e].a)[L[0 + e].o]
    BY <1>0 DEF Holds
  <2>3. b[x.o] = "t"
    BY <2>1, <2>2
  <2>4. x.a \in All /\ x.o \in Nat /\ x.o >= 1 /\ x.o <= Width(x.a) /\ Width(x.a) \in Nat
    <3>1. x.a \in All /\ x.o \in 1..9 /\ Width(x.a) \in 1..9
      BY <1>0, LabelType, Zenon
    <3>2. x.o <= Width(x.a)
      BY <1>0 DEF Ledger, Chain
    <3> QED
      BY <3>1, <3>2
  <2>5. x.o \in 1..Len(b)
    BY <2>4 DEF Width
  <2> HIDE DEF x
  <2>6. b = Bytes(x.a)
    OBVIOUS
  <2> HIDE DEF b
  <2> QED
    BY <2>3, <2>4, <2>5, <2>6, OnlySize
<1>2. M \in Seq(Labels) /\ Without(M, L, i)
  BY <1>0, CutOut
<1> HIDE DEF M
<1>3. Ledger(M, own, seen, px) /\ At(M, 0, n, m, own, seen)
  <2>1. x = L[e]
    OBVIOUS
  <2> HIDE DEF x
  <2> QED
    BY <1>0, <1>1, <1>2, <2>1, Removed, Zenon
<1>4. Len(M) = Len(L) - 8 /\ Len(s) = c - 8 /\ Len(M) \in Nat /\ Len(s) \in Nat
  BY <1>0, <1>2 DEF Without
<1>5. Len(M) = Len(s) + Len(rest)
  BY <1>0, <1>4
<1>6. ASSUME NEW k \in 1..Len(M), k < i PROVE M[k] = L[k]
  <2>1. k \in 1..(i - 1)
    BY <1>4, <1>6
  <2> QED
    BY <1>2, <2>1 DEF Without
<1>7. ASSUME NEW k \in 1..Len(M), k >= i, NEW q, q = k + 8 PROVE M[k] = L[q]
  <2>1. k \in i..(Len(L) - 8) /\ q \in 1..Len(L)
    BY <1>0, <1>4, <1>7
  <2> QED
    BY <1>2, <1>7, <2>1 DEF Without
<1>8. Holds(s, M, 0)
  <2>1. ASSUME NEW k \in 1..Len(s) PROVE s[k] = Bytes(M[0 + k].a)[M[0 + k].o]
    <3>0. k \in 1..Len(M) /\ 0 + k = k /\ k \in Nat
      BY <1>0, <1>4, <1>5
    <3>1. CASE k < i
      <4>1. k \in 1..(i - 1) /\ k \in 1..Len(buf)
        BY <1>4, <3>0, <3>1
      <4>2. s[k] = buf[k]
        BY <4>1 DEF Without
      <4>3. buf[k] = Bytes(L[0 + k].a)[L[0 + k].o]
        BY <4>1 DEF Holds
      <4>4. M[k] = L[k]
        BY <1>6, <3>0, <3>1
      <4> QED
        BY <3>0, <4>2, <4>3, <4>4
    <3>2. CASE k >= i
      <4> DEFINE q == k + 8
      <4>1. k \in i..(Len(buf) - 8) /\ q \in 1..Len(buf) /\ q = k + 8 /\ 0 + q = q
        BY <1>4, <3>0, <3>2
      <4> HIDE DEF q
      <4>2. s[k] = buf[q]
        BY <4>1 DEF Without
      <4>3. buf[q] = Bytes(L[0 + q].a)[L[0 + q].o]
        BY <4>1 DEF Holds
      <4>4. M[k] = L[q]
        BY <1>7, <3>0, <3>2, <4>1
      <4> QED
        BY <3>0, <4>1, <4>2, <4>3, <4>4
    <3> QED
      BY <3>0, <3>1, <3>2
  <2> QED
    BY <2>1 DEF Holds
<1>9. Lies(rest, M, Len(s))
  <2> DEFINE z == Len(s)
  <2>1. ASSUME NEW k \in 1..Len(rest)
        PROVE  rest[k].b = Bytes(M[z + k].a)[M[z + k].o] /\ (rest[k].first <=> M[z + k].o = 1)
    <3> DEFINE j == z + k
               q == c + k
    <3>1. j \in 1..Len(M) /\ j >= i /\ q = j + 8
      BY <1>0, <1>4, <1>5
    <3> HIDE DEF j, q, z
    <3>2. M[j] = L[q]
      BY <1>7, <3>1
    <3>3. rest[k].b = Bytes(L[q].a)[L[q].o] /\ (rest[k].first <=> L[q].o = 1)
      BY DEF Lies, q
    <3> QED
      BY <3>2, <3>3 DEF j
  <2> QED
    BY <2>1 DEF Lies
<1> QED
  BY <1>3, <1>5, <1>8, <1>9 DEF Taken

\* What was at hand stays, and what is sent stands behind it.
Extends(M, L, c) == \A i \in 1..c : M[i] = L[i]

\* The bytes b on the line, the first of them marked.
Marked(s, b) == \A k \in 1..Len(b) : s[k].b = b[k] /\ (s[k].first <=> k = 1)

LEMMA SentLine ==
  ASSUME NEW a \in All, NEW s, s = Sent(a), NEW b, b = Bytes(a)
  PROVE  s \in Seq(LineBytes) /\ Len(s) = Len(b) /\ Marked(s, b)
<1>1. b \in Seq(Alphabet) /\ Len(b) \in Nat
  BY Lengths
<1>2. DOMAIN b = 1..Len(b)
  BY <1>1
<1>3. s = [k \in 1..Len(b) |-> [b |-> b[k], first |-> k = 1]]
  BY <1>2 DEF Sent
<1>4. \A k \in 1..Len(b) : [b |-> b[k], first |-> k = 1] \in LineBytes
  BY <1>1 DEF LineBytes
<1>5. s \in [1..Len(b) -> LineBytes]
  BY <1>3, <1>4
<1>6. s \in Seq(LineBytes) /\ Len(s) = Len(b)
  BY <1>1, <1>5, Sequence
<1>7. ASSUME NEW k \in 1..Len(b) PROVE s[k].b = b[k] /\ (s[k].first <=> k = 1)
  <2> DEFINE f == (k = 1)
  <2>1. s[k] = [b |-> b[k], first |-> f]
    BY <1>3
  <2> HIDE DEF f
  <2>2. s[k].b = b[k]
    BY <2>1
  <2>3. s[k].first = f
    BY <2>1
  <2>4. f <=> k = 1
    BY Zenon DEF f
  <2>5. s[k].first <=> k = 1
    BY <2>3, <2>4, Zenon
  <2> QED
    BY <2>2, <2>5, Zenon
<1>8. Marked(s, b)
  BY <1>7, Zenon DEF Marked
<1> QED
  BY <1>6, <1>8

Sown(own2, own, seen2, L, n, m, a, px) ==
  /\ own2 \in Seq(Heard) /\ Len(own) <= Len(own2) /\ Extends(own2, own, Len(own))
  /\ \E M : /\ Ledger(M, own2, seen2, px) /\ At(M, 0, n, m, own2, seen2)
            /\ Adds(M, L, a, Width(a))

LEMMA SendsBytes ==
  ASSUME NEW own \in Seq(Heard), NEW px \in BOOLEAN, NEW seen, seen = SeenIn(own),
         NEW L, Ledger(L, own, seen, px), NEW n \in Nat, NEW m, At(L, 0, n, m, own, seen), NEW a \in All,
         n < Len(own) /\ own[Len(own)] = Key("Escape") => a \notin {"a", "eacute", "size"}
  PROVE  Sown(own \o Ev(a, seen, px), own, SeenIn(own \o Ev(a, seen, px)), L, n, m, a, px)
<1> DEFINE ev == Ev(a, seen, px)
           own2 == own \o ev
<1>a. ev = Ev(a, seen, px) /\ own2 = own \o ev
  OBVIOUS
<1> HIDE DEF ev, own2
<1> USE <1>a
<1>0. L \in Seq(Labels) /\ Len(L) \in Nat /\ Len(own) \in Nat
  BY DEF Ledger
<1>1. seen \in Int /\ SeenAt(own, seen)
  BY SeenIs
<1>2. Len(L) # 0 /\ L[Len(L)].a = "Escape" => a \notin {"a", "eacute", "size"}
  BY <1>0, Pending
<1> DEFINE M == L \o Sentence(a, Len(own), seen)
           seen2 == After(a, seen, px)
<1>3. Ledger(M, own2, seen2, px) /\ At(M, 0, n, m, own2, seen2) /\ Adds(M, L, a, Width(a))
  <2>1. Grown(M, L, own \o Ev(a, seen, px), seen2, px, n, m, a)
    BY <1>1, <1>2, Growing, Zenon
  <2>2. Grown(M, L, own2, seen2, px, n, m, a)
    BY <2>1, Zenon
  <2> HIDE DEF M, seen2
  <2> QED
    BY <2>2, Zenon DEF Grown
<1> HIDE DEF M, seen2
<1>4. ev \in Seq(Heard)
  BY <1>1, EvType
<1>5. /\ own2 \in Seq(Heard) /\ Len(own2) = Len(own) + Len(ev) /\ Len(ev) \in Nat
      /\ \A i \in 1..Len(own) : own2[i] = own[i]
  BY <1>4, Glued
<1>6. Len(own) <= Len(own2) /\ Extends(own2, own, Len(own)) /\ Len(own2) \in Nat
  BY <1>0, <1>5 DEF Extends
<1>7. seen2 = SeenIn(own2)
  <2>1. SeenAt(own2, seen2)
    BY <1>1, SeenAfter DEF seen2
  <2>2. SeenAt(own2, SeenIn(own2))
    BY <1>5, SeenIs
  <2> QED
    BY <1>6, <2>1, <2>2, SeenOnce, Zenon
<1>8. Sown(own2, own, SeenIn(own2), L, n, m, a, px)
  BY <1>3, <1>5, <1>6, <1>7 DEF Sown
<1> QED
  BY <1>8, Zenon DEF own2, ev

AsJoined(r, s, t) == /\ Len(r) = Len(s) + Len(t) /\ \A k \in 1..Len(s) : r[k] = s[k]
                     /\ \A k \in 1..Len(t) : r[Len(s) + k] = t[k]

LEMMA JoinedAs ==
  ASSUME NEW X, NEW s \in Seq(X), NEW t \in Seq(X), NEW r, r = s \o t
  PROVE  AsJoined(r, s, t)
BY DEF AsJoined

Lined(l2, L, M, c) ==
  l2 \in Seq(LineBytes) /\ Len(M) = c + Len(l2) /\ Extends(M, L, c) /\ Lies(l2, M, c)

LEMMA SendsLine ==
  ASSUME NEW L, NEW M, NEW a \in All, Adds(M, L, a, Width(a)), Len(L) \in Nat,
         NEW c \in Nat, NEW l \in Seq(LineBytes), Lies(l, L, c), Len(L) = c + Len(l)
  PROVE  Lined(l \o Sent(a), L, M, c)
<1> DEFINE s == Sent(a)
           l2 == l \o s
<1>a. s = Sent(a) /\ l2 = l \o s
  OBVIOUS
<1> HIDE DEF s, l2
<1> USE <1>a
<1> DEFINE b == Bytes(a)
           w == Width(a)
<1>1. s \in Seq(LineBytes) /\ Len(s) = Len(b) /\ Marked(s, b)
  <2>1. b = Bytes(a)
    OBVIOUS
  <2> HIDE DEF b
  <2> QED
    BY <2>1, SentLine
<1>2. w = Len(b) /\ b = Bytes(a)
  BY DEF Width
<1> HIDE DEF b
<1>3. /\ Len(M) = Len(L) + w /\ \A i \in 1..Len(L) : M[i] = L[i]
      /\ \A k \in 1..w : M[Len(L) + k].a = a /\ M[Len(L) + k].o = k
  BY DEF Adds
<1> HIDE DEF w
<1>4. /\ l2 \in Seq(LineBytes) /\ Len(l2) = Len(l) + Len(s) /\ Len(s) \in Nat /\ Len(l) \in Nat
      /\ \A i \in 1..Len(l) : l2[i] = l[i]
      /\ \A i \in 1..Len(s) : l2[Len(l) + i] = s[i]
  <2>1. s \in Seq(LineBytes) /\ l2 = l \o s
    BY <1>1
  <2>2. AsJoined(l2, l, s)
    BY <2>1, JoinedAs, Zenon
  <2>3. Len(s) \in Nat /\ Len(l) \in Nat
    BY <2>1
  <2>4. l2 \in Seq(LineBytes)
    BY <2>1
  <2> QED
    BY <2>2, <2>3, <2>4 DEF AsJoined
<1>5. Len(M) = c + Len(l2)
  BY <1>1, <1>2, <1>3, <1>4
<1>6. Extends(M, L, c)
  BY <1>3, <1>4 DEF Extends
<1>7. Lies(l2, M, c)
  <2>1. ASSUME NEW i \in 1..Len(l2)
        PROVE  l2[i].b = Bytes(M[c + i].a)[M[c + i].o] /\ (l2[i].first <=> M[c + i].o = 1)
    <3>1. CASE i <= Len(l)
      <4>1. i \in 1..Len(l) /\ c + i \in 1..Len(L)
        BY <1>4, <3>1
      <4>2. l[i].b = Bytes(L[c + i].a)[L[c + i].o] /\ (l[i].first <=> L[c + i].o = 1)
        BY <4>1 DEF Lies
      <4>3. l2[i] = l[i] /\ M[c + i] = L[c + i]
        BY <1>3, <1>4, <4>1
      <4> QED
        BY <4>2, <4>3, Zenon
    <3>2. CASE i > Len(l)
      <4> DEFINE k == i - Len(l)
      <4>1. k \in 1..Len(s) /\ k \in 1..w /\ k \in 1..Len(b) /\ Len(l) + k = i /\ Len(L) + k = c + i
        BY <1>1, <1>2, <1>4, <3>2
      <4> HIDE DEF k
      <4>2. l2[i] = s[k]
        BY <1>4, <4>1
      <4>3. M[c + i].a = a /\ M[c + i].o = k
        BY <1>3, <4>1
      <4>4. s[k].b = b[k] /\ (s[k].first <=> k = 1)
        BY <1>1, <4>1, Zenon DEF Marked
      <4> QED
        BY <1>2, <4>2, <4>3, <4>4, Zenon
    <3> QED
      BY <1>4, <3>1, <3>2
  <2> QED
    BY <2>1 DEF Lies
<1>8. Lined(l2, L, M, c)
  BY <1>4, <1>5, <1>6, <1>7 DEF Lined
<1> QED
  BY <1>8, Zenon DEF l2, s

Escaped(l, own, seen, px, n, m) ==
  \E M : /\ Ledger(M, own, seen, px) /\ At(M, 0, n + 1, m, own, seen)
         /\ Len(M) = Len(l) /\ Lies(l, M, 0)

\* The lone Escape at the front of the stream is told as a key.
LEMMA EscapeTold ==
  ASSUME NEW own \in Seq(Heard), NEW seen, NEW px \in BOOLEAN, NEW L, Ledger(L, own, seen, px),
         NEW n \in Nat, NEW m, At(L, 0, n, m, own, seen), NEW l, Len(l) \in Nat, Len(L) = 1 + Len(l),
         Bytes(L[1].a)[L[1].o] = "ESC", Lies(l, L, 1), Len(l) # 0 => l[1].first
  PROVE  /\ n + 1 <= Len(own) /\ own[n + 1] = Key("Escape")
         /\ Escaped(l, own, seen, px, n, m)
<1>0. L \in Seq(Labels) /\ Len(L) \in Nat /\ Len(own) \in Nat /\ 1 \in 1..Len(L) /\ 0 < Len(L)
      /\ 0 + 1 = 1
  BY DEF Ledger
<1> DEFINE a == L[1].a
           w == Width(a)
<1>1. L[1].o = 1 /\ L[1].n = n /\ L[1].m = m
  BY <1>0 DEF At
<1>2. a \in All /\ w \in 1..9 /\ n \in Nat /\ m \in Int
  BY <1>0, <1>1, LabelType
<1>3. w = 1
  <2>1. CASE Len(l) = 0
    <3>1. Len(L) = 1
      BY <2>1
    <3>2. WithoutGap(L, own, seen, px)
      BY DEF Ledger
    <3>3. L[Len(L)].o = Width(L[Len(L)].a)
      BY <3>1, <3>2 DEF WithoutGap
    <3> QED
      BY <1>1, <3>1, <3>3
  <2>2. CASE Len(l) # 0
    <3>1. 1 \in 1..Len(l) /\ 1 < Len(L) /\ 1 + 1 = 2
      BY <2>2
    <3>2. L[1 + 1].o = 1
      BY <2>2, <3>1 DEF Lies
    <3>3. Follows(L[1], L[1 + 1], px)
      BY <1>0, <3>1 DEF Ledger, Chain
    <3>4. ~(L[1].o < w)
      BY <1>1, <3>2, <3>3 DEF Follows
    <3> QED
      BY <1>1, <1>2, <3>4
  <2> QED
    BY <2>1, <2>2
<1>4. a = "Escape"
  <2> DEFINE b == Bytes(a)
  <2>1. Len(b) = 1 /\ b[1] = "ESC"
    BY <1>1, <1>3 DEF Width
  <2>2. b = Bytes(a)
    OBVIOUS
  <2> HIDE DEF a, b
  <2> QED
    BY <1>2, <2>1, <2>2, OneByte
<1>5. Ev(a, m, px) = <<Key("Escape")>> /\ After(a, m, px) = m
  BY <1>4 DEF Ev, After
<1>6. Len(Ev(a, m, px)) = 1 /\ Ev(a, m, px)[1] = Key("Escape")
  BY <1>5
<1>7. Owing(L[1], own, px)
  BY <1>0 DEF Ledger
<1>8. n + 1 <= Len(own) /\ own[n + 1] = Key("Escape")
  BY <1>1, <1>6, <1>7 DEF Owing
<1>9. At(L, 1, n + 1, m, own, seen)
  <2>1. L[0 + 1].o = 1 /\ L[0 + 1] = L[1] /\ 0 \in Nat
    BY <1>0, <1>1
  <2>2. WholeAct(L, 0, L[0 + 1].a, L[0 + 1].n, L[0 + 1].m, Width(L[0 + 1].a), own, seen, px)
    BY <1>0, <2>1, ActAt
  <2>3. WholeAct(L, 0, a, n, m, 1, own, seen, px)
    BY <1>1, <1>3, <2>1, <2>2, Zenon
  <2> HIDE DEF a
  <2>4. At(L, 0 + 1, n + Len(Ev(a, m, px)), After(a, m, px), own, seen)
    BY <2>3 DEF WholeAct
  <2> QED
    BY <1>0, <1>5, <1>6, <2>4
<1> DEFINE M == SubSeq(L, 1 + 1, Len(L))
<1>10. Ledger(M, own, seen, px) /\ At(M, 0, n + 1, m, own, seen) /\ Behind(M, L, 1)
  <2>1. 1 \in 0..Len(L) /\ M = SubSeq(L, 1 + 1, Len(L))
    BY <1>0
  <2> HIDE DEF M
  <2> QED
    BY <1>9, <2>1, Beheaded
<1> HIDE DEF M
<1>11. Len(M) = Len(l)
  BY <1>0, <1>10 DEF Behind
<1>12. Lies(l, M, 0)
  <2>1. ASSUME NEW i \in 1..Len(l)
        PROVE  l[i].b = Bytes(M[0 + i].a)[M[0 + i].o] /\ (l[i].first <=> M[0 + i].o = 1)
    <3>1. 0 + i = i /\ i \in 1..Len(M)
      BY <1>11
    <3>2. M[i] = L[1 + i]
      BY <1>10, <3>1 DEF Behind
    <3>3. l[i].b = Bytes(L[1 + i].a)[L[1 + i].o] /\ (l[i].first <=> L[1 + i].o = 1)
      BY DEF Lies
    <3> QED
      BY <3>1, <3>2, <3>3, Zenon
  <2> QED
    BY <2>1 DEF Lies
<1> QED
  BY <1>8, <1>10, <1>11, <1>12 DEF Escaped

--------------------------------------------------------------------------------
(* The labels of everything on its way: some L spells what the parser holds,    *)
(* then the stash, then the line, and begins where the parser is.               *)

Script(L, buf, last, st, l, own, told, px) ==
  /\ Ledger(L, own, SeenIn(own), px) /\ At(L, 0, Len(told), last, own, SeenIn(own))
  /\ Len(L) = Len(buf) + Len(st) + Len(l)
  /\ Holds(buf, L, 0) /\ Holds(st, L, Len(buf)) /\ Lies(l, L, Len(buf) + Len(st))

Scripted(buf, last, st, l, own, told, px) == \E L : Script(L, buf, last, st, l, own, told, px)

\* Bytes go from the line to the stash.
LEMMA ScriptRead ==
  ASSUME NEW own, NEW told, NEW buf \in Seq(Alphabet), NEW last,
         NEW st \in Seq(Alphabet), NEW l \in Seq(LineBytes), NEW px, NEW L,
         Script(L, buf, last, st, l, own, told, px), NEW j \in 1..Len(l)
  PROVE  /\ BytesOf(l, j) \in Seq(Alphabet) /\ st \o BytesOf(l, j) \in Seq(Alphabet)
         /\ Rest(l, j) \in Seq(LineBytes)
         /\ Script(L, buf, last, st \o BytesOf(l, j), Rest(l, j), own, told, px)
<1> DEFINE k == Len(buf)
           c == k + Len(st)
           t == BytesOf(l, j)
           r == Rest(l, j)
           s == st \o t
<1>1. k \in Nat /\ c \in Nat /\ Len(st) \in Nat /\ Len(l) \in Nat /\ j \in 0..Len(l) /\ j \in Nat
  OBVIOUS
<1>2. /\ Ledger(L, own, SeenIn(own), px) /\ At(L, 0, Len(told), last, own, SeenIn(own))
      /\ Holds(buf, L, 0) /\ Holds(st, L, k) /\ Lies(l, L, c) /\ Len(L) = c + Len(l)
  BY DEF Script
<1>3. Ahead(t, r, L, c, c + j, l, j)
  <2> HIDE DEF c
  <2> QED
    BY <1>1, <1>2, ReadAhead, Zenon
<1>4. c = k + Len(st)
  OBVIOUS
<1>5. k = Len(buf)
  OBVIOUS
<1> HIDE DEF k, c, t, r
<1>6. /\ t \in Seq(Alphabet) /\ Len(t) = j /\ Holds(t, L, c)
      /\ r \in Seq(LineBytes) /\ Len(r) = Len(l) - j /\ Lies(r, L, c + j)
  BY <1>3 DEF Ahead
<1>7. Both(s, st, t, L, k)
  <2>1. Holds(t, L, k + Len(st))
    BY <1>4, <1>6, Zenon
  <2> QED
    BY <1>1, <1>2, <1>6, <2>1, HeldBoth, Zenon
<1> HIDE DEF s
<1>8. s \in Seq(Alphabet) /\ Len(s) = Len(st) + Len(t) /\ Holds(s, L, k)
  BY <1>7 DEF Both
<1>9. c + j = Len(buf) + Len(s) /\ Len(L) = Len(buf) + Len(s) + Len(r)
  BY <1>1, <1>2, <1>4, <1>5, <1>6, <1>8
<1>10. Holds(s, L, Len(buf)) /\ Lies(r, L, Len(buf) + Len(s))
  BY <1>5, <1>6, <1>8, <1>9, Zenon
<1>11. Script(L, buf, last, s, r, own, told, px)
  BY <1>2, <1>9, <1>10, Zenon DEF Script
<1> QED
  BY <1>6, <1>8, <1>11 DEF s, t, r

\* What is stashed, or was just read, is given to the parser.
Parsed(t, h, l, own, px) ==
  /\ t.buf \in Seq(Alphabet) /\ Len(t.buf) <= 8 /\ t.last \in Int
  /\ h \in Seq(Heard) /\ Told0(h, own)
  /\ Scripted(t.buf, t.last, <<>>, l, own, h, px)

LEMMA ScriptFed ==
  ASSUME NEW own \in Seq(Heard), NEW g \in Seq(Heard), NEW p, p.buf \in Seq(Alphabet), p.last \in Int,
         NEW st \in Seq(Alphabet), NEW l \in Seq(LineBytes), NEW px \in BOOLEAN,
         Scripted(p.buf, p.last, st, l, own, g, px), Told0(g, own)
  PROVE  Parsed(Fed(p, st, px), g \o Fed(p, st, px).out, l, own, px)
<1>1. PICK L : Script(L, p.buf, p.last, st, l, own, g, px)
  BY DEF Scripted
<1> DEFINE t == Fed(p, st, px)
           h == g \o t.out
           seen == SeenIn(own)
<1>2. Fresh(t, h, l, own, seen, px)
  <2>1. Len(l) \in Nat
    OBVIOUS
  <2>2. /\ Ledger(L, own, seen, px) /\ At(L, 0, Len(g), p.last, own, seen)
        /\ Len(L) = Len(p.buf) + Len(st) + Len(l)
        /\ Holds(p.buf, L, 0) /\ Holds(st, L, Len(p.buf)) /\ Lies(l, L, Len(p.buf) + Len(st))
    BY <1>1 DEF Script
  <2> HIDE DEF seen
  <2> QED
    BY <2>1, <2>2, Delivered, Zenon
<1> HIDE DEF t, h
<1>3. /\ t.buf \in Seq(Alphabet) /\ Len(t.buf) <= 8 /\ t.last \in Int
      /\ h \in Seq(Heard) /\ Told0(h, own)
  BY <1>2 DEF Fresh
<1>4. PICK M : Left0(M, t, h, l, own, seen, px)
  BY <1>2 DEF Fresh
<1> DEFINE z == <<>>
<1>5. Len(z) = 0 /\ Len(t.buf) + Len(z) = Len(t.buf)
  BY <1>3
<1>6. Holds(z, M, Len(t.buf))
  BY <1>5 DEF Holds
<1> HIDE DEF z
<1>7. Len(M) = Len(t.buf) + Len(z) + Len(l)
  BY <1>4, <1>5 DEF Left0
<1>8. Lies(l, M, Len(t.buf) + Len(z))
  BY <1>4, <1>5, Zenon DEF Left0
<1>9. /\ Ledger(M, own, SeenIn(own), px) /\ At(M, 0, Len(h), t.last, own, SeenIn(own))
      /\ Holds(t.buf, M, 0)
  BY <1>4, Zenon DEF Left0
<1>10. Script(M, t.buf, t.last, z, l, own, h, px)
  BY <1>6, <1>7, <1>8, <1>9, Zenon DEF Script
<1>11. Scripted(t.buf, t.last, <<>>, l, own, h, px)
  BY <1>10 DEF Scripted, z
<1>12. Parsed(t, h, l, own, px)
  BY <1>3, <1>11, Zenon DEF Parsed
<1> QED
  BY <1>12, Zenon DEF h, t

\* The query takes the answer out of what it read.
TakenOut(s, buf, last, l, own, told, px) ==
  s \in Seq(Alphabet) /\ Scripted(buf, last, s, l, own, told, px)

LEMMA ScriptTaken ==
  ASSUME NEW own \in Seq(Heard), NEW told \in Seq(Heard), NEW last, NEW buf, NEW st \in Seq(Alphabet),
         NEW l \in Seq(LineBytes), NEW px \in BOOLEAN, Len(buf) = 0, NEW L,
         Script(L, buf, last, st, l, own, told, px),
         NEW i \in Nat, i >= 1, NEW e, e = i + 7, e <= Len(st), st[e] = "t"
  PROVE  TakenOut(SubSeq(st, 1, i - 1) \o SubSeq(st, i + 8, Len(st)), buf, last, l, own, told, px)
<1> DEFINE s == SubSeq(st, 1, i - 1) \o SubSeq(st, i + 8, Len(st))
           seen == SeenIn(own)
           n == Len(told)
<1>0. Len(own) \in Nat /\ Len(l) \in Nat /\ Len(st) \in Nat /\ i + 7 <= Len(st)
  OBVIOUS
<1>1. s \in Seq(Alphabet) /\ Without(s, st, i)
  BY <1>0, CutOut
<1> HIDE DEF s
<1>2. /\ Ledger(L, own, seen, px) /\ At(L, 0, n, last, own, seen)
      /\ Len(L) = Len(buf) + Len(st) + Len(l)
      /\ Holds(st, L, Len(buf)) /\ Lies(l, L, Len(buf) + Len(st))
  BY DEF Script
<1>3. Len(buf) + Len(st) = Len(st) /\ Len(L) = Len(st) + Len(l)
  BY <1>0, <1>2
<1>4. Holds(st, L, 0) /\ Lies(l, L, Len(st))
  BY <1>2, <1>3, Zenon
<1>5. Taken(own, seen, px, n, last, s, l)
  <2> HIDE DEF seen, n
  <2> QED
    BY <1>0, <1>1, <1>2, <1>3, <1>4, AnswerTaken, Zenon
<1>6. PICK M : /\ Ledger(M, own, seen, px) /\ At(M, 0, n, last, own, seen)
               /\ Len(M) = Len(s) + Len(l) /\ Holds(s, M, 0) /\ Lies(l, M, Len(s))
  BY <1>5 DEF Taken
<1>7. Len(buf) + Len(s) = Len(s) /\ Len(M) = Len(buf) + Len(s) + Len(l)
  BY <1>0, <1>1, <1>6
<1>8. Holds(buf, M, 0)
  BY DEF Holds
<1>9. Holds(s, M, Len(buf)) /\ Lies(l, M, Len(buf) + Len(s))
  BY <1>6, <1>7, Zenon
<1>10. Script(M, buf, last, s, l, own, told, px)
  BY <1>6, <1>7, <1>8, <1>9, Zenon DEF Script
<1>11. Scripted(buf, last, s, l, own, told, px)
  BY <1>10 DEF Scripted
<1> QED
  BY <1>1, <1>11 DEF s, TakenOut

\* What the user does, or the terminal answers, comes behind all that.
LEMMA HeldStill ==
  ASSUME NEW L, NEW M, NEW c, Extends(M, L, c), NEW s, NEW k \in Nat, Len(s) \in Nat, c \in Nat,
         k + Len(s) <= c, Holds(s, L, k)
  PROVE  Holds(s, M, k)
<1>1. ASSUME NEW i \in 1..Len(s) PROVE s[i] = Bytes(M[k + i].a)[M[k + i].o]
  <2>1. k + i \in 1..c
    OBVIOUS
  <2>2. M[k + i] = L[k + i]
    BY <2>1 DEF Extends
  <2>3. s[i] = Bytes(L[k + i].a)[L[k + i].o]
    BY DEF Holds
  <2> QED
    BY <2>2, <2>3
<1> QED
  BY <1>1 DEF Holds

Says(own, l, buf, last, st, told, px, a) ==
  /\ own \o Ev(a, SeenIn(own), px) \in Seq(Heard) /\ l \o Sent(a) \in Seq(LineBytes)
  /\ Len(own) <= Len(own \o Ev(a, SeenIn(own), px))
  /\ Extends(own \o Ev(a, SeenIn(own), px), own, Len(own))
  /\ Scripted(buf, last, st, l \o Sent(a), own \o Ev(a, SeenIn(own), px), told, px)

LEMMA ScriptSent ==
  ASSUME NEW own \in Seq(Heard), NEW told \in Seq(Heard), NEW last, NEW buf \in Seq(Alphabet),
         NEW st \in Seq(Alphabet), NEW l \in Seq(LineBytes), NEW px \in BOOLEAN,
         Scripted(buf, last, st, l, own, told, px), NEW a \in All,
         Len(told) < Len(own) /\ own[Len(own)] = Key("Escape") => a \notin {"a", "eacute", "size"}
  PROVE  Says(own, l, buf, last, st, told, px, a)
<1>1. PICK L : Script(L, buf, last, st, l, own, told, px)
  BY DEF Scripted
<1> DEFINE seen == SeenIn(own)
           n == Len(told)
           own2 == own \o Ev(a, seen, px)
           l2 == l \o Sent(a)
           c == Len(buf) + Len(st)
<1>2. /\ Ledger(L, own, seen, px) /\ At(L, 0, n, last, own, seen) /\ Len(L) = c + Len(l)
      /\ Holds(buf, L, 0) /\ Holds(st, L, Len(buf)) /\ Lies(l, L, c)
  BY <1>1 DEF Script
<1>3. Len(buf) \in Nat /\ Len(st) \in Nat /\ c \in Nat /\ Len(l) \in Nat /\ n \in Nat
      /\ Len(L) \in Nat /\ 0 + Len(buf) <= c /\ 0 \in Nat /\ Len(buf) + Len(st) <= c
  BY <1>2
<1>4. Sown(own2, own, SeenIn(own2), L, n, last, a, px)
  <2>1. seen = SeenIn(own)
    OBVIOUS
  <2>2. n < Len(own) /\ own[Len(own)] = Key("Escape") => a \notin {"a", "eacute", "size"}
    OBVIOUS
  <2> HIDE DEF seen, n
  <2> QED
    BY <1>2, <1>3, <2>1, <2>2, SendsBytes, Zenon
<1> HIDE DEF own2
<1>5. PICK M : /\ Ledger(M, own2, SeenIn(own2), px) /\ At(M, 0, n, last, own2, SeenIn(own2))
               /\ Adds(M, L, a, Width(a))
  BY <1>4 DEF Sown
<1>6. Lined(l2, L, M, c)
  <2> HIDE DEF c
  <2> QED
    BY <1>2, <1>3, <1>5, SendsLine, Zenon
<1> HIDE DEF l2
<1>7. Holds(buf, M, 0) /\ Holds(st, M, Len(buf))
  <2>1. Extends(M, L, c)
    BY <1>6 DEF Lined
  <2> HIDE DEF c
  <2>2. Holds(buf, M, 0)
    BY <1>2, <1>3, <2>1, HeldStill, Zenon
  <2>3. Holds(st, M, Len(buf))
    BY <1>2, <1>3, <2>1, HeldStill, Zenon
  <2> QED
    BY <2>2, <2>3
<1>8. Script(M, buf, last, st, l2, own2, told, px)
  BY <1>5, <1>6, <1>7, Zenon DEF Lined, Script
<1>9. Scripted(buf, last, st, l2, own2, told, px)
  BY <1>8 DEF Scripted
<1>10. own2 \in Seq(Heard) /\ Len(own) <= Len(own2) /\ Extends(own2, own, Len(own))
  BY <1>4 DEF Sown
<1>11. l2 \in Seq(LineBytes)
  BY <1>6 DEF Lined
<1> QED
  BY <1>9, <1>10, <1>11, Zenon DEF Says, own2, l2

\* The lone Escape is told.
LEMMA ScriptEscape ==
  ASSUME NEW own \in Seq(Heard), NEW told \in Seq(Heard), NEW last, NEW buf \in Seq(Alphabet),
         NEW st, NEW l \in Seq(LineBytes), NEW px \in BOOLEAN,
         Scripted(buf, last, st, l, own, told, px), Told0(told, own),
         Len(buf) = 1, buf[1] = "ESC", Len(st) = 0, Len(l) # 0 => l[1].first,
         NEW z, Len(z) = 0
  PROVE  /\ Scripted(z, last, st, l, own, Append(told, Key("Escape")), px)
         /\ Append(told, Key("Escape")) \in Seq(Heard) /\ Told0(Append(told, Key("Escape")), own)
<1>1. PICK L : Script(L, buf, last, st, l, own, told, px)
  BY DEF Scripted
<1> DEFINE seen == SeenIn(own)
           n == Len(told)
           h == Append(told, Key("Escape"))
<1>2. Len(l) \in Nat /\ n \in Nat /\ Len(own) \in Nat
  OBVIOUS
<1>3. /\ Ledger(L, own, seen, px) /\ At(L, 0, n, last, own, seen)
      /\ Len(L) = 1 + Len(l) /\ Holds(buf, L, 0) /\ Lies(l, L, 1)
  <2>1. /\ Ledger(L, own, seen, px) /\ At(L, 0, n, last, own, seen)
        /\ Len(L) = Len(buf) + Len(st) + Len(l)
        /\ Holds(buf, L, 0) /\ Lies(l, L, Len(buf) + Len(st))
    BY <1>1 DEF Script
  <2>2. Len(buf) + Len(st) = 1
    OBVIOUS
  <2> QED
    BY <2>1, <2>2
<1>4. Bytes(L[1].a)[L[1].o] = "ESC"
  <2>1. 1 \in 1..Len(buf) /\ 0 + 1 = 1
    OBVIOUS
  <2>2. buf[1] = Bytes(L[0 + 1].a)[L[0 + 1].o]
    BY <1>3, <2>1 DEF Holds
  <2> QED
    BY <2>1, <2>2
<1>5. n + 1 <= Len(own) /\ own[n + 1] = Key("Escape") /\ Escaped(l, own, seen, px, n, last)
  <2> HIDE DEF seen, n
  <2> QED
    BY <1>2, <1>3, <1>4, EscapeTold, Zenon
<1>6. PICK M : /\ Ledger(M, own, seen, px) /\ At(M, 0, n + 1, last, own, seen)
               /\ Len(M) = Len(l) /\ Lies(l, M, 0)
  BY <1>5 DEF Escaped
<1>7. h \in Seq(Heard) /\ Len(h) = n + 1 /\ h[n + 1] = Key("Escape") /\ \A j \in 1..n : h[j] = told[j]
  <2>1. Key("Escape") \in Heard
    BY DEF Key, Heard, Known
  <2> QED
    BY <2>1
<1> HIDE DEF h
<1>8. Told0(h, own)
  <2>1. ASSUME NEW j \in 1..Len(h) PROVE h[j] = own[j]
    <3>1. CASE j = n + 1
      BY <1>5, <1>7, <3>1
    <3>2. CASE j # n + 1
      <4>1. j \in 1..n
        BY <1>2, <1>7, <3>2
      <4> QED
        BY <1>7, <4>1 DEF Told0
    <3> QED
      BY <3>1, <3>2
  <2> QED
    BY <1>5, <1>7, <2>1 DEF Told0
<1>9. /\ Ledger(M, own, SeenIn(own), px) /\ At(M, 0, Len(h), last, own, SeenIn(own))
  BY <1>6, <1>7
<1>10. Len(M) = Len(z) + Len(st) + Len(l) /\ Len(z) + Len(st) = 0
  BY <1>2, <1>6
<1>11. Holds(z, M, 0) /\ Holds(st, M, Len(z)) /\ Lies(l, M, Len(z) + Len(st))
  BY <1>6, <1>10 DEF Holds
<1>12. Script(M, z, last, st, l, own, h, px)
  BY <1>9, <1>10, <1>11, Zenon DEF Script
<1> QED
  BY <1>7, <1>8, <1>12 DEF Scripted, h

--------------------------------------------------------------------------------
(* The invariant: what the parser holds, the stash and the line are what is     *)
(* owed and not told, byte by byte.                                             *)

Typing == /\ phase \in {"query", "idle", "reading"} /\ armed \in BOOLEAN /\ scale \in BOOLEAN
          /\ parser \in [buf : Seq(Alphabet), last : Int] /\ Len(parser.buf) <= 8
          /\ stash \in Seq(Alphabet) /\ line \in Seq(LineBytes)
          /\ owed \in Seq(Heard) /\ got \in Seq(Heard)

\* Nothing is at the parser before the stash was, and the wake goes with it.
InTurn == /\ phase = "query" => Len(parser.buf) = 0 /\ ~armed
          /\ armed => phase = "idle" /\ Len(parser.buf) = 0
          /\ Len(stash) # 0 => phase = "query" \/ armed

Legible == Scripted(parser.buf, parser.last, stash, line, owed, got, scale)

InputInv == Typing /\ InTurn /\ Told0(got, owed) /\ Legible

LEMMA InputStarts == InputInit => InputInv
<1> SUFFICES ASSUME InputInit PROVE InputInv
  OBVIOUS
<1> DEFINE z == <<>>
<1>1. Len(z) = 0 /\ z \in Seq(Alphabet) /\ z \in Seq(LineBytes) /\ z \in Seq(Heard)
      /\ z \in Seq(Labels)
  OBVIOUS
<1>2. /\ phase = "query" /\ line = z /\ stash = z /\ armed = FALSE /\ parser = [buf |-> z, last |-> None]
      /\ scale \in BOOLEAN /\ owed = z /\ got = z
  BY DEF InputInit
<1>3. SeenIn(z) = None
  <2>1. {i \in DOMAIN z : z[i].ev = "motion"} = {}
    OBVIOUS
  <2> QED
    BY <2>1 DEF SeenIn
<1> HIDE DEF z
<1>4. parser.buf = z /\ parser.last = None
  BY <1>2
<1>5. Typing
  <2>1. parser \in [buf : Seq(Alphabet), last : Int]
    BY <1>1, <1>2 DEF None
  <2>2. phase \in {"query", "idle", "reading"} /\ armed \in BOOLEAN /\ scale \in BOOLEAN
    BY <1>2
  <2>3. stash \in Seq(Alphabet) /\ line \in Seq(LineBytes) /\ owed \in Seq(Heard) /\ got \in Seq(Heard)
    BY <1>1, <1>2
  <2>4. Len(parser.buf) <= 8
    BY <1>1, <1>4
  <2> QED
    BY <2>1, <2>2, <2>3, <2>4 DEF Typing
<1>6. InTurn
  BY <1>1, <1>2, <1>4 DEF InTurn
<1>7. Told0(got, owed)
  BY <1>1, <1>2 DEF Told0
<1>8. Ledger(z, z, None, scale)
  BY <1>1 DEF Ledger, Chain, WithoutGap
<1>9. At(z, 0, 0, None, z, None)
  BY <1>1 DEF At
<1>10. Holds(z, z, 0) /\ Lies(z, z, 0)
  BY <1>1 DEF Holds, Lies
<1>11. Script(z, z, None, z, z, z, z, scale)
  BY <1>1, <1>3, <1>8, <1>9, <1>10 DEF Script
<1>12. Legible
  BY <1>2, <1>4, <1>11 DEF Legible, Scripted
<1> QED
  BY <1>5, <1>6, <1>7, <1>12 DEF InputInv

LEMMA FirstIn ==
  ASSUME NEW E, E \subseteq Nat, E # {}
  PROVE  First(E) \in E
<1> DEFINE R == OpToRel(<, Nat)
<1>1. IsWellFoundedOn(R, Nat)
  BY NatLessThanWellFounded
<1>2. \A x, y \in Nat : <<x, y>> \in R <=> x < y
  BY DEF OpToRel
<1> HIDE DEF R
<1>3. PICK m \in E : \A y \in E : ~(<<y, m>> \in R)
  BY <1>1, WFMin
<1>4. ASSUME NEW y \in E PROVE m <= y
  <2>1. m \in Nat /\ y \in Nat
    BY <1>3
  <2>2. ~(y < m)
    BY <1>2, <1>3, <2>1
  <2> QED
    BY <2>1, <2>2
<1>5. First(E) = m
  <2>1. E \subseteq Int
    OBVIOUS
  <2> QED
    BY <1>4, <2>1, FirstIs
<1> QED
  BY <1>5

\* What a batch of the parser's events leaves.
LEMMA DeliversKeeps ==
  ASSUME Typing, Told0(got, owed), NEW bytes \in Seq(Alphabet), NEW l \in Seq(LineBytes),
         Scripted(parser.buf, parser.last, bytes, l, owed, got, scale), Delivers(bytes)
  PROVE  /\ parser' \in [buf : Seq(Alphabet), last : Int] /\ Len(parser'.buf) <= 8
         /\ got' \in Seq(Heard) /\ Told0(got', owed)
         /\ Scripted(parser'.buf, parser'.last, <<>>, l, owed, got', scale)
<1> DEFINE t == Fed(parser, bytes, scale)
           h == got \o t.out
<1>1. parser.buf \in Seq(Alphabet) /\ parser.last \in Int
  BY DEF Typing
<1>2. Parsed(t, h, l, owed, scale)
  BY <1>1, ScriptFed DEF Typing
<1>3. parser' = [buf |-> t.buf, last |-> t.last] /\ got' = h
  BY DEF Delivers
<1> HIDE DEF t, h
<1>4. /\ t.buf \in Seq(Alphabet) /\ Len(t.buf) <= 8 /\ t.last \in Int
      /\ h \in Seq(Heard) /\ Told0(h, owed)
      /\ Scripted(t.buf, t.last, <<>>, l, owed, h, scale)
  BY <1>2 DEF Parsed
<1>5. parser'.buf = t.buf /\ parser'.last = t.last
  BY <1>3
<1> QED
  BY <1>3, <1>4, <1>5

\* A read of the tty, when nothing is stashed.
LEMMA ReadsKeeps ==
  ASSUME Typing, Told0(got, owed), Legible, Len(stash) = 0, Reads
  PROVE  /\ parser' \in [buf : Seq(Alphabet), last : Int] /\ Len(parser'.buf) <= 8
         /\ got' \in Seq(Heard) /\ Told0(got', owed) /\ line' \in Seq(LineBytes)
         /\ Scripted(parser'.buf, parser'.last, <<>>, line', owed, got', scale)
<1>1. PICK n \in 1..Len(line) : Delivers(BytesOf(line, n)) /\ line' = Rest(line, n)
  BY DEF Reads
<1>2. PICK L : Script(L, parser.buf, parser.last, stash, line, owed, got, scale)
  BY DEF Legible, Scripted
<1>3. parser.buf \in Seq(Alphabet) /\ stash \in Seq(Alphabet) /\ line \in Seq(LineBytes)
  BY DEF Typing
<1> DEFINE t == BytesOf(line, n)
<1>4. /\ t \in Seq(Alphabet) /\ Rest(line, n) \in Seq(LineBytes)
      /\ Script(L, parser.buf, parser.last, stash \o t, Rest(line, n), owed, got, scale)
  BY <1>2, <1>3, ScriptRead, Zenon
<1> HIDE DEF t
<1>5. stash \o t = t
  BY <1>3, <1>4
<1>6. Scripted(parser.buf, parser.last, t, line', owed, got, scale)
  BY <1>1, <1>4, <1>5 DEF Scripted
<1>7. Delivers(t) /\ line' \in Seq(LineBytes)
  BY <1>1, <1>4 DEF t
<1> QED
  BY <1>4, <1>6, <1>7, DeliversKeeps

LEMMA QueryKeeps ==
  ASSUME InputInv, QueryRead
  PROVE  InputInv'
<1>0. /\ Typing /\ InTurn /\ Told0(got, owed) /\ Legible /\ phase = "query"
      /\ UNCHANGED <<parser, scale, owed, got>> /\ Len(parser.buf) = 0 /\ ~armed
  BY DEF InputInv, QueryRead, InTurn
<1>1. PICK n \in 1..Len(line) :
        LET buf == stash \o BytesOf(line, n)
            at == Report(buf)
        IN  /\ line' = Rest(line, n)
            /\ IF at = {} THEN stash' = buf /\ UNCHANGED <<phase, armed>>
               ELSE Opened(SubSeq(buf, 1, First(at) - 1)
                           \o SubSeq(buf, First(at) + 8, Len(buf)))
  BY DEF QueryRead
<1> DEFINE buf == stash \o BytesOf(line, n)
           at == Report(buf)
           i == First(at)
           s == SubSeq(buf, 1, i - 1) \o SubSeq(buf, i + 8, Len(buf))
<1>2. PICK L : Script(L, parser.buf, parser.last, stash, line, owed, got, scale)
  BY <1>0 DEF Legible, Scripted
<1>3. /\ parser.buf \in Seq(Alphabet) /\ stash \in Seq(Alphabet) /\ line \in Seq(LineBytes)
      /\ owed \in Seq(Heard) /\ got \in Seq(Heard) /\ scale \in BOOLEAN
  BY <1>0 DEF Typing
<1>4. /\ buf \in Seq(Alphabet) /\ Rest(line, n) \in Seq(LineBytes)
      /\ Script(L, parser.buf, parser.last, buf, Rest(line, n), owed, got, scale)
  BY <1>2, <1>3, ScriptRead, Zenon
<1>5. line' = Rest(line, n) /\ line' \in Seq(LineBytes)
  BY <1>1, <1>4
<1>6. CASE at = {}
  <2>1. stash' = buf /\ UNCHANGED <<phase, armed>>
    BY <1>1, <1>6
  <2> HIDE DEF buf, at
  <2>2. Typing' /\ InTurn' /\ Told0(got, owed)'
    BY <1>0, <1>4, <1>5, <2>1 DEF Typing, InTurn
  <2>3. Script(L, parser.buf, parser.last, stash, line, owed, got, scale)'
    BY <1>0, <1>4, <1>5, <2>1
  <2>4. Legible'
    BY <1>0, <1>4, <1>5, <2>1 DEF Legible, Scripted
  <2> QED
    BY <2>2, <2>4 DEF InputInv
<1>7. CASE at # {}
  <2>1. phase' = "idle" /\ stash' = s /\ armed' = (s # <<>>)
    BY <1>1, <1>7 DEF Opened
  <2> DEFINE e == i + 7
  <2>2. i \in at
    <3>1. at \subseteq Nat
      BY <1>4 DEF Report
    <3> HIDE DEF at
    <3> QED
      BY <1>7, <3>1, FirstIn
  <2>3. i \in 1..(Len(buf) - 7) /\ buf[i + 7] = "t"
    BY <2>2 DEF Report
  <2> HIDE DEF buf, at, i
  <2>4. i \in Nat /\ i >= 1 /\ e = i + 7 /\ e <= Len(buf) /\ buf[e] = "t"
    BY <1>4, <2>3
  <2> HIDE DEF e
  <2>5. /\ s \in Seq(Alphabet)
        /\ Scripted(parser.buf, parser.last, s, Rest(line, n), owed, got, scale)
    <3>1. TakenOut(s, parser.buf, parser.last, Rest(line, n), owed, got, scale)
      BY <1>0, <1>3, <1>4, <2>4, ScriptTaken, Zenon
    <3> HIDE DEF s
    <3> QED
      BY <3>1 DEF TakenOut
  <2> HIDE DEF s
  <2>6. Legible'
    BY <1>0, <1>5, <2>1, <2>5 DEF Legible
  <2>7. Len(s) # 0 <=> s # <<>>
    BY <2>5
  <2>8. Typing'
    BY <1>0, <1>5, <2>1, <2>5 DEF Typing
  <2>9. InTurn'
    BY <1>0, <2>1, <2>7 DEF InTurn
  <2>10. Told0(got, owed)'
    BY <1>0
  <2> QED
    BY <2>6, <2>8, <2>9, <2>10 DEF InputInv
<1> QED
  BY <1>6, <1>7

LEMMA QueryOverKeeps ==
  ASSUME InputInv, QueryOver
  PROVE  InputInv'
<1>1. /\ Typing /\ InTurn /\ Told0(got, owed) /\ Legible /\ phase = "query" /\ phase' = "idle"
      /\ stash' = stash /\ armed' = (stash # <<>>) /\ UNCHANGED <<line, parser, scale, owed, got>>
  BY DEF InputInv, QueryOver, Opened
<1>2. Len(stash) # 0 <=> stash # <<>>
  BY <1>1 DEF Typing
<1>3. Typing'
  BY <1>1 DEF Typing
<1>4. InTurn'
  BY <1>1, <1>2 DEF InTurn
<1>5. Legible' /\ Told0(got, owed)'
  BY <1>1 DEF Legible
<1> QED
  BY <1>3, <1>4, <1>5 DEF InputInv

LEMMA DispatchKeeps ==
  ASSUME InputInv, Dispatch
  PROVE  InputInv'
<1>0. /\ Typing /\ InTurn /\ Told0(got, owed) /\ Legible /\ phase = "idle" /\ phase' = "reading"
      /\ UNCHANGED <<scale, owed>>
  BY DEF InputInv, Dispatch
<1> DEFINE z == <<>>
<1>1. Len(z) = 0 /\ z \in Seq(Alphabet)
  OBVIOUS
<1>2. CASE armed /\ armed' = FALSE /\ Delivers(stash) /\ stash' = <<>> /\ UNCHANGED line
  <2>1. stash \in Seq(Alphabet) /\ line \in Seq(LineBytes)
    BY <1>0 DEF Typing
  <2>2. /\ parser' \in [buf : Seq(Alphabet), last : Int] /\ Len(parser'.buf) <= 8
        /\ got' \in Seq(Heard) /\ Told0(got', owed)
        /\ Scripted(parser'.buf, parser'.last, z, line, owed, got', scale)
    BY <1>0, <1>2, <2>1, DeliversKeeps DEF Legible
  <2>3. stash' = z
    BY <1>2
  <2> HIDE DEF z
  <2>4. Typing'
    BY <1>0, <1>1, <1>2, <2>1, <2>2, <2>3 DEF Typing
  <2>5. InTurn'
    BY <1>0, <1>1, <1>2, <2>3 DEF InTurn
  <2>6. Legible' /\ Told0(got, owed)'
    BY <1>0, <1>2, <2>2, <2>3 DEF Legible
  <2> QED
    BY <2>4, <2>5, <2>6 DEF InputInv
<1>3. CASE ~armed /\ Reads /\ UNCHANGED <<armed, stash>>
  <2>1. Len(stash) = 0
    BY <1>0, <1>3 DEF InTurn
  <2>2. /\ parser' \in [buf : Seq(Alphabet), last : Int] /\ Len(parser'.buf) <= 8
        /\ got' \in Seq(Heard) /\ Told0(got', owed) /\ line' \in Seq(LineBytes)
        /\ Scripted(parser'.buf, parser'.last, z, line', owed, got', scale)
    BY <1>0, <1>3, <2>1, ReadsKeeps
  <2>3. stash' = z
    BY <1>0, <1>3, <2>1 DEF Typing
  <2> HIDE DEF z
  <2>4. Typing'
    BY <1>0, <1>1, <1>3, <2>2, <2>3 DEF Typing
  <2>5. InTurn'
    BY <1>0, <1>1, <1>3, <2>3 DEF InTurn
  <2>6. Legible' /\ Told0(got, owed)'
    BY <1>0, <2>2, <2>3 DEF Legible
  <2> QED
    BY <2>4, <2>5, <2>6 DEF InputInv
<1> QED
  BY <1>2, <1>3 DEF Dispatch

LEMMA ReadKeeps ==
  ASSUME InputInv, Read
  PROVE  InputInv'
<1>0. /\ Typing /\ InTurn /\ Told0(got, owed) /\ Legible /\ phase = "reading" /\ Reads
      /\ UNCHANGED <<phase, stash, armed, scale, owed>>
  BY DEF InputInv, Read
<1> DEFINE z == <<>>
<1>1. Len(z) = 0 /\ z \in Seq(Alphabet)
  OBVIOUS
<1>2. ~armed /\ Len(stash) = 0
  BY <1>0 DEF InTurn
<1>3. /\ parser' \in [buf : Seq(Alphabet), last : Int] /\ Len(parser'.buf) <= 8
      /\ got' \in Seq(Heard) /\ Told0(got', owed) /\ line' \in Seq(LineBytes)
      /\ Scripted(parser'.buf, parser'.last, z, line', owed, got', scale)
  BY <1>0, <1>2, ReadsKeeps
<1>4. stash' = z
  BY <1>0, <1>2 DEF Typing
<1> HIDE DEF z
<1>5. Typing'
  BY <1>0, <1>1, <1>3, <1>4 DEF Typing
<1>6. InTurn'
  BY <1>0, <1>1, <1>2, <1>4 DEF InTurn
<1>7. Legible' /\ Told0(got, owed)'
  BY <1>0, <1>3, <1>4 DEF Legible
<1> QED
  BY <1>5, <1>6, <1>7 DEF InputInv

LEMMA EndOfBatchKeeps ==
  ASSUME InputInv, EndOfBatch
  PROVE  InputInv'
<1>0. /\ Typing /\ InTurn /\ Told0(got, owed) /\ Legible /\ phase = "reading" /\ phase' = "idle"
      /\ LoneEscape => ~MidSequence
      /\ UNCHANGED <<line, stash, armed, scale, owed>>
  BY DEF InputInv, EndOfBatch
<1>1. ~armed /\ Len(stash) = 0
  BY <1>0 DEF InTurn
<1>2. CASE ~LoneEscape
  <2>1. UNCHANGED <<parser, got>>
    BY <1>2 DEF EndOfBatch
  <2>2. Typing' /\ InTurn'
    BY <1>0, <1>1, <2>1 DEF Typing, InTurn
  <2>3. Legible' /\ Told0(got, owed)'
    BY <1>0, <2>1 DEF Legible
  <2> QED
    BY <2>2, <2>3 DEF InputInv
<1>3. CASE LoneEscape
  <2> DEFINE z == <<>>
  <2>1. parser' = [parser EXCEPT !.buf = z] /\ got' = Append(got, Key("Escape"))
    BY <1>3 DEF EndOfBatch
  <2>2. Len(z) = 0 /\ z \in Seq(Alphabet)
    OBVIOUS
  <2>3. Len(parser.buf) = 1 /\ parser.buf[1] = "ESC"
    BY <1>3 DEF LoneEscape
  <2>4. Len(line) # 0 => line[1].first
    <3>1. line # <<>> => Head(line).first
      BY <1>0, <1>3 DEF MidSequence
    <3>2. Len(line) # 0 => line # <<>> /\ Head(line) = line[1]
      BY <1>0 DEF Typing
    <3> QED
      BY <3>1, <3>2
  <2> HIDE DEF z
  <2>5. parser'.buf = z /\ parser'.last = parser.last /\ parser' \in [buf : Seq(Alphabet), last : Int]
    BY <1>0, <2>1, <2>2 DEF Typing
  <2>6. /\ owed \in Seq(Heard) /\ got \in Seq(Heard) /\ parser.buf \in Seq(Alphabet)
        /\ line \in Seq(LineBytes) /\ scale \in BOOLEAN
        /\ Scripted(parser.buf, parser.last, stash, line, owed, got, scale)
    BY <1>0 DEF Typing, Legible
  <2>7. /\ Scripted(z, parser.last, stash, line, owed, got', scale)
        /\ got' \in Seq(Heard) /\ Told0(got', owed)
    BY <1>0, <1>1, <2>1, <2>2, <2>3, <2>4, <2>6, ScriptEscape
  <2>8. Typing'
    BY <1>0, <2>2, <2>5, <2>7 DEF Typing
  <2>9. InTurn'
    BY <1>0, <1>1 DEF InTurn
  <2>10. Legible' /\ Told0(got, owed)'
    BY <1>0, <2>5, <2>7 DEF Legible
  <2> QED
    BY <2>8, <2>9, <2>10 DEF InputInv
<1> QED
  BY <1>2, <1>3

--------------------------------------------------------------------------------
(* What the user and the terminal do.                                           *)

\* What an act means is what it is told as.
LEMMA MeaningIs ==
  ASSUME NEW a \in Known
  PROVE  Meaning(a) = Ev(a, SeenIn(owed), scale)
<1>1. LastSeen = SeenIn(owed)
  BY DEF LastSeen, SeenIn
<1>2. \A v : To(v) = Toward(v, SeenIn(owed), scale)
  BY <1>1 DEF To, Toward
<1> DEFINE s == SeenIn(owed)
<1> HIDE DEF s
<1>3. \A v : To(v) = Toward(v, s, scale)
  BY <1>2 DEF s
<1>4. Meaning(a) = Ev(a, s, scale)
  BY <1>3, Zenon DEF Meaning, Ev
<1> QED
  BY <1>4 DEF s

LEMMA Answers ==
  ASSUME NEW m, NEW px
  PROVE  Ev("size", m, px) = <<>> /\ "size" \in All
BY DEF Ev, All

\* Whatever is sent, and owed, keeps the invariant if it cannot be one with an
\* Escape before it.
LEMMA SentKeeps ==
  ASSUME InputInv, NEW a \in All,
         line' = line \o Sent(a), owed' = owed \o Ev(a, SeenIn(owed), scale),
         EscapePending => a \notin {"a", "eacute", "size"},
         UNCHANGED <<phase, stash, armed, parser, scale, got>>
  PROVE  InputInv'
<1>0. Typing /\ InTurn /\ Told0(got, owed) /\ Legible
  BY DEF InputInv
<1>1. /\ owed \in Seq(Heard) /\ got \in Seq(Heard) /\ parser.buf \in Seq(Alphabet)
      /\ stash \in Seq(Alphabet) /\ line \in Seq(LineBytes) /\ scale \in BOOLEAN
      /\ Scripted(parser.buf, parser.last, stash, line, owed, got, scale)
  BY <1>0 DEF Typing, Legible
<1>2. Len(got) < Len(owed) /\ owed[Len(owed)] = Key("Escape") => a \notin {"a", "eacute", "size"}
  <2>1. Len(got) < Len(owed) => owed # <<>>
    BY <1>1
  <2> QED
    BY <2>1 DEF EscapePending
<1>3. Says(owed, line, parser.buf, parser.last, stash, got, scale, a)
  BY <1>1, <1>2, ScriptSent, Zenon
<1>4. /\ owed' \in Seq(Heard) /\ line' \in Seq(LineBytes) /\ Len(owed) <= Len(owed')
      /\ Extends(owed', owed, Len(owed))
      /\ Scripted(parser.buf, parser.last, stash, line', owed', got, scale)
  BY <1>3, Zenon DEF Says
<1>5. Typing'
  BY <1>0, <1>4 DEF Typing
<1>6. InTurn'
  BY <1>0 DEF InTurn
<1>7. Legible'
  BY <1>4 DEF Legible
<1>8. Told0(got, owed)'
  <2> DEFINE p == owed'
  <2>1. Told0(got, p)
    <3>1. p \in Seq(Heard) /\ Len(owed) <= Len(p) /\ Extends(p, owed, Len(owed))
      BY <1>4
    <3> HIDE DEF p
    <3>2. Len(got) <= Len(owed) /\ Len(got) \in Nat /\ Len(owed) \in Nat /\ Len(p) \in Nat
      BY <1>0, <1>1, <3>1 DEF Told0
    <3>3. Len(got) <= Len(p)
      BY <3>1, <3>2
    <3>4. ASSUME NEW j \in 1..Len(got) PROVE got[j] = p[j]
      <4>1. j \in 1..Len(owed)
        BY <3>2
      <4>2. got[j] = owed[j] /\ p[j] = owed[j]
        BY <1>0, <3>1, <4>1 DEF Told0, Extends
      <4> QED
        BY <4>2
    <3> QED
      BY <3>3, <3>4 DEF Told0
  <2> QED
    BY <2>1
<1> QED
  BY <1>5, <1>6, <1>7, <1>8 DEF InputInv

LEMMA ActKeeps ==
  ASSUME InputInv, Act
  PROVE  InputInv'
<1>1. PICK a \in Acts : /\ EscapePending => Head(Bytes(a)) = "ESC"
                        /\ line' = line \o Sent(a) /\ owed' = owed \o Meaning(a)
  BY DEF Act
<1>2. a \in Known /\ a \in All /\ a # "size"
  BY InputAssumption DEF All, Known
<1>3. owed' = owed \o Ev(a, SeenIn(owed), scale)
  BY <1>1, <1>2, MeaningIs
<1>4. EscapePending => a \notin {"a", "eacute", "size"}
  <2> DEFINE b == Bytes(a)
  <2>1. b \in Seq(Alphabet) /\ Len(b) \in 1..9
    BY <1>2, Lengths
  <2>2. EscapePending => b[1] = "ESC"
    BY <1>1, <2>1
  <2>3. b = Bytes(a)
    OBVIOUS
  <2> HIDE DEF b
  <2>4. b[1] = "ESC" => a \notin {"a", "eacute"}
    BY <2>3, NotEscaped
  <2> QED
    BY <1>2, <2>2, <2>4
<1>5. UNCHANGED <<phase, stash, armed, parser, scale, got>>
  BY DEF Act
<1> QED
  BY <1>1, <1>2, <1>3, <1>4, <1>5, SentKeeps

LEMMA AnswerKeeps ==
  ASSUME InputInv, Answer
  PROVE  InputInv'
<1>1. /\ line' = line \o Sent("size") /\ ~EscapePending
      /\ UNCHANGED <<phase, stash, armed, parser, scale, owed, got>>
  BY DEF Answer
<1>2. owed \in Seq(Heard)
  BY DEF InputInv, Typing
<1> DEFINE e == Ev("size", SeenIn(owed), scale)
<1>3. e = <<>> /\ "size" \in All
  BY Answers
<1>4. owed \o <<>> = owed
  BY <1>2
<1>5. owed' = owed \o e
  BY <1>1, <1>3, <1>4
<1>6. owed' = owed \o Ev("size", SeenIn(owed), scale)
  BY <1>5
<1> QED
  BY <1>1, <1>3, <1>6, SentKeeps

LEMMA InputSteps ==
  ASSUME InputInv, [InputNext]_inputVars
  PROVE  InputInv'
<1>1. CASE InputNext
  BY <1>1, QueryKeeps, QueryOverKeeps, DispatchKeeps, ReadKeeps, EndOfBatchKeeps, ActKeeps, AnswerKeeps
     DEF InputNext
<1>2. CASE UNCHANGED inputVars
  BY <1>2 DEF inputVars, InputInv, Typing, InTurn, Legible, Told0
<1> QED
  BY <1>1, <1>2

LEMMA PrefixIs ==
  ASSUME NEW s \in Seq(Heard), NEW t \in Seq(Heard), Told0(s, t)
  PROVE  IsPrefix(s, t)
<1>1. Len(s) <= Len(t) /\ Len(s) \in Nat /\ Len(t) \in Nat /\ \A j \in 1..Len(s) : s[j] = t[j]
  BY DEF Told0
<1>2. SubSeq(t, 1, Len(s)) = s
  BY <1>1
<1>3. SubSeq(s, 1, Len(s)) = SubSeq(t, 1, Len(s))
  BY <1>1, <1>2
<1> QED
  BY <1>1, <1>2, <1>3 DEF IsPrefix

\* NothingGarbled: however the bytes of the user's acts are cut, read ahead by
\* the query and stashed, or kept by the parser for more, what is delivered is
\* always the beginning of what the acts mean.
THEOREM InputDelivered == InputSpec => []NothingGarbled
<1>1. InputInv => NothingGarbled
  <2> SUFFICES ASSUME InputInv PROVE NothingGarbled
    OBVIOUS
  <2>1. owed \in Seq(Heard) /\ got \in Seq(Heard) /\ Told0(got, owed)
    BY DEF InputInv, Typing
  <2> QED
    BY <2>1, PrefixIs DEF NothingGarbled
<1>2. InputInv /\ [InputNext]_inputVars => InputInv'
  BY InputSteps
<1> QED
  BY <1>1, <1>2, InputStarts, PTL DEF InputSpec

================================================================================
