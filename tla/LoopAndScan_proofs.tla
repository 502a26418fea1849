-------------------------- MODULE LoopAndScan_proofs ---------------------------
(***************************************************************************)
(* Proofs about EventLoop and, behind them, about DiskVerify: two systems  *)
(* that share no state.                                                    *)
(*                                                                         *)
(* EventLoop, for every set of regions, every depth of the damage history, *)
(* either session manager and with or without transient faults. The        *)
(* properties are parts of one inductive invariant, Inv: it says of the    *)
(* state a callback works on (a record, as LoopState) what every call of   *)
(* the callback preserves, so that each handler is proved once, call by    *)
(* call, and TryRender once for all of them.                               *)
(*                                                                         *)
(* DiskVerify, for any disks, patterns and skip lists, any sizes of sector *)
(* and chunk, and any number of scans. What the parts of SurfaceScan       *)
(* compute comes first, then the invariant VerifyInv, which follows a scan *)
(* through its plan, and PanelInv, which follows what the scan found       *)
(* through the messages into the window.                                   *)
(***************************************************************************)
EXTENDS EventLoop, DiskVerify, SequenceTheorems, FiniteSetTheorems,
        WellFoundedInduction, TLAPS

(***************************************************************************)
(* The inductive invariant.                                                *)
(***************************************************************************)

Apps == { a \in App : Len(a.history) <= HISTORY }

LoopStates == [ drm : DrmDisplay, active : BOOLEAN, needs_redraw : BOOLEAN,
                app : Apps, console : {"ours", "leaving", "theirs", "returning"},
                retried : BOOLEAN ]

\* Where the flip in flight, the event and the two buffers stand.
FlipInv(d) ==
  d.master /\ ~d.orphan =>
    /\ d.flip_pending <=> (d.queued # None \/ d.readable)
    /\ d.queued # None => ~d.readable /\ d.queued = d.back /\ d.back # d.scanout
    /\ d.readable => d.back = d.scanout
    /\ d.queued = None /\ ~d.readable => d.back # d.scanout
    /\ d.shown # None => d.shown = IF d.queued # None THEN d.queued ELSE d.scanout

\* What an aged buffer lacks, and the arrows left in it, are within the damage
\* of the frames presented since it was; the buffer shown lacks nothing.
PixelInv(d, a) ==
  /\ \A b \in Buffers :
       d.age[b] \in 1 .. HISTORY =>
         /\ d.stale[b] \subseteq Past(a.history, d.age[b] - 1)
         /\ d.arrow[b] \subseteq Past(a.history, d.age[b] - 1) \cup {a.last_rect}
  /\ d.shown # None => d.age[d.shown] = 1 /\ a.last_rect \in d.arrow[d.shown]

Good(s) ==
  /\ s \in LoopStates
  /\ s.active <=> s.drm.master
  /\ FlipInv(s.drm)
  /\ ~s.retried => PixelInv(s.drm, s.app)
  /\ s.drm.master /\ s.drm.shown = None => s.needs_redraw

\* What the events not yet read say of the console.
SessionInv ==
  \/ console = "ours" /\ sessions = <<>>
  \/ console = "theirs" /\ sessions = <<>> /\ ~drm.master
  \/ console = "returning" /\ sessions = <<"acquire">> /\ ~drm.master
  \/ console = "leaving" /\ sessions = <<"release">>
  \/ console = "leaving" /\ sessions = <<"acquire", "release">>

Inv ==
  /\ Good(LoopState)
  /\ SessionInv
  /\ exit \in BOOLEAN
  /\ stopped \in {"no", "returned", "failed"}
  /\ mode_changed \in BOOLEAN

(***************************************************************************)
(* Lemmas about the display's operators.                                   *)
(***************************************************************************)

\* Every method takes a display to a display.
LEMMA DisplayType ==
  ASSUME NEW d \in DrmDisplay
  PROVE  /\ d.queued # None => FlipDone(d) \in DrmDisplay
         /\ Presented(d) \in DrmDisplay
         /\ Accepted(d) \in DrmDisplay
         /\ Dispatched(d) \in DrmDisplay
         /\ \A on \in BOOLEAN : Powered(d, on) \in DrmDisplay
         /\ Suspended(d) \in DrmDisplay
         /\ Resumed(d) \in DrmDisplay
         /\ Reconfigured(d) \in DrmDisplay
<1> USE HistoryAssumption, RegionsAssumption DEF Buffers, Ages
<1>1. d.queued # None => FlipDone(d) \in DrmDisplay
  BY DEF DrmDisplay, FlipDone
<1>2. ASSUME NEW e \in DrmDisplay PROVE Presented(e) \in DrmDisplay
  <2>1. e.age \in [Buffers -> Ages] /\ e.back \in Buffers
    BY DEF DrmDisplay
  <2>2. Aged(e.age, e.back) \in [Buffers -> Ages]
    BY <2>1 DEF Aged
  <2> QED BY <2>1, <2>2 DEF Presented, DrmDisplay
<1>3. Accepted(d) \in DrmDisplay
  BY <1>1, <1>2 DEF Accepted
<1>4. Dispatched(d) \in DrmDisplay
  <2>1. d.back \in Buffers BY DEF DrmDisplay
  <2>2. 1 - d.back \in Buffers BY <2>1
  <2>3. [d EXCEPT !.readable = FALSE, !.flip_pending = FALSE, !.back = 1 - d.back]
          \in DrmDisplay
    BY <2>2 DEF DrmDisplay
  <2> QED BY <2>3 DEF Dispatched
<1>5. \A on \in BOOLEAN : Powered(d, on) \in DrmDisplay
  BY DEF DrmDisplay, Powered
<1>6. Suspended(d) \in DrmDisplay
  BY DEF DrmDisplay, Suspended
<1>a. ASSUME NEW e \in DrmDisplay PROVE Modeset(e) \in DrmDisplay
  BY DEF DrmDisplay, Modeset
<1>b. [b \in Buffers |-> 0] \in [Buffers -> Ages]
  OBVIOUS
<1>7. Resumed(d) \in DrmDisplay
  <2>1. [d EXCEPT !.master = TRUE] \in DrmDisplay
    BY DEF DrmDisplay
  <2>2. Modeset([d EXCEPT !.master = TRUE]) \in DrmDisplay
    BY <1>a, <2>1
  <2>3. ASSUME NEW e \in DrmDisplay
        PROVE  [e EXCEPT !.age = [b \in Buffers |-> 0], !.flip_pending = FALSE,
                         !.back = 1] \in DrmDisplay
    BY <1>b DEF DrmDisplay
  <2> QED BY <2>2, <2>3 DEF Resumed
<1>8. Reconfigured(d) \in DrmDisplay
  <2>1. /\ [b \in Buffers |-> Regions] \in [Buffers -> SUBSET Regions]
        /\ [b \in Buffers |-> {}] \in [Buffers -> SUBSET Regions]
    OBVIOUS
  <2>2. [d EXCEPT !.age = [b \in Buffers |-> 0], !.stale = [b \in Buffers |-> Regions],
                  !.arrow = [b \in Buffers |-> {}], !.back = 1,
                  !.flip_pending = FALSE] \in DrmDisplay
    BY <1>b, <2>1 DEF DrmDisplay
  <2> QED BY <1>a, <2>2 DEF Reconfigured
<1> QED BY <1>1, <1>2, <1>3, <1>4, <1>5, <1>6, <1>7, <1>8

(***************************************************************************)
(* Lemmas about a frame.                                                   *)
(***************************************************************************)

\* The handler's operators keep its type; a frame damages part of the screen.
LEMMA AppType ==
  ASSUME NEW a \in Apps
  PROVE  /\ FrameDamage(a) \in SUBSET Regions
         /\ a.dirty \subseteq FrameDamage(a)
         /\ a.cursor \in FrameDamage(a)
         /\ a.last_rect # None => a.last_rect \in FrameDamage(a)
         /\ \A regions \in SUBSET Regions : Invalidated(a, regions) \in Apps
         /\ \A place \in Regions \cup {None} : Pointed(a, place) \in Apps
         /\ SessionBack(a) \in Apps
         /\ DisplayChanged(a) \in Apps
<1> USE RegionsAssumption, HistoryAssumption DEF Apps, App
<1>1. FrameDamage(a) \in SUBSET Regions
  BY DEF FrameDamage
<1>2. /\ a.dirty \subseteq FrameDamage(a)
      /\ a.cursor \in FrameDamage(a)
      /\ a.last_rect # None => a.last_rect \in FrameDamage(a)
  BY DEF FrameDamage
<1>3. \A regions \in SUBSET Regions : Invalidated(a, regions) \in Apps
  BY DEF Invalidated
<1>4. \A place \in Regions \cup {None} : Pointed(a, place) \in Apps
  BY DEF Pointed
<1>5. SessionBack(a) \in Apps
  BY DEF SessionBack
<1>6. DisplayChanged(a) \in Apps
  <2>1. <<>> \in Seq(SUBSET Regions) /\ Len(<<>>) <= HISTORY
    OBVIOUS
  <2>2. DisplayChanged(a) \in App /\ DisplayChanged(a).history = <<>>
    BY <2>1 DEF DisplayChanged
  <2> QED BY <2>1, <2>2
<1> QED BY <1>1, <1>2, <1>3, <1>4, <1>5, <1>6

\* Pushing a frame on the ring: the ring stays a ring, and its last k entries
\* are the new frame and the k - 1 entries that were last before it.
LEMMA PushPast ==
  ASSUME NEW h \in Seq(SUBSET Regions), Len(h) <= HISTORY,
         NEW D \in SUBSET Regions
  PROVE  /\ PushHistory(h, D) \in Seq(SUBSET Regions)
         /\ Len(PushHistory(h, D)) <= HISTORY
         /\ \A k \in 1 .. HISTORY :
              Past(PushHistory(h, D), k) = D \cup Past(h, k - 1)
<1> USE HistoryAssumption
<1> DEFINE g == Append(h, D)
<1>1. /\ g \in Seq(SUBSET Regions)
      /\ Len(g) = Len(h) + 1
      /\ g[Len(h) + 1] = D
      /\ \A i \in 1 .. Len(h) : g[i] = h[i]
  OBVIOUS
<1>2. CASE Len(g) <= HISTORY
  <2>1. PushHistory(h, D) = g
    BY <1>1, <1>2 DEF PushHistory
  <2>2. ASSUME NEW k \in 1 .. HISTORY
        PROVE  Past(g, k) = D \cup Past(h, k - 1)
    <3> HIDE DEF g
    <3>1. Len(h) \in Nat
      OBVIOUS
    <3>2. { j \in 1 .. Len(g) : j > Len(g) - k }
            = { j \in 1 .. Len(h) : j > Len(h) - (k - 1) } \cup {Len(h) + 1}
      BY <1>1, <3>1
    <3> QED BY <1>1, <3>2 DEF Past
  <2> QED BY <1>1, <1>2, <2>1, <2>2
<1>3. CASE Len(g) > HISTORY
  <2>1. Len(h) = HISTORY
    BY <1>1, <1>3
  <2>2. PushHistory(h, D) = Tail(g)
    BY <1>1, <1>3 DEF PushHistory
  <2>3. /\ Tail(g) \in Seq(SUBSET Regions)
        /\ Len(Tail(g)) = Len(h)
        /\ \A i \in 1 .. Len(h) : Tail(g)[i] = g[i + 1]
    BY <1>1, <2>1
  <2>4. ASSUME NEW k \in 1 .. HISTORY
        PROVE  Past(Tail(g), k) = D \cup Past(h, k - 1)
    <3> DEFINE t == Tail(g)
    <3>1. /\ Len(t) = Len(h) /\ Len(h) = HISTORY /\ Len(h) \in Nat
          /\ t[Len(h)] = D
          /\ \A i \in 1 .. (Len(h) - 1) : t[i] = h[i + 1]
      BY <1>1, <2>1, <2>3
    <3> HIDE DEF g, t
    <3>2. { j \in 1 .. Len(t) : j > Len(t) - k }
            = { j \in 1 .. (Len(h) - 1) : j > Len(h) - k } \cup {Len(h)}
      BY <3>1
    <3>3. { t[i] : i \in { j \in 1 .. Len(t) : j > Len(t) - k } }
            = { t[i] : i \in { j \in 1 .. (Len(h) - 1) : j > Len(h) - k } } \cup {D}
      BY <3>1, <3>2
    <3>4. { t[i] : i \in { j \in 1 .. (Len(h) - 1) : j > Len(h) - k } }
            = { h[i] : i \in { j \in 1 .. Len(h) : j > Len(h) - (k - 1) } }
      <4>1. ASSUME NEW i \in { j \in 1 .. (Len(h) - 1) : j > Len(h) - k }
            PROVE  /\ t[i] = h[i + 1]
                   /\ i + 1 \in { j \in 1 .. Len(h) : j > Len(h) - (k - 1) }
        BY <3>1
      <4>2. ASSUME NEW i \in { j \in 1 .. Len(h) : j > Len(h) - (k - 1) }
            PROVE  /\ i - 1 \in { j \in 1 .. (Len(h) - 1) : j > Len(h) - k }
                   /\ t[i - 1] = h[i]
        BY <3>1
      <4> QED BY <4>1, <4>2
    <3>5. Past(t, k) = D \cup Past(h, k - 1)
      BY <3>3, <3>4 DEF Past
    <3> QED BY <3>5 DEF t
  <2> QED BY <2>1, <2>2, <2>3, <2>4
<1> QED BY <1>1, <1>2, <1>3

\* The handler and the pixels after a frame.
LEMMA FrameType ==
  ASSUME NEW d \in DrmDisplay, NEW a \in Apps
  PROVE  /\ RenderedApp(a) \in Apps
         /\ RenderedPixels(d, a) \in DrmDisplay
<1>1. FrameDamage(a) \in SUBSET Regions
  BY AppType
<1>2. a.history \in Seq(SUBSET Regions) /\ Len(a.history) <= HISTORY
  BY DEF Apps, App
<1>3. RenderedApp(a) \in Apps
  <2>1. /\ PushHistory(a.history, FrameDamage(a)) \in Seq(SUBSET Regions)
        /\ Len(PushHistory(a.history, FrameDamage(a))) <= HISTORY
    BY <1>1, <1>2, PushPast
  <2> QED BY <2>1 DEF RenderedApp, Apps, App
<1>4. RenderedPixels(d, a) \in DrmDisplay
  <2> DEFINE copied == Flush(a.history, FrameDamage(a), Age(d))
             st == [b \in Buffers |-> IF b = d.back
                                        THEN (d.stale[b] \cup a.dirty) \ copied
                                        ELSE d.stale[b] \cup a.dirty]
             ar == [d.arrow EXCEPT ![d.back] = (@ \ copied) \cup {a.cursor}]
  <2> HIDE DEF copied
  <2>1. /\ d.stale \in [Buffers -> SUBSET Regions]
        /\ d.arrow \in [Buffers -> SUBSET Regions]
        /\ d.back \in Buffers
        /\ a.dirty \in SUBSET Regions /\ a.cursor \in Regions
    BY DEF DrmDisplay, Apps, App
  <2>2. st \in [Buffers -> SUBSET Regions] /\ ar \in [Buffers -> SUBSET Regions]
    BY <2>1
  <2> HIDE DEF st, ar
  <2>3. [d EXCEPT !.stale = st, !.arrow = ar] \in DrmDisplay
    BY <2>2 DEF DrmDisplay
  <2> QED BY <2>3 DEF RenderedPixels, st, ar, copied
<1> QED BY <1>3, <1>4

\* A frame that is presented keeps what is known of the pixels.
LEMMA FramePixels ==
  ASSUME NEW d \in DrmDisplay, NEW a \in Apps, PixelInv(d, a)
  PROVE  PixelInv(Presented(RenderedPixels(d, a)), RenderedApp(a))
<1> DEFINE D == FrameDamage(a)
           h == a.history
           g == PushHistory(h, D)
           copied == Flush(h, D, Age(d))
           p == RenderedPixels(d, a)
           n == Presented(p)
<1> USE DEF Buffers
<1>1. /\ D \in SUBSET Regions /\ a.dirty \subseteq D
      /\ a.last_rect # None => a.last_rect \in D
      /\ a.dirty \in SUBSET Regions /\ a.cursor \in Regions
      /\ a.last_rect \in Regions \cup {None}
  BY AppType DEF Apps, App
<1>2. \A k \in 1 .. HISTORY : Past(g, k) = D \cup Past(h, k - 1)
  BY <1>1, PushPast DEF Apps, App
<1>3. /\ d.back \in Buffers /\ d.age \in [Buffers -> Ages]
      /\ d.stale \in [Buffers -> SUBSET Regions]
      /\ d.arrow \in [Buffers -> SUBSET Regions]
  BY DEF DrmDisplay
<1>4. /\ p.back = d.back /\ p.age = d.age
      /\ p.stale = [b \in Buffers |-> IF b = d.back
                                        THEN (d.stale[b] \cup a.dirty) \ copied
                                        ELSE d.stale[b] \cup a.dirty]
      /\ p.arrow = [d.arrow EXCEPT ![d.back] = (@ \ copied) \cup {a.cursor}]
  BY DEF RenderedPixels, DrmDisplay
<1>5. /\ n.stale = p.stale /\ n.arrow = p.arrow /\ n.shown = d.back
      /\ n.age = [b \in Buffers |->
                    IF b = d.back THEN 1
                    ELSE IF d.age[b] \in {0, HISTORY + 1} THEN d.age[b]
                    ELSE d.age[b] + 1]
  BY <1>4, FrameType DEF Presented, Aged, DrmDisplay
<1>6. RenderedApp(a).history = g /\ RenderedApp(a).last_rect = a.cursor
  BY DEF RenderedApp, Apps, App
<1> HIDE DEF D, h, g, copied, p, n
<1>7. d.stale[d.back] \cup a.dirty \subseteq copied
      /\ d.arrow[d.back] \subseteq copied \cup {None}
  <2>1. CASE d.age[d.back] = 0 \/ d.age[d.back] > HISTORY
    <3>1. copied = Regions
      BY <2>1 DEF copied, Flush, Age
    <3> QED BY <1>1, <1>3, <3>1
  <2>2. CASE ~(d.age[d.back] = 0 \/ d.age[d.back] > HISTORY)
    <3>1. d.age[d.back] \in 1 .. HISTORY
      BY <1>3, <2>2, HistoryAssumption DEF Ages
    <3>2. copied = D \cup Past(h, d.age[d.back] - 1)
      BY <2>2 DEF copied, Flush, Age
    <3>3. /\ d.stale[d.back] \subseteq Past(h, d.age[d.back] - 1)
          /\ d.arrow[d.back] \subseteq Past(h, d.age[d.back] - 1) \cup {a.last_rect}
      BY <1>3, <3>1 DEF PixelInv, h
    <3> QED BY <1>1, <3>2, <3>3
  <2> QED BY <2>1, <2>2
<1>8. n.stale[d.back] = {} /\ n.arrow[d.back] = {a.cursor}
  <2>1. None \notin d.arrow[d.back]
    BY <1>3, RegionsAssumption
  <2> QED BY <1>3, <1>4, <1>5, <1>7, <2>1
<1>9. n.age[d.back] = 1
  BY <1>3, <1>5
<1>10. ASSUME NEW b \in Buffers, n.age[b] \in 1 .. HISTORY
       PROVE  /\ n.stale[b] \subseteq Past(g, n.age[b] - 1)
              /\ n.arrow[b] \subseteq Past(g, n.age[b] - 1) \cup {a.cursor}
  <2>1. CASE b = d.back
    BY <1>8, <2>1
  <2>2. CASE b # d.back
    <3>1. d.age[b] \in 1 .. HISTORY /\ n.age[b] = d.age[b] + 1
      BY <1>3, <1>5, <1>10, <2>2, HistoryAssumption DEF Ages
    <3>2. /\ d.stale[b] \subseteq Past(h, d.age[b] - 1)
          /\ d.arrow[b] \subseteq Past(h, d.age[b] - 1) \cup {a.last_rect}
      BY <3>1 DEF PixelInv, h
    <3>3. Past(g, d.age[b]) = D \cup Past(h, d.age[b] - 1)
      BY <1>2, <3>1
    <3>4. n.stale[b] = d.stale[b] \cup a.dirty /\ n.arrow[b] = d.arrow[b]
      BY <1>3, <1>4, <1>5, <2>2
    <3>5. None \notin d.arrow[b]
      BY <1>3, RegionsAssumption
    <3>6. n.age[b] - 1 = d.age[b]
      BY <3>1
    <3> QED BY <1>1, <3>2, <3>3, <3>4, <3>5, <3>6
  <2> QED BY <2>1, <2>2
<1> QED BY <1>5, <1>6, <1>8, <1>9, <1>10 DEF PixelInv, n, p

(***************************************************************************)
(* What each call keeps.                                                   *)
(***************************************************************************)

\* The calls on the display keep the account of its flips.
LEMMA DisplayFlips ==
  ASSUME NEW d \in DrmDisplay
  PROVE  /\ FlipInv(d) /\ d.queued # None => FlipInv(FlipDone(d))
         /\ FlipInv(d) => FlipInv(Dispatched(d))
         /\ FlipInv(d) => \A on \in BOOLEAN : FlipInv(Powered(d, on))
         /\ FlipInv(Suspended(d)) \/ (Suspended(d) = d)
         /\ FlipInv(Resumed(d))
         /\ FlipInv(Reconfigured(d))
<1> USE RegionsAssumption DEF FlipInv, Buffers
<1>0. /\ d.back \in Buffers /\ d.scanout \in Buffers
      /\ d.queued \in Buffers \cup {None} /\ d.shown \in Buffers \cup {None}
      /\ d.readable \in BOOLEAN /\ d.flip_pending \in BOOLEAN
      /\ d.master \in BOOLEAN /\ d.orphan \in BOOLEAN
  BY DEF DrmDisplay
<1>1. FlipInv(d) /\ d.queued # None => FlipInv(FlipDone(d))
  BY <1>0 DEF FlipDone, DrmDisplay
<1>2. FlipInv(d) => FlipInv(Dispatched(d))
  BY <1>0 DEF Dispatched, DrmDisplay
<1>3. FlipInv(d) => \A on \in BOOLEAN : FlipInv(Powered(d, on))
  BY <1>0 DEF Powered, DrmDisplay
<1>4. FlipInv(Suspended(d)) \/ (Suspended(d) = d)
  BY <1>0 DEF Suspended, DrmDisplay
<1>5. FlipInv(Resumed(d))
  BY <1>0 DEF Resumed, Modeset, DrmDisplay
<1>6. FlipInv(Reconfigured(d))
  BY <1>0 DEF Reconfigured, Modeset, DrmDisplay
<1> QED BY <1>1, <1>2, <1>3, <1>4, <1>5, <1>6

\* A rendered frame is offered only a buffer that is off screen with no flip in
\* flight, so that presenting it keeps the account.
LEMMA PresentFlips ==
  ASSUME NEW d \in DrmDisplay, NEW a \in Apps, FlipInv(d), BufferFree(d)
  PROVE  LET p == RenderedPixels(d, a)
         IN  /\ p.back = d.back /\ p.queued = d.queued /\ p.master = d.master
             /\ p.orphan = d.orphan /\ p.shown = d.shown
             /\ FlipInv(p) /\ FlipInv(Accepted(p))
             /\ Accepted(p).shown # None /\ Accepted(p).master
<1> USE RegionsAssumption DEF Buffers
<1> DEFINE p == RenderedPixels(d, a)
<1>0. /\ d.back \in Buffers /\ d.scanout \in Buffers
      /\ d.queued \in Buffers \cup {None} /\ d.shown \in Buffers \cup {None}
      /\ d.readable \in BOOLEAN /\ d.flip_pending \in BOOLEAN
      /\ d.master \in BOOLEAN /\ d.orphan \in BOOLEAN
  BY DEF DrmDisplay
<1>1. /\ p.back = d.back /\ p.queued = d.queued /\ p.master = d.master
      /\ p.orphan = d.orphan /\ p.shown = d.shown /\ p.scanout = d.scanout
      /\ p.flip_pending = d.flip_pending /\ p.readable = d.readable
      /\ p \in DrmDisplay
  BY FrameType DEF RenderedPixels, DrmDisplay
<1> HIDE DEF p
<1>2. FlipInv(p)
  BY <1>1 DEF FlipInv
<1>3. /\ Accepted(p).shown = p.back /\ Accepted(p).master = p.master
      /\ Accepted(p).orphan = p.orphan /\ Accepted(p).queued = p.back
      /\ Accepted(p).flip_pending = TRUE /\ Accepted(p).back = p.back
      /\ p.queued = None => Accepted(p).readable = p.readable
                            /\ Accepted(p).scanout = p.scanout
  BY <1>1 DEF Accepted, Presented, FlipDone, DrmDisplay
<1>4. FlipInv(Accepted(p))
  BY <1>0, <1>1, <1>3 DEF FlipInv, BufferFree
<1> QED BY <1>0, <1>1, <1>2, <1>3, <1>4 DEF BufferFree, p

\* The calls that change neither the pixels nor the handler's ring keep what is
\* known of the pixels; a new mode makes it void.
LEMMA DisplayPixels ==
  ASSUME NEW d \in DrmDisplay, NEW a \in Apps, PixelInv(d, a)
  PROVE  /\ d.queued # None => PixelInv(FlipDone(d), a)
         /\ PixelInv(Dispatched(d), a)
         /\ \A on \in BOOLEAN : PixelInv(Powered(d, on), a)
         /\ PixelInv(Suspended(d), a)
         /\ \A regions \in SUBSET Regions : PixelInv(d, Invalidated(a, regions))
         /\ \A place \in Regions \cup {None} : PixelInv(d, Pointed(a, place))
<1> USE DEF PixelInv
<1>1. d.queued # None => PixelInv(FlipDone(d), a)
  BY DEF FlipDone, DrmDisplay
<1>2. PixelInv(Dispatched(d), a)
  BY DEF Dispatched, DrmDisplay
<1>3. \A on \in BOOLEAN : PixelInv(Powered(d, on), a)
  BY DEF Powered, DrmDisplay
<1>4. PixelInv(Suspended(d), a)
  BY DEF Suspended, DrmDisplay
<1>5. \A regions \in SUBSET Regions : PixelInv(d, Invalidated(a, regions))
  BY DEF Invalidated, Apps, App
<1>6. \A place \in Regions \cup {None} : PixelInv(d, Pointed(a, place))
  BY DEF Pointed, Apps, App
<1> QED BY <1>1, <1>2, <1>3, <1>4, <1>5, <1>6

LEMMA VoidPixels ==
  ASSUME NEW d \in DrmDisplay, NEW a \in Apps
  PROVE  PixelInv(Resumed(d), a) /\ PixelInv(Reconfigured(d), a)
<1>1. /\ Resumed(d).age = [b \in Buffers |-> 0] /\ Resumed(d).shown = None
      /\ Reconfigured(d).age = [b \in Buffers |-> 0]
      /\ Reconfigured(d).shown = None
      /\ Resumed(d).master = TRUE
  BY DEF Resumed, Reconfigured, Modeset, DrmDisplay
<1> QED BY <1>1, HistoryAssumption DEF PixelInv

\* try_render keeps the invariant of the state it is called with.
LEMMA TryRenderGood ==
  ASSUME NEW s, Good(s), NEW ok, NEW err, TryRender(s, ok, err)
  PROVE  /\ Good(LoopState)'
         /\ console' = s.console
         /\ drm'.master = s.drm.master
         /\ stopped' \in {ok, err}
<1>1. /\ s \in LoopStates /\ s.drm \in DrmDisplay /\ s.app \in Apps
      /\ s.active \in BOOLEAN /\ s.needs_redraw \in BOOLEAN
      /\ s.retried \in BOOLEAN
      /\ s.console \in {"ours", "leaving", "theirs", "returning"}
  BY DEF Good, LoopStates
<1>2. CASE ~(s.active /\ s.needs_redraw /\ BufferFree(s.drm))
  <2>1. /\ active' = s.active /\ console' = s.console /\ app' = s.app
        /\ drm' = s.drm /\ needs_redraw' = s.needs_redraw
        /\ retried' = s.retried /\ stopped' = ok
    BY <1>2 DEF TryRender
  <2>2. LoopState' = [drm |-> s.drm, active |-> s.active,
                      needs_redraw |-> s.needs_redraw, app |-> s.app,
                      console |-> s.console, retried |-> s.retried]
    BY <2>1 DEF LoopState
  <2>3. s = [drm |-> s.drm, active |-> s.active,
             needs_redraw |-> s.needs_redraw, app |-> s.app,
             console |-> s.console, retried |-> s.retried]
    BY <1>1 DEF LoopStates
  <2>4. LoopState' = s
    BY <2>2, <2>3
  <2>5. Good(LoopState')
    BY <2>4
  <2> QED BY <2>1, <2>5 DEF Good
<1>3. CASE s.active /\ s.needs_redraw /\ BufferFree(s.drm)
  <2> DEFINE p == RenderedPixels(s.drm, s.app)
             a == RenderedApp(s.app)
  <2>1. PICK flipped \in BOOLEAN :
          /\ active' = s.active /\ console' = s.console
          /\ app' = a
          /\ drm' = IF flipped THEN Accepted(p) ELSE p
          /\ needs_redraw' = ~flipped
          /\ retried' = (s.retried \/ ~flipped)
          /\ stopped' = IF flipped THEN ok ELSE err
    BY <1>3 DEF TryRender, FlipMay
  <2>2. /\ p \in DrmDisplay /\ a \in Apps
        /\ Accepted(p) \in DrmDisplay
    BY <1>1, FrameType, DisplayType
  <2>3. FlipInv(s.drm)
    BY DEF Good
  <2>4. /\ p.master = s.drm.master
        /\ FlipInv(p) /\ FlipInv(Accepted(p))
        /\ Accepted(p).shown # None /\ Accepted(p).master
    BY <1>1, <1>3, <2>3, PresentFlips
  <2>5. ASSUME ~s.retried PROVE PixelInv(Accepted(p), a)
    <3>1. PixelInv(Presented(p), a)
      BY <1>1, <2>5, FramePixels DEF Good
    <3>2. CASE p.queued = None
      BY <3>1, <3>2 DEF Accepted
    <3>3. CASE p.queued # None
      <4>1. /\ Accepted(p).age = Presented(p).age
            /\ Accepted(p).stale = Presented(p).stale
            /\ Accepted(p).arrow = Presented(p).arrow
            /\ Accepted(p).shown = Presented(p).shown
        <5> DEFINE q == FlipDone(p)
        <5>1. q \in DrmDisplay
          BY <2>2, <3>3, DisplayType
        <5>2. q.age = p.age /\ q.stale = p.stale /\ q.arrow = p.arrow /\ q.back = p.back
          BY <2>2 DEF FlipDone, DrmDisplay
        <5>3. ASSUME NEW e \in DrmDisplay
              PROVE  /\ Presented(e).stale = e.stale /\ Presented(e).arrow = e.arrow
                     /\ Presented(e).shown = e.back
                     /\ Presented(e).age = Aged(e.age, e.back)
          BY DEF Presented, DrmDisplay
        <5>4. Accepted(p) = Presented(q)
          BY <3>3 DEF Accepted
        <5> HIDE DEF p, q
        <5> QED BY <2>2, <5>1, <5>2, <5>3, <5>4
      <4> QED BY <3>1, <4>1 DEF PixelInv
    <3> QED BY <3>2, <3>3
  <2> HIDE DEF p, a
  <2>6. /\ drm' \in DrmDisplay /\ app' \in Apps /\ active' \in BOOLEAN
        /\ needs_redraw' \in BOOLEAN /\ retried' \in BOOLEAN
        /\ console' \in {"ours", "leaving", "theirs", "returning"}
        /\ drm'.master = s.drm.master
        /\ FlipInv(drm')
    BY <1>1, <1>3, <2>1, <2>2, <2>4 DEF BufferFree
  <2>7. LoopState' \in LoopStates
    BY <2>6 DEF LoopState, LoopStates
  <2>8. active' <=> drm'.master
    BY <2>1, <2>6 DEF Good
  <2>9. ~retried' => PixelInv(drm', app')
    BY <2>1, <2>5
  <2>10. drm'.master /\ drm'.shown = None => needs_redraw'
    BY <2>1, <2>4
  <2>11. Good(LoopState')
    BY <2>6, <2>7, <2>8, <2>9, <2>10 DEF Good, LoopState
  <2> QED BY <2>1, <2>6, <2>11 DEF Good
<1> QED BY <1>2, <1>3

\* A session event keeps it, whichever it is, and leaves master as it should.
LEMMA HandleSessionGood ==
  ASSUME NEW s, Good(s), NEW event \in {"release", "acquire"}
  PROVE  /\ Good(HandleSession(s, event))
         /\ HandleSession(s, event).drm.master <=> event = "acquire"
<1>1. /\ s \in LoopStates /\ s.drm \in DrmDisplay /\ s.app \in Apps
      /\ s.active <=> s.drm.master
      /\ FlipInv(s.drm)
      /\ ~s.retried => PixelInv(s.drm, s.app)
      /\ s.active \in BOOLEAN /\ s.needs_redraw \in BOOLEAN
      /\ s.retried \in BOOLEAN
      /\ s.console \in {"ours", "leaving", "theirs", "returning"}
  BY DEF Good, LoopStates
<1>2. CASE event = "release"
  <2> DEFINE t == [s EXCEPT !.active = FALSE,
                            !.drm = Suspended(@),
                            !.console = "theirs"]
  <2>1. HandleSession(s, event) = t
    BY <1>2 DEF HandleSession
  <2>2. /\ Suspended(s.drm) \in DrmDisplay
        /\ Suspended(s.drm).master = FALSE
    <3>1. Suspended(s.drm) \in DrmDisplay
      BY <1>1, DisplayType
    <3>2. Suspended(s.drm).master = FALSE
      BY <1>1 DEF Suspended, DrmDisplay
    <3> QED BY <3>1, <3>2
  <2>3. FlipInv(Suspended(s.drm))
    BY <2>2 DEF FlipInv
  <2>4. ~s.retried => PixelInv(Suspended(s.drm), s.app)
    BY <1>1, DisplayPixels
  <2>5. /\ t \in LoopStates
        /\ t.active = FALSE /\ t.drm = Suspended(s.drm) /\ t.app = s.app
        /\ t.retried = s.retried
    BY <1>1, <2>2 DEF LoopStates
  <2> HIDE DEF t
  <2>6. Good(t)
    BY <2>2, <2>3, <2>4, <2>5 DEF Good
  <2> QED BY <1>2, <2>1, <2>2, <2>5, <2>6
<1>3. CASE event = "acquire"
  <2> DEFINE t == [s EXCEPT !.console = IF @ = "returning" THEN "ours" ELSE @,
                            !.drm = Resumed(@),
                            !.active = TRUE,
                            !.needs_redraw = TRUE,
                            !.app = SessionBack(@),
                            !.retried = FALSE]
  <2>1. HandleSession(s, event) = t
    BY <1>3 DEF HandleSession
  <2>2. /\ Resumed(s.drm) \in DrmDisplay
        /\ Resumed(s.drm).master = TRUE
        /\ SessionBack(s.app) \in Apps
    <3>1. Resumed(s.drm) \in DrmDisplay /\ SessionBack(s.app) \in Apps
      BY <1>1, DisplayType, AppType
    <3>2. Resumed(s.drm).master = TRUE
      BY <1>1 DEF Resumed, Modeset, DrmDisplay
    <3> QED BY <3>1, <3>2
  <2>3. FlipInv(Resumed(s.drm)) /\ PixelInv(Resumed(s.drm), SessionBack(s.app))
    BY <1>1, <2>2, DisplayFlips, VoidPixels
  <2>4. /\ t \in LoopStates
        /\ t.active = TRUE /\ t.drm = Resumed(s.drm) /\ t.app = SessionBack(s.app)
        /\ t.needs_redraw = TRUE
    BY <1>1, <2>2 DEF LoopStates
  <2> HIDE DEF t
  <2>5. Good(t)
    BY <2>2, <2>3, <2>4 DEF Good
  <2> QED BY <1>3, <2>1, <2>2, <2>4, <2>5
<1> QED BY <1>2, <1>3

\* So does a mode change, of a display with master.
LEMMA HandleModeChangeGood ==
  ASSUME NEW s, Good(s), s.drm.master
  PROVE  /\ Good(HandleModeChange(s))
         /\ HandleModeChange(s).drm.master
         /\ HandleModeChange(s).console = s.console
<1>1. /\ s \in LoopStates /\ s.drm \in DrmDisplay /\ s.app \in Apps
      /\ s.active <=> s.drm.master
  BY DEF Good, LoopStates
<1> DEFINE t == HandleModeChange(s)
<1>2. /\ Reconfigured(s.drm) \in DrmDisplay
      /\ Reconfigured(s.drm).master = s.drm.master
      /\ DisplayChanged(s.app) \in Apps
  <2>1. Reconfigured(s.drm) \in DrmDisplay /\ DisplayChanged(s.app) \in Apps
    BY <1>1, DisplayType, AppType
  <2>2. Reconfigured(s.drm).master = s.drm.master
    BY <1>1 DEF Reconfigured, Modeset, DrmDisplay
  <2> QED BY <2>1, <2>2
<1>3. FlipInv(Reconfigured(s.drm))
      /\ PixelInv(Reconfigured(s.drm), DisplayChanged(s.app))
  BY <1>1, <1>2, DisplayFlips, VoidPixels
<1>4. /\ t \in LoopStates
      /\ t.active = s.active /\ t.drm = Reconfigured(s.drm)
      /\ t.app = DisplayChanged(s.app) /\ t.needs_redraw = TRUE
      /\ t.console = s.console
  BY <1>1, <1>2 DEF HandleModeChange, LoopStates
<1> HIDE DEF t
<1>5. Good(t)
  BY <1>1, <1>2, <1>3, <1>4 DEF Good
<1> QED BY <1>2, <1>4, <1>5 DEF t

(***************************************************************************)
(* The invariant, action by action.                                        *)
(***************************************************************************)

\* Input and wakes bring the handler to another state and may owe a repaint.
Handled(s, regions, place, more) ==
  [s EXCEPT !.app = Invalidated(Pointed(s.app, place), regions),
            !.needs_redraw = @ \/ more]

LEMMA HandledGood ==
  ASSUME NEW s, Good(s), NEW regions \in SUBSET Regions,
         NEW place \in Regions \cup {None}, NEW more \in BOOLEAN
  PROVE  /\ Good(Handled(s, regions, place, more))
         /\ Handled(s, regions, place, more).console = s.console
         /\ Handled(s, regions, place, more).drm = s.drm
<1> DEFINE a == Pointed(s.app, place)
           b == Invalidated(a, regions)
           t == Handled(s, regions, place, more)
<1>1. /\ s \in LoopStates /\ s.drm \in DrmDisplay /\ s.app \in Apps
      /\ s.needs_redraw \in BOOLEAN /\ s.retried \in BOOLEAN
  BY DEF Good, LoopStates
<1>2. a \in Apps
  BY <1>1, AppType
<1>3. b \in Apps
  BY <1>2, AppType
<1>4. ~s.retried => PixelInv(s.drm, a)
  BY <1>1, DisplayPixels DEF Good
<1>5. ~s.retried => PixelInv(s.drm, b)
  BY <1>1, <1>2, <1>4, DisplayPixels
<1>0. t = [s EXCEPT !.app = b, !.needs_redraw = @ \/ more]
  BY DEF Handled
<1> HIDE DEF a, b, t
<1>6. /\ t \in LoopStates
      /\ t.active = s.active /\ t.drm = s.drm /\ t.app = b
      /\ t.needs_redraw = (s.needs_redraw \/ more)
      /\ t.retried = s.retried /\ t.console = s.console
  BY <1>0, <1>1, <1>3 DEF LoopStates
<1>7. Good(t)
  BY <1>5, <1>6 DEF Good
<1> QED BY <1>6, <1>7 DEF t

LEMMA InitInv == Init => Inv
<1> SUFFICES ASSUME Init PROVE Inv
  OBVIOUS
<1> USE DEF Init
<1>1. NewDisplay \in DrmDisplay
  <2>1. /\ [b \in Buffers |-> 0] \in [Buffers -> Ages]
        /\ [b \in Buffers |-> Regions] \in [Buffers -> SUBSET Regions]
        /\ [b \in Buffers |-> {}] \in [Buffers -> SUBSET Regions]
    BY HistoryAssumption DEF Ages
  <2> QED BY <2>1 DEF NewDisplay, DrmDisplay, Buffers
<1>2. app \in Apps
  BY HistoryAssumption DEF Apps, App
<1>3. FlipInv(NewDisplay) /\ PixelInv(NewDisplay, app)
  BY HistoryAssumption DEF FlipInv, PixelInv, NewDisplay, Buffers
<1>4. LoopState \in LoopStates
  BY <1>1, <1>2 DEF LoopState, LoopStates
<1>5. drm.master = TRUE
  BY DEF NewDisplay
<1> QED BY <1>3, <1>4, <1>5 DEF Inv, Good, LoopState, SessionInv

\* Only the loop's own steps and those of the console touch what the events not
\* yet read say of the console.
LEMMA SameSession ==
  ASSUME Inv, UNCHANGED sessions, console' = console,
         drm'.master = drm.master
  PROVE  SessionInv'
BY DEF Inv, SessionInv

LEMMA NextInv == Inv /\ [Next]_vars => Inv'
<1> SUFFICES ASSUME Inv, [Next]_vars PROVE Inv'
  OBVIOUS
<1>0. /\ Good(LoopState) /\ SessionInv
      /\ LoopState \in LoopStates
      /\ LoopState.drm = drm /\ LoopState.active = active
      /\ LoopState.app = app /\ LoopState.needs_redraw = needs_redraw
      /\ LoopState.console = console /\ LoopState.retried = retried
      /\ drm \in DrmDisplay /\ app \in Apps
      /\ active <=> drm.master
      /\ exit \in BOOLEAN /\ mode_changed \in BOOLEAN
  BY DEF Inv, Good, LoopState, LoopStates
<1>1. CASE OnInputReady
  <2>1. PICK regions \in SUBSET Regions, place \in Regions \cup {None} :
          LET a == Invalidated(Pointed(app, place), regions)
          IN  TryRender([LoopState EXCEPT
                           !.app = a,
                           !.needs_redraw = @ \/ a.dirty # {} \/ a.cursor_dirty],
                        "no", "failed")
    BY <1>1 DEF OnInputReady
  <2> DEFINE a == Invalidated(Pointed(app, place), regions)
             more == a.dirty # {} \/ a.cursor_dirty
             t == [LoopState EXCEPT !.app = a, !.needs_redraw = @ \/ more]
  <2>2. a \in Apps
    BY <1>0, AppType
  <2>3. more \in BOOLEAN
    BY <2>2 DEF Apps, App
  <2>4. TryRender(t, "no", "failed")
    BY <2>1
  <2> HIDE DEF more
  <2>5. Good(t) /\ t.console = console /\ t.drm = drm
    <3>1. t = Handled(LoopState, regions, place, more)
      BY <1>0 DEF Handled
    <3> HIDE DEF t
    <3>2. Good(t) /\ t.console = LoopState.console /\ t.drm = LoopState.drm
      BY <1>0, <2>3, <3>1, HandledGood
    <3> QED BY <1>0, <3>2
  <2> HIDE DEF t
  <2>6. /\ Good(LoopState)' /\ console' = console /\ drm'.master = drm.master
        /\ stopped' \in {"no", "failed"}
    BY <2>4, <2>5, TryRenderGood
  <2> QED BY <1>0, <1>1, <2>6, SameSession DEF OnInputReady, Inv
<1>2. CASE OnEscape
  <2>1. /\ Good(LoopState)' /\ console' = console /\ drm'.master = drm.master
        /\ stopped' \in {"no", "failed"}
    BY <1>0, <1>2, TryRenderGood DEF OnEscape
  <2> QED BY <1>0, <1>2, <2>1, SameSession DEF OnEscape, Inv
<1>3. CASE OnWakeReady
  <2>1. PICK regions \in SUBSET Regions, place \in Regions \cup {None} :
          LET a == Invalidated(Pointed(app, place), regions)
          IN  TryRender([LoopState EXCEPT !.app = a,
                                          !.needs_redraw = @ \/ a.dirty # {}],
                        "no", "no")
    BY <1>3 DEF OnWakeReady
  <2> DEFINE a == Invalidated(Pointed(app, place), regions)
             more == a.dirty # {}
             t == [LoopState EXCEPT !.app = a, !.needs_redraw = @ \/ more]
  <2>2. TryRender(t, "no", "no")
    BY <2>1
  <2>3. more \in BOOLEAN
    OBVIOUS
  <2> HIDE DEF more
  <2>4. Good(t) /\ t.console = console /\ t.drm = drm
    <3>1. t = Handled(LoopState, regions, place, more)
      BY <1>0 DEF Handled
    <3> HIDE DEF t
    <3>2. Good(t) /\ t.console = LoopState.console /\ t.drm = LoopState.drm
      BY <1>0, <2>3, <3>1, HandledGood
    <3> QED BY <1>0, <3>2
  <2> HIDE DEF t
  <2>5. /\ Good(LoopState)' /\ console' = console /\ drm'.master = drm.master
        /\ stopped' \in {"no"}
    BY <2>2, <2>4, TryRenderGood
  <2> QED BY <1>0, <1>3, <2>5, SameSession DEF OnWakeReady, Inv
<1>4. CASE OnDisplayReady
  <2> DEFINE t == [LoopState EXCEPT !.drm = Dispatched(@)]
  <2>1. Dispatched(drm) \in DrmDisplay /\ FlipInv(Dispatched(drm))
    BY <1>0, DisplayType, DisplayFlips DEF Good
  <2>2. ~retried => PixelInv(Dispatched(drm), app)
    BY <1>0, DisplayPixels DEF Good
  <2>3. Dispatched(drm).master = drm.master /\ Dispatched(drm).shown = drm.shown
    BY <1>0 DEF Dispatched, DrmDisplay
  <2>4. /\ t \in LoopStates
        /\ t.drm = Dispatched(drm) /\ t.active = active /\ t.app = app
        /\ t.needs_redraw = needs_redraw /\ t.retried = retried
        /\ t.console = console
    BY <1>0, <2>1 DEF LoopStates
  <2>5. TryRender(t, "no", "failed")
    BY <1>4 DEF OnDisplayReady
  <2> HIDE DEF t
  <2>6. Good(t)
    BY <1>0, <2>1, <2>2, <2>3, <2>4 DEF Good
  <2>7. /\ Good(LoopState)' /\ console' = console /\ drm'.master = drm.master
        /\ stopped' \in {"no", "failed"}
    BY <2>3, <2>4, <2>5, <2>6, TryRenderGood
  <2> QED BY <1>0, <1>4, <2>7, SameSession DEF OnDisplayReady, Inv
<1>5. CASE OnSessionReady
  <2> DEFINE s == HandleSession(LoopState, sessions[1])
             t == IF Len(sessions) = 1 THEN s ELSE HandleSession(s, sessions[2])
  <2>1. /\ sessions # <<>> /\ sessions' = <<>> /\ UNCHANGED <<exit, mode_changed>>
        /\ TryRender(t, "no", "failed")
    BY <1>5 DEF OnSessionReady
  <2>2. /\ LoopState.console = console
        /\ \A u, e : HandleSession(u, e) \in LoopStates =>
             HandleSession(u, e).console =
               IF e = "release" THEN "theirs"
               ELSE IF u.console = "returning" THEN "ours" ELSE u.console
    <3>1. ASSUME NEW u, NEW e, HandleSession(u, e) \in LoopStates
          PROVE  HandleSession(u, e).console =
                   IF e = "release" THEN "theirs"
                   ELSE IF u.console = "returning" THEN "ours" ELSE u.console
      <4> DEFINE rel == [u EXCEPT !.active = FALSE, !.drm = Suspended(@),
                                  !.console = "theirs"]
                 acq == [u EXCEPT !.console = IF @ = "returning" THEN "ours" ELSE @,
                                  !.drm = Resumed(@), !.active = TRUE,
                                  !.needs_redraw = TRUE, !.app = SessionBack(@),
                                  !.retried = FALSE]
      <4>1. "console" \in DOMAIN HandleSession(u, e)
        BY <3>1 DEF LoopStates
      <4>2. CASE e = "release"
        <5>1. HandleSession(u, e) = rel
          BY <4>2 DEF HandleSession
        <5> QED BY <4>1, <4>2, <5>1
      <4>3. CASE e # "release"
        <5>1. HandleSession(u, e) = acq
          BY <4>3 DEF HandleSession
        <5> QED BY <4>1, <4>3, <5>1
      <4> QED BY <4>2, <4>3
    <3> QED BY <1>0, <3>1
  <2>3. CASE sessions = <<"acquire">>
    <3>1. Good(s) /\ s.drm.master /\ t = s
      BY <1>0, <2>3, HandleSessionGood
    <3>2. s.console = "ours"
      BY <1>0, <2>2, <2>3, <3>1 DEF Good, SessionInv
    <3> HIDE DEF s, t
    <3>3. /\ Good(LoopState)' /\ console' = "ours"
          /\ stopped' \in {"no", "failed"}
      BY <2>1, <3>1, <3>2, TryRenderGood
    <3> QED BY <1>0, <2>1, <3>3 DEF Inv, SessionInv
  <2>4. CASE sessions = <<"release">>
    <3>1. Good(s) /\ ~s.drm.master /\ t = s
      BY <1>0, <2>4, HandleSessionGood
    <3>2. s.console = "theirs"
      BY <1>0, <2>2, <2>4, <3>1 DEF Good, SessionInv
    <3> HIDE DEF s, t
    <3>3. /\ Good(LoopState)' /\ console' = "theirs"
          /\ drm'.master = s.drm.master
          /\ stopped' \in {"no", "failed"}
      BY <2>1, <3>1, <3>2, TryRenderGood
    <3> QED BY <1>0, <2>1, <3>1, <3>3 DEF Inv, SessionInv
  <2>5. CASE sessions = <<"acquire", "release">>
    <3>1. Good(s)
      BY <1>0, <2>5, HandleSessionGood
    <3>2. s.console = "leaving"
      BY <1>0, <2>2, <2>5, <3>1 DEF Good, SessionInv
    <3>3. t = HandleSession(s, "release")
      BY <2>5
    <3> HIDE DEF s, t
    <3>4. Good(t) /\ ~t.drm.master
      BY <3>1, <3>3, HandleSessionGood
    <3>5. t.console = "theirs"
      BY <2>2, <3>2, <3>3, <3>4 DEF Good
    <3>6. /\ Good(LoopState)' /\ console' = "theirs"
          /\ drm'.master = t.drm.master
          /\ stopped' \in {"no", "failed"}
      BY <2>1, <3>4, <3>5, TryRenderGood
    <3> QED BY <1>0, <2>1, <3>4, <3>6 DEF Inv, SessionInv
  <2> QED BY <1>0, <2>1, <2>3, <2>4, <2>5 DEF SessionInv
<1>6. CASE OnUeventReady
  <2> DEFINE t == HandleModeChange(LoopState)
  <2>1. drm.master /\ TryRender(t, "no", "failed")
    BY <1>6 DEF OnUeventReady, ModeMoved
  <2>2. Good(t) /\ t.drm.master = drm.master /\ t.console = console
    BY <1>0, <2>1, HandleModeChangeGood DEF Good
  <2> HIDE DEF t
  <2>3. /\ Good(LoopState)' /\ console' = console /\ drm'.master = drm.master
        /\ stopped' \in {"no", "failed"}
    BY <2>1, <2>2, TryRenderGood
  <2> QED BY <1>0, <1>6, <2>3, SameSession DEF OnUeventReady, Inv
<1>7. CASE Turn
  <2>1. PICK regions \in SUBSET Regions, power \in BOOLEAN \cup {None},
             quit \in BOOLEAN, poll \in BOOLEAN :
       LET a == Invalidated(app, regions)
           applied == power # None /\ active
           s == [LoopState EXCEPT
                   !.app = a,
                   !.drm = IF applied THEN Powered(@, power) ELSE @,
                   !.needs_redraw = \/ @
                                    \/ ~quit /\ a.dirty # {}
                                    \/ applied /\ power = TRUE]
       IN  /\ TryRender(IF poll /\ ModeMoved THEN HandleModeChange(s) ELSE s,
                        IF quit THEN "returned" ELSE "no", "failed")
           /\ mode_changed' = (mode_changed /\ ~(poll /\ ModeMoved))
           /\ exit' = quit
    BY <1>7 DEF Turn
  <2> DEFINE a == Invalidated(app, regions)
             applied == power # None /\ active
             d == IF applied THEN Powered(drm, power) ELSE drm
             more == (~quit /\ a.dirty # {}) \/ (applied /\ power = TRUE)
             s == [LoopState EXCEPT !.app = a, !.drm = d, !.needs_redraw = @ \/ more]
             t == IF poll /\ ModeMoved THEN HandleModeChange(s) ELSE s
  <2>2. /\ TryRender(t, IF quit THEN "returned" ELSE "no", "failed")
        /\ mode_changed' \in BOOLEAN /\ exit' \in BOOLEAN
    <3>1. s = [LoopState EXCEPT
                   !.app = a,
                   !.drm = IF applied THEN Powered(@, power) ELSE @,
                   !.needs_redraw = \/ @
                                    \/ ~quit /\ a.dirty # {}
                                    \/ applied /\ power = TRUE]
      BY <1>0
    <3> HIDE DEF s
    <3> QED BY <2>1, <3>1, <1>0
  <2>3. applied => power \in BOOLEAN
    OBVIOUS
  <2>4. /\ d \in DrmDisplay /\ FlipInv(d) /\ d.master = drm.master
        /\ d.shown = drm.shown
        /\ ~retried => PixelInv(d, app)
    <3>1. CASE applied
      <4>1. d = Powered(drm, power)
        BY <3>1
      <4>2. d.master = drm.master /\ d.shown = drm.shown
        BY <1>0, <4>1 DEF Powered, DrmDisplay
      <4> HIDE DEF d
      <4> QED BY <1>0, <2>3, <3>1, <4>1, <4>2, DisplayType, DisplayFlips,
                 DisplayPixels DEF Good
    <3>2. CASE ~applied
      BY <1>0, <3>2 DEF Good
    <3> QED BY <3>1, <3>2
  <2>5. a \in Apps
    BY <1>0, AppType
  <2>6. more \in BOOLEAN
    OBVIOUS
  <2> HIDE DEF applied, d, more
  <2>7. ~retried => PixelInv(d, a)
    BY <1>0, <2>4, DisplayPixels
  <2> HIDE DEF a
  <2>8. /\ s \in LoopStates /\ s.drm = d /\ s.active = active /\ s.app = a
        /\ s.needs_redraw = (needs_redraw \/ more) /\ s.retried = retried
        /\ s.console = console
    BY <1>0, <2>4, <2>5, <2>6 DEF LoopStates
  <2> HIDE DEF s
  <2>9. Good(s)
    BY <1>0, <2>4, <2>7, <2>8 DEF Good
  <2>10. Good(t) /\ t.drm.master = drm.master /\ t.console = console
    <3>1. CASE poll /\ ModeMoved
      <4>1. s.drm.master /\ drm.master
        BY <2>4, <2>8, <3>1 DEF ModeMoved
      <4>2. /\ Good(HandleModeChange(s)) /\ HandleModeChange(s).drm.master
            /\ HandleModeChange(s).console = s.console
        BY <2>9, <4>1, HandleModeChangeGood
      <4>3. HandleModeChange(s).drm \in DrmDisplay
        BY <4>2 DEF Good, LoopStates
      <4>4. HandleModeChange(s).drm.master \in BOOLEAN /\ drm.master \in BOOLEAN
        BY <1>0, <4>3 DEF DrmDisplay
      <4> QED BY <2>8, <3>1, <4>1, <4>2, <4>4
    <3>2. CASE ~(poll /\ ModeMoved)
      BY <2>4, <2>8, <2>9, <3>2
    <3> QED BY <3>1, <3>2
  <2> HIDE DEF t
  <2>11. /\ Good(LoopState)' /\ console' = console /\ drm'.master = drm.master
         /\ stopped' \in {"returned", "no", "failed"}
    BY <2>2, <2>10, TryRenderGood
  <2> QED BY <1>0, <1>7, <2>2, <2>11, SameSession DEF Turn, Inv
<1>8. CASE Return
  BY <1>0, <1>8 DEF Return, Inv, Good, LoopState, SessionInv
<1>9. CASE Vblank
  <2>1. FlipDone(drm) \in DrmDisplay /\ FlipInv(FlipDone(drm))
    BY <1>0, <1>9, DisplayType, DisplayFlips DEF Vblank, Good
  <2>2. ~retried => PixelInv(FlipDone(drm), app)
    BY <1>0, <1>9, DisplayPixels DEF Vblank, Good
  <2>3. FlipDone(drm).master = drm.master /\ FlipDone(drm).shown = drm.shown
    BY <1>0 DEF FlipDone, DrmDisplay
  <2>4. /\ drm' = FlipDone(drm)
        /\ UNCHANGED <<active, needs_redraw, exit, stopped, app, console, sessions,
                       mode_changed, retried>>
    BY <1>9 DEF Vblank
  <2>5. LoopState' \in LoopStates
    BY <1>0, <2>1, <2>4 DEF LoopState, LoopStates
  <2>6. Good(LoopState)'
    BY <1>0, <2>1, <2>2, <2>3, <2>4, <2>5 DEF Good, LoopState
  <2> QED BY <1>0, <2>3, <2>4, <2>6, SameSession DEF Inv
<1>10. CASE SwitchAway \/ SwitchBack \/ Replugged
  <2>1. /\ UNCHANGED <<drm, active, needs_redraw, exit, stopped, app, retried>>
        /\ console' \in {"ours", "leaving", "theirs", "returning"}
        /\ mode_changed' \in BOOLEAN
    BY <1>0, <1>10 DEF SwitchAway, SwitchBack, Replugged, LoopStates
  <2>2. LoopState' \in LoopStates
    BY <1>0, <2>1 DEF LoopState, LoopStates
  <2>3. Good(LoopState)'
    BY <1>0, <2>1, <2>2 DEF Good, LoopState
  <2>4. SessionInv'
    <3>1. CASE SwitchAway
      <4>1. /\ console \in {"ours", "returning"} /\ console' = "leaving"
            /\ sessions' = Append(sessions, "release")
        BY <3>1 DEF SwitchAway
      <4>2. \/ sessions = <<>> /\ sessions' = <<"release">>
            \/ sessions = <<"acquire">> /\ sessions' = <<"acquire", "release">>
        <5>1. sessions = <<>> \/ sessions = <<"acquire">>
          BY <1>0, <4>1 DEF SessionInv
        <5>2. CASE sessions = <<>>
          <6>1. Append(<<>>, "release") = <<"release">>
            OBVIOUS
          <6> QED BY <4>1, <5>2, <6>1
        <5>3. CASE sessions = <<"acquire">>
          <6>1. sessions \in Seq({"release", "acquire"}) /\ Len(sessions) = 1
            BY <5>3
          <6>2. /\ sessions' \in Seq({"release", "acquire"}) /\ Len(sessions') = 2
                /\ sessions'[1] = "acquire" /\ sessions'[2] = "release"
            BY <4>1, <5>3, <6>1
          <6>3. /\ <<"acquire", "release">> \in Seq({"release", "acquire"})
                /\ Len(<<"acquire", "release">>) = 2
            OBVIOUS
          <6>4. sessions' = <<"acquire", "release">>
            BY <6>2, <6>3, SeqEqual
          <6> QED BY <5>3, <6>4
        <5> QED BY <5>1, <5>2, <5>3
      <4> QED BY <4>1, <4>2 DEF SessionInv
    <3>2. CASE SwitchBack
      <4>1. /\ console = "theirs" /\ console' = "returning"
            /\ sessions' = Append(sessions, "acquire")
        BY <3>2 DEF SwitchBack
      <4>2. sessions = <<>> /\ ~drm.master
        BY <1>0, <4>1 DEF SessionInv
      <4>3. sessions' = <<"acquire">>
        BY <4>1, <4>2
      <4> QED BY <2>1, <4>1, <4>2, <4>3 DEF SessionInv
    <3>3. CASE Replugged
      BY <1>0, <2>1, <3>3 DEF Replugged, SessionInv
    <3> QED BY <1>10, <3>1, <3>2, <3>3
  <2> QED BY <2>1, <2>3, <2>4 DEF Inv
<1>11. CASE UNCHANGED vars
  BY <1>11, <1>0 DEF vars, Inv, Good, LoopState, SessionInv
<1> QED BY <1>1, <1>2, <1>3, <1>4, <1>5, <1>6, <1>7, <1>8, <1>9, <1>10, <1>11 DEF Next

(***************************************************************************)
(* The theorems.                                                           *)
(***************************************************************************)

THEOREM Invariance == Spec => []Inv
BY InitInv, NextInv, PTL DEF Spec

\* Every variable keeps its type: in particular the ring of past frames never
\* outgrows HISTORY and the ages never leave their range.
THEOREM TypeCorrect == Spec => []TypeOK
<1>1. Inv => TypeOK
  <2>1. ASSUME Inv PROVE TypeOK
    <3>1. drm \in DrmDisplay /\ app \in Apps /\ LoopState \in LoopStates
      BY <2>1 DEF Inv, Good, LoopState, LoopStates
    <3>2. sessions \in Seq({"release", "acquire"})
      <4>1. \/ sessions = <<>> \/ sessions = <<"release">>
            \/ sessions = <<"acquire">> \/ sessions = <<"acquire", "release">>
        BY <2>1 DEF Inv, SessionInv
      <4>2. /\ <<>> \in Seq({"release", "acquire"})
            /\ <<"release">> \in Seq({"release", "acquire"})
            /\ <<"acquire">> \in Seq({"release", "acquire"})
            /\ <<"acquire", "release">> \in Seq({"release", "acquire"})
        OBVIOUS
      <4> QED BY <4>1, <4>2
    <3> QED BY <2>1, <3>1, <3>2 DEF Inv, TypeOK, LoopState, LoopStates, Apps
  <2> QED BY <2>1
<1> QED BY <1>1, Invariance, PTL

\* Master is held exactly while the session is ours to draw in, and never while
\* the console is another session's (on_vt_ready).
THEOREM SessionIsSafe == Spec => []SessionSafety
<1>1. Inv => SessionSafety
  BY DEF Inv, Good, LoopState, SessionInv, SessionSafety
<1> QED BY <1>1, Invariance, PTL

\* flip_pending is the truth about the card (present, dispatch_present, suspend).
THEOREM FlipsAccounted == Spec => []FlipAccounting
<1>1. Inv => FlipAccounting
  BY DEF Inv, Good, LoopState, FlipInv, FlipAccounting
<1> QED BY <1>1, Invariance, PTL

\* begin_frame never hands out a buffer that is on screen or about to be.
THEOREM BackIsAlwaysFree == Spec => []BackIsFree
<1>1. Inv => BackIsFree
  BY DEF Inv, Good, LoopState, FlipInv, BackIsFree, BufferFree
<1> QED BY <1>1, Invariance, PTL

\* Damage, buffer age and last_rect suffice: a screen owed nothing shows the last
\* frame (DamageTracker::flush, Runner::render, SoftwareCursor::damage).
THEOREM ScreenIsCurrent == Spec => []QuietScreen
<1>1. ASSUME Inv PROVE QuietScreen
  <2>1. /\ FlipInv(drm) /\ drm \in DrmDisplay /\ app \in Apps
        /\ ~retried => PixelInv(drm, app)
        /\ drm.master /\ drm.shown = None => needs_redraw
    BY <1>1 DEF Inv, Good, LoopState, LoopStates
  <2>2. SUFFICES ASSUME drm.master, ~needs_redraw, ~drm.flip_pending,
                        ~drm.orphan, ~retried
                 PROVE  /\ drm.shown = drm.scanout
                        /\ drm.stale[drm.scanout] = {}
                        /\ drm.arrow[drm.scanout] = {app.last_rect}
    BY DEF QuietScreen
  <2>3. drm.shown # None /\ drm.shown = drm.scanout /\ drm.scanout \in Buffers
    BY <2>1, <2>2 DEF FlipInv, DrmDisplay
  <2>4. drm.age[drm.scanout] = 1 /\ app.last_rect \in drm.arrow[drm.scanout]
    BY <2>1, <2>2, <2>3 DEF PixelInv
  <2>5. /\ drm.stale[drm.scanout] \subseteq Past(app.history, 0)
        /\ drm.arrow[drm.scanout] \subseteq Past(app.history, 0) \cup {app.last_rect}
    BY <2>1, <2>2, <2>3, <2>4, HistoryAssumption DEF PixelInv
  <2>6. Past(app.history, 0) = {}
    <3>1. app.history \in Seq(SUBSET Regions)
      BY <2>1 DEF Apps, App
    <3>2. { j \in 1 .. Len(app.history) : j > Len(app.history) - 0 } = {}
      BY <3>1
    <3> QED BY <3>2 DEF Past
  <2> QED BY <2>3, <2>4, <2>5, <2>6
<1> QED BY <1>1, Invariance, PTL
(***************************************************************************)
(* The refinement of ScreenSession: what the loop does with the console is *)
(* a step of the session, or none.                                         *)
(***************************************************************************)

\* try_render leaves the console and the master alone.
LEMMA RenderKeepsMaster ==
  ASSUME NEW s, s.drm \in DrmDisplay, NEW ok, NEW err, TryRender(s, ok, err)
  PROVE  console' = s.console /\ drm'.master = s.drm.master
<1> DEFINE d == RenderedPixels(s.drm, s.app)
<1>1. d.master = s.drm.master
  BY DEF RenderedPixels, DrmDisplay
<1>2. \A f : DOMAIN f = DOMAIN s.drm => /\ FlipDone(f).master = f.master
                                        /\ DOMAIN FlipDone(f) = DOMAIN f
                                        /\ Presented(f).master = f.master
  BY DEF FlipDone, Presented, DrmDisplay
<1>3. DOMAIN d = DOMAIN s.drm
  BY DEF RenderedPixels, DrmDisplay
<1> HIDE DEF d
<1>4. Accepted(d).master = s.drm.master
  BY <1>1, <1>2, <1>3 DEF Accepted
<1> QED BY <1>1, <1>4 DEF TryRender, d

\* What the calls of a callback do to the master.
LEMMA CallsAndMaster ==
  ASSUME NEW d \in DrmDisplay
  PROVE  /\ Dispatched(d).master = d.master
         /\ \A on : Powered(d, on).master = d.master
         /\ Reconfigured(d).master = d.master
BY DEF Dispatched, Powered, Reconfigured, Modeset, DrmDisplay

SessionStutters == console' = console /\ drm'.master = drm.master

\* A callback that works on a record with the loop's console, and a display
\* whose master is the loop's.
LEMMA RenderStutters ==
  ASSUME NEW s, NEW ok, NEW err, TryRender(s, ok, err), s.drm \in DrmDisplay,
         s.console = console, s.drm.master = drm.master
  PROVE  SessionStutters
BY RenderKeepsMaster DEF SessionStutters

LEMMA QuietCallbacks ==
  ASSUME Inv, \/ OnInputReady \/ OnEscape \/ OnWakeReady \/ OnDisplayReady
              \/ OnUeventReady \/ Turn
  PROVE  SessionStutters
<1>0. drm \in DrmDisplay
  BY DEF Inv, Good, LoopState, LoopStates
<1>1. CASE OnInputReady
  <2>1. \A a, b : LET s == [LoopState EXCEPT !.app = a, !.needs_redraw = b]
                  IN  s.drm = drm /\ s.console = console
    BY DEF LoopState
  <2> QED BY <1>0, <1>1, <2>1, RenderStutters DEF OnInputReady
<1>2. CASE OnEscape
  BY <1>0, <1>2, RenderStutters DEF OnEscape, LoopState
<1>3. CASE OnWakeReady
  <2>1. \A a, b : LET s == [LoopState EXCEPT !.app = a, !.needs_redraw = b]
                  IN  s.drm = drm /\ s.console = console
    BY DEF LoopState
  <2> QED BY <1>0, <1>3, <2>1, RenderStutters DEF OnWakeReady
<1>4. CASE OnDisplayReady
  <2>1. LET s == [LoopState EXCEPT !.drm = Dispatched(@)]
        IN  s.drm = Dispatched(drm) /\ s.console = console
    BY DEF LoopState
  <2> QED BY <1>0, <1>4, <2>1, DisplayType, CallsAndMaster, RenderStutters DEF OnDisplayReady
<1>5. CASE OnUeventReady
  <2>1. HandleModeChange(LoopState).drm = Reconfigured(drm)
        /\ HandleModeChange(LoopState).console = console
    BY DEF LoopState, HandleModeChange
  <2> QED BY <1>0, <1>5, <2>1, DisplayType, CallsAndMaster, RenderStutters DEF OnUeventReady
<1>6. CASE Turn
  <2>1. PICK regions \in SUBSET Regions, power \in BOOLEAN \cup {None}, quit \in BOOLEAN,
             poll \in BOOLEAN :
          LET a == Invalidated(app, regions)
              applied == power # None /\ active
              s == [LoopState EXCEPT
                      !.app = a,
                      !.drm = IF applied THEN Powered(@, power) ELSE @,
                      !.needs_redraw = \/ @
                                       \/ ~quit /\ a.dirty # {}
                                       \/ applied /\ power = TRUE]
          IN  /\ TryRender(IF poll /\ ModeMoved THEN HandleModeChange(s) ELSE s,
                           IF quit THEN "returned" ELSE "no", "failed")
              /\ mode_changed' = (mode_changed /\ ~(poll /\ ModeMoved))
              /\ exit' = quit
    BY <1>6 DEF Turn
  <2> DEFINE a == Invalidated(app, regions)
             applied == power # None /\ active
             s == [LoopState EXCEPT
                     !.app = a,
                     !.drm = IF applied THEN Powered(@, power) ELSE @,
                     !.needs_redraw = \/ @
                                      \/ ~quit /\ a.dirty # {}
                                      \/ applied /\ power = TRUE]
             t == IF poll /\ ModeMoved THEN HandleModeChange(s) ELSE s
  <2>a. TryRender(t, IF quit THEN "returned" ELSE "no", "failed")
    BY <2>1
  <2>b. /\ s.drm = IF applied THEN Powered(drm, power) ELSE drm
        /\ s.console = console
        /\ DOMAIN s = DOMAIN LoopState
    BY DEF LoopState
  <2> HIDE DEF s
  <2>2. s.drm \in DrmDisplay /\ s.drm.master = drm.master
    BY <1>0, <2>b, DisplayType, CallsAndMaster
  <2>3. /\ HandleModeChange(s).drm = Reconfigured(s.drm)
        /\ HandleModeChange(s).console = console
    BY <2>b DEF HandleModeChange, LoopState
  <2>4. t.drm \in DrmDisplay /\ t.console = console /\ t.drm.master = drm.master
    BY <2>2, <2>3, <2>b, DisplayType, CallsAndMaster
  <2> HIDE DEF t
  <2> QED BY <2>a, <2>4, RenderStutters
<1> QED BY <1>1, <1>2, <1>3, <1>4, <1>5, <1>6

\* on_vt_ready hands the console over with the master dropped, takes it back
\* with the master held, or does both in one drain.
LEMMA SessionCallback ==
  ASSUME Inv, OnSessionReady
  PROVE  \/ console = "returning" /\ console' = "ours" /\ drm'.master = TRUE
         \/ console = "leaving" /\ console' = "theirs" /\ drm'.master = FALSE
<1>0. Good(LoopState) /\ LoopState.console = console
  BY DEF Inv, LoopState
<1> DEFINE one == HandleSession(LoopState, sessions[1])
           two == HandleSession(one, sessions[2])
<1>1. TryRender(IF Len(sessions) = 1 THEN one ELSE two, "no", "failed")
  BY DEF OnSessionReady
<1>2. ASSUME NEW s, Good(s)
      PROVE  /\ HandleSession(s, "release").console = "theirs"
             /\ HandleSession(s, "acquire").console
                  = IF s.console = "returning" THEN "ours" ELSE s.console
             /\ HandleSession(s, "release").drm.master = FALSE
             /\ HandleSession(s, "acquire").drm.master = TRUE
             /\ \A e \in {"release", "acquire"} :
                  Good(HandleSession(s, e)) /\ HandleSession(s, e).drm \in DrmDisplay
  <2>1. s \in LoopStates
    BY <1>2 DEF Good
  <2>2. /\ HandleSession(s, "release").console = "theirs"
        /\ HandleSession(s, "acquire").console
             = IF s.console = "returning" THEN "ours" ELSE s.console
    BY <2>1 DEF HandleSession, LoopStates
  <2>3. \A e \in {"release", "acquire"} :
          Good(HandleSession(s, e)) /\ HandleSession(s, e).drm \in DrmDisplay
    BY <1>2, HandleSessionGood DEF Good, LoopStates
  <2>4. HandleSession(s, "acquire").drm.master <=> "acquire" = "acquire"
    BY <1>2, HandleSessionGood
  <2>5. HandleSession(s, "release").drm.master <=> "release" = "acquire"
    BY <1>2, HandleSessionGood
  <2>6. \A e \in {"release", "acquire"} : HandleSession(s, e).drm.master \in BOOLEAN
    BY <2>3 DEF DrmDisplay
  <2> QED BY <2>2, <2>3, <2>4, <2>5, <2>6
<1>3. \/ console = "returning" /\ sessions = <<"acquire">>
      \/ console = "leaving" /\ sessions = <<"release">>
      \/ console = "leaving" /\ sessions = <<"acquire", "release">>
  BY DEF Inv, SessionInv, OnSessionReady
<1> HIDE DEF one, two
<1>4. CASE console = "returning" /\ sessions = <<"acquire">>
  <2>1. one = HandleSession(LoopState, "acquire") /\ Len(sessions) = 1
    BY <1>4 DEF one
  <2>2. one.console = "ours" /\ one.drm.master = TRUE /\ one.drm \in DrmDisplay
    BY <1>0, <1>2, <1>4, <2>1
  <2>3. TryRender(one, "no", "failed")
    BY <1>1, <2>1
  <2> QED BY <1>4, <2>2, <2>3, RenderKeepsMaster
<1>5. CASE console = "leaving" /\ sessions = <<"release">>
  <2>1. one = HandleSession(LoopState, "release") /\ Len(sessions) = 1
    BY <1>5 DEF one
  <2> QED BY <1>0, <1>1, <1>2, <1>5, <2>1, RenderKeepsMaster
<1>6. CASE console = "leaving" /\ sessions = <<"acquire", "release">>
  <2>1. Good(one) /\ two.console = "theirs" /\ two.drm.master = FALSE /\ two.drm \in DrmDisplay
    BY <1>0, <1>2, <1>6 DEF one, two
  <2> QED BY <1>1, <1>6, <2>1, RenderKeepsMaster
<1> QED BY <1>3, <1>4, <1>5, <1>6

\* The loop keeps the promise to the other sessions of the console, but for
\* its liveness: it starts as the session does, and every step is a step of the
\* session or leaves it alone (event_loop.rs: on_vt_ready, try_render).
THEOREM SessionRefined == Spec => Session!Init /\ [][Session!Next]_(Session!vars)
<1>1. Init => Session!Init
  BY DEF Init, Session!Init, NewDisplay, Running
<1>2. ASSUME Inv, [Next]_vars PROVE [Session!Next]_(Session!vars)
  <2> USE DEF Session!vars, Session!Next
  <2>1. CASE SessionStutters /\ Running
    BY <2>1 DEF SessionStutters, Session!End, Running
  <2>2. CASE OnSessionReady
    BY <1>2, <2>2, SessionCallback
       DEF OnSessionReady, Session!Yield, Session!TakeBack, Session!End, Running
  <2>3. CASE SwitchAway
    BY <2>3 DEF SwitchAway, Session!Ask, Running
  <2>4. CASE SwitchBack
    BY <2>4 DEF SwitchBack, Session!GiveBack, Running
  <2>5. CASE Return \/ Replugged
    BY <2>1, <2>5 DEF Return, Replugged, SessionStutters
  <2>6. CASE Vblank
    <3>1. drm \in DrmDisplay
      BY <1>2 DEF Inv, Good, LoopState, LoopStates
    <3> QED BY <2>1, <2>6, <3>1 DEF Vblank, SessionStutters, FlipDone, DrmDisplay
  <2>7. CASE \/ OnInputReady \/ OnEscape \/ OnWakeReady \/ OnDisplayReady
             \/ OnUeventReady \/ Turn
    <3>1. Running
      BY <2>7 DEF OnInputReady, OnEscape, OnWakeReady, OnDisplayReady, OnUeventReady, Turn
    <3> QED BY <1>2, <2>1, <2>7, <3>1, QuietCallbacks
  <2>8. CASE UNCHANGED vars
    BY <2>8 DEF vars, Running
  <2> QED BY <1>2, <2>2, <2>3, <2>4, <2>5, <2>6, <2>7, <2>8 DEF Next
<1> QED BY <1>1, <1>2, Invariance, PTL DEF Spec


--------------------------------------------------------------------------------
(* DiskVerify: numbers, sequences and recursive functions.                      *)

\* A set closed under successor up to n holds all of 0..n.
LEMMA UpTo ==
  ASSUME NEW n \in Nat, NEW S, 0 \in S,
         \A k \in 0..(n - 1) : k \in S => k + 1 \in S
  PROVE  0..n \subseteq S
<1> DEFINE R == OpToRel(<, Nat)
           T == {k \in 0..n : k \notin S}
<1>1. IsWellFoundedOn(R, Nat)
  BY NatLessThanWellFounded
<1>2. \A x, y \in Nat : <<x, y>> \in R <=> x < y
  BY DEF OpToRel
<1> SUFFICES ASSUME T # {} PROVE FALSE
  OBVIOUS
<1>3. T \subseteq Nat
  OBVIOUS
<1> HIDE DEF R
<1>4. PICK m \in T : \A y \in T : ~(<<y, m>> \in R)
  <2> HIDE DEF T
  <2> QED
    BY <1>1, <1>3, WFMin
<1>5. m # 0 /\ m - 1 \in 0..(n - 1)
  OBVIOUS
<1>6. m - 1 \notin T
  <2>1. m \in Nat /\ m - 1 \in Nat /\ m - 1 < m
    BY <1>3, <1>5
  <2>2. <<m - 1, m>> \in R
    BY <1>2, <2>1
  <2> HIDE DEF T
  <2> QED
    BY <1>4, <2>2
<1> QED
  BY <1>5, <1>6

Recurs(n, X, x0, step) == \E f \in [0..n -> X] : /\ f[0] = x0
                                                 /\ \A k \in 1..n : f[k] = step[<<k, f[k - 1]>>]

LEMMA Recursion ==
  ASSUME NEW n \in Nat, NEW X, NEW x0 \in X, NEW step \in [(1..n) \X X -> X]
  PROVE  Recurs(n, X, x0, step)
<1> DEFINE Built(m) == \E f \in [0..m -> X] : /\ f[0] = x0
                                              /\ \A k \in 1..m : f[k] = step[<<k, f[k - 1]>>]
           S == {m \in 0..n : Built(m)}
<1>1. 0 \in S
  <2>1. [k \in 0..0 |-> x0] \in [0..0 -> X] /\ [k \in 0..0 |-> x0][0] = x0
    OBVIOUS
  <2>2. \A k \in 1..0 : FALSE
    OBVIOUS
  <2>3. Built(0)
    BY <2>1, <2>2
  <2> HIDE DEF Built
  <2> QED
    BY <2>3
<1>2. ASSUME NEW m \in 0..(n - 1), m \in S PROVE m + 1 \in S
  <2>1. PICK f \in [0..m -> X] : f[0] = x0 /\ \A k \in 1..m : f[k] = step[<<k, f[k - 1]>>]
    BY <1>2
  <2> DEFINE next == step[<<m + 1, f[m]>>]
             g == [k \in 0..(m + 1) |-> IF k <= m THEN f[k] ELSE next]
  <2>2. next \in X
    <3>1. m + 1 \in 1..n /\ f[m] \in X
      OBVIOUS
    <3> QED
      BY <3>1
  <2> HIDE DEF next
  <2>3. g \in [0..(m + 1) -> X] /\ g[0] = x0
    BY <2>1, <2>2
  <2>4. \A k \in 0..m : g[k] = f[k]
    OBVIOUS
  <2>5. g[m + 1] = next
    OBVIOUS
  <2> HIDE DEF g
  <2>6. ASSUME NEW k \in 1..(m + 1) PROVE g[k] = step[<<k, g[k - 1]>>]
    <3>1. CASE k = m + 1
      <4>1. k - 1 = m /\ g[k - 1] = f[m]
        BY <2>4, <3>1
      <4> QED
        BY <2>5, <3>1, <4>1 DEF next
    <3>2. CASE k # m + 1
      <4>1. k \in 1..m /\ k \in 0..m /\ k - 1 \in 0..m
        BY <3>2
      <4>2. g[k] = f[k] /\ g[k - 1] = f[k - 1] /\ f[k] = step[<<k, f[k - 1]>>]
        BY <2>1, <2>4, <4>1
      <4> QED
        BY <4>2
    <3> QED
      BY <3>1, <3>2
  <2>7. Built(m + 1)
    BY <2>3, <2>6
  <2> HIDE DEF Built
  <2> QED
    BY <2>7
<1> HIDE DEF S
<1>3. 0..n \subseteq S
  BY <1>1, <1>2, UpTo
<1> QED
  BY <1>3 DEF S, Recurs

LEMMA OneUp ==
  ASSUME NEW n \in Nat
  PROVE  \A i : i \in 1..(n + 1) <=> i \in 1..n \/ i = n + 1
OBVIOUS

LEMMA Joined ==
  ASSUME NEW X, NEW s \in Seq(X), NEW t \in Seq(X)
  PROVE  /\ s \o t \in Seq(X) /\ Len(s \o t) = Len(s) + Len(t)
         /\ Len(s) \in Nat /\ Len(t) \in Nat
         /\ \A k \in 1..Len(s) : (s \o t)[k] = s[k]
         /\ \A k \in 1..Len(t) : (s \o t)[Len(s) + k] = t[k]
OBVIOUS

LEMMA Appended ==
  ASSUME NEW X, NEW s \in Seq(X), NEW x \in X
  PROVE  /\ Append(s, x) \in Seq(X) /\ Len(Append(s, x)) = Len(s) + 1 /\ Len(s) \in Nat
         /\ \A k \in 1..Len(s) : Append(s, x)[k] = s[k]
         /\ Append(s, x)[Len(s) + 1] = x
OBVIOUS

LEMMA Fronted ==
  ASSUME NEW X, NEW s \in Seq(X), s # <<>>
  PROVE  /\ Len(s) \in Nat \ {0} /\ Last(s) = s[Len(s)] /\ Last(s) \in X
         /\ Front(s) \in Seq(X) /\ Len(Front(s)) = Len(s) - 1
         /\ \A k \in 1..(Len(s) - 1) : Front(s)[k] = s[k]
<1>1. Len(s) \in Nat \ {0} /\ Last(s) = s[Len(s)] /\ Last(s) \in X
  BY DEF Last
<1> DEFINE n == Len(s) - 1
<1>2. n \in Nat /\ n <= Len(s) /\ Front(s) = SubSeq(s, 1, n)
  BY <1>1 DEF Front
<1> HIDE DEF n
<1>3. Front(s) \in Seq(X) /\ Len(Front(s)) = n
  BY <1>2
<1>4. \A k \in 1..n : Front(s)[k] = s[k]
  BY <1>2
<1> QED
  BY <1>1, <1>3, <1>4 DEF n

LEMMA Sequence ==
  ASSUME NEW X, NEW n \in Nat, NEW f \in [1..n -> X]
  PROVE  f \in Seq(X) /\ Len(f) = n
OBVIOUS

LEMMA Divided ==
  ASSUME NEW n \in Nat, NEW c \in Nat, c > 0
  PROVE  n \div c \in Nat /\ n % c \in Nat /\ (n \div c) * c + (n % c) = n
<1>1. n % c \in 0..(c - 1)
  OBVIOUS
<1>2. n = c * (n \div c) + (n % c)
  OBVIOUS
<1>3. n \div c \in Nat
  OBVIOUS
<1> DEFINE q == n \div c
<1>4. c * q = q * c
  <2> HIDE DEF q
  <2> QED
    BY <1>3 DEF q
<1> QED
  BY <1>1, <1>2, <1>3, <1>4

--------------------------------------------------------------------------------
(* Ranges of sectors: the recursive definitions, step by step.                  *)

Spans == [start : Nat, end : Nat]

LEMMA SpanType ==
  ASSUME NEW a \in Nat, NEW b \in Nat
  PROVE  Span(a, b) \in Spans /\ Span(a, b).start = a /\ Span(a, b).end = b
BY DEF Span, Spans

LEMMA MostLeast ==
  ASSUME NEW a \in Nat, NEW b \in Nat
  PROVE  /\ Most(a, b) \in Nat /\ Most(a, b) >= a /\ Most(a, b) >= b /\ Most(a, b) \in {a, b}
         /\ Least(a, b) \in Nat /\ Least(a, b) <= a /\ Least(a, b) <= b /\ Least(a, b) \in {a, b}
BY DEF Most, Least

LEMMA CoalescedType ==
  ASSUME NEW out \in Seq(Spans), NEW r \in Spans
  PROVE  Coalesced(out, r) \in Seq(Spans)
<1>1. CASE out # <<>> /\ r.start <= Last(out).end
  <2>1. Last(out) \in Spans /\ Front(out) \in Seq(Spans)
    BY <1>1, Fronted
  <2>2. Last(out).start \in Nat /\ Last(out).end \in Nat /\ r.end \in Nat
    BY <2>1 DEF Spans
  <2>3. Span(Last(out).start, Most(Last(out).end, r.end)) \in Spans
    BY <2>2, MostLeast, SpanType
  <2> QED
    BY <1>1, <2>1, <2>3, Appended DEF Coalesced
<1>2. CASE ~(out # <<>> /\ r.start <= Last(out).end)
  BY <1>2, Appended DEF Coalesced
<1> QED
  BY <1>1, <1>2

Lefts == [out : Seq(Spans), at : Nat]

LEMMA BetweenType ==
  ASSUME NEW left \in Lefts, NEW r \in Spans
  PROVE  Between(left, r) \in Lefts
<1>1. left.out \in Seq(Spans) /\ left.at \in Nat /\ r.start \in Nat /\ r.end \in Nat
  BY DEF Lefts, Spans
<1>2. Append(left.out, Span(left.at, r.start)) \in Seq(Spans)
  BY <1>1, SpanType, Appended
<1>3. Most(left.at, r.end) \in Nat
  BY <1>1, MostLeast
<1> QED
  BY <1>1, <1>2, <1>3 DEF Between, Lefts

\* Length adds up the ranges.
LEMMA LengthSum ==
  ASSUME NEW ranges \in Seq(Spans)
  PROVE  \E f \in [0..Len(ranges) -> Int] :
           /\ f[0] = 0
           /\ \A k \in 1..Len(ranges) : f[k] = f[k - 1] + (ranges[k].end - ranges[k].start)
           /\ Length(ranges) = f[Len(ranges)]
<1> DEFINE n == Len(ranges)
           X == Int
           x0 == 0
           Do(x, k) == x + (ranges[k].end - ranges[k].start)
           step == [q \in (1..n) \X X |-> Do(q[2], q[1])]
           Body(f, k) == IF k = 0 THEN x0 ELSE Do(f[k - 1], k)
           R == CHOOSE f : f = [k \in 0..n |-> Body(f, k)]
<1>1. n \in Nat /\ x0 \in X /\ \A k \in 1..n : ranges[k].end \in Int /\ ranges[k].start \in Int
  <2>1. \A k \in 1..Len(ranges) : ranges[k] \in Spans
    OBVIOUS
  <2> QED
    BY <2>1 DEF Spans
<1>2. \A k \in 1..n, x \in X : Do(x, k) \in X
  BY <1>1
<1>3. step \in [(1..n) \X X -> X] /\ \A k \in 1..n, x \in X : step[<<k, x>>] = Do(x, k)
  <2> HIDE DEF n, X, Do
  <2> QED
    BY <1>2
<1> HIDE DEF step
<1>4. PICK f \in [0..n -> X] : f[0] = x0 /\ \A k \in 1..n : f[k] = step[<<k, f[k - 1]>>]
  <2>1. n \in Nat /\ x0 \in X
    BY <1>1
  <2> HIDE DEF n, X, x0
  <2>2. Recurs(n, X, x0, step)
    BY <1>3, <2>1, Recursion
  <2> QED
    BY <2>2 DEF Recurs
<1>5. \A k \in 1..n : f[k] = Do(f[k - 1], k)
  <2> HIDE DEF X, x0, Do
  <2> TAKE k \in 1..n
  <2>1. k - 1 \in 0..n /\ f[k - 1] \in X
    BY <1>1
  <2> HIDE DEF n
  <2> QED
    BY <1>3, <1>4, <2>1
<1>6. f = [k \in 0..n |-> Body(f, k)]
  <2>1. \A k \in 0..n : k = 0 \/ k \in 1..n
    BY <1>1
  <2>2. \A k \in 0..n : f[k] = Body(f, k)
    <3> HIDE DEF n, X, Do
    <3> QED
      BY <1>4, <1>5, <2>1
  <2> HIDE DEF Body, n, X
  <2> QED
    BY <2>2
<1>7. R = [k \in 0..n |-> Body(R, k)]
  <2> HIDE DEF Body, n
  <2> QED
    BY <1>6
<1>8. Length(ranges) = R[n]
  BY DEF Length
<1> HIDE DEF R
<1>9. \A k \in 0..n : R[k] = Body(R, k)
  <2> HIDE DEF Body, n
  <2> QED
    BY <1>7
<1>10. R[0] = x0 /\ \A k \in 1..n : R[k] = Do(R[k - 1], k)
  <2>1. 0 \in 0..n /\ \A k \in 1..n : k \in 0..n /\ k # 0
    BY <1>1
  <2> HIDE DEF n, x0, Do
  <2> QED
    BY <1>9, <2>1
<1>11. \A k \in 0..n : R[k] \in X
  <2> DEFINE S == {k \in 0..n : R[k] \in X}
  <2>1. 0 \in S
    <3>1. 0 \in 0..n /\ x0 \in X
      BY <1>1
    <3> HIDE DEF n, X, x0
    <3> QED
      BY <1>10, <3>1
  <2>2. \A k \in 0..(n - 1) : k \in S => k + 1 \in S
    <3> TAKE k \in 0..(n - 1)
    <3> HAVE k \in S
    <3>1. k + 1 \in 1..n /\ k + 1 \in 0..n /\ k + 1 - 1 = k
      BY <1>1
    <3> HIDE DEF n, X, Do
    <3>2. R[k + 1] = Do(R[k], k + 1)
      BY <1>10, <3>1
    <3> QED
      BY <1>2, <3>1, <3>2
  <2> HIDE DEF S
  <2>3. 0..n \subseteq S
    BY <1>1, <2>1, <2>2, UpTo
  <2> QED
    BY <2>3 DEF S
<1>12. R \in [0..n -> X]
  <2> HIDE DEF Body, n, X
  <2>1. R = [k \in 0..n |-> R[k]]
    BY <1>7, <1>9
  <2> QED
    BY <1>11, <2>1
<1> HIDE DEF X, Do
<1>13. \E g \in [0..n -> X] :
         /\ g[0] = x0 /\ (\A k \in 1..n : g[k] = Do(g[k - 1], k)) /\ Length(ranges) = g[n]
  BY <1>8, <1>10, <1>12
<1> QED
  BY <1>13 DEF X, Do

\* Merged coalesces the ranges one by one.
LEMMA MergedSteps ==
  ASSUME NEW ranges \in Seq(Spans)
  PROVE  \E f \in [0..Len(ranges) -> Seq(Spans)] :
           /\ f[0] = <<>>
           /\ \A k \in 1..Len(ranges) : f[k] = Coalesced(f[k - 1], ranges[k])
           /\ Merged(ranges) = f[Len(ranges)]
<1> DEFINE n == Len(ranges)
           X == Seq(Spans)
           x0 == <<>>
           Do(x, k) == Coalesced(x, ranges[k])
           step == [q \in (1..n) \X X |-> Do(q[2], q[1])]
           Body(f, k) == IF k = 0 THEN x0 ELSE Do(f[k - 1], k)
           R == CHOOSE f : f = [k \in 0..n |-> Body(f, k)]
<1>1. n \in Nat /\ x0 \in X /\ \A k \in 1..n : ranges[k] \in Spans
  OBVIOUS
<1>2. \A k \in 1..n, x \in X : Do(x, k) \in X
  BY <1>1, CoalescedType
<1>3. step \in [(1..n) \X X -> X] /\ \A k \in 1..n, x \in X : step[<<k, x>>] = Do(x, k)
  <2> HIDE DEF n, X, Do
  <2> QED
    BY <1>2
<1> HIDE DEF step
<1>4. PICK f \in [0..n -> X] : f[0] = x0 /\ \A k \in 1..n : f[k] = step[<<k, f[k - 1]>>]
  <2>1. n \in Nat /\ x0 \in X
    BY <1>1
  <2> HIDE DEF n, X, x0
  <2>2. Recurs(n, X, x0, step)
    BY <1>3, <2>1, Recursion
  <2> QED
    BY <2>2 DEF Recurs
<1>5. \A k \in 1..n : f[k] = Do(f[k - 1], k)
  <2> HIDE DEF X, x0, Do
  <2> TAKE k \in 1..n
  <2>1. k - 1 \in 0..n /\ f[k - 1] \in X
    BY <1>1
  <2> HIDE DEF n
  <2> QED
    BY <1>3, <1>4, <2>1
<1>6. f = [k \in 0..n |-> Body(f, k)]
  <2>1. \A k \in 0..n : k = 0 \/ k \in 1..n
    BY <1>1
  <2>2. \A k \in 0..n : f[k] = Body(f, k)
    <3> HIDE DEF n, X, Do
    <3> QED
      BY <1>4, <1>5, <2>1
  <2> HIDE DEF Body, n, X
  <2> QED
    BY <2>2
<1>7. R = [k \in 0..n |-> Body(R, k)]
  <2> HIDE DEF Body, n
  <2> QED
    BY <1>6
<1>8. Merged(ranges) = R[n]
  BY DEF Merged
<1> HIDE DEF R
<1>9. \A k \in 0..n : R[k] = Body(R, k)
  <2> HIDE DEF Body, n
  <2> QED
    BY <1>7
<1>10. R[0] = x0 /\ \A k \in 1..n : R[k] = Do(R[k - 1], k)
  <2>1. 0 \in 0..n /\ \A k \in 1..n : k \in 0..n /\ k # 0
    BY <1>1
  <2> HIDE DEF n, x0, Do
  <2> QED
    BY <1>9, <2>1
<1>11. \A k \in 0..n : R[k] \in X
  <2> DEFINE S == {k \in 0..n : R[k] \in X}
  <2>1. 0 \in S
    <3>1. 0 \in 0..n /\ x0 \in X
      BY <1>1
    <3> HIDE DEF n, X, x0
    <3> QED
      BY <1>10, <3>1
  <2>2. \A k \in 0..(n - 1) : k \in S => k + 1 \in S
    <3> TAKE k \in 0..(n - 1)
    <3> HAVE k \in S
    <3>1. k + 1 \in 1..n /\ k + 1 \in 0..n /\ k + 1 - 1 = k
      BY <1>1
    <3> HIDE DEF n, X, Do
    <3>2. R[k + 1] = Do(R[k], k + 1)
      BY <1>10, <3>1
    <3> QED
      BY <1>2, <3>1, <3>2
  <2> HIDE DEF S
  <2>3. 0..n \subseteq S
    BY <1>1, <2>1, <2>2, UpTo
  <2> QED
    BY <2>3 DEF S
<1>12. R \in [0..n -> X]
  <2> HIDE DEF Body, n, X
  <2>1. R = [k \in 0..n |-> R[k]]
    BY <1>7, <1>9
  <2> QED
    BY <1>11, <2>1
<1> HIDE DEF X, Do
<1>13. \E g \in [0..n -> X] :
         /\ g[0] = x0 /\ (\A k \in 1..n : g[k] = Do(g[k - 1], k)) /\ Merged(ranges) = g[n]
  BY <1>8, <1>10, <1>12
<1> QED
  BY <1>13 DEF X, Do

\* Remaining goes through the skips one by one.
LEMMA RemainingSteps ==
  ASSUME NEW skips \in Seq(Spans)
  PROVE  \E f \in [0..Len(skips) -> Lefts] :
           /\ f[0] = [out |-> <<>>, at |-> 0]
           /\ \A k \in 1..Len(skips) : f[k] = Between(f[k - 1], skips[k])
           /\ Remaining(skips) = f[Len(skips)]
<1> DEFINE n == Len(skips)
           X == Lefts
           x0 == [out |-> <<>>, at |-> 0]
           Do(x, k) == Between(x, skips[k])
           step == [q \in (1..n) \X X |-> Do(q[2], q[1])]
           Body(f, k) == IF k = 0 THEN x0 ELSE Do(f[k - 1], k)
           R == CHOOSE f : f = [k \in 0..n |-> Body(f, k)]
<1>1. n \in Nat /\ x0 \in X /\ \A k \in 1..n : skips[k] \in Spans
  BY DEF Lefts
<1>2. \A k \in 1..n, x \in X : Do(x, k) \in X
  BY <1>1, BetweenType
<1>3. step \in [(1..n) \X X -> X] /\ \A k \in 1..n, x \in X : step[<<k, x>>] = Do(x, k)
  <2> HIDE DEF n, X, Do
  <2> QED
    BY <1>2
<1> HIDE DEF step
<1>4. PICK f \in [0..n -> X] : f[0] = x0 /\ \A k \in 1..n : f[k] = step[<<k, f[k - 1]>>]
  <2>1. n \in Nat /\ x0 \in X
    BY <1>1
  <2> HIDE DEF n, X, x0
  <2>2. Recurs(n, X, x0, step)
    BY <1>3, <2>1, Recursion
  <2> QED
    BY <2>2 DEF Recurs
<1>5. \A k \in 1..n : f[k] = Do(f[k - 1], k)
  <2> HIDE DEF X, x0, Do
  <2> TAKE k \in 1..n
  <2>1. k - 1 \in 0..n /\ f[k - 1] \in X
    BY <1>1
  <2> HIDE DEF n
  <2> QED
    BY <1>3, <1>4, <2>1
<1>6. f = [k \in 0..n |-> Body(f, k)]
  <2>1. \A k \in 0..n : k = 0 \/ k \in 1..n
    BY <1>1
  <2>2. \A k \in 0..n : f[k] = Body(f, k)
    <3> HIDE DEF n, X, Do
    <3> QED
      BY <1>4, <1>5, <2>1
  <2> HIDE DEF Body, n, X
  <2> QED
    BY <2>2
<1>7. R = [k \in 0..n |-> Body(R, k)]
  <2> HIDE DEF Body, n
  <2> QED
    BY <1>6
<1>8. Remaining(skips) = R[n]
  BY DEF Remaining
<1> HIDE DEF R
<1>9. \A k \in 0..n : R[k] = Body(R, k)
  <2> HIDE DEF Body, n
  <2> QED
    BY <1>7
<1>10. R[0] = x0 /\ \A k \in 1..n : R[k] = Do(R[k - 1], k)
  <2>1. 0 \in 0..n /\ \A k \in 1..n : k \in 0..n /\ k # 0
    BY <1>1
  <2> HIDE DEF n, x0, Do
  <2> QED
    BY <1>9, <2>1
<1>11. \A k \in 0..n : R[k] \in X
  <2> DEFINE S == {k \in 0..n : R[k] \in X}
  <2>1. 0 \in S
    <3>1. 0 \in 0..n /\ x0 \in X
      BY <1>1
    <3> HIDE DEF n, X, x0
    <3> QED
      BY <1>10, <3>1
  <2>2. \A k \in 0..(n - 1) : k \in S => k + 1 \in S
    <3> TAKE k \in 0..(n - 1)
    <3> HAVE k \in S
    <3>1. k + 1 \in 1..n /\ k + 1 \in 0..n /\ k + 1 - 1 = k
      BY <1>1
    <3> HIDE DEF n, X, Do
    <3>2. R[k + 1] = Do(R[k], k + 1)
      BY <1>10, <3>1
    <3> QED
      BY <1>2, <3>1, <3>2
  <2> HIDE DEF S
  <2>3. 0..n \subseteq S
    BY <1>1, <2>1, <2>2, UpTo
  <2> QED
    BY <2>3 DEF S
<1>12. R \in [0..n -> X]
  <2> HIDE DEF Body, n, X
  <2>1. R = [k \in 0..n |-> R[k]]
    BY <1>7, <1>9
  <2> QED
    BY <1>11, <2>1
<1> HIDE DEF X, Do
<1>13. \E g \in [0..n -> X] :
         /\ g[0] = x0 /\ (\A k \in 1..n : g[k] = Do(g[k - 1], k)) /\ Remaining(skips) = g[n]
  BY <1>8, <1>10, <1>12
<1> QED
  BY <1>13 DEF X, Do

--------------------------------------------------------------------------------
(* What a list of ranges covers.  The ranges of a plan, and of a merged skip    *)
(* list, are not empty and lie apart, in order.                                 *)

InRange(x, r) == r.start <= x /\ x < r.end
CoveredTo(L, n) == {x \in Nat : \E k \in 1..n : InRange(x, L[k])}
Covered(L) == CoveredTo(L, Len(L))
Apart(L) == /\ \A k \in 1..Len(L) : L[k].start < L[k].end
            /\ \A j, k \in 1..Len(L) : j < k => L[j].end <= L[k].start
EndBy(L, at) == \A k \in 1..Len(L) : L[k].end <= at
StartBy(L, at) == \A k \in 1..Len(L) : L[k].start <= at

LEMMA SectorsIs ==
  ASSUME NEW r \in Spans
  PROVE  Sectors(r) = {x \in Nat : InRange(x, r)} /\ r.start \in Nat /\ r.end \in Nat
BY DEF Sectors, InRange, Spans

LEMMA SpanParts ==
  ASSUME NEW L \in Seq(Spans), NEW k \in 1..Len(L)
  PROVE  L[k] \in Spans /\ L[k].start \in Nat /\ L[k].end \in Nat
<1>1. L[k] \in Spans
  OBVIOUS
<1> QED
  BY <1>1 DEF Spans

LEMMA AppendCovered ==
  ASSUME NEW L \in Seq(Spans), NEW r \in Spans
  PROVE  Covered(Append(L, r)) = Covered(L) \cup Sectors(r)
<1> DEFINE A == Append(L, r)
           n == Len(L)
<1>1. n \in Nat /\ Len(A) = n + 1 /\ (\A k \in 1..n : A[k] = L[k]) /\ A[n + 1] = r
  BY Appended
<1> HIDE DEF A
<1>2. Covered(A) = CoveredTo(A, n + 1)
  BY <1>1 DEF Covered
<1> HIDE DEF n
<1>3. CoveredTo(A, n + 1) = CoveredTo(L, n) \cup {x \in Nat : InRange(x, r)}
  <2>1. ASSUME NEW x \in Nat
        PROVE  (\E k \in 1..(n + 1) : InRange(x, A[k])) <=> (\E k \in 1..n : InRange(x, L[k])) \/ InRange(x, r)
    <3>1. ASSUME NEW k \in 1..(n + 1), InRange(x, A[k])
          PROVE  (\E j \in 1..n : InRange(x, L[j])) \/ InRange(x, r)
      <4>1. k = n + 1 \/ k \in 1..n
        BY <1>1
      <4> QED
        BY <1>1, <3>1, <4>1
    <3>2. ASSUME NEW k \in 1..n, InRange(x, L[k]) PROVE \E j \in 1..(n + 1) : InRange(x, A[j])
      <4>1. k \in 1..(n + 1) /\ A[k] = L[k]
        BY <1>1
      <4> QED
        BY <3>2, <4>1
    <3>3. ASSUME InRange(x, r) PROVE \E j \in 1..(n + 1) : InRange(x, A[j])
      <4>1. n + 1 \in 1..(n + 1)
        BY <1>1
      <4> QED
        BY <1>1, <3>3, <4>1
    <3> QED
      BY <3>1, <3>2, <3>3
  <2> QED
    BY <2>1 DEF CoveredTo
<1> QED
  BY <1>2, <1>3, SectorsIs DEF Covered, A, n

LEMMA AppendApart ==
  ASSUME NEW L \in Seq(Spans), NEW r \in Spans, Apart(L), r.start < r.end, EndBy(L, r.start)
  PROVE  Apart(Append(L, r)) /\ EndBy(Append(L, r), r.end)
<1> DEFINE A == Append(L, r)
           n == Len(L)
<1>1. n \in Nat /\ Len(A) = n + 1 /\ (\A k \in 1..n : A[k] = L[k]) /\ A[n + 1] = r
  BY Appended
<1>2. \A k \in 1..n : L[k].start < L[k].end /\ L[k].end <= r.start /\ L[k].end \in Nat
  BY SpanParts DEF Apart, EndBy
<1>3. \A j, k \in 1..n : j < k => L[j].end <= L[k].start
  BY DEF Apart
<1>4. r.start \in Nat /\ r.end \in Nat
  BY SectorsIs
<1> HIDE DEF A, n
<1>5. ASSUME NEW k \in 1..(n + 1) PROVE A[k].start < A[k].end /\ A[k].end <= r.end
  <2>1. CASE k = n + 1
    BY <1>1, <1>4, <2>1
  <2>2. CASE k \in 1..n
    BY <1>1, <1>2, <1>4, <2>2
  <2> QED
    BY <1>1, <2>1, <2>2
<1>6. ASSUME NEW j \in 1..(n + 1), NEW k \in 1..(n + 1), j < k PROVE A[j].end <= A[k].start
  <2>1. j \in 1..n /\ A[j] = L[j]
    BY <1>1, <1>6
  <2>2. CASE k = n + 1
    BY <1>1, <1>2, <2>1, <2>2
  <2>3. CASE k \in 1..n
    BY <1>1, <1>3, <1>6, <2>1, <2>3
  <2> QED
    BY <1>1, <2>2, <2>3
<1> QED
  BY <1>1, <1>5, <1>6 DEF Apart, EndBy, A

LEMMA FrontApart ==
  ASSUME NEW L \in Seq(Spans), L # <<>>, Apart(L)
  PROVE  /\ Apart(Front(L)) /\ EndBy(Front(L), Last(L).start)
         /\ Covered(L) = Covered(Front(L)) \cup Sectors(Last(L)) /\ Last(L).start < Last(L).end
<1> DEFINE F == Front(L)
           n == Len(L) - 1
<1>1. /\ n \in Nat /\ n + 1 = Len(L) /\ Last(L) = L[n + 1] /\ Last(L) \in Spans
      /\ F \in Seq(Spans) /\ Len(F) = n /\ \A k \in 1..n : F[k] = L[k]
  BY Fronted
<1>2. Append(F, Last(L)) = L
  <2> HIDE DEF F, n
  <2>1. Append(F, Last(L)) \in Seq(Spans) /\ Len(Append(F, Last(L))) = n + 1
    BY <1>1, Appended
  <2>2. ASSUME NEW k \in 1..(n + 1) PROVE Append(F, Last(L))[k] = L[k]
    <3>1. k = n + 1 \/ k \in 1..n
      BY <1>1
    <3> QED
      BY <1>1, <3>1, Appended
  <2> QED
    BY <1>1, <2>1, <2>2
<1>3. Covered(L) = Covered(F) \cup Sectors(Last(L))
  <2> HIDE DEF F
  <2>1. Covered(Append(F, Last(L))) = Covered(F) \cup Sectors(Last(L))
    BY <1>1, AppendCovered
  <2> QED
    BY <1>2, <2>1
<1> HIDE DEF F, n
<1>4. \A k \in 1..n : L[k].start < L[k].end /\ L[k].end <= L[n + 1].start
  BY <1>1 DEF Apart
<1>5. \A j, k \in 1..n : j < k => L[j].end <= L[k].start
  BY <1>1 DEF Apart
<1>6. L[n + 1].start < L[n + 1].end
  BY <1>1 DEF Apart
<1>7. Apart(F) /\ EndBy(F, Last(L).start)
  BY <1>1, <1>4, <1>5 DEF Apart, EndBy
<1> QED
  BY <1>1, <1>3, <1>6, <1>7 DEF F

\* A range that starts no earlier than the others joins the last one, or follows it.
LEMMA CoalescedApart ==
  ASSUME NEW out \in Seq(Spans), NEW r \in Spans, r.start < r.end, Apart(out), StartBy(out, r.start)
  PROVE  /\ Coalesced(out, r) \in Seq(Spans) /\ Apart(Coalesced(out, r))
         /\ StartBy(Coalesced(out, r), r.start)
         /\ Covered(Coalesced(out, r)) = Covered(out) \cup Sectors(r)
<1>0. Coalesced(out, r) \in Seq(Spans)
  BY CoalescedType
<1>1. r.start \in Nat /\ r.end \in Nat
  BY SectorsIs
<1>a. ASSUME NEW L \in Seq(Spans), NEW x \in Spans, StartBy(L, r.start), x.start <= r.start
      PROVE  StartBy(Append(L, x), r.start)
  <2> DEFINE A == Append(L, x)
             n == Len(L)
  <2>1. n \in Nat /\ Len(A) = n + 1 /\ (\A k \in 1..n : A[k] = L[k]) /\ A[n + 1] = x
    BY Appended
  <2>2. \A k \in 1..n : L[k].start <= r.start
    BY <1>a DEF StartBy
  <2> HIDE DEF A, n
  <2>3. ASSUME NEW k \in 1..(n + 1) PROVE A[k].start <= r.start
    <3>0. n \in Nat
      BY <2>1
    <3>1. k \in 1..n \/ k = n + 1
      BY <3>0, OneUp
    <3> QED
      BY <1>a, <2>1, <2>2, <3>1
  <2> QED
    BY <2>1, <2>3 DEF A, StartBy
<1>2. CASE out # <<>> /\ r.start <= Last(out).end
  <2> DEFINE F == Front(out)
             l == Last(out)
             e == Most(l.end, r.end)
             x == Span(l.start, e)
  <2>1. F \in Seq(Spans) /\ l \in Spans /\ l = out[Len(out)] /\ Len(out) \in 1..Len(out)
        /\ Len(F) = Len(out) - 1 /\ \A k \in 1..(Len(out) - 1) : F[k] = out[k]
    BY <1>2, Fronted
  <2>2. Apart(F) /\ EndBy(F, l.start) /\ Covered(out) = Covered(F) \cup Sectors(l) /\ l.start < l.end
    BY <1>2, FrontApart
  <2>3. l.start \in Nat /\ l.end \in Nat /\ l.start <= r.start
    BY <2>1, SectorsIs DEF StartBy
  <2>4. StartBy(F, r.start)
    BY <2>1 DEF StartBy
  <2>5. Coalesced(out, r) = Append(F, x)
    BY <1>2 DEF Coalesced
  <2> HIDE DEF F, l
  <2>6. e \in Nat /\ e >= l.end /\ e >= r.end /\ e \in {l.end, r.end}
    BY <1>1, <2>3, MostLeast
  <2> HIDE DEF e
  <2>7. x \in Spans /\ x.start = l.start /\ x.end = e
    BY <2>3, <2>6, SpanType
  <2> HIDE DEF x
  <2>8. Apart(Append(F, x))
    <3>1. x.start < x.end /\ EndBy(F, x.start)
      BY <2>2, <2>3, <2>6, <2>7
    <3> QED
      BY <2>1, <2>2, <2>7, <3>1, AppendApart
  <2>9. StartBy(Append(F, x), r.start)
    <3>1. x.start <= r.start
      BY <2>3, <2>7
    <3> QED
      BY <1>a, <2>1, <2>4, <2>7, <3>1
  <2>10. Sectors(x) = Sectors(l) \cup Sectors(r)
    <3>1. l.start..(e - 1) = (l.start..(l.end - 1)) \cup (r.start..(r.end - 1))
      BY <1>1, <1>2, <2>2, <2>3, <2>6 DEF l
    <3> QED
      BY <2>7, <3>1 DEF Sectors
  <2>11. Covered(Append(F, x)) = Covered(F) \cup Sectors(x)
    BY <2>1, <2>7, AppendCovered
  <2>12. Covered(Append(F, x)) = Covered(out) \cup Sectors(r)
    BY <2>2, <2>10, <2>11
  <2> QED
    BY <1>0, <2>5, <2>8, <2>9, <2>12
<1>3. CASE ~(out # <<>> /\ r.start <= Last(out).end)
  <2>1. Coalesced(out, r) = Append(out, r)
    BY <1>3 DEF Coalesced
  <2>2. EndBy(out, r.start)
    <3>1. CASE out = <<>>
      BY <3>1 DEF EndBy
    <3>2. CASE out # <<>>
      <4> DEFINE n == Len(out)
      <4>1. n \in 1..n /\ Last(out) = out[n] /\ n \in Nat
        <5>1. n \in Nat \ {0} /\ Last(out) = out[n]
          BY <3>2, Fronted
        <5> HIDE DEF n
        <5> QED
          BY <5>1
      <4>2. out[n].start \in Nat /\ out[n].end \in Nat /\ out[n].end < r.start
        BY <1>1, <1>3, <3>2, <4>1, SpanParts
      <4>3. out[n].start < out[n].end /\ \A k \in 1..n : k < n => out[k].end <= out[n].start
        BY <4>1 DEF Apart
      <4>4. \A k \in 1..n : out[k].end \in Nat
        BY SpanParts
      <4>5. \A k \in 1..n : out[k].end <= r.start
        <5> HIDE DEF n
        <5> TAKE k \in 1..n
        <5>1. k = n \/ k < n
          BY <4>1
        <5> QED
          BY <1>1, <4>2, <4>3, <4>4, <5>1
      <4> QED
        BY <4>5 DEF EndBy
    <3> QED
      BY <3>1, <3>2
  <2>3. Apart(Append(out, r))
    BY <2>2, AppendApart
  <2>4. StartBy(Append(out, r), r.start)
    BY <1>a, <1>1
  <2> QED
    BY <1>0, <2>1, <2>3, <2>4, AppendCovered
<1> QED
  BY <1>2, <1>3

LEMMA CoveredNext ==
  ASSUME NEW L \in Seq(Spans), NEW n \in 0..(Len(L) - 1)
  PROVE  CoveredTo(L, n + 1) = CoveredTo(L, n) \cup Sectors(L[n + 1])
<1>1. n \in Nat /\ n + 1 \in 1..Len(L)
  OBVIOUS
<1>2. Sectors(L[n + 1]) = {x \in Nat : InRange(x, L[n + 1])}
  <2>1. L[n + 1] \in Spans
    BY <1>1, SpanParts
  <2> QED
    BY <2>1, SectorsIs
<1>3. 1..(n + 1) = (1..n) \cup {n + 1}
  BY <1>1
<1> QED
  BY <1>2, <1>3 DEF CoveredTo

\* merge: the same sectors, in ranges that lie apart.
MergedWell(ranges) == /\ Merged(ranges) \in Seq(Spans) /\ Apart(Merged(ranges))
                      /\ Covered(Merged(ranges)) = Covered(ranges)

LEMMA MergedApart ==
  ASSUME NEW ranges \in Seq(Spans),
         \A k \in 1..Len(ranges) : ranges[k].start < ranges[k].end,
         \A k \in 2..Len(ranges) : ranges[k - 1].start <= ranges[k].start
  PROVE  MergedWell(ranges)
<1> DEFINE N == Len(ranges)
<1>1. PICK f \in [0..N -> Seq(Spans)] : /\ f[0] = <<>>
                                        /\ \A k \in 1..N : f[k] = Coalesced(f[k - 1], ranges[k])
                                        /\ Merged(ranges) = f[N]
  BY MergedSteps
<1> DEFINE Held(n) == /\ Apart(f[n]) /\ Covered(f[n]) = CoveredTo(ranges, n)
                      /\ n # 0 => StartBy(f[n], ranges[n].start)
           S == {n \in 0..N : Held(n)}
<1>2. N \in Nat
  OBVIOUS
<1>3. 0 \in S
  <2>1. Apart(<<>>)
    BY DEF Apart
  <2>2. Covered(<<>>) = CoveredTo(ranges, 0)
    BY DEF Covered, CoveredTo
  <2>3. Held(0)
    BY <1>1, <2>1, <2>2
  <2> HIDE DEF Held
  <2> QED
    BY <1>2, <2>3
<1>4. \A n \in 0..(N - 1) : n \in S => n + 1 \in S
  <2> TAKE n \in 0..(N - 1)
  <2> HAVE n \in S
  <2>0. Held(n)
    OBVIOUS
  <2> HIDE DEF S
  <2>a. Apart(f[n]) /\ Covered(f[n]) = CoveredTo(ranges, n)
    BY <2>0
  <2>c. n # 0 => StartBy(f[n], ranges[n].start)
    BY <2>0
  <2> HIDE DEF Held
  <2>1. n + 1 \in 1..N /\ n \in 0..N /\ n + 1 - 1 = n /\ n + 1 \in 0..N
    BY <1>2
  <2> DEFINE r == ranges[n + 1]
  <2>2. r \in Spans /\ r.start < r.end /\ f[n] \in Seq(Spans) /\ r.start \in Nat
    BY <2>1, SpanParts
  <2>3. StartBy(f[n], r.start)
    <3>1. CASE n = 0
      <4>1. StartBy(<<>>, r.start)
        BY DEF StartBy
      <4> QED
        BY <1>1, <3>1, <4>1
    <3>2. CASE n # 0
      <4>1. n \in 1..N /\ n + 1 \in 2..N
        BY <2>1, <3>2
      <4>2. ranges[n].start <= r.start /\ ranges[n].start \in Nat
        <5>1. ranges[n].start \in Nat
          BY <4>1, SpanParts
        <5>2. PICK q : q = n + 1
          OBVIOUS
        <5>3. q \in 2..Len(ranges) /\ q - 1 = n
          BY <4>1, <5>2
        <5>4. ranges[q - 1].start <= ranges[q].start
          BY <5>3
        <5> QED
          BY <5>1, <5>2, <5>3, <5>4
      <4>3. StartBy(f[n], ranges[n].start)
        BY <2>c, <3>2
      <4>4. \A k \in 1..Len(f[n]) : f[n][k].start \in Nat
        BY <2>2, SpanParts
      <4> HIDE DEF r
      <4> QED
        BY <2>2, <4>2, <4>3, <4>4 DEF StartBy
    <3> QED
      BY <3>1, <3>2
  <2>4. f[n + 1] = Coalesced(f[n], r)
    BY <1>1, <2>1
  <2> DEFINE c == f[n + 1]
             o == f[n]
  <2>b. CoveredTo(ranges, n + 1) = CoveredTo(ranges, n) \cup Sectors(r)
    <3>1. n \in 0..(Len(ranges) - 1)
      OBVIOUS
    <3> QED
      BY <3>1, CoveredNext
  <2> HIDE DEF r, N
  <2>5. Apart(c) /\ StartBy(c, r.start) /\ Covered(c) = Covered(o) \cup Sectors(r)
    <3>1. c = Coalesced(o, r) /\ Apart(o) /\ StartBy(o, r.start) /\ o \in Seq(Spans)
      BY <2>2, <2>3, <2>4, <2>a
    <3> HIDE DEF c, o
    <3> QED
      BY <2>2, <3>1, CoalescedApart
  <2>6. Covered(c) = CoveredTo(ranges, n + 1)
    BY <2>5, <2>a, <2>b
  <2>7. Held(n + 1)
    BY <2>5, <2>6 DEF r, Held
  <2> QED
    BY <2>1, <2>7 DEF S
<1> HIDE DEF S
<1>5. N \in S
  <2>1. 0..N \subseteq S
    BY <1>2, <1>3, <1>4, UpTo
  <2> QED
    BY <1>2, <2>1
<1>6. Held(N) /\ f[N] \in Seq(Spans)
  BY <1>2, <1>5 DEF S
<1> QED
  BY <1>1, <1>6 DEF MergedWell, Covered

--------------------------------------------------------------------------------
(* Skip lists and plans.                                                        *)

\* sort_by_key reorders: the same ranges, by their start.
LEMMA SortedRanges ==
  ASSUME NEW ranges \in Seq(Spans), NEW s \in Sortings(ranges),
         \A k \in 1..Len(ranges) : ranges[k].start < ranges[k].end
  PROVE  /\ s \in Seq(Spans) /\ Covered(s) = Covered(ranges)
         /\ \A k \in 1..Len(s) : s[k].start < s[k].end
         /\ \A k \in 2..Len(s) : s[k - 1].start <= s[k].start
<1> DEFINE N == Len(ranges)
<1>1. PICK p \in Bijection(1..N, 1..N) : s = [k \in 1..N |-> ranges[p[k]]]
  BY DEF Sortings
<1>2. \A k \in 2..N : s[k - 1].start <= s[k].start
  BY DEF Sortings
<1>3. p \in [1..N -> 1..N] /\ \A k \in 1..N : \E j \in 1..N : p[j] = k
  BY <1>1 DEF Bijection, Injection, Surjection
<1>4. N \in Nat /\ \A k \in 1..N : ranges[k] \in Spans
  OBVIOUS
<1>5. s \in [1..N -> Spans] /\ \A k \in 1..N : s[k] = ranges[p[k]] /\ p[k] \in 1..N
  <2> HIDE DEF N
  <2> QED
    BY <1>1, <1>3, <1>4
<1>6. s \in Seq(Spans) /\ Len(s) = N
  <2> HIDE DEF N
  <2> QED
    BY <1>4, <1>5, Sequence
<1>7. \A k \in 1..N : s[k].start < s[k].end
  BY <1>5
<1>8. CoveredTo(s, N) = CoveredTo(ranges, N)
  <2> HIDE DEF N
  <2>1. ASSUME NEW x \in Nat
        PROVE  (\E k \in 1..N : InRange(x, s[k])) <=> (\E k \in 1..N : InRange(x, ranges[k]))
    <3>1. ASSUME NEW k \in 1..N, InRange(x, s[k]) PROVE \E j \in 1..N : InRange(x, ranges[j])
      BY <1>5, <3>1
    <3>2. ASSUME NEW k \in 1..N, InRange(x, ranges[k]) PROVE \E j \in 1..N : InRange(x, s[j])
      <4>1. PICK j \in 1..N : p[j] = k
        BY <1>3
      <4> QED
        BY <1>5, <3>2, <4>1
    <3> QED
      BY <3>1, <3>2
  <2> QED
    BY <2>1 DEF CoveredTo
<1> QED
  BY <1>2, <1>6, <1>7, <1>8 DEF Covered

\* What an item of the skip list stands for, within the disk.
LEMMA ItemType ==
  ASSUME NEW i \in Items, NEW total \in Nat
  PROVE  /\ i.a \in Nat /\ Item(i, total) \in Spans /\ Item(i, total).start = i.a
         /\ Item(i, total).end \in Nat
<1>1. CASE i \in [form : {"one", "on"}, a : Nat]
  <2>1. i.a \in Nat /\ i.form \in {"one", "on"}
    BY <1>1
  <2>2. CASE i.form = "one"
    <3>1. Item(i, total) = Span(i.a, i.a + 1) /\ i.a + 1 \in Nat
      BY <2>1, <2>2 DEF Item
    <3> QED
      BY <2>1, <3>1, SpanType
  <2>3. CASE i.form = "on"
    <3>1. Item(i, total) = Span(i.a, total)
      BY <2>1, <2>3 DEF Item
    <3> QED
      BY <2>1, <3>1, SpanType
  <2> QED
    BY <2>1, <2>2, <2>3
<1>2. CASE i \in [form : {"to", "plus"}, a : Nat, b : Nat]
  <2>1. i.a \in Nat /\ i.b \in Nat /\ i.form \in {"to", "plus"}
    BY <1>2
  <2>2. CASE i.form = "to"
    <3>1. Item(i, total) = Span(i.a, i.b + 1) /\ i.b + 1 \in Nat
      BY <2>1, <2>2 DEF Item
    <3> QED
      BY <2>1, <3>1, SpanType
  <2>3. CASE i.form = "plus"
    <3>1. Item(i, total) = Span(i.a, i.a + i.b) /\ i.a + i.b \in Nat
      BY <2>1, <2>3 DEF Item
    <3> QED
      BY <2>1, <3>1, SpanType
  <2> QED
    BY <2>1, <2>2, <2>3
<1> QED
  BY <1>1, <1>2 DEF Items

\* The sectors below total that the items name.
Named(items, total) ==
  {s \in 0..(total - 1) : \E k \in 1..Len(items) : s \in Sectors(Item(items[k], total))}

\* parse_skips: ranges that lie apart and cover what the items name.
SkipsWell(skips, items, total) == /\ skips \in Seq(Spans) /\ Apart(skips)
                                  /\ Covered(skips) = Named(items, total)

LEMMA SkipListsCover ==
  ASSUME NEW items \in Seq(Items), NEW total \in Nat, NEW skips \in SkipLists(items, total)
  PROVE  SkipsWell(skips, items, total)
<1> DEFINE N == Len(items)
           cut(k) == Span(items[k].a, Least(Item(items[k], total).end, total))
           ranges == [k \in 1..N |-> cut(k)]
<1>1. \A k \in 1..N : ItemIsFine(items[k], total)
  <2>1. SkipLists(items, total) # {}
    OBVIOUS
  <2> QED
    BY <2>1 DEF SkipLists
<1>2. PICK s \in Sortings(ranges) : skips = Merged(s)
  <2>1. SkipLists(items, total) = {Merged(s) : s \in Sortings(ranges)}
    BY <1>1 DEF SkipLists
  <2> HIDE DEF ranges
  <2> QED
    BY <2>1
<1>3. N \in Nat /\ \A k \in 1..N : items[k] \in Items
  OBVIOUS
<1>4. ASSUME NEW k \in 1..N
      PROVE  /\ cut(k) \in Spans /\ cut(k).start < cut(k).end
             /\ \A x \in Nat : InRange(x, cut(k)) <=> x < total /\ x \in Sectors(Item(items[k], total))
  <2> DEFINE i == items[k]
             r == Item(i, total)
             e == Least(r.end, total)
  <2>1. i \in Items /\ ItemIsFine(i, total)
    BY <1>1, <1>3
  <2> HIDE DEF i
  <2>2. i.a \in Nat /\ r \in Spans /\ r.start = i.a /\ r.end \in Nat
    BY <2>1, ItemType
  <2>3. r.end > i.a /\ i.a < total
    BY <2>1 DEF ItemIsFine
  <2>4. Sectors(r) = {x \in Nat : InRange(x, r)}
    BY <2>2, SectorsIs
  <2> HIDE DEF r
  <2>5. e \in Nat /\ e <= r.end /\ e <= total /\ e \in {r.end, total}
    BY <2>2, MostLeast
  <2>6. cut(k) = Span(i.a, e)
    BY DEF i, r
  <2> HIDE DEF e, cut
  <2>7. cut(k) \in Spans /\ cut(k).start = i.a /\ cut(k).end = e
    BY <2>2, <2>5, <2>6, SpanType
  <2>8. \A x \in Nat : InRange(x, cut(k)) <=> x < total /\ x \in Sectors(r)
    BY <2>2, <2>3, <2>4, <2>5, <2>7 DEF InRange
  <2>9. cut(k).start < cut(k).end
    BY <2>3, <2>2, <2>5, <2>7
  <2> QED
    BY <2>7, <2>8, <2>9 DEF r, i
<1> HIDE DEF cut
<1>5. ranges \in Seq(Spans) /\ Len(ranges) = N /\ \A k \in 1..N : ranges[k] = cut(k)
  <2>1. ranges \in [1..N -> Spans]
    BY <1>4
  <2>2. \A k \in 1..N : ranges[k] = cut(k)
    OBVIOUS
  <2> HIDE DEF ranges, N
  <2> QED
    BY <1>3, <2>1, <2>2, Sequence
<1> HIDE DEF ranges
<1>6. \A k \in 1..Len(ranges) : ranges[k].start < ranges[k].end
  BY <1>4, <1>5
<1>7. /\ s \in Seq(Spans) /\ Covered(s) = Covered(ranges)
      /\ \A k \in 1..Len(s) : s[k].start < s[k].end
      /\ \A k \in 2..Len(s) : s[k - 1].start <= s[k].start
  BY <1>2, <1>5, <1>6, SortedRanges
<1>8. MergedWell(s)
  BY <1>7, MergedApart
<1>9. Covered(ranges) = Named(items, total)
  <2> DEFINE In(k) == Sectors(Item(items[k], total))
  <2>1. \A x \in Nat : (\E k \in 1..N : InRange(x, ranges[k])) <=> x < total /\ \E k \in 1..N : x \in In(k)
    <3> HIDE DEF N
    <3>1. \A k \in 1..N : \A x \in Nat : InRange(x, ranges[k]) <=> x < total /\ x \in In(k)
      BY <1>4, <1>5
    <3> HIDE DEF In
    <3> QED
      BY <3>1
  <2>2. Covered(ranges) = {x \in Nat : \E k \in 1..N : InRange(x, ranges[k])}
    BY <1>5 DEF Covered, CoveredTo
  <2>3. Named(items, total) = {x \in 0..(total - 1) : \E k \in 1..N : x \in In(k)}
    BY DEF Named
  <2> HIDE DEF In, N
  <2>4. \A x : x \in 0..(total - 1) <=> x \in Nat /\ x < total
    OBVIOUS
  <2> QED
    BY <2>1, <2>2, <2>3, <2>4
<1> QED
  BY <1>2, <1>7, <1>8, <1>9 DEF MergedWell, SkipsWell

\* What is left of the first n sectors when C is skipped.
Split(L, C, n) == /\ L \in Seq(Spans) /\ Apart(L) /\ EndBy(L, n)
                  /\ Covered(L) \cup C = 0..(n - 1) /\ Covered(L) \cap C = {}

BetweenWell(b, r, C) == b \in Lefts /\ b.at = r.end /\ Split(b.out, C \cup Sectors(r), r.end)

LEMMA BetweenSplits ==
  ASSUME NEW left \in Lefts, NEW r \in Spans, r.start < r.end, left.at <= r.start,
         NEW C, Split(left.out, C, left.at)
  PROVE  BetweenWell(Between(left, r), r, C)
<1> DEFINE b == Between(left, r)
           L == left.out
           at == left.at
<1>1. L \in Seq(Spans) /\ at \in Nat /\ r.start \in Nat /\ r.end \in Nat
  BY SectorsIs DEF Lefts
<1>2. b \in Lefts
  BY BetweenType
<1>3. b.at = r.end
  BY <1>1 DEF Between, Most
<1>4. Apart(L) /\ EndBy(L, at) /\ Covered(L) \cup C = 0..(at - 1) /\ Covered(L) \cap C = {}
  BY DEF Split
<1>5. \A k \in 1..Len(L) : L[k].end \in Nat
  BY <1>1, SpanParts
<1>6. CASE r.start > at
  <2> DEFINE x == Span(at, r.start)
  <2>1. x \in Spans /\ x.start = at /\ x.end = r.start
    BY <1>1, SpanType
  <2>2. b.out = Append(L, x)
    BY <1>6 DEF Between
  <2> HIDE DEF x, b, L, at
  <2>3. Covered(b.out) = Covered(L) \cup Sectors(x)
    BY <1>1, <2>1, <2>2, AppendCovered
  <2>4. Apart(b.out) /\ EndBy(b.out, r.start)
    <3>1. x.start < x.end /\ EndBy(L, x.start)
      BY <1>4, <1>6, <2>1
    <3>2. Apart(Append(L, x)) /\ EndBy(Append(L, x), x.end)
      BY <1>1, <1>4, <2>1, <3>1, AppendApart
    <3> QED
      BY <2>1, <2>2, <3>2
  <2>5. b.out \in Seq(Spans)
    BY <1>1, <2>1, <2>2, Appended
  <2>6. EndBy(b.out, r.end)
    <3>1. \A k \in 1..Len(b.out) : b.out[k].end \in Nat
      BY <2>5, SpanParts
    <3> QED
      BY <1>1, <2>4, <3>1 DEF EndBy
  <2>7. Sectors(x) = at..(r.start - 1) /\ Sectors(r) = r.start..(r.end - 1)
    BY <2>1 DEF Sectors
  <2>8. Covered(b.out) \cup (C \cup Sectors(r)) = 0..(r.end - 1)
    <3>1. 0..(r.end - 1) = (0..(at - 1)) \cup (at..(r.start - 1)) \cup (r.start..(r.end - 1))
      BY <1>1, <1>6
    <3> QED
      BY <1>4, <2>3, <2>7, <3>1
  <2>9. Covered(b.out) \cap (C \cup Sectors(r)) = {}
    <3>1. /\ (0..(at - 1)) \cap (at..(r.start - 1)) = {} /\ (0..(at - 1)) \cap (r.start..(r.end - 1)) = {}
          /\ (at..(r.start - 1)) \cap (r.start..(r.end - 1)) = {}
      BY <1>1, <1>6
    <3> QED
      BY <1>4, <2>3, <2>7, <3>1
  <2> QED
    BY <1>2, <1>3, <2>4, <2>5, <2>6, <2>8, <2>9 DEF BetweenWell, Split, b
<1>7. CASE r.start = at
  <2>1. b.out = L
    BY <1>1, <1>7 DEF Between
  <2> HIDE DEF b, L, at
  <2>2. Sectors(r) = r.start..(r.end - 1)
    BY DEF Sectors
  <2>3. 0..(r.end - 1) = (0..(at - 1)) \cup Sectors(r) /\ (0..(at - 1)) \cap Sectors(r) = {}
    BY <1>1, <1>7, <2>2
  <2>4. Covered(L) \cup (C \cup Sectors(r)) = 0..(r.end - 1) /\ Covered(L) \cap (C \cup Sectors(r)) = {}
    BY <1>4, <2>3
  <2>5. EndBy(L, r.end)
    BY <1>1, <1>4, <1>5, <1>7 DEF EndBy
  <2> QED
    BY <1>1, <1>2, <1>3, <1>4, <2>1, <2>4, <2>5 DEF BetweenWell, Split, b
<1> QED
  BY <1>1, <1>6, <1>7

\* plan: ranges that lie apart, and cover exactly what the skips do not.
PlanWell(left, C, total) == left \in Seq(Spans) /\ Apart(left) /\ Covered(left) = (0..(total - 1)) \ C

LEMMA PlanCovers ==
  ASSUME NEW skips \in Seq(Spans), NEW total \in Nat, Apart(skips),
         Covered(skips) \subseteq 0..(total - 1)
  PROVE  PlanWell(Plan(total, skips), Covered(skips), total)
<1> DEFINE N == Len(skips)
           Nought == [out |-> <<>>, at |-> 0]
<1>1. PICK f \in [0..N -> Lefts] : /\ f[0] = Nought
                                   /\ \A k \in 1..N : f[k] = Between(f[k - 1], skips[k])
                                   /\ Remaining(skips) = f[N]
  BY RemainingSteps
<1> DEFINE Held(n) == /\ Split(f[n].out, CoveredTo(skips, n), f[n].at)
                      /\ f[n].at = IF n = 0 THEN 0 ELSE skips[n].end
           S == {n \in 0..N : Held(n)}
<1>2. N \in Nat
  OBVIOUS
<1>3. 0 \in S
  <2>1. Split(<<>>, CoveredTo(skips, 0), 0)
    <3>1. CoveredTo(skips, 0) = {} /\ Covered(<<>>) = {} /\ 0..(0 - 1) = {} /\ <<>> \in Seq(Spans)
      BY DEF CoveredTo, Covered
    <3>2. Apart(<<>>) /\ EndBy(<<>>, 0)
      BY DEF Apart, EndBy
    <3> QED
      BY <3>1, <3>2 DEF Split
  <2>2. f[0].out = <<>> /\ f[0].at = 0
    BY <1>1
  <2>3. Held(0)
    BY <2>1, <2>2
  <2> HIDE DEF Held
  <2> QED
    BY <1>2, <2>3
<1>4. \A n \in 0..(N - 1) : n \in S => n + 1 \in S
  <2> TAKE n \in 0..(N - 1)
  <2> HAVE n \in S
  <2>0. Held(n)
    OBVIOUS
  <2> HIDE DEF S
  <2>5. Split(f[n].out, CoveredTo(skips, n), f[n].at)
    BY <2>0
  <2>c. f[n].at = IF n = 0 THEN 0 ELSE skips[n].end
    BY <2>0
  <2> HIDE DEF Held
  <2>1. n + 1 \in 1..N /\ n \in 0..N /\ n + 1 - 1 = n /\ n + 1 \in 0..N
    BY <1>2
  <2> DEFINE r == skips[n + 1]
             o == f[n]
             c == f[n + 1]
  <2>2. r \in Spans /\ r.start \in Nat /\ r.start < r.end
    BY <2>1, SpanParts DEF Apart
  <2>3. o \in Lefts /\ c = Between(o, r)
    BY <1>1, <2>1
  <2>4. o.at <= r.start
    <3>1. CASE n = 0
      BY <2>2, <2>c, <3>1
    <3>2. CASE n # 0
      <4>1. n \in 1..N /\ n < n + 1
        BY <2>1, <3>2
      <4>2. skips[n].end <= r.start
        BY <2>1, <4>1 DEF Apart
      <4> QED
        BY <2>c, <3>2, <4>2
    <3> QED
      BY <3>1, <3>2
  <2>6. CoveredTo(skips, n + 1) = CoveredTo(skips, n) \cup Sectors(r)
    <3>1. n \in 0..(Len(skips) - 1)
      OBVIOUS
    <3> HIDE DEF N
    <3> QED
      BY <3>1, CoveredNext
  <2>a. BetweenWell(c, r, CoveredTo(skips, n))
    <3> DEFINE C == CoveredTo(skips, n)
    <3> HIDE DEF r, o, c, C, N
    <3>1. Split(o.out, C, o.at)
      BY <2>5 DEF C, o
    <3>2. BetweenWell(Between(o, r), r, C)
      BY <2>2, <2>3, <2>4, <3>1, BetweenSplits
    <3> QED
      BY <2>3, <3>2 DEF C
  <2> HIDE DEF r, o, c
  <2>7. c.at = r.end /\ Split(c.out, CoveredTo(skips, n) \cup Sectors(r), r.end)
    BY <2>a DEF BetweenWell
  <2>8. Held(n + 1)
    BY <2>1, <2>6, <2>7 DEF r, c, Held
  <2> QED
    BY <2>1, <2>8 DEF S
<1> HIDE DEF S
<1>5. N \in S
  <2>1. 0..N \subseteq S
    BY <1>2, <1>3, <1>4, UpTo
  <2> QED
    BY <1>2, <2>1
<1>6. Held(N)
  BY <1>5 DEF S
<1> DEFINE end == Remaining(skips)
<1>7. end = f[N] /\ end \in Lefts /\ end.out \in Seq(Spans) /\ end.at \in Nat
  BY <1>1, <1>2 DEF Lefts
<1>8. Split(end.out, Covered(skips), end.at) /\ end.at = IF N = 0 THEN 0 ELSE skips[N].end
  BY <1>6, <1>7 DEF Covered
<1>9. end.at <= total
  <2>1. CASE N = 0
    BY <1>8, <2>1
  <2>2. CASE N # 0
    <3>1. N \in 1..N
      BY <1>2, <2>2
    <3>2. skips[N].start \in Nat /\ skips[N].end \in Nat /\ skips[N].start < skips[N].end
      BY <3>1, SpanParts DEF Apart
    <3>3. InRange(skips[N].end - 1, skips[N]) /\ skips[N].end - 1 \in Nat
      BY <3>2 DEF InRange
    <3>4. skips[N].end - 1 \in Covered(skips)
      BY <3>1, <3>3 DEF Covered, CoveredTo
    <3>5. skips[N].end - 1 <= total - 1
      BY <3>4
    <3> QED
      BY <1>8, <2>2, <3>2, <3>5
  <2> QED
    BY <2>1, <2>2
<1> HIDE DEF N, end
<1>10. CASE end.at < total
  <2> DEFINE x == Span(end.at, total)
             L == end.out
  <2>1. x \in Spans /\ x.start = end.at /\ x.end = total
    BY <1>7, SpanType
  <2>2. Plan(total, skips) = Append(L, x)
    BY <1>10 DEF Plan, end
  <2>3. Apart(L) /\ EndBy(L, end.at) /\ Covered(L) \cup Covered(skips) = 0..(end.at - 1) /\ L \in Seq(Spans)
        /\ Covered(L) \cap Covered(skips) = {}
    BY <1>8 DEF Split
  <2> HIDE DEF x, L
  <2>4. Covered(Append(L, x)) = Covered(L) \cup Sectors(x)
    BY <2>1, <2>3, AppendCovered
  <2>5. Apart(Append(L, x))
    <3>1. x.start < x.end /\ EndBy(L, x.start)
      BY <1>10, <2>1, <2>3
    <3> QED
      BY <2>1, <2>3, <3>1, AppendApart
  <2>6. Append(L, x) \in Seq(Spans)
    BY <2>1, <2>3, Appended
  <2>7. Sectors(x) = end.at..(total - 1)
    BY <2>1 DEF Sectors
  <2>8. 0..(total - 1) = (0..(end.at - 1)) \cup (end.at..(total - 1)) /\ (0..(end.at - 1)) \cap (end.at..(total - 1)) = {}
    BY <1>7, <1>10
  <2>9. Covered(Append(L, x)) = (0..(total - 1)) \ Covered(skips)
    BY <2>3, <2>4, <2>7, <2>8
  <2> QED
    BY <2>2, <2>5, <2>6, <2>9 DEF PlanWell
<1>11. CASE end.at = total
  <2>1. Plan(total, skips) = end.out
    BY <1>11 DEF Plan, end
  <2>2. Covered(end.out) = (0..(total - 1)) \ Covered(skips)
    BY <1>8, <1>11 DEF Split
  <2> QED
    BY <1>8, <2>1, <2>2 DEF PlanWell, Split
<1> QED
  BY <1>7, <1>9, <1>10, <1>11

--------------------------------------------------------------------------------
(* The bytes a chunk is compared with.                                          *)

LEMMA Product ==
  ASSUME NEW a \in Nat, NEW b \in Nat
  PROVE  a * b \in Nat
OBVIOUS

LEMMA ProductGrows ==
  ASSUME NEW a \in Nat, NEW b \in Nat, NEW c \in Nat, a <= b
  PROVE  a * c \in Nat /\ b * c \in Nat /\ a * c <= b * c
<1> DEFINE d == b - a
<1>1. d \in Nat /\ b = a + d
  OBVIOUS
<1> HIDE DEF d
<1>2. d * c \in Nat /\ a * c \in Nat
  BY <1>1, Product
<1>3. b * c = a * c + d * c
  BY <1>1
<1> QED
  BY <1>2, <1>3

\* A remainder is the only one.
LEMMA OneRemainder ==
  ASSUME NEW L \in Nat \ {0}, NEW p \in Nat, NEW q \in Nat, NEW u \in 0..(L - 1), NEW v \in 0..(L - 1),
         p * L + u = q * L + v
  PROVE  u = v
<1>1. CASE p = q
  <2>1. p * L \in Nat /\ q * L = p * L
    BY <1>1, Product
  <2> DEFINE m == p * L
  <2> HIDE DEF m
  <2> QED
    BY <2>1 DEF m
<1>2. ASSUME NEW a \in Nat, NEW b \in Nat, NEW x \in 0..(L - 1), NEW y \in 0..(L - 1),
             a < b, a * L + x = b * L + y
      PROVE  FALSE
  <2>1. (a + 1) * L <= b * L /\ b * L \in Nat
    BY <1>2, ProductGrows
  <2>2. (a + 1) * L = a * L + L /\ a * L \in Nat
    BY Product
  <2> DEFINE m == a * L
             n == b * L
             k == (a + 1) * L
  <2>3. k <= n /\ n \in Nat /\ k = m + L /\ m \in Nat /\ m + x = n + y
    BY <1>2, <2>1, <2>2
  <2> HIDE DEF m, n, k
  <2> QED
    BY <2>3
<1>3. CASE p < q
  BY <1>2, <1>3
<1>4. CASE q < p
  BY <1>2, <1>4
<1> QED
  BY <1>1, <1>3, <1>4

LEMMA Remainder ==
  ASSUME NEW n \in Nat, NEW c \in Nat \ {0}
  PROVE  n % c \in 0..(c - 1) /\ n \div c \in Nat /\ (n \div c) * c + (n % c) = n
<1>1. c \in Nat /\ c > 0
  OBVIOUS
<1>2. n % c \in 0..(c - 1)
  OBVIOUS
<1> QED
  BY <1>1, <1>2, Divided

\* The phase of an offset and the bytes after it.
LEMMA PhaseAdds ==
  ASSUME NEW L \in Nat \ {0}, NEW a \in Nat, NEW j \in Nat
  PROVE  ((a % L) + j) % L = (a + j) % L
<1> DEFINE r == a % L
           p == a \div L
           s == (r + j) % L
           q == (r + j) \div L
           t == (a + j) % L
           m == (a + j) \div L
<1>1. p \in Nat /\ r \in 0..(L - 1) /\ p * L + r = a
  BY Remainder
<1> HIDE DEF r, p
<1>2. q \in Nat /\ s \in 0..(L - 1) /\ q * L + s = r + j
  <2>1. r + j \in Nat
    BY <1>1
  <2> QED
    BY <2>1, Remainder
<1>3. m \in Nat /\ t \in 0..(L - 1) /\ m * L + t = a + j
  <2>1. a + j \in Nat
    OBVIOUS
  <2> QED
    BY <2>1, Remainder
<1> HIDE DEF s, q, t, m
<1>4. (p + q) * L = p * L + q * L /\ p * L \in Nat /\ q * L \in Nat
  BY <1>1, <1>2, Product
<1>5. (p + q) * L + s = m * L + t
  <2> DEFINE A == p * L
             B == q * L
             C == (p + q) * L
             D == m * L
  <2>1. A + r = a /\ B + s = r + j /\ D + t = a + j /\ C = A + B /\ A \in Nat /\ B \in Nat /\ D \in Nat
    BY <1>1, <1>2, <1>3, <1>4, Product
  <2> HIDE DEF A, B, C, D
  <2>2. C + s = D + t
    BY <1>1, <1>2, <1>3, <2>1
  <2> QED
    BY <2>2 DEF C, D
<1>6. p + q \in Nat
  BY <1>1, <1>2
<1>7. s = t
  <2> DEFINE w == p + q
  <2> HIDE DEF w
  <2>1. w \in Nat /\ w * L + s = m * L + t
    BY <1>5, <1>6 DEF w
  <2> QED
    BY <1>2, <1>3, <2>1, OneRemainder
<1> QED
  BY <1>7 DEF s, t, r

\* The bytes from an offset of the disk are those of the pattern anchored at byte 0.
Same(m, p, from, len) ==
  \A k \in 1..len : m.data[from + k] = p[((from + k - 1) % Len(p)) + 1]

LEMMA PatternType ==
  ASSUME NEW text \in HexTexts, NEW p \in Patterns(text)
  PROVE  p \in Seq(Nat)
<1> DEFINE d == text.digits
           n == Len(d) \div 2
           b(k) == 16 * d[2 * k - 1] + d[2 * k]
<1>1. d \in Seq(0..15)
  BY DEF HexTexts
<1>2. Len(d) \in Nat /\ \A k \in 1..Len(d) : d[k] \in 0..15
  BY <1>1
<1>3. n \in Nat /\ 2 * n <= Len(d)
  <2> DEFINE l == Len(d)
  <2>1. l \in Nat
    BY <1>2
  <2> HIDE DEF l
  <2>2. l \div 2 \in Nat /\ 2 * (l \div 2) <= l
    BY <2>1
  <2> QED
    BY <2>2 DEF l
<1>4. p = [k \in 1..n |-> b(k)]
  BY DEF Patterns
<1> HIDE DEF n
<1>5. \A k \in 1..n : b(k) \in Nat
  <2> TAKE k \in 1..n
  <2>1. 2 * k - 1 \in 1..Len(d) /\ 2 * k \in 1..Len(d)
    BY <1>2, <1>3
  <2>2. d[2 * k - 1] \in 0..15 /\ d[2 * k] \in 0..15
    BY <1>2, <2>1
  <2> DEFINE x == d[2 * k - 1]
             y == d[2 * k]
  <2> HIDE DEF x, y, d
  <2>3. 16 * x + y \in Nat
    BY <2>2 DEF x, y
  <2> QED
    BY <2>3 DEF x, y
<1> HIDE DEF b
<1>6. p \in [1..n -> Nat]
  BY <1>4, <1>5
<1> QED
  BY <1>3, <1>6, Sequence

LEMMA WindowByte ==
  ASSUME NEW p \in Seq(Nat), p # <<>>, NEW from \in Nat, NEW len \in Nat,
         len <= ChunkSectors * SectorSize, NEW k \in 1..len
  PROVE  Window(p, from, len)[k] = p[((from + k - 1) % Len(p)) + 1]
<1> DEFINE L == Len(p)
           C == ChunkSectors * SectorSize
           a == from % L
           i == a + k - 1
<1>1. L \in Nat \ {0}
  OBVIOUS
<1>2. ChunkSectors \in Nat \ {0} /\ SectorSize \in Nat \ {0}
  BY ScanAssumption
<1>3. C \in Nat
  BY <1>2, Product
<1>4. a \in 0..(L - 1)
  BY <1>1, Remainder
<1>5. len <= C
  OBVIOUS
<1> HIDE DEF L, C, a
<1>6. i \in 0..(C + L - 1) /\ i = a + (k - 1) /\ k - 1 \in Nat
  BY <1>1, <1>3, <1>4, <1>5
<1>7. Window(p, from, len)[k] = Reference(p)[i]
  BY DEF Window, a, L
<1>8. Reference(p) = [j \in 0..(C + L - 1) |-> p[(j % L) + 1]]
  BY DEF Reference, C, L
<1>9. Reference(p)[i] = p[(i % L) + 1]
  <2> HIDE DEF i
  <2> QED
    BY <1>6, <1>8
<1>10. i % L = (from + (k - 1)) % L
  <2> DEFINE j == k - 1
  <2>1. j \in Nat /\ i = a + j
    BY <1>6
  <2> HIDE DEF j, i
  <2>2. (a + j) % L = (from + j) % L
    BY <1>1, <2>1, PhaseAdds DEF a
  <2>3. i % L = (from + j) % L
    BY <2>1, <2>2
  <2> QED
    BY <2>3 DEF j
<1>11. from + (k - 1) = from + k - 1
  OBVIOUS
<1> HIDE DEF i
<1>12. i % L = (from + k - 1) % L
  BY <1>10, <1>11
<1>13. Window(p, from, len)[k] = p[(i % L) + 1]
  BY <1>7, <1>9
<1> QED
  BY <1>12, <1>13 DEF L

\* Matches compares the bytes read with the pattern, byte by byte.
LEMMA MatchesBytes ==
  ASSUME NEW m \in Mediums, NEW p \in Seq(Nat), p # <<>>, NEW s \in Nat, NEW n \in Nat,
         n <= ChunkSectors, (s + n) * SectorSize <= Len(m.data)
  PROVE  Matches(m, p, s, n) <=> Same(m, p, s * SectorSize, n * SectorSize)
<1> DEFINE from == s * SectorSize
           len == n * SectorSize
           to == (s + n) * SectorSize
           d == m.data
<1>1. SectorSize \in Nat /\ ChunkSectors \in Nat
  BY ScanAssumption
<1>2. from \in Nat /\ len \in Nat /\ to = from + len
  BY <1>1, Product
<1>3. len <= ChunkSectors * SectorSize
  BY <1>1, ProductGrows
<1>4. d \in Seq(Nat) /\ to <= Len(d)
  BY DEF Mediums
<1>5. Holds(m, s, n) = SubSeq(d, from + 1, to)
  BY DEF Holds
<1>6. Matches(m, p, s, n) <=> SubSeq(d, from + 1, to) = Window(p, from, len)
  BY <1>5 DEF Matches
<1> HIDE DEF from, len, to, d
<1>7. SubSeq(d, from + 1, to) = [k \in 1..len |-> d[from + k]]
  BY <1>2, <1>4
<1>8. Window(p, from, len) = [k \in 1..len |-> Window(p, from, len)[k]]
  BY DEF Window
<1>9. \A k \in 1..len : Window(p, from, len)[k] = p[((from + k - 1) % Len(p)) + 1]
  BY <1>2, <1>3, WindowByte
<1>10. Same(m, p, from, len) <=> \A k \in 1..len : d[from + k] = Window(p, from, len)[k]
  BY <1>9 DEF Same, d
<1> DEFINE W == Window(p, from, len)
<1> HIDE DEF W
<1>11. [k \in 1..len |-> d[from + k]] = [k \in 1..len |-> W[k]] <=> \A k \in 1..len : d[from + k] = W[k]
  <2> DEFINE A == [k \in 1..len |-> d[from + k]]
             B == [k \in 1..len |-> W[k]]
  <2>1. \A k \in 1..len : A[k] = d[from + k] /\ B[k] = W[k]
    OBVIOUS
  <2>2. A = B => \A k \in 1..len : A[k] = B[k]
    OBVIOUS
  <2>3. (\A k \in 1..len : d[from + k] = W[k]) => A = B
    OBVIOUS
  <2> HIDE DEF A, B
  <2> QED
    BY <2>1, <2>2, <2>3 DEF A, B
<1>12. Matches(m, p, s, n) <=> [k \in 1..len |-> d[from + k]] = [k \in 1..len |-> W[k]]
  BY <1>6, <1>7, <1>8 DEF W
<1> QED
  BY <1>10, <1>11, <1>12 DEF W, from, len

\* A chunk that matches matches sector by sector.
LEMMA SamePart ==
  ASSUME NEW m, NEW p, NEW s \in Nat, NEW n \in Nat, NEW i \in 0..(n - 1),
         Same(m, p, s * SectorSize, n * SectorSize)
  PROVE  Same(m, p, (s + i) * SectorSize, 1 * SectorSize)
<1> DEFINE Z == SectorSize
           a == s * Z
           c == i * Z
           l == n * Z
           e == (i + 1) * Z
           b == (s + i) * Z
<1>1. Z \in Nat
  BY ScanAssumption
<1>2. a \in Nat /\ c \in Nat /\ l \in Nat /\ e <= l /\ e = c + Z /\ b = a + c
  <2>1. i \in Nat /\ i + 1 \in Nat /\ i + 1 <= n
    OBVIOUS
  <2>2. a \in Nat /\ c \in Nat /\ l \in Nat
    BY <1>1, <2>1, Product
  <2>3. e <= l
    BY <1>1, <2>1, ProductGrows
  <2>4. e = c + Z /\ b = a + c
    BY <1>1, <2>1
  <2> QED
    BY <2>2, <2>3, <2>4
<1>3. \A k \in 1..l : m.data[a + k] = p[((a + k - 1) % Len(p)) + 1]
  BY DEF Same
<1>4. 1 * Z = Z
  BY <1>1
<1> HIDE DEF a, c, l, e, b, Z
<1>5. ASSUME NEW k \in 1..Z PROVE m.data[b + k] = p[((b + k - 1) % Len(p)) + 1]
  <2> DEFINE j == c + k
  <2>1. j \in 1..l /\ a + j = b + k /\ a + j - 1 = b + k - 1
    BY <1>1, <1>2
  <2> HIDE DEF j
  <2>2. m.data[a + j] = p[((a + j - 1) % Len(p)) + 1]
    BY <1>3, <2>1
  <2> QED
    BY <2>1, <2>2
<1> QED
  BY <1>4, <1>5 DEF Same, b, Z

\* Truth, as one comparison of a sector.
LEMMA TruthIs ==
  ASSUME NEW m \in Mediums, NEW p \in Seq(Nat), p # <<>>, NEW s \in Nat, NEW failed,
         s < Size(m)
  PROVE  Truth(m, p, s, failed) = StatusOf(m, p, s, failed)
<1> DEFINE Z == SectorSize
           a == s * Z
<1>1. Z \in Nat \ {0} /\ ChunkSectors \in Nat \ {0}
  BY ScanAssumption
<1>2. a \in Nat
  BY <1>1, Product
<1>3. (s + 1) * Z <= Len(m.data)
  <2> DEFINE n == Len(m.data)
             q == n \div Z
  <2>1. n \in Nat
    BY DEF Mediums
  <2> HIDE DEF n
  <2>2. q \in Nat /\ q * Z + (n % Z) = n /\ n % Z \in Nat
    BY <1>1, <2>1, Divided
  <2>3. s + 1 <= q
    BY <2>2 DEF Size, n
  <2> HIDE DEF q
  <2>4. (s + 1) * Z <= q * Z /\ (s + 1) * Z \in Nat /\ q * Z \in Nat
    BY <1>1, <2>2, <2>3, ProductGrows
  <2> DEFINE x == (s + 1) * Z
             y == q * Z
             r == n % Z
  <2>5. x <= y /\ x \in Nat /\ y \in Nat /\ y + r = n /\ r \in Nat
    BY <2>2, <2>4
  <2> HIDE DEF x, y, r
  <2>6. x <= n
    BY <2>1, <2>5
  <2> QED
    BY <2>6 DEF x, n
<1>4. Matches(m, p, s, 1) <=> Same(m, p, a, 1 * Z)
  BY <1>1, <1>3, MatchesBytes
<1>5. 1 * Z = Z
  BY <1>1
<1> DEFINE Bytes == \A b \in 0..(Z - 1) : m.data[a + b + 1] = p[((a + b) % Len(p)) + 1]
<1>6. Same(m, p, a, Z) <=> Bytes
  <2> HIDE DEF a, Z
  <2>1. ASSUME Same(m, p, a, Z), NEW b \in 0..(Z - 1)
        PROVE  m.data[a + b + 1] = p[((a + b) % Len(p)) + 1]
    <3> DEFINE k == b + 1
    <3>1. k \in 1..Z /\ a + k = a + b + 1 /\ a + k - 1 = a + b
      BY <1>1, <1>2
    <3> HIDE DEF k
    <3>2. m.data[a + k] = p[((a + k - 1) % Len(p)) + 1]
      BY <2>1, <3>1 DEF Same
    <3> QED
      BY <3>1, <3>2
  <2>2. ASSUME Bytes, NEW k \in 1..Z PROVE m.data[a + k] = p[((a + k - 1) % Len(p)) + 1]
    <3> DEFINE b == k - 1
    <3>1. b \in 0..(Z - 1) /\ a + k = a + b + 1 /\ a + k - 1 = a + b
      BY <1>1, <1>2
    <3> HIDE DEF b
    <3>2. m.data[a + b + 1] = p[((a + b) % Len(p)) + 1]
      BY <2>2, <3>1
    <3> QED
      BY <3>1, <3>2
  <2> QED
    BY <2>1, <2>2 DEF Same
<1>7. Matches(m, p, s, 1) <=> Bytes
  BY <1>4, <1>5, <1>6
<1>8. Truth(m, p, s, failed) = CASE s \in failed -> "unreadable" [] s \notin failed /\ Bytes -> "ok" [] OTHER -> "mismatch"
  BY DEF Truth
<1> HIDE DEF Bytes
<1>9. CASE s \in failed
  BY <1>8, <1>9 DEF StatusOf
<1>10. CASE s \notin failed /\ Bytes
  BY <1>7, <1>8, <1>10 DEF StatusOf
<1>11. CASE s \notin failed /\ ~Bytes
  BY <1>7, <1>8, <1>11 DEF StatusOf
<1> QED
  BY <1>9, <1>10, <1>11

--------------------------------------------------------------------------------
(* What a scan counts.                                                          *)

Statuses == {"ok", "mismatch", "unreadable"}
Totals == [ok : Nat, mismatch : Nat, unreadable : Nat]
Runs == [range : Spans, status : Statuses]
Reports == [pos : Nat, done : Seq(Runs), issues : Seq(Nat), totals : Totals,
            end : {"none", "completed", "cancelled"}]
Drafts == [pos : Nat, done : Seq(Runs), issues : Seq(Nat), totals : Totals, end : {"none"}]
Tallies == [report : Drafts, totals : Totals, kept : Nat]
Mets == [sector : Nat, status : Statuses]

LEMMA StatusType ==
  ASSUME NEW m, NEW p, NEW s, NEW failed
  PROVE  StatusOf(m, p, s, failed) \in Statuses
BY DEF StatusOf, Statuses

LEMMA CountedTotals ==
  ASSUME NEW t \in Totals, NEW status \in Statuses
  PROVE  /\ Counted(t, status) \in Totals /\ Bad(t) \in Nat
         /\ Checked(t) \in Nat /\ Checked(Counted(t, status)) = Checked(t) + 1
         /\ Bad(Counted(t, status)) = IF status = "ok" THEN Bad(t) ELSE Bad(t) + 1
<1>1. t.ok \in Nat /\ t.mismatch \in Nat /\ t.unreadable \in Nat
  BY DEF Totals
<1>2. CASE status = "ok"
  <2>1. Counted(t, status) = [t EXCEPT !.ok = @ + 1]
    BY <1>2 DEF Counted
  <2> QED
    BY <1>1, <1>2, <2>1 DEF Totals, Bad, Checked
<1>3. CASE status = "mismatch"
  <2>1. Counted(t, status) = [t EXCEPT !.mismatch = @ + 1]
    BY <1>3 DEF Counted
  <2> QED
    BY <1>1, <1>3, <2>1 DEF Totals, Bad, Checked
<1>4. CASE status = "unreadable"
  <2>1. Counted(t, status) = [t EXCEPT !.unreadable = @ + 1]
    BY <1>4 DEF Counted
  <2> QED
    BY <1>1, <1>4, <2>1 DEF Totals, Bad, Checked
<1> QED
  BY <1>2, <1>3, <1>4 DEF Statuses

LEMMA PushDoneType ==
  ASSUME NEW done \in Seq(Runs), NEW r \in Spans, NEW status \in Statuses
  PROVE  PushDone(done, r, status) \in Seq(Runs)
<1>1. [range |-> r, status |-> status] \in Runs
  BY DEF Runs
<1>2. CASE done # <<>> /\ Last(done).status = status /\ Last(done).range.end = r.start
  <2>1. Last(done) \in Runs /\ Front(done) \in Seq(Runs)
    BY <1>2, Fronted
  <2>2. Last(done).range \in Spans
    BY <2>1 DEF Runs
  <2>3. Last(done).range.start \in Nat /\ r.end \in Nat
    BY <2>2, SectorsIs
  <2>4. Span(Last(done).range.start, r.end) \in Spans
    BY <2>3, SpanType
  <2>5. [range |-> Span(Last(done).range.start, r.end), status |-> status] \in Runs
    BY <2>4 DEF Runs
  <2> QED
    BY <1>2, <2>1, <2>5, Appended DEF PushDone
<1>3. CASE ~(done # <<>> /\ Last(done).status = status /\ Last(done).range.end = r.start)
  BY <1>1, <1>3, Appended DEF PushDone
<1> QED
  BY <1>2, <1>3

LEMMA TallyParts ==
  ASSUME NEW t \in Tallies
  PROVE  /\ t.report \in Drafts /\ t.totals \in Totals /\ t.kept \in Nat
         /\ t.report.done \in Seq(Runs) /\ t.report.issues \in Seq(Nat)
<1>1. t.report \in Drafts /\ t.totals \in Totals /\ t.kept \in Nat
  BY DEF Tallies
<1> QED
  BY <1>1 DEF Drafts

LEMMA ReportWith ==
  ASSUME NEW r \in Drafts, NEW done \in Seq(Runs), NEW issues \in Seq(Nat)
  PROVE  [r EXCEPT !.done = done, !.issues = issues] \in Drafts
BY DEF Drafts

LEMMA RecordedType ==
  ASSUME NEW t \in Tallies, NEW s \in Nat, NEW status \in Statuses
  PROVE  /\ Recorded(t, s, status) \in Tallies
         /\ Recorded(t, s, status).totals = Counted(t.totals, status)
<1> DEFINE lists == status # "ok" /\ t.kept < MAX_ISSUES
           done == PushDone(t.report.done, Span(s, s + 1), status)
           issues == IF lists THEN Append(t.report.issues, s) ELSE t.report.issues
           kept == IF lists THEN t.kept + 1 ELSE t.kept
           report == [t.report EXCEPT !.done = done, !.issues = issues]
           totals == Counted(t.totals, status)
<1>1. /\ t.report \in Drafts /\ t.totals \in Totals /\ t.kept \in Nat
      /\ t.report.done \in Seq(Runs) /\ t.report.issues \in Seq(Nat)
  BY TallyParts
<1>2. done \in Seq(Runs)
  <2>1. Span(s, s + 1) \in Spans
    BY SpanType
  <2> QED
    BY <1>1, <2>1, PushDoneType
<1>3. issues \in Seq(Nat) /\ kept \in Nat
  BY <1>1, Appended
<1>4. totals \in Totals
  BY <1>1, CountedTotals
<1>5. Recorded(t, s, status) = [report |-> report, totals |-> totals, kept |-> kept]
  BY DEF Recorded
<1> HIDE DEF done, issues, totals, kept
<1>6. report \in Drafts
  BY <1>1, <1>2, <1>3, ReportWith
<1> HIDE DEF report
<1> QED
  BY <1>3, <1>4, <1>5, <1>6 DEF Tallies, totals

LEMMA RecordedWholeType ==
  ASSUME NEW t \in Tallies, NEW s \in Nat, NEW c \in Nat
  PROVE  /\ RecordedWhole(t, s, c) \in Tallies
         /\ RecordedWhole(t, s, c).totals = [t.totals EXCEPT !.ok = @ + c]
<1> DEFINE done == PushDone(t.report.done, Span(s, s + c), "ok")
           report == [t.report EXCEPT !.done = done]
           totals == [t.totals EXCEPT !.ok = @ + c]
<1>1. /\ t.report \in Drafts /\ t.totals \in Totals /\ t.kept \in Nat
      /\ t.report.done \in Seq(Runs) /\ t.report.issues \in Seq(Nat)
  BY TallyParts
<1>2. done \in Seq(Runs)
  <2>1. Span(s, s + c) \in Spans /\ "ok" \in Statuses
    BY SpanType DEF Statuses
  <2> QED
    BY <1>1, <2>1, PushDoneType
<1>3. totals \in Totals
  BY <1>1 DEF Totals
<1>4. RecordedWhole(t, s, c) = [t EXCEPT !.report = report, !.totals = totals]
  BY DEF RecordedWhole, Tallies
<1> HIDE DEF done, totals
<1>5. report \in Drafts
  BY <1>1, <1>2 DEF Drafts
<1> HIDE DEF report
<1> QED
  BY <1>3, <1>4, <1>5 DEF Tallies, totals

SectorSteps(t, m, p, s, c, failed) ==
  \E f \in [0..c -> Tallies] :
  /\ f[0] = t
  /\ \A k \in 1..c : f[k] = Recorded(f[k - 1], s + k - 1, StatusOf(m, p, s + k - 1, failed))
  /\ BySector(t, m, p, s, c, failed) = f[c]

\* BySector records the sectors of a chunk one by one.
LEMMA BySectorSteps ==
  ASSUME NEW t \in Tallies, NEW m, NEW p, NEW s \in Nat, NEW c \in Nat, NEW failed
  PROVE  SectorSteps(t, m, p, s, c, failed)
<1> DEFINE n == c
           X == Tallies
           x0 == t
           Do(x, k) == Recorded(x, s + k - 1, StatusOf(m, p, s + k - 1, failed))
           step == [q \in (1..n) \X X |-> Do(q[2], q[1])]
           Body(f, k) == IF k = 0 THEN x0 ELSE Do(f[k - 1], k)
           R == CHOOSE f : f = [k \in 0..n |-> Body(f, k)]
<1>1. n \in Nat /\ x0 \in X /\ \A k \in 1..n : s + k - 1 \in Nat
  OBVIOUS
<1>2. \A k \in 1..n, x \in X : Do(x, k) \in X
  BY <1>1, StatusType, RecordedType
<1>3. step \in [(1..n) \X X -> X] /\ \A k \in 1..n, x \in X : step[<<k, x>>] = Do(x, k)
  <2> HIDE DEF n, X, Do
  <2> QED
    BY <1>2
<1> HIDE DEF step
<1>4. PICK f \in [0..n -> X] : f[0] = x0 /\ \A k \in 1..n : f[k] = step[<<k, f[k - 1]>>]
  <2>1. n \in Nat /\ x0 \in X
    BY <1>1
  <2> HIDE DEF n, X, x0
  <2>2. Recurs(n, X, x0, step)
    BY <1>3, <2>1, Recursion
  <2> QED
    BY <2>2 DEF Recurs
<1>5. \A k \in 1..n : f[k] = Do(f[k - 1], k)
  <2> HIDE DEF X, x0, Do
  <2> TAKE k \in 1..n
  <2>1. k - 1 \in 0..n /\ f[k - 1] \in X
    BY <1>1
  <2> HIDE DEF n
  <2> QED
    BY <1>3, <1>4, <2>1
<1>6. f = [k \in 0..n |-> Body(f, k)]
  <2>1. \A k \in 0..n : k = 0 \/ k \in 1..n
    BY <1>1
  <2>2. \A k \in 0..n : f[k] = Body(f, k)
    <3> HIDE DEF n, X, Do
    <3> QED
      BY <1>4, <1>5, <2>1
  <2> HIDE DEF Body, n, X
  <2> QED
    BY <2>2
<1>7. R = [k \in 0..n |-> Body(R, k)]
  <2> HIDE DEF Body, n
  <2> QED
    BY <1>6
<1>8. BySector(t, m, p, s, c, failed) = R[n]
  BY DEF BySector
<1> HIDE DEF R
<1>9. \A k \in 0..n : R[k] = Body(R, k)
  <2> HIDE DEF Body, n
  <2> QED
    BY <1>7
<1>10. R[0] = x0 /\ \A k \in 1..n : R[k] = Do(R[k - 1], k)
  <2>1. 0 \in 0..n /\ \A k \in 1..n : k \in 0..n /\ k # 0
    BY <1>1
  <2> HIDE DEF n, x0, Do
  <2> QED
    BY <1>9, <2>1
<1>11. \A k \in 0..n : R[k] \in X
  <2> DEFINE S == {k \in 0..n : R[k] \in X}
  <2>1. 0 \in S
    <3>1. 0 \in 0..n /\ x0 \in X
      BY <1>1
    <3> HIDE DEF n, X, x0
    <3> QED
      BY <1>10, <3>1
  <2>2. \A k \in 0..(n - 1) : k \in S => k + 1 \in S
    <3> TAKE k \in 0..(n - 1)
    <3> HAVE k \in S
    <3>1. k + 1 \in 1..n /\ k + 1 \in 0..n /\ k + 1 - 1 = k
      BY <1>1
    <3> HIDE DEF n, X, Do
    <3>2. R[k + 1] = Do(R[k], k + 1)
      BY <1>10, <3>1
    <3> QED
      BY <1>2, <3>1, <3>2
  <2> HIDE DEF S
  <2>3. 0..n \subseteq S
    BY <1>1, <2>1, <2>2, UpTo
  <2> QED
    BY <2>3 DEF S
<1>12. R \in [0..n -> X]
  <2> HIDE DEF Body, n, X
  <2>1. R = [k \in 0..n |-> R[k]]
    BY <1>7, <1>9
  <2> QED
    BY <1>11, <2>1
<1> HIDE DEF X, Do
<1>13. \E g \in [0..n -> X] :
         /\ g[0] = x0 /\ (\A k \in 1..n : g[k] = Do(g[k - 1], k)) /\ BySector(t, m, p, s, c, failed) = g[n]
  BY <1>8, <1>10, <1>12
<1> QED
  BY <1>13 DEF X, Do, SectorSteps

\* The bad ones among the first n of a sequence.
BadIn(M, n) ==
  LET bad[k \in 0..n] == IF k = 0 THEN <<>>
                         ELSE IF M[k].status = "ok" THEN bad[k - 1]
                         ELSE Append(bad[k - 1], M[k])
  IN  bad[n]

LEMMA BadAmongIs == \A n : BadAmong(n) = BadIn(trial.met, n)
BY DEF BadAmong, BadIn

\* BadIn goes through what was met, one by one.
LEMMA BadSteps ==
  ASSUME NEW M \in Seq(Mets), NEW c \in 0..Len(M)
  PROVE  \E f \in [0..c -> Seq(Mets)] :
           /\ f[0] = <<>>
           /\ \A k \in 1..c : f[k] = (IF M[k].status = "ok" THEN f[k - 1] ELSE Append(f[k - 1], M[k]))
           /\ BadIn(M, c) = f[c]
<1> DEFINE n == c
           X == Seq(Mets)
           x0 == <<>>
           Do(x, k) == (IF M[k].status = "ok" THEN x ELSE Append(x, M[k]))
           step == [q \in (1..n) \X X |-> Do(q[2], q[1])]
           Body(f, k) == IF k = 0 THEN x0 ELSE Do(f[k - 1], k)
           R == CHOOSE f : f = [k \in 0..n |-> Body(f, k)]
<1>1. n \in Nat /\ x0 \in X /\ \A k \in 1..n : M[k] \in Mets
  OBVIOUS
<1>2. \A k \in 1..n, x \in X : Do(x, k) \in X
  BY <1>1, Appended
<1>3. step \in [(1..n) \X X -> X] /\ \A k \in 1..n, x \in X : step[<<k, x>>] = Do(x, k)
  <2> HIDE DEF n, X, Do
  <2> QED
    BY <1>2
<1> HIDE DEF step
<1>4. PICK f \in [0..n -> X] : f[0] = x0 /\ \A k \in 1..n : f[k] = step[<<k, f[k - 1]>>]
  <2>1. n \in Nat /\ x0 \in X
    BY <1>1
  <2> HIDE DEF n, X, x0
  <2>2. Recurs(n, X, x0, step)
    BY <1>3, <2>1, Recursion
  <2> QED
    BY <2>2 DEF Recurs
<1>5. \A k \in 1..n : f[k] = Do(f[k - 1], k)
  <2> HIDE DEF X, x0, Do
  <2> TAKE k \in 1..n
  <2>1. k - 1 \in 0..n /\ f[k - 1] \in X
    BY <1>1
  <2> HIDE DEF n
  <2> QED
    BY <1>3, <1>4, <2>1
<1>6. f = [k \in 0..n |-> Body(f, k)]
  <2>1. \A k \in 0..n : k = 0 \/ k \in 1..n
    BY <1>1
  <2>2. \A k \in 0..n : f[k] = Body(f, k)
    <3> HIDE DEF n, X, Do
    <3> QED
      BY <1>4, <1>5, <2>1
  <2> HIDE DEF Body, n, X
  <2> QED
    BY <2>2
<1>7. R = [k \in 0..n |-> Body(R, k)]
  <2> HIDE DEF Body, n
  <2> QED
    BY <1>6
<1>8. BadIn(M, c) = R[n]
  BY DEF BadIn
<1> HIDE DEF R
<1>9. \A k \in 0..n : R[k] = Body(R, k)
  <2> HIDE DEF Body, n
  <2> QED
    BY <1>7
<1>10. R[0] = x0 /\ \A k \in 1..n : R[k] = Do(R[k - 1], k)
  <2>1. 0 \in 0..n /\ \A k \in 1..n : k \in 0..n /\ k # 0
    BY <1>1
  <2> HIDE DEF n, x0, Do
  <2> QED
    BY <1>9, <2>1
<1>11. \A k \in 0..n : R[k] \in X
  <2> DEFINE S == {k \in 0..n : R[k] \in X}
  <2>1. 0 \in S
    <3>1. 0 \in 0..n /\ x0 \in X
      BY <1>1
    <3> HIDE DEF n, X, x0
    <3> QED
      BY <1>10, <3>1
  <2>2. \A k \in 0..(n - 1) : k \in S => k + 1 \in S
    <3> TAKE k \in 0..(n - 1)
    <3> HAVE k \in S
    <3>1. k + 1 \in 1..n /\ k + 1 \in 0..n /\ k + 1 - 1 = k
      BY <1>1
    <3> HIDE DEF n, X, Do
    <3>2. R[k + 1] = Do(R[k], k + 1)
      BY <1>10, <3>1
    <3> QED
      BY <1>2, <3>1, <3>2
  <2> HIDE DEF S
  <2>3. 0..n \subseteq S
    BY <1>1, <2>1, <2>2, UpTo
  <2> QED
    BY <2>3 DEF S
<1>12. R \in [0..n -> X]
  <2> HIDE DEF Body, n, X
  <2>1. R = [k \in 0..n |-> R[k]]
    BY <1>7, <1>9
  <2> QED
    BY <1>11, <2>1
<1> HIDE DEF X, Do
<1>13. \E g \in [0..n -> X] :
         /\ g[0] = x0 /\ (\A k \in 1..n : g[k] = Do(g[k - 1], k)) /\ BadIn(M, c) = g[n]
  BY <1>8, <1>10, <1>12
<1> QED
  BY <1>13 DEF X, Do

\* The chunk adds a bad sector to the count exactly if one of it is bad.
SectorTotals(t, m, p, s, c, failed) ==
  /\ BySector(t, m, p, s, c, failed) \in Tallies
  /\ Bad(BySector(t, m, p, s, c, failed).totals) = 0
       <=> Bad(t.totals) = 0 /\ \A i \in 1..c : StatusOf(m, p, s + i - 1, failed) = "ok"

LEMMA BySectorTotals ==
  ASSUME NEW t \in Tallies, NEW m, NEW p, NEW s \in Nat, NEW c \in Nat, NEW failed
  PROVE  SectorTotals(t, m, p, s, c, failed)
<1>1. PICK f \in [0..c -> Tallies] :
        /\ f[0] = t
        /\ \A k \in 1..c : f[k] = Recorded(f[k - 1], s + k - 1, StatusOf(m, p, s + k - 1, failed))
        /\ BySector(t, m, p, s, c, failed) = f[c]
  <2>1. SectorSteps(t, m, p, s, c, failed)
    BY BySectorSteps
  <2> QED
    BY <2>1 DEF SectorSteps
<1> DEFINE St(k) == StatusOf(m, p, s + k - 1, failed)
<1> DEFINE Held(n) == Bad(f[n].totals) = 0 <=> Bad(t.totals) = 0 /\ \A i \in 1..n : St(i) = "ok"
           S == {n \in 0..c : Held(n)}
<1>2. 0 \in S
  <2>1. Held(0)
    BY <1>1
  <2> HIDE DEF Held
  <2> QED
    BY <2>1
<1>3. \A n \in 0..(c - 1) : n \in S => n + 1 \in S
  <2> TAKE n \in 0..(c - 1)
  <2> HAVE n \in S
  <2>1. n + 1 \in 1..c /\ n \in 0..c /\ n + 1 - 1 = n /\ Held(n) /\ n + 1 \in 0..c /\ s + (n + 1) - 1 \in Nat
    OBVIOUS
  <2>2. St(n + 1) \in Statuses
    BY StatusType
  <2>3. f[n + 1] = Recorded(f[n], s + (n + 1) - 1, St(n + 1)) /\ f[n] \in Tallies
    BY <1>1, <2>1
  <2> DEFINE o == f[n]
             d == f[n + 1]
             b == St(n + 1)
             z == s + (n + 1) - 1
  <2> HIDE DEF St, z
  <2>4. d.totals = Counted(o.totals, b) /\ o.totals \in Totals
    <3>1. b \in Statuses /\ z \in Nat /\ o \in Tallies /\ d = Recorded(o, z, b)
      BY <2>1, <2>2, <2>3 DEF z
    <3> HIDE DEF o, d, b
    <3> QED
      BY <3>1, RecordedType, TallyParts
  <2>5. Bad(d.totals) = (IF b = "ok" THEN Bad(o.totals) ELSE Bad(o.totals) + 1) /\ Bad(o.totals) \in Nat
    BY <2>2, <2>4, CountedTotals
  <2>6. Bad(d.totals) = 0 <=> Bad(o.totals) = 0 /\ b = "ok"
    BY <2>5
  <2>7. (\A i \in 1..(n + 1) : St(i) = "ok") <=> (\A i \in 1..n : St(i) = "ok") /\ b = "ok"
    <3>0. n \in Nat
      OBVIOUS
    <3>1. \A i : i \in 1..(n + 1) <=> i \in 1..n \/ i = n + 1
      BY <3>0, OneUp
    <3> QED
      BY <3>1
  <2>8. Held(n + 1)
    BY <2>1, <2>6, <2>7
  <2> HIDE DEF Held
  <2> QED
    BY <2>1, <2>8
<1> HIDE DEF S
<1>4. c \in S
  <2>1. 0..c \subseteq S
    BY <1>2, <1>3, UpTo
  <2> QED
    BY <2>1
<1>5. Held(c) /\ f[c] \in Tallies
  BY <1>4 DEF S
<1> QED
  BY <1>1, <1>5 DEF SectorTotals

\* No bad sector among the first c exactly if they are all right.
LEMMA NoBad ==
  ASSUME trial.met \in Seq(Mets), NEW c \in 0..Len(trial.met)
  PROVE  BadAmong(c) = <<>> <=> \A k \in 1..c : trial.met[k].status = "ok"
<1> DEFINE Fine(k) == trial.met[k].status = "ok"
<1>1. PICK f \in [0..c -> Seq(Mets)] :
        /\ f[0] = <<>>
        /\ \A k \in 1..c : f[k] = IF Fine(k) THEN f[k - 1] ELSE Append(f[k - 1], trial.met[k])
        /\ BadAmong(c) = f[c]
  BY BadSteps, BadAmongIs
<1> DEFINE Held(n) == f[n] = <<>> <=> \A i \in 1..n : Fine(i)
           S == {n \in 0..c : Held(n)}
<1>2. 0 \in S
  <2>1. Held(0)
    BY <1>1
  <2> HIDE DEF Held
  <2> QED
    BY <2>1
<1>3. \A n \in 0..(c - 1) : n \in S => n + 1 \in S
  <2> TAKE n \in 0..(c - 1)
  <2> HAVE n \in S
  <2>1. n + 1 \in 1..c /\ n \in 0..c /\ n + 1 - 1 = n /\ Held(n) /\ n + 1 \in 0..c /\ trial.met[n + 1] \in Mets
    OBVIOUS
  <2>2. f[n + 1] = (IF Fine(n + 1) THEN f[n] ELSE Append(f[n], trial.met[n + 1])) /\ f[n] \in Seq(Mets)
    BY <1>1, <2>1
  <2> HIDE DEF Fine
  <2>3. Append(f[n], trial.met[n + 1]) # <<>>
    <3> DEFINE o == f[n]
               y == trial.met[n + 1]
    <3>1. o \in Seq(Mets) /\ y \in Mets
      BY <2>1, <2>2
    <3> HIDE DEF o, y
    <3>2. Append(o, y) \in Seq(Mets) /\ Len(Append(o, y)) = Len(o) + 1 /\ Len(o) \in Nat
      BY <3>1, Appended
    <3> DEFINE a == Append(o, y)
    <3> HIDE DEF a
    <3>3. a # <<>>
      <4>1. Len(a) # 0
        BY <3>2 DEF a
      <4> QED
        BY <4>1
    <3> QED
      BY <3>3 DEF a, o, y
  <2>4. f[n + 1] = <<>> <=> f[n] = <<>> /\ Fine(n + 1)
    BY <2>2, <2>3
  <2>5. (\A i \in 1..(n + 1) : Fine(i)) <=> (\A i \in 1..n : Fine(i)) /\ Fine(n + 1)
    <3>0. n \in Nat
      OBVIOUS
    <3>1. \A i : i \in 1..(n + 1) <=> i \in 1..n \/ i = n + 1
      BY <3>0, OneUp
    <3> QED
      BY <3>1
  <2>6. Held(n + 1)
    BY <2>1, <2>4, <2>5
  <2> HIDE DEF Held
  <2> QED
    BY <2>1, <2>6
<1> HIDE DEF S
<1>4. c \in S
  <2>1. 0..c \subseteq S
    <3>1. c \in Nat
      OBVIOUS
    <3> QED
      BY <1>2, <1>3, <3>1, UpTo
  <2> QED
    BY <2>1
<1>5. Held(c)
  BY <1>4 DEF S
<1> QED
  BY <1>1, <1>5

--------------------------------------------------------------------------------
(* The invariant.                                                               *)

Targets == [path : Paths, sectors : Nat]
Trials == [map : BOOLEAN, total : Nat, skips : Seq(Items), pattern : Seq(Nat), met : Seq(Mets)]
Messages == [failed : {TRUE}, report : Reports] \cup [failed : {FALSE}, report : Reports]

ScanAt(setup, medium, range, s) ==
  [pc |-> "scan", setup |-> setup, medium |-> medium, range |-> range, s |-> s]

Typed == /\ disks \in [Paths -> Media \cup {NoMedium}]
         /\ targets \in Seq(Targets) /\ selected \in 0..Len(targets)
         /\ fields \in [pattern : PatternTexts, skips : SkipTexts]
         /\ tally \in [Scans -> Tallies] /\ inbox \in Seq(Messages) /\ trial \in Trials
         /\ DOMAIN worker = Scans /\ {"map", "stats", "button"} \subseteq DOMAIN panel

\* A setup that is what the operator asked for.
Meant(s) == /\ s.target.path \in Paths /\ s.target.sectors = trial.total
            /\ s.pattern \in Seq(Nat) /\ s.plan # <<>>
            /\ SkipsWell(s.skips, trial.skips, trial.total)
            /\ PlanWell(s.plan, Covered(s.skips), trial.total)

AllRight == \A i \in 1..Len(trial.met) : trial.met[i].status = "ok"

\* Where a scanning thread may be in its plan.
OnPlan(w) == LET r == w.setup.plan[w.range]
             IN  /\ w.range \in 1..Len(w.setup.plan) /\ w.s \in Nat
                 /\ r.start <= w.s /\ w.s <= r.end
                 /\ w.s < r.end \/ w.range = Len(w.setup.plan)

\* The sectors it has behind it.
Behind(w) == CoveredTo(w.setup.plan, w.range - 1) \cup w.setup.plan[w.range].start..(w.s - 1)

Idle(k) == worker[k] \in {NoThread, Ended}

Opening(k) == /\ worker[k] = [pc |-> "open", setup |-> worker[k].setup]
              /\ Meant(worker[k].setup) /\ trial.met = <<>> /\ tally[k] = NoTally

Scanning(k) == LET w == worker[k]
               IN  /\ w = ScanAt(w.setup, w.medium, w.range, w.s)
                   /\ Meant(w.setup) /\ w.setup.pattern # <<>> /\ w.medium \in Mediums
                   /\ OnPlan(w) /\ MetSectors = Behind(w)
                   /\ Len(trial.met) = Cardinality(MetSectors)
                   /\ (Bad(tally[k].totals) = 0) <=> AllRight

\* A thread is where its scan says, and one that is none has counted nothing.
Threads == \A k \in Scans : \/ Idle(k) /\ tally[k] = NoTally
                            \/ Opening(k) /\ running.scan = k
                            \/ Scanning(k) /\ running.scan = k

\* A message after which the scan is over.
Parting(msg) == msg.failed \/ msg.report.end # "none"

\* The verdict these totals lead to is the truth.
Judged(totals) == /\ MetSectors = Planned /\ Len(trial.met) = Cardinality(Planned)
                  /\ (Bad(totals) = 0) <=> AllRight

Flight == IF running = NotRunning THEN inbox = <<>>
          ELSE running.scan \in Scans /\ worker[running.scan] # NoThread

Messaged == \A i \in 1..Len(inbox) :
              /\ Parting(inbox[i]) => i = Len(inbox) /\ worker[running.scan] = Ended
              /\ ~inbox[i].failed /\ inbox[i].report.end = "completed"
                   => Judged(inbox[i].report.totals)

Shown == panel.stats \in {"PASS", "FAIL"} =>
           /\ running = NotRunning /\ MetSectors = Planned
           /\ Len(trial.met) = Cardinality(Planned)
           /\ (panel.stats = "PASS") <=> AllRight

NeverSkipped == MetSectors \cap Skipped = {}

VerifyInv == Typed /\ Threads /\ Flight /\ Messaged /\ Shown /\ NeverSkipped

LEMMA SizeType ==
  ASSUME NEW m \in Mediums
  PROVE  Size(m) \in Nat
<1>1. Len(m.data) \in Nat /\ SectorSize \in Nat \ {0}
  BY ScanAssumption DEF Mediums
<1> QED
  BY <1>1, Remainder DEF Size

LEMMA SizeBytes ==
  ASSUME NEW m \in Mediums, NEW x \in Nat, x <= Size(m)
  PROVE  x * SectorSize <= Len(m.data)
<1> DEFINE n == Len(m.data)
           Z == SectorSize
           q == n \div Z
           r == n % Z
           a == x * Z
           b == q * Z
<1>1. n \in Nat /\ Z \in Nat \ {0}
  BY ScanAssumption DEF Mediums
<1> HIDE DEF n, Z
<1>2. q \in Nat /\ b + r = n /\ r \in 0..(Z - 1)
  BY <1>1, Remainder
<1>3. x <= q
  BY DEF Size, n, Z
<1> HIDE DEF q, r
<1>4. a <= b /\ a \in Nat /\ b \in Nat
  BY <1>1, <1>2, <1>3, ProductGrows
<1> HIDE DEF a, b
<1>5. a <= n
  BY <1>1, <1>2, <1>4
<1> QED
  BY <1>5 DEF a, n, Z

\* What a turn of the loop makes of each sector is what the disk holds.
TurnTrue(m, p, s, n, failed, again) ==
  /\ \A i \in 1..n : /\ Truth(m, p, s + i - 1, failed) = StatusOf(m, p, s + i - 1, failed)
                      /\ StatusOf(m, p, s + i - 1, failed) \in Statuses
  /\ ~again /\ Matches(m, p, s, n) =>
       failed = {} /\ \A i \in 1..n : StatusOf(m, p, s + i - 1, failed) = "ok"

LEMMA TurnStatus ==
  ASSUME NEW m \in Mediums, NEW p \in Seq(Nat), p # <<>>, NEW s \in Nat,
         NEW n \in Nat, 1 <= n, n <= ChunkSectors, NEW failed, NEW again \in BOOLEAN,
         failed # {} => again, \A x \in s..(s + n - 1) : Fails(m, x) => x \in failed
  PROVE  TurnTrue(m, p, s, n, failed, again)
<1> DEFINE Tr(i) == Truth(m, p, s + i - 1, failed)
           St(i) == StatusOf(m, p, s + i - 1, failed)
<1>1. \A i \in 1..n : Tr(i) = St(i) /\ St(i) \in Statuses
  <2> TAKE i \in 1..n
  <2> DEFINE x == s + i - 1
  <2>1. x \in Nat /\ x \in s..(s + n - 1)
    OBVIOUS
  <2>2. St(i) \in Statuses
    BY StatusType
  <2> HIDE DEF x
  <2>3. Truth(m, p, x, failed) = StatusOf(m, p, x, failed)
    <3>1. CASE x \in failed
      BY <3>1 DEF Truth, StatusOf
    <3>2. CASE x \notin failed
      <4>1. ~(x >= Size(m))
        BY <2>1, <3>2 DEF Fails
      <4>2. x < Size(m)
        BY <2>1, <4>1, SizeType
      <4> QED
        BY <2>1, <4>2, TruthIs
    <3> QED
      BY <3>1, <3>2
  <2> QED
    BY <2>2, <2>3 DEF x
<1> HIDE DEF Tr
<1>2. ASSUME ~again, Matches(m, p, s, n) PROVE failed = {} /\ \A i \in 1..n : St(i) = "ok"
  <2>4. failed = {}
    BY <1>2
  <2>5. s + n <= Size(m)
    <3> DEFINE x == s + n - 1
    <3>1. x \in Nat /\ x \in s..(s + n - 1) /\ x + 1 = s + n
      OBVIOUS
    <3> HIDE DEF x
    <3>2. ~(x >= Size(m))
      BY <2>4, <3>1 DEF Fails
    <3> QED
      BY <3>1, <3>2, SizeType
  <2>6. (s + n) * SectorSize <= Len(m.data)
    <3> DEFINE x == s + n
    <3>1. x \in Nat /\ x <= Size(m)
      BY <2>5
    <3> HIDE DEF x
    <3>2. x * SectorSize <= Len(m.data)
      BY <3>1, SizeBytes
    <3> QED
      BY <3>2 DEF x
  <2>7. Same(m, p, s * SectorSize, n * SectorSize)
    BY <1>2, <2>6, MatchesBytes
  <2>8. \A i \in 1..n : St(i) = "ok"
    <3> TAKE i \in 1..n
    <3> DEFINE j == i - 1
               x == s + j
    <3>1. j \in 0..(n - 1) /\ x \in Nat /\ x = s + i - 1 /\ x + 1 \in Nat /\ x + 1 <= s + n
      OBVIOUS
    <3>2. Same(m, p, (s + j) * SectorSize, 1 * SectorSize)
      <4> HIDE DEF j
      <4> QED
        BY <2>7, <3>1, SamePart
    <3>a. Same(m, p, x * SectorSize, 1 * SectorSize)
      BY <3>2
    <3> HIDE DEF x, j
    <3>3. (x + 1) * SectorSize <= Len(m.data)
      <4>1. x + 1 <= Size(m)
        BY <2>5, <3>1, SizeType
      <4> DEFINE y == x + 1
      <4>2. y \in Nat /\ y <= Size(m)
        BY <3>1, <4>1
      <4> HIDE DEF y
      <4>3. y * SectorSize <= Len(m.data)
        BY <4>2, SizeBytes
      <4> QED
        BY <4>3 DEF y
    <3>4. 1 \in Nat /\ 1 <= ChunkSectors
      BY ScanAssumption
    <3>5. Matches(m, p, x, 1)
      BY <3>1, <3>a, <3>3, <3>4, MatchesBytes
    <3>6. StatusOf(m, p, x, failed) = "ok"
      BY <2>4, <3>5 DEF StatusOf
    <3> QED
      BY <3>1, <3>6 DEF St
  <2> QED
    BY <2>4, <2>8
<1> HIDE DEF St
<1> QED
  BY <1>1, <1>2 DEF TurnTrue, Tr, St

\* One turn of the loop: it counts a bad sector exactly if it met one.
TurnWell(t, was, m, p, s, n, failed) ==
  /\ t \in Tallies
  /\ (Bad(t.totals) = 0) <=> Bad(was.totals) = 0 /\ \A i \in 1..n : Truth(m, p, s + i - 1, failed) = "ok"
  /\ \A i \in 1..n : Truth(m, p, s + i - 1, failed) \in Statuses

LEMMA TurnCounts ==
  ASSUME NEW was \in Tallies, NEW m \in Mediums, NEW p \in Seq(Nat), p # <<>>, NEW s \in Nat,
         NEW n \in Nat, 1 <= n, n <= ChunkSectors, NEW failed, NEW again \in BOOLEAN,
         failed # {} => again, \A x \in s..(s + n - 1) : Fails(m, x) => x \in failed
  PROVE  TurnWell(IF again THEN BySector(was, m, p, s, n, failed) ELSE ReadWhole(was, m, p, s, n),
                  was, m, p, s, n, failed)
<1> DEFINE Tr(i) == Truth(m, p, s + i - 1, failed)
           St(i) == StatusOf(m, p, s + i - 1, failed)
<1>0. TurnTrue(m, p, s, n, failed, again)
  BY TurnStatus
<1>1. \A i \in 1..n : Tr(i) = St(i) /\ St(i) \in Statuses
  BY <1>0 DEF TurnTrue
<1> DEFINE b == BySector(was, m, p, s, n, failed)
<1>2. b \in Tallies /\ (Bad(b.totals) = 0 <=> Bad(was.totals) = 0 /\ \A i \in 1..n : St(i) = "ok")
  <2>1. SectorTotals(was, m, p, s, n, failed)
    BY BySectorTotals
  <2> QED
    BY <2>1 DEF SectorTotals
<1> HIDE DEF b, St, Tr
<1>3. b \in Tallies /\ (Bad(b.totals) = 0 <=> Bad(was.totals) = 0 /\ \A i \in 1..n : Tr(i) = "ok")
  BY <1>1, <1>2
<1>4. CASE again \/ (failed = {} /\ ~Matches(m, p, s, n))
  <2>1. (IF again THEN b ELSE ReadWhole(was, m, p, s, n)) = b
    <3>1. CASE again
      BY <3>1
    <3>2. CASE ~again
      <4>1. failed = {} /\ ~Matches(m, p, s, n)
        BY <1>4, <3>2
      <4> QED
        BY <3>2, <4>1 DEF ReadWhole, b
    <3> QED
      BY <3>1, <3>2
  <2>2. \A i \in 1..n : Tr(i) \in Statuses
    BY <1>1
  <2> QED
    BY <1>3, <2>1, <2>2 DEF TurnWell, b, Tr
<1>5. CASE ~again /\ Matches(m, p, s, n)
  <2> DEFINE r == RecordedWhole(was, s, n)
  <2>1. r \in Tallies /\ r.totals = [was.totals EXCEPT !.ok = @ + n] /\ was.totals \in Totals
    BY RecordedWholeType, TallyParts
  <2>2. (IF again THEN b ELSE ReadWhole(was, m, p, s, n)) = r
    BY <1>5 DEF ReadWhole
  <2> HIDE DEF r
  <2>3. Bad(r.totals) = Bad(was.totals)
    BY <2>1 DEF Bad, Totals
  <2>8. \A i \in 1..n : St(i) = "ok"
    BY <1>0, <1>5 DEF TurnTrue, St
  <2>9. (\A i \in 1..n : Tr(i) = "ok") /\ \A i \in 1..n : Tr(i) \in Statuses
    BY <1>1, <2>8
  <2> QED
    BY <2>1, <2>2, <2>3, <2>9 DEF TurnWell, b, Tr
<1> QED
  BY <1>4, <1>5

--------------------------------------------------------------------------------
(* A thread moves through its plan.                                             *)

LEMMA ScanAtFields ==
  ASSUME NEW w, NEW a, NEW b, NEW c, NEW d, w = ScanAt(a, b, c, d)
  PROVE  w.setup = a /\ w.medium = b /\ w.range = c /\ w.s = d /\ w.pc = "scan"
BY DEF ScanAt

LEMMA ScanAtMoved ==
  ASSUME NEW w, NEW a, NEW b, NEW c, NEW d, w = ScanAt(a, b, c, d), NEW x
  PROVE  [w EXCEPT !.s = x] = ScanAt(a, b, c, x)
BY DEF ScanAt

LEMMA ScanAtRange ==
  ASSUME NEW w, NEW a, NEW b, NEW c, NEW d, w = ScanAt(a, b, c, d), NEW y
  PROVE  [w EXCEPT !.range = y] = ScanAt(a, b, y, d)
BY DEF ScanAt

LEMMA BehindBelow ==
  ASSUME NEW w, w.setup.plan \in Seq(Spans), Apart(w.setup.plan), OnPlan(w)
  PROVE  Behind(w) \subseteq 0..(w.s - 1) /\ IsFiniteSet(Behind(w))
<1> DEFINE L == w.setup.plan
           r == w.range
<1>1. r \in 1..Len(L) /\ w.s \in Nat /\ L[r].start <= w.s /\ L[r].start \in Nat
  BY SpanParts DEF OnPlan
<1>2. Behind(w) = CoveredTo(L, r - 1) \cup L[r].start..(w.s - 1)
  BY DEF Behind
<1>a. \A k \in 1..(r - 1) : k \in 1..Len(L) /\ k < r
  BY <1>1
<1>b. \A k \in 1..(r - 1) : L[k].end <= L[r].start /\ L[k].end \in Nat
  BY <1>1, <1>a, SpanParts DEF Apart
<1> HIDE DEF L, r
<1>3. CoveredTo(L, r - 1) \subseteq 0..(w.s - 1)
  <2> SUFFICES ASSUME NEW x \in Nat, NEW k \in 1..(r - 1), InRange(x, L[k])
               PROVE  x \in 0..(w.s - 1)
    BY DEF CoveredTo
  <2>1. x < L[k].end
    BY DEF InRange
  <2> QED
    BY <1>1, <1>b, <2>1
<1>4. Behind(w) \subseteq 0..(w.s - 1)
  <2>1. L[r].start..(w.s - 1) \subseteq 0..(w.s - 1)
    BY <1>1
  <2> QED
    BY <1>2, <1>3, <2>1
<1>5. IsFiniteSet(0..(w.s - 1))
  <2> DEFINE z == w.s - 1
  <2>1. z \in Int
    BY <1>1
  <2> HIDE DEF z
  <2>2. IsFiniteSet(0..z)
    BY <2>1, FS_Interval
  <2> QED
    BY <2>2 DEF z
<1> QED
  BY <1>4, <1>5, FS_Subset

\* After a chunk of n sectors, they are behind it, and none of them was before.
Moved(w, v, n) == /\ v = ScanAt(w.setup, w.medium, v.range, v.s) /\ OnPlan(v)
                  /\ Behind(v) = Behind(w) \cup w.s..(w.s + n - 1)
                  /\ Behind(w) \cap w.s..(w.s + n - 1) = {}
                  /\ w.s..(w.s + n - 1) \subseteq Covered(w.setup.plan)

LEMMA AdvancedMoves ==
  ASSUME NEW w, w = ScanAt(w.setup, w.medium, w.range, w.s), w.setup.plan \in Seq(Spans),
         Apart(w.setup.plan), OnPlan(w), NEW n \in Nat, 1 <= n,
         w.s + n <= w.setup.plan[w.range].end
  PROVE  Moved(w, Advanced(w, n), n)
<1> DEFINE L == w.setup.plan
           r == w.range
           a == L[r].start
           e == L[r].end
           s == w.s + n
           v == Advanced(w, n)
           here == w.s..(w.s + n - 1)
<1>1. r \in 1..Len(L) /\ w.s \in Nat /\ a <= w.s /\ a \in Nat /\ e \in Nat /\ Len(L) \in Nat /\ s <= e /\ w.s < s /\ s \in Nat
  BY SpanParts DEF OnPlan
<1>2. Behind(w) = CoveredTo(L, r - 1) \cup a..(w.s - 1)
  BY DEF Behind
<1>3. Behind(w) \cap here = {}
  <2>1. Behind(w) \subseteq 0..(w.s - 1)
    BY BehindBelow
  <2>2. (0..(w.s - 1)) \cap here = {}
    BY <1>1
  <2> QED
    BY <2>1, <2>2
<1>4. here \subseteq Covered(L)
  <2>1. here \subseteq Nat
    <3> HIDE DEF L, r, a, e
    <3> QED
      BY <1>1
  <2>2. \A x \in here : a <= x /\ x < e
    <3> HIDE DEF L, r, a, e
    <3> QED
      BY <1>1
  <2>3. \A x \in here : InRange(x, L[r])
    <3> HIDE DEF here
    <3> QED
      BY <2>2 DEF InRange
  <2> HIDE DEF here, L, r
  <2> QED
    BY <1>1, <2>1, <2>3 DEF Covered, CoveredTo
<1>5. CASE s < e \/ r = Len(L)
  <2>1. v = [w EXCEPT !.s = s]
    BY <1>5 DEF Advanced
  <2>2. v = ScanAt(w.setup, w.medium, r, s)
    <3> HIDE DEF s, v
    <3> QED
      BY <2>1, ScanAtMoved
  <2>3. v.setup = w.setup /\ v.range = r /\ v.s = s
    <3> HIDE DEF s, v, r
    <3> QED
      BY <2>2, ScanAtFields
  <2>4. OnPlan(v)
    <3> HIDE DEF v
    <3> QED
      BY <1>1, <1>5, <2>3 DEF OnPlan
  <2>5. Behind(v) = CoveredTo(L, r - 1) \cup a..(s - 1)
    <3> HIDE DEF v
    <3> QED
      BY <2>3 DEF Behind
  <2>6. a..(s - 1) = (a..(w.s - 1)) \cup here
    <3> HIDE DEF L, r, a, e
    <3> QED
      BY <1>1
  <2>7. Behind(v) = Behind(w) \cup here
    BY <1>2, <2>5, <2>6
  <2>8. v = ScanAt(w.setup, w.medium, v.range, v.s)
    BY <2>2, <2>3
  <2> HIDE DEF v, here
  <2> QED
    BY <1>3, <1>4, <2>4, <2>7, <2>8 DEF Moved, v, here
<1>6. CASE ~(s < e \/ r = Len(L))
  <2> DEFINE b == L[r + 1].start
  <2>0. s = e /\ r + 1 \in 1..Len(L) /\ r \in Nat /\ r + 1 - 1 = r
    BY <1>1, <1>6
  <2>1. v = [w EXCEPT !.range = r + 1, !.s = b]
    BY <1>6 DEF Advanced
  <2>2. v = ScanAt(w.setup, w.medium, r + 1, b)
    <3> DEFINE q == r + 1
    <3>1. v = [w EXCEPT !.range = q, !.s = b]
      BY <2>1
    <3> HIDE DEF b, v, q
    <3> DEFINE A == w.setup
               B == w.medium
               C == w.range
               D == w.s
    <3>a. w = ScanAt(A, B, C, D)
      OBVIOUS
    <3> HIDE DEF A, B, C, D, r, L, s, e, here
    <3> DEFINE u == [w EXCEPT !.range = q]
    <3>b. u = ScanAt(A, B, q, D)
      BY <3>a, ScanAtRange
    <3>c. v = [u EXCEPT !.s = b]
      BY <3>1
    <3> HIDE DEF u
    <3>d. v = ScanAt(A, B, q, b)
      BY <3>b, <3>c, ScanAtMoved
    <3>2. v = ScanAt(w.setup, w.medium, q, b)
      BY <3>d DEF A, B
    <3> QED
      BY <3>2 DEF q
  <2>3. v.setup = w.setup /\ v.range = r + 1 /\ v.s = b
    <3> DEFINE q == r + 1
    <3>1. v = ScanAt(w.setup, w.medium, q, b)
      BY <2>2
    <3> HIDE DEF b, v, q
    <3>2. v.setup = w.setup /\ v.range = q /\ v.s = b
      BY <3>1, ScanAtFields
    <3> QED
      BY <3>2 DEF q
  <2>a. b \in Nat /\ L[r + 1].end \in Nat /\ b < L[r + 1].end
    BY <2>0, SpanParts DEF Apart
  <2>4. OnPlan(v)
    <3> HIDE DEF v
    <3> QED
      BY <2>0, <2>3, <2>a DEF OnPlan
  <2>5. Behind(v) = CoveredTo(L, r) \cup b..(b - 1)
    <3> HIDE DEF v
    <3> QED
      BY <2>0, <2>3 DEF Behind
  <2>6. CoveredTo(L, r) = CoveredTo(L, r - 1) \cup Sectors(L[r])
    <3> DEFINE q == r - 1
    <3>1. q \in 0..(Len(L) - 1) /\ q + 1 = r
      BY <1>1
    <3> HIDE DEF q
    <3>2. CoveredTo(L, q + 1) = CoveredTo(L, q) \cup Sectors(L[q + 1])
      BY <3>1, CoveredNext
    <3> QED
      BY <3>1, <3>2 DEF q
  <2>7. Sectors(L[r]) = (a..(w.s - 1)) \cup here /\ b..(b - 1) = {}
    <3>1. Sectors(L[r]) = a..(e - 1)
      BY DEF Sectors
    <3> HIDE DEF L, r, a, e, b
    <3>2. a..(e - 1) = (a..(w.s - 1)) \cup here
      BY <1>1, <2>0
    <3>3. b..(b - 1) = {}
      BY <2>a
    <3> QED
      BY <3>1, <3>2, <3>3
  <2>8. Behind(v) = Behind(w) \cup here
    BY <1>2, <2>5, <2>6, <2>7
  <2>9. v = ScanAt(w.setup, w.medium, v.range, v.s)
    BY <2>2, <2>3
  <2> HIDE DEF v, here
  <2> QED
    BY <1>3, <1>4, <2>4, <2>8, <2>9 DEF Moved, v, here
<1> QED
  BY <1>5, <1>6

\* At the end of the last range all of the plan is behind.
LEMMA AllBehind ==
  ASSUME NEW w, w.setup.plan \in Seq(Spans), OnPlan(w), AtEnd(w)
  PROVE  Behind(w) = Covered(w.setup.plan)
<1> DEFINE L == w.setup.plan
           r == w.range
           q == r - 1
<1>1. r \in 1..Len(L) /\ w.s \in Nat /\ L[r].start <= w.s /\ L[r].start \in Nat /\ L[r].end \in Nat
      /\ w.s <= L[r].end /\ Len(L) \in Nat /\ (w.s < L[r].end \/ r = Len(L))
  BY SpanParts DEF OnPlan
<1>2. w.s = L[r].end /\ r = Len(L)
  BY <1>1 DEF AtEnd
<1>3. q \in 0..(Len(L) - 1) /\ q + 1 = r
  BY <1>1
<1> HIDE DEF q
<1>4. CoveredTo(L, q + 1) = CoveredTo(L, q) \cup Sectors(L[q + 1])
  BY <1>3, CoveredNext
<1>5. Behind(w) = CoveredTo(L, q) \cup Sectors(L[r])
  BY <1>2 DEF Behind, Sectors, q
<1> QED
  BY <1>2, <1>3, <1>4, <1>5 DEF Covered

--------------------------------------------------------------------------------
(* What was met, and more of it.                                                *)

\* trial keeps what the invariant looks at.
TrialKept == trial'.met = trial.met /\ trial'.total = trial.total /\ trial'.skips = trial.skips

LEMMA TrialSame ==
  ASSUME TrialKept
  PROVE  /\ MetSectors' = MetSectors /\ Skipped' = Skipped /\ Planned' = Planned
         /\ AllRight' <=> AllRight
BY DEF TrialKept, MetSectors, Skipped, Planned, AllRight

LEMMA MeantSame ==
  ASSUME TrialKept, NEW s
  PROVE  Meant(s)' <=> Meant(s)
BY DEF TrialKept, Meant

SectorsOf(s) == {s[k].sector : k \in 1..Len(s)}
Right(s) == \A i \in 1..Len(s) : s[i].status = "ok"

LEMMA MoreMet ==
  ASSUME NEW s \in Seq(Mets), NEW t \in Seq(Mets)
  PROVE  /\ SectorsOf(s \o t) = SectorsOf(s) \cup SectorsOf(t)
         /\ Right(s \o t) <=> Right(s) /\ Right(t)
<1> DEFINE a == Len(s)
           b == Len(t)
           j == s \o t
<1>1. /\ a \in Nat /\ b \in Nat /\ Len(j) = a + b
      /\ (\A k \in 1..a : j[k] = s[k]) /\ (\A k \in 1..b : j[a + k] = t[k])
  BY Joined
<1> HIDE DEF a, b, j
<1>2. \A k \in 1..(a + b) : k \in 1..a \/ (k - a \in 1..b /\ a + (k - a) = k)
  BY <1>1
<1>3. \A k \in 1..a : k \in 1..(a + b)
  BY <1>1
<1>4. \A k \in 1..b : a + k \in 1..(a + b)
  BY <1>1
<1>5. ASSUME NEW P
      PROVE  (\E k \in 1..(a + b) : j[k] \in P) <=> (\E k \in 1..a : s[k] \in P) \/ (\E k \in 1..b : t[k] \in P)
  <2>1. ASSUME NEW k \in 1..(a + b), j[k] \in P
        PROVE  (\E i \in 1..a : s[i] \in P) \/ (\E i \in 1..b : t[i] \in P)
    <3>1. CASE k \in 1..a
      BY <1>1, <2>1, <3>1
    <3>2. CASE k - a \in 1..b /\ a + (k - a) = k
      <4> DEFINE i == k - a
      <4>1. i \in 1..b /\ a + i = k
        BY <3>2
      <4> HIDE DEF i
      <4>2. j[k] = t[i]
        BY <1>1, <4>1
      <4> QED
        BY <2>1, <4>1, <4>2
    <3> QED
      BY <1>2, <3>1, <3>2
  <2>2. ASSUME NEW k \in 1..a, s[k] \in P PROVE \E i \in 1..(a + b) : j[i] \in P
    BY <1>1, <1>3, <2>2
  <2>3. ASSUME NEW k \in 1..b, t[k] \in P PROVE \E i \in 1..(a + b) : j[i] \in P
    <3> DEFINE i == a + k
    <3>1. i \in 1..(a + b) /\ j[i] = t[k]
      BY <1>1, <1>4
    <3> HIDE DEF i
    <3> QED
      BY <2>3, <3>1
  <2> QED
    BY <2>1, <2>2, <2>3
<1>a. (\A k \in 1..a : s[k] \in Mets) /\ (\A k \in 1..b : t[k] \in Mets) /\ \A k \in 1..(a + b) : j[k] \in Mets
  <2>1. (\A k \in 1..a : s[k] \in Mets) /\ (\A k \in 1..b : t[k] \in Mets)
    BY DEF a, b
  <2>2. j \in Seq(Mets)
    BY Joined DEF j
  <2>3. \A k \in 1..(a + b) : j[k] \in Mets
    BY <1>1, <2>2
  <2> QED
    BY <2>1, <2>3
<1>6. SectorsOf(j) = SectorsOf(s) \cup SectorsOf(t)
  <2>1. ASSUME NEW x
        PROVE  (\E k \in 1..(a + b) : x = j[k].sector)
                 <=> (\E k \in 1..a : x = s[k].sector) \/ (\E k \in 1..b : x = t[k].sector)
    <3> DEFINE P == {y \in Mets : x = y.sector}
    <3>1. \A y \in Mets : y \in P <=> x = y.sector
      OBVIOUS
    <3> HIDE DEF P
    <3>2. (\E k \in 1..(a + b) : j[k] \in P) <=> (\E k \in 1..a : s[k] \in P) \/ (\E k \in 1..b : t[k] \in P)
      BY <1>5
    <3>3. /\ \A k \in 1..(a + b) : j[k] \in P <=> x = j[k].sector
          /\ \A k \in 1..a : s[k] \in P <=> x = s[k].sector
          /\ \A k \in 1..b : t[k] \in P <=> x = t[k].sector
      BY <1>a, <3>1
    <3> QED
      BY <3>2, <3>3
  <2>2. /\ SectorsOf(j) = {j[k].sector : k \in 1..(a + b)} /\ SectorsOf(s) = {s[k].sector : k \in 1..a}
        /\ SectorsOf(t) = {t[k].sector : k \in 1..b}
    BY <1>1 DEF SectorsOf, a, b
  <2> QED
    BY <2>1, <2>2
<1>7. Right(j) <=> Right(s) /\ Right(t)
  <2> DEFINE P == {y \in Mets : y.status # "ok"}
  <2>1. \A y \in Mets : y \in P <=> y.status # "ok"
    OBVIOUS
  <2> HIDE DEF P
  <2>2. /\ \A k \in 1..(a + b) : j[k] \in P <=> j[k].status # "ok"
        /\ \A k \in 1..a : s[k] \in P <=> s[k].status # "ok"
        /\ \A k \in 1..b : t[k] \in P <=> t[k].status # "ok"
    BY <1>a, <2>1
  <2>3. /\ Right(j) <=> \A k \in 1..(a + b) : j[k].status = "ok"
        /\ Right(s) <=> \A k \in 1..a : s[k].status = "ok"
        /\ Right(t) <=> \A k \in 1..b : t[k].status = "ok"
    BY <1>1 DEF Right, a, b
  <2>4. (\E k \in 1..(a + b) : j[k] \in P) <=> (\E k \in 1..a : s[k] \in P) \/ (\E k \in 1..b : t[k] \in P)
    BY <1>5
  <2> QED
    BY <2>2, <2>3, <2>4
<1> QED
  BY <1>6, <1>7 DEF j

LEMMA NoTallyType ==
  NoTally \in Tallies /\ NoReport \in Drafts /\ NoReport \in Reports /\ Bad(NoTally.totals) = 0
BY DEF NoTally, Tallies, Drafts, Reports, NoReport, NoTotals, Totals, Bad

\* A report of a scan, with what it says last.
LEMMA EmittedType ==
  ASSUME NEW t \in Tallies, NEW s \in Nat
  PROVE  /\ Emitted(t, s) \in Reports /\ Emitted(t, s).end = "none" /\ Emitted(t, s).totals = t.totals
         /\ \A e \in {"completed", "cancelled"} :
              /\ [Emitted(t, s) EXCEPT !.end = e] \in Reports /\ [Emitted(t, s) EXCEPT !.end = e].end = e
              /\ [Emitted(t, s) EXCEPT !.end = e].totals = t.totals
<1>1. t.report \in Drafts /\ t.totals \in Totals
  BY TallyParts
<1> DEFINE a == t.report
           b == t.totals
           r == Emitted(t, s)
<1>2. r = [a EXCEPT !.pos = s, !.totals = b]
  BY DEF Emitted
<1>3. a \in Drafts /\ b \in Totals
  BY <1>1
<1> HIDE DEF a, b, r
<1>4. r \in Drafts /\ r.totals = b
  BY <1>2, <1>3 DEF Drafts
<1>5. r \in Reports /\ r.end = "none"
  BY <1>4 DEF Drafts, Reports
<1>6. ASSUME NEW e \in {"completed", "cancelled"}
      PROVE  [r EXCEPT !.end = e] \in Reports /\ [r EXCEPT !.end = e].end = e /\ [r EXCEPT !.end = e].totals = b
  BY <1>4, <1>5 DEF Reports
<1> QED
  BY <1>4, <1>5, <1>6 DEF r, b

LEMMA MessageType ==
  /\ Failure \in Messages /\ Failure.failed = TRUE /\ Parting(Failure)
  /\ \A r \in Reports : Reported(r) \in Messages /\ Reported(r).failed = FALSE /\ Reported(r).report = r
<1>1. Failure \in [failed : {TRUE}, report : Reports]
  BY NoTallyType DEF Failure
<1>2. Failure.failed = TRUE
  BY DEF Failure
<1>3. ASSUME NEW r \in Reports
      PROVE  Reported(r) \in [failed : {FALSE}, report : Reports] /\ Reported(r).failed = FALSE /\ Reported(r).report = r
  BY DEF Reported
<1> QED
  BY <1>1, <1>2, <1>3 DEF Messages, Parting

--------------------------------------------------------------------------------
(* The first state, and the steps that no thread takes.                         *)

\* block_devices lists disks.
LEMMA ListingsType ==
  ASSUME NEW d \in [Paths -> Media \cup {NoMedium}], NEW ts \in Listings(d)
  PROVE  ts \in Seq(Targets)
<1> DEFINE there == {p \in Paths : d[p] # NoMedium}
           n == Cardinality(there)
<1>1. n \in Nat
  <2>1. IsFiniteSet(there)
    BY VerifyAssumption, FS_Subset
  <2> QED
    BY <2>1, FS_CardinalityType
<1>2. PICK o \in [1..n -> there] :
        ts = [k \in 1..Len(o) |-> [path |-> o[k], sectors |-> Size(d[o[k]])]]
  BY DEF Listings
<1>3. \A p \in there : p \in Paths /\ Size(d[p]) \in Nat
  <2> TAKE p \in there
  <2>1. p \in Paths /\ d[p] \in Mediums
    BY VerifyAssumption
  <2> QED
    BY <2>1, SizeType
<1> HIDE DEF n, there
<1>4. Len(o) = n
  BY <1>1, Sequence
<1> DEFINE at(k) == [path |-> o[k], sectors |-> Size(d[o[k]])]
<1>5. \A k \in 1..n : at(k) \in Targets
  BY <1>3 DEF Targets
<1>6. ts = [k \in 1..n |-> at(k)]
  BY <1>2, <1>4
<1> HIDE DEF at
<1>7. ts \in [1..n -> Targets]
  BY <1>5, <1>6
<1> QED
  BY <1>1, <1>7, Sequence

LEMMA SectorsAtType ==
  ASSUME NEW ts \in Seq(Targets), NEW i \in 0..Len(ts)
  PROVE  SectorsAt(ts, i) \in Nat
<1>1. CASE i = 0
  BY <1>1 DEF SectorsAt
<1>2. CASE i # 0
  <2>1. ts[i] \in Targets
    BY <1>2
  <2> QED
    BY <1>2, <2>1 DEF SectorsAt, Targets
<1> QED
  BY <1>1, <1>2

LEMMA FirstOf ==
  ASSUME NEW S, \E j \in S : \A k \in S : j <= k
  PROVE  (CHOOSE j \in S : \A k \in S : j <= k) \in S
OBVIOUS

LEMMA KeptIndex ==
  ASSUME NEW old, NEW i, NEW new \in Seq(Targets)
  PROVE  Kept(old, i, new) \in 0..Len(new)
<1> DEFINE same == {j \in DOMAIN new : i # 0 /\ new[j].path = old[i].path}
           last == CHOOSE j \in same : \A k \in same : j <= k
<1>1. Len(new) \in Nat /\ DOMAIN new = 1..Len(new)
  OBVIOUS
<1>2. CASE same # {}
  <2>1. same \subseteq Nat
    BY <1>1
  <2>2. \E j \in same : \A k \in same : j <= k
    <3> DEFINE R == OpToRel(<, Nat)
    <3>1. IsWellFoundedOn(R, Nat)
      BY NatLessThanWellFounded
    <3>2. \A x, y \in Nat : <<x, y>> \in R <=> x < y
      BY DEF OpToRel
    <3> HIDE DEF R, same
    <3>3. PICK m \in same : \A y \in same : ~(<<y, m>> \in R)
      BY <1>2, <2>1, <3>1, WFMin
    <3>4. \A y \in same : m <= y
      <4> TAKE y \in same
      <4>1. m \in Nat /\ y \in Nat
        BY <2>1
      <4>2. ~(y < m)
        BY <3>2, <3>3, <4>1
      <4> QED
        BY <4>1, <4>2
    <3> QED
      BY <3>4
  <2>3. last \in same
    <3> HIDE DEF same
    <3> QED
      BY <2>2, FirstOf
  <2>4. Kept(old, i, new) = last
    <3>1. Kept(old, i, new) = CASE same # {} -> last [] same = {} /\ Len(new) = 1 -> 1 [] OTHER -> 0
      BY DEF Kept
    <3> HIDE DEF same, last
    <3> QED
      BY <1>2, <3>1
  <2> HIDE DEF last
  <2> QED
    BY <1>1, <2>3, <2>4
<1>3. CASE same = {} /\ Len(new) = 1
  <2>1. Kept(old, i, new) = 1
    BY <1>3 DEF Kept
  <2> QED
    BY <1>3, <2>1
<1>4. CASE same = {} /\ Len(new) # 1
  <2>1. Kept(old, i, new) = 0
    BY <1>4 DEF Kept
  <2> QED
    BY <1>1, <2>1
<1> QED
  BY <1>2, <1>3, <1>4

LEMMA VerifyStarts == VerifyInit => VerifyInv
<1> SUFFICES ASSUME VerifyInit PROVE VerifyInv
  OBVIOUS
<1>1. /\ disks \in [Paths -> Media \cup {NoMedium}] /\ targets \in Listings(disks)
      /\ selected = (IF Len(targets) = 1 THEN 1 ELSE 0)
      /\ fields \in [pattern : PatternTexts, skips : SkipTexts]
      /\ running = NotRunning /\ inbox = <<>> /\ trial = NoTrial
      /\ worker = [k \in Scans |-> NoThread] /\ tally = [k \in Scans |-> NoTally]
  <2>1. disks \in [Paths -> Media \cup {NoMedium}] /\ targets \in Listings(disks)
    BY DEF VerifyInit
  <2>2. selected = (IF Len(targets) = 1 THEN 1 ELSE 0)
    BY DEF VerifyInit
  <2>3. fields \in [pattern : PatternTexts, skips : SkipTexts]
    BY DEF VerifyInit
  <2>4. /\ running = NotRunning /\ inbox = <<>> /\ trial = NoTrial
        /\ worker = [k \in Scans |-> NoThread] /\ tally = [k \in Scans |-> NoTally]
    BY DEF VerifyInit
  <2> QED
    BY <2>1, <2>2, <2>3, <2>4
<1>a. panel = [EmptyPanel EXCEPT !.map = FreshMap(SectorsAt(targets, selected))]
  BY DEF VerifyInit
<1>2. targets \in Seq(Targets) /\ selected \in 0..Len(targets)
  <2>1. targets \in Seq(Targets)
    BY <1>1, ListingsType
  <2> DEFINE n == Len(targets)
  <2>2. n \in Nat
    BY <2>1
  <2>3. selected = IF n = 1 THEN 1 ELSE 0
    BY <1>1
  <2> HIDE DEF n
  <2>4. selected \in 0..n
    BY <2>2, <2>3
  <2> QED
    BY <2>1, <2>4 DEF n
<1>3. tally \in [Scans -> Tallies] /\ inbox \in Seq(Messages)
  <2>1. inbox \in Seq(Messages)
    BY <1>1
  <2> QED
    BY <1>1, <2>1, NoTallyType
<1>4. trial \in Trials /\ trial.met = <<>>
  BY <1>1 DEF NoTrial, Trials
<1>5. DOMAIN worker = Scans /\ {"map", "stats", "button"} \subseteq DOMAIN panel /\ panel.stats = "idle"
  <2> DEFINE m == FreshMap(SectorsAt(targets, selected))
  <2> HIDE DEF m
  <2>1. panel = [EmptyPanel EXCEPT !.map = m]
    BY <1>a DEF m
  <2> QED
    BY <1>1, <2>1 DEF EmptyPanel
<1>6. Typed
  BY <1>1, <1>2, <1>3, <1>4, <1>5 DEF Typed
<1>7. Threads
  BY <1>1 DEF Threads, Idle
<1>8. Flight /\ Messaged
  BY <1>1 DEF Flight, Messaged
<1>9. Shown
  BY <1>5 DEF Shown
<1>10. NeverSkipped
  BY <1>4 DEF NeverSkipped, MetSectors
<1> QED
  BY <1>6, <1>7, <1>8, <1>9, <1>10 DEF VerifyInv

\* A step that leaves the threads, their messages and the verdict alone.
LEMMA QuietStep ==
  ASSUME VerifyInv, TrialKept, Typed', UNCHANGED <<worker, tally, inbox, running>>,
         panel'.stats = panel.stats
  PROVE  VerifyInv'
<1>1. /\ MetSectors' = MetSectors /\ Skipped' = Skipped /\ Planned' = Planned
      /\ AllRight' <=> AllRight
  BY TrialSame
<1>2. Threads'
  <2> SUFFICES ASSUME NEW k \in Scans
               PROVE  (\/ Idle(k) /\ tally[k] = NoTally
                       \/ Opening(k) /\ running.scan = k
                       \/ Scanning(k) /\ running.scan = k)'
    BY DEF Threads
  <2>1. CASE Idle(k) /\ tally[k] = NoTally
    BY <2>1 DEF Idle
  <2>2. CASE Opening(k) /\ running.scan = k
    <3>1. Opening(k)'
      <4>1. Meant(worker[k].setup)'
        <5>0. PICK s : s = worker[k].setup
          OBVIOUS
        <5>1. worker'[k].setup = s /\ Meant(s)
          BY <2>2, <5>0 DEF Opening
        <5>2. Meant(s)'
          BY <5>1, MeantSame
        <5> QED
          BY <5>1, <5>2
      <4> QED
        BY <2>2, <4>1 DEF Opening, TrialKept
    <3> QED
      BY <2>2, <3>1
  <2>3. CASE Scanning(k) /\ running.scan = k
    <3>1. Meant(worker[k].setup)'
      <4>0. PICK s : s = worker[k].setup
        OBVIOUS
      <4>1. worker'[k].setup = s /\ Meant(s)
        BY <2>3, <4>0 DEF Scanning
      <4>2. Meant(s)'
        BY <4>1, MeantSame
      <4> QED
        BY <4>1, <4>2
    <3>2. Scanning(k)'
      BY <1>1, <2>3, <3>1 DEF Scanning, TrialKept
    <3> QED
      BY <2>3, <3>2
  <2>4. \/ Idle(k) /\ tally[k] = NoTally
        \/ Opening(k) /\ running.scan = k
        \/ Scanning(k) /\ running.scan = k
    BY DEF VerifyInv, Threads
  <2> QED
    BY <2>1, <2>2, <2>3, <2>4
<1>3. Flight'
  BY DEF VerifyInv, Flight
<1>4. Messaged'
  BY <1>1 DEF VerifyInv, Messaged, Judged, TrialKept
<1>5. Shown'
  BY <1>1 DEF VerifyInv, Shown, TrialKept
<1>6. NeverSkipped'
  BY <1>1 DEF VerifyInv, NeverSkipped
<1> QED
  BY <1>2, <1>3, <1>4, <1>5, <1>6 DEF VerifyInv

\* The label of the button and the map may change, and nothing else the invariant reads.
LEMMA RemapKeeps ==
  ASSUME Typed, NEW sectors, Remapped(sectors)
  PROVE  /\ trial' \in Trials /\ TrialKept /\ panel'.stats = panel.stats
         /\ {"map", "stats", "button"} \subseteq DOMAIN panel'
<1> DEFINE m == FreshMap(sectors)
<1>1. trial' = [trial EXCEPT !.map = FALSE] /\ trial \in Trials
  BY DEF Remapped, Typed
<1>2. panel' = [panel EXCEPT !.map = m] /\ {"map", "stats", "button"} \subseteq DOMAIN panel
  BY DEF Remapped, Typed
<1> HIDE DEF m
<1>3. trial' \in Trials /\ TrialKept
  BY <1>1 DEF Trials, TrialKept
<1>4. panel'.stats = panel.stats /\ DOMAIN panel' = DOMAIN panel
  BY <1>2
<1> QED
  BY <1>2, <1>3, <1>4

LEMMA SelectKeeps == VerifyInv /\ Select => VerifyInv'
<1> SUFFICES ASSUME VerifyInv, Select PROVE VerifyInv'
  OBVIOUS
<1>1. Typed
  BY DEF VerifyInv
<1>2. UNCHANGED <<worker, tally, inbox, running, disks, targets, fields>>
  BY DEF Select, thread
<1>3. selected' \in 0..Len(targets) /\ trial' \in Trials /\ TrialKept /\ panel'.stats = panel.stats
      /\ {"map", "stats", "button"} \subseteq DOMAIN panel'
  <2>1. PICK i \in DOMAIN targets :
          IF running = NotRunning
          THEN selected' = i /\ Remapped(targets[i].sectors)
          ELSE UNCHANGED <<selected, panel, trial, plan>>
    BY DEF Select
  <2>2. i \in 0..Len(targets)
    BY <1>1 DEF Typed
  <2>3. CASE running = NotRunning
    <3>1. selected' = i /\ Remapped(targets[i].sectors)
      BY <2>1, <2>3
    <3> QED
      BY <1>1, <2>2, <3>1, RemapKeeps
  <2>4. CASE running # NotRunning
    BY <1>1, <2>1, <2>4 DEF Typed, TrialKept
  <2> QED
    BY <2>3, <2>4
<1>4. Typed'
  BY <1>1, <1>2, <1>3 DEF Typed
<1> QED
  BY <1>2, <1>3, <1>4, QuietStep

LEMMA TypeKeeps == VerifyInv /\ Type => VerifyInv'
<1> SUFFICES ASSUME VerifyInv, Type PROVE VerifyInv'
  OBVIOUS
<1>1. Typed
  BY DEF VerifyInv
<1>2. UNCHANGED <<worker, tally, inbox, running, disks, targets, selected, panel, trial>>
  BY DEF Type, thread
<1>3. fields' \in [pattern : PatternTexts, skips : SkipTexts]
  <2>1. fields \in [pattern : PatternTexts, skips : SkipTexts]
    BY <1>1 DEF Typed
  <2>2. \/ \E t \in PatternTexts : fields' = [fields EXCEPT !.pattern = t]
        \/ \E t \in SkipTexts : fields' = [fields EXCEPT !.skips = t]
    BY DEF Type
  <2> QED
    BY <2>1, <2>2
<1>4. Typed'
  BY <1>1, <1>2, <1>3 DEF Typed
<1>5. TrialKept
  BY <1>2 DEF TrialKept
<1> QED
  BY <1>2, <1>4, <1>5, QuietStep

LEMMA RescanKeeps == VerifyInv /\ Rescan => VerifyInv'
<1> SUFFICES ASSUME VerifyInv, Rescan PROVE VerifyInv'
  OBVIOUS
<1>1. Typed
  BY DEF VerifyInv
<1>2. UNCHANGED <<worker, tally, inbox, running, disks, fields>>
  BY DEF Rescan, thread
<1>3. PICK ts \in Listings(disks) :
        /\ targets' = ts /\ selected' = Kept(targets, selected, ts)
        /\ Remapped(SectorsAt(ts, Kept(targets, selected, ts)))
  BY DEF Rescan
<1>4. ts \in Seq(Targets)
  BY <1>1, ListingsType DEF Typed
<1>5. selected' \in 0..Len(targets')
  BY <1>3, <1>4, KeptIndex
<1>6. /\ trial' \in Trials /\ TrialKept /\ panel'.stats = panel.stats
      /\ {"map", "stats", "button"} \subseteq DOMAIN panel'
  BY <1>1, <1>3, RemapKeeps
<1>7. Typed'
  BY <1>1, <1>2, <1>3, <1>4, <1>5, <1>6 DEF Typed
<1> QED
  BY <1>2, <1>6, <1>7, QuietStep

LEMMA SwapKeeps == VerifyInv /\ Swap => VerifyInv'
<1> SUFFICES ASSUME VerifyInv, Swap PROVE VerifyInv'
  OBVIOUS
<1>1. Typed
  BY DEF VerifyInv
<1>2. UNCHANGED <<worker, tally, inbox, running, targets, selected, fields, panel, trial>>
  BY DEF Swap, thread
<1>3. disks' \in [Paths -> Media \cup {NoMedium}]
  <2>1. disks \in [Paths -> Media \cup {NoMedium}]
    BY <1>1 DEF Typed
  <2>2. PICK p \in Paths, m \in Media \cup {NoMedium} : disks' = [disks EXCEPT ![p] = m]
    BY DEF Swap
  <2> QED
    BY <2>1, <2>2
<1>4. Typed'
  BY <1>1, <1>2, <1>3 DEF Typed
<1>5. TrialKept
  BY <1>2 DEF TrialKept
<1> QED
  BY <1>2, <1>4, <1>5, QuietStep

LEMMA StopKeeps == VerifyInv /\ Stop => VerifyInv'
<1> SUFFICES ASSUME VerifyInv, Stop PROVE VerifyInv'
  OBVIOUS
<1>1. Typed
  BY DEF VerifyInv
<1>2. UNCHANGED <<worker, tally, inbox, running, disks, targets, selected, fields, panel, trial>>
  BY DEF Stop
<1>3. Typed'
  BY <1>1, <1>2 DEF Typed
<1>4. TrialKept
  BY <1>2 DEF TrialKept
<1> QED
  BY <1>2, <1>3, <1>4, QuietStep

--------------------------------------------------------------------------------
(* Start.                                                                       *)

\* validate returns what the operator asked for, or nothing.
MeantBy(s, items, target) ==
  /\ s.target = target /\ target \in Targets /\ s.pattern \in Seq(Nat) /\ s.plan # <<>>
  /\ SkipsWell(s.skips, items, target.sectors)
  /\ PlanWell(s.plan, Covered(s.skips), target.sectors)

LEMMA SetupMeans ==
  ASSUME NEW ts \in Seq(Targets), NEW i \in 0..Len(ts),
         NEW f \in [pattern : PatternTexts, skips : SkipTexts], NEW s \in Setups(ts, i, f)
  PROVE  i # 0 /\ MeantBy(s, f.skips, ts[i]) /\ f.skips \in Seq(Items)
<1>1. i # 0
  BY DEF Setups
<1>2. ts[i] \in Targets
  BY <1>1
<1>3. f.pattern \in HexTexts /\ f.skips \in Seq(Items)
  BY VerifyAssumption
<1> DEFINE total == ts[i].sectors
<1>4. total \in Nat
  BY <1>2 DEF Targets
<1>5. PICK p \in Patterns(f.pattern), k \in SkipLists(f.skips, total) :
        /\ s = [target |-> ts[i], pattern |-> p, skips |-> k, plan |-> Plan(total, k)]
        /\ s.plan # <<>>
  BY <1>1 DEF Setups
<1> HIDE DEF total
<1>6. p \in Seq(Nat)
  BY <1>3, PatternType
<1>7. SkipsWell(k, f.skips, total)
  BY <1>3, <1>4, SkipListsCover
<1>8. PlanWell(Plan(total, k), Covered(k), total)
  <2>1. k \in Seq(Spans) /\ Apart(k) /\ Covered(k) \subseteq 0..(total - 1)
    BY <1>7 DEF SkipsWell, Named
  <2> QED
    BY <1>4, <2>1, PlanCovers
<1>9. s.target = ts[i] /\ s.pattern = p /\ s.skips = k /\ s.plan = Plan(total, k)
  BY <1>5
<1>10. MeantBy(s, f.skips, ts[i])
  BY <1>2, <1>5, <1>6, <1>7, <1>8, <1>9 DEF MeantBy, total
<1> QED
  BY <1>1, <1>3, <1>10

LEMMA NoneFlies ==
  ASSUME VerifyInv, running = NotRunning
  PROVE  inbox = <<>> /\ \A k \in Scans : Idle(k) /\ tally[k] = NoTally
<1>1. running.scan = 0
  BY DEF NotRunning
<1>2. \A k \in Scans : k # 0
  BY DEF Scans
<1> QED
  BY <1>1, <1>2 DEF VerifyInv, Threads, Flight

LEMMA StartKeeps == ASSUME NEW k \in Scans PROVE VerifyInv /\ Start(k) => VerifyInv'
<1> SUFFICES ASSUME VerifyInv, Start(k) PROVE VerifyInv'
  OBVIOUS
<1>1. Typed
  BY DEF VerifyInv
<1>2. running = NotRunning /\ worker[k] = NoThread
      /\ UNCHANGED <<disks, targets, selected, fields, cancelled, tally, inbox, edits>>
  BY DEF Start
<1>3. inbox = <<>> /\ \A j \in Scans : Idle(j) /\ tally[j] = NoTally
  BY <1>2, NoneFlies
<1> DEFINE found == Setups(targets, selected, fields)
<1>4. CASE found = {}
  <2>1. UNCHANGED <<running, worker, panel, trial>>
    BY <1>4 DEF Start
  <2>2. Typed'
    BY <1>1, <1>2, <2>1 DEF Typed
  <2>3. TrialKept
    BY <2>1 DEF TrialKept
  <2> QED
    BY <1>2, <2>1, <2>2, <2>3, QuietStep
<1>5. CASE found # {}
  <2>1. PICK s \in found :
          /\ running' = [scan |-> k, planned |-> Length(s.plan)]
          /\ worker' = [worker EXCEPT ![k] = [pc |-> "open", setup |-> s]]
          /\ panel' = [EmptyPanel EXCEPT
               !.map = AllMarked(FreshMap(s.target.sectors),
                                 [j \in 1..Len(s.skips) |->
                                    [range |-> s.skips[j], status |-> "skipped"]]),
               !.skipped = Length(s.skips), !.stats = "opening", !.button = "Stop"]
          /\ trial' = [map |-> TRUE, total |-> s.target.sectors, skips |-> fields.skips,
                       pattern |-> s.pattern, met |-> <<>>]
    BY <1>5 DEF Start
  <2> DEFINE t == targets[selected]
  <2>2. MeantBy(s, fields.skips, t) /\ fields.skips \in Seq(Items)
    BY <1>1, SetupMeans DEF Typed
  <2> HIDE DEF found, t
  <2>3. s.target = t /\ t.path \in Paths /\ t.sectors \in Nat /\ s.pattern \in Seq(Nat)
    BY <2>2 DEF MeantBy, Targets
  <2>4. /\ trial' \in Trials /\ trial'.met = <<>> /\ trial'.total = t.sectors
        /\ trial'.skips = fields.skips
    BY <2>1, <2>2, <2>3 DEF Trials
  <2>5. Meant(s)'
    BY <2>2, <2>3, <2>4 DEF Meant, MeantBy
  <2>6. panel'.stats = "opening" /\ {"map", "stats", "button"} \subseteq DOMAIN panel'
    <3> DEFINE m == AllMarked(FreshMap(s.target.sectors),
                              [j \in 1..Len(s.skips) |->
                                 [range |-> s.skips[j], status |-> "skipped"]])
               l == Length(s.skips)
    <3>1. panel' = [EmptyPanel EXCEPT !.map = m, !.skipped = l, !.stats = "opening", !.button = "Stop"]
      BY <2>1
    <3> HIDE DEF m, l
    <3> QED
      BY <3>1 DEF EmptyPanel
  <2>7. running'.scan = k /\ running' # NotRunning
    <3>1. running'.scan = k /\ k # 0
      BY <2>1 DEF Scans
    <3> QED
      BY <3>1 DEF NotRunning
  <2>8. DOMAIN worker' = Scans /\ worker'[k] = [pc |-> "open", setup |-> s]
        /\ \A j \in Scans \ {k} : worker'[j] = worker[j]
    BY <1>1, <2>1 DEF Typed
  <2>9. Typed'
    BY <1>1, <1>2, <2>4, <2>6, <2>8 DEF Typed
  <2>10. Threads'
    <3>1. ASSUME NEW j \in Scans \ {k} PROVE (Idle(j) /\ tally[j] = NoTally)'
      BY <1>2, <1>3, <2>8 DEF Idle
    <3>2. Opening(k)'
      <4>1. worker'[k].setup = s
        BY <2>8
      <4>2. worker'[k] = [pc |-> "open", setup |-> worker'[k].setup]
        BY <2>8, <4>1
      <4> QED
        BY <1>2, <1>3, <2>4, <2>5, <4>1, <4>2 DEF Opening
    <3> QED
      BY <2>7, <3>1, <3>2 DEF Threads
  <2>11. Flight'
    <3>1. worker'[k] # NoThread
      <4>1. worker'[k].pc = "open" /\ NoThread.pc = "none"
        BY <2>8 DEF NoThread
      <4> QED
        BY <4>1
    <3> QED
      BY <2>7, <3>1 DEF Flight
  <2>12. Messaged'
    BY <1>2, <1>3 DEF Messaged
  <2>13. Shown'
    BY <2>6 DEF Shown
  <2>14. NeverSkipped'
    BY <2>4 DEF NeverSkipped, MetSectors
  <2> QED
    BY <2>9, <2>10, <2>11, <2>12, <2>13, <2>14 DEF VerifyInv
<1> QED
  BY <1>4, <1>5

--------------------------------------------------------------------------------
(* The steps of a thread.                                                       *)

LEMMA PcOpen ==
  ASSUME VerifyInv, NEW k \in Scans, worker[k].pc = "open"
  PROVE  Opening(k) /\ running.scan = k
<1>1. ~Idle(k)
  BY DEF Idle, NoThread, Ended
<1>2. ~Scanning(k)
  <2> SUFFICES ASSUME Scanning(k) PROVE FALSE
    OBVIOUS
  <2> DEFINE w == worker[k]
  <2>1. w = ScanAt(w.setup, w.medium, w.range, w.s)
    BY DEF Scanning
  <2> HIDE DEF w
  <2>2. w.pc = "scan"
    BY <2>1, ScanAtFields
  <2> QED
    BY <2>2 DEF w
<1> QED
  BY <1>1, <1>2 DEF VerifyInv, Threads

LEMMA PcScan ==
  ASSUME VerifyInv, NEW k \in Scans, worker[k].pc = "scan"
  PROVE  Scanning(k) /\ running.scan = k
<1>1. ~Idle(k)
  BY DEF Idle, NoThread, Ended
<1>2. ~Opening(k)
  BY DEF Opening
<1> QED
  BY <1>1, <1>2 DEF VerifyInv, Threads

\* While thread k is at work it is the only one, no scan has parted, no verdict is shown.
LEMMA AtWork ==
  ASSUME VerifyInv, NEW k \in Scans, ~Idle(k)
  PROVE  /\ running # NotRunning /\ running.scan = k
         /\ \A j \in Scans \ {k} : Idle(j) /\ tally[j] = NoTally
         /\ \A i \in 1..Len(inbox) : ~Parting(inbox[i])
         /\ panel.stats \notin {"PASS", "FAIL"}
<1>1. running.scan = k
  BY DEF VerifyInv, Threads
<1>2. running # NotRunning
  <2>1. k # 0 /\ NotRunning.scan = 0
    BY DEF Scans, NotRunning
  <2> QED
    BY <1>1, <2>1
<1>3. \A j \in Scans \ {k} : Idle(j) /\ tally[j] = NoTally
  BY <1>1 DEF VerifyInv, Threads
<1>4. \A i \in 1..Len(inbox) : ~Parting(inbox[i])
  <2>1. worker[k] # Ended
    BY DEF Idle
  <2> QED
    BY <1>1, <2>1 DEF VerifyInv, Messaged
<1>5. panel.stats \notin {"PASS", "FAIL"}
  BY <1>2 DEF VerifyInv, Shown
<1> QED
  BY <1>1, <1>2, <1>3, <1>4, <1>5

LEMMA NothingParted ==
  ASSUME UNCHANGED inbox, \A i \in 1..Len(inbox) : ~Parting(inbox[i])
  PROVE  Messaged'
<1>1. \A i \in 1..Len(inbox') : ~Parting(inbox'[i])
  OBVIOUS
<1> QED
  BY <1>1 DEF Messaged, Parting

LEMMA OneMore ==
  ASSUME inbox \in Seq(Messages), \A i \in 1..Len(inbox) : ~Parting(inbox[i]),
         NEW msg \in Messages, Sends(msg),
         Parting(msg) => worker'[running'.scan] = Ended,
         ~msg.failed /\ msg.report.end = "completed" => Judged(msg.report.totals)'
  PROVE  inbox' \in Seq(Messages) /\ Messaged'
<1> DEFINE n == Len(inbox)
<1>1. /\ inbox' \in Seq(Messages) /\ Len(inbox') = n + 1 /\ n \in Nat
      /\ (\A i \in 1..n : inbox'[i] = inbox[i]) /\ inbox'[n + 1] = msg
  <2>1. inbox' = Append(inbox, msg)
    BY DEF Sends
  <2> QED
    BY <2>1, Appended
<1> HIDE DEF n
<1>2. ASSUME NEW i \in 1..n
      PROVE  /\ ~Parting(inbox'[i])
             /\ ~(~inbox'[i].failed /\ inbox'[i].report.end = "completed")
  <2>1. ~Parting(inbox[i])
    BY DEF n
  <2>2. inbox'[i] = inbox[i]
    BY <1>1
  <2> QED
    BY <2>1, <2>2 DEF Parting
<1>3. \A i \in 1..(n + 1) : i = n + 1 \/ i \in 1..n
  BY <1>1
<1>4. Messaged'
  <2>1. ASSUME NEW i \in 1..(n + 1), NEW m, m = inbox'[i]
        PROVE  /\ Parting(m) => i = n + 1 /\ worker'[running'.scan] = Ended
               /\ ~m.failed /\ m.report.end = "completed" => Judged(m.report.totals)'
    <3>1. CASE i = n + 1
      <4>1. m = msg
        BY <1>1, <2>1, <3>1
      <4> QED
        BY <3>1, <4>1
    <3>2. CASE i \in 1..n
      BY <1>2, <2>1, <3>2
    <3> QED
      BY <1>3, <3>1, <3>2
  <2> QED
    BY <1>1, <2>1 DEF Messaged, Parting
<1> QED
  BY <1>1, <1>4

\* What the other threads are left with.
LEMMA OthersStay ==
  ASSUME VerifyInv, NEW k \in Scans, ~Idle(k), NEW w, worker' = [worker EXCEPT ![k] = w],
         NEW t \in Tallies, tally' = [tally EXCEPT ![k] = t]
  PROVE  /\ worker'[k] = w /\ tally'[k] = t /\ DOMAIN worker' = Scans
         /\ tally' \in [Scans -> Tallies]
         /\ \A j \in Scans \ {k} : (Idle(j) /\ tally[j] = NoTally)'
<1>1. DOMAIN worker = Scans /\ tally \in [Scans -> Tallies]
  BY DEF VerifyInv, Typed
<1>2. \A j \in Scans \ {k} : Idle(j) /\ tally[j] = NoTally
  BY AtWork
<1>3. worker'[k] = w /\ DOMAIN worker' = Scans /\ \A j \in Scans \ {k} : worker'[j] = worker[j]
  BY <1>1
<1>4. /\ tally'[k] = t /\ tally' \in [Scans -> Tallies]
      /\ \A j \in Scans \ {k} : tally'[j] = tally[j]
  BY <1>1
<1>5. ASSUME NEW j \in Scans \ {k} PROVE (Idle(j) /\ tally[j] = NoTally)'
  BY <1>2, <1>3, <1>4 DEF Idle
<1> QED
  BY <1>3, <1>4, <1>5

LEMMA OpenKeeps == ASSUME NEW k \in Scans PROVE VerifyInv /\ Open(k) => VerifyInv'
<1> SUFFICES ASSUME VerifyInv, Open(k) PROVE VerifyInv'
  OBVIOUS
<1>1. Opening(k) /\ running.scan = k /\ worker[k].pc = "open"
  BY PcOpen DEF Open
<1>2. Typed /\ ~Idle(k)
  <2>1. ~Idle(k)
    BY <1>1 DEF Idle, NoThread, Ended
  <2> QED
    BY <2>1 DEF VerifyInv
<1>3. /\ UNCHANGED <<disks, targets, selected, fields, running, cancelled, panel, plan, edits>>
      /\ UNCHANGED <<tally, trial>>
  BY DEF Open, idle
<1>4. PICK s : s = worker[k].setup
  OBVIOUS
<1>5. PICK m : m = disks[s.target.path]
  OBVIOUS
<1>6. PICK w \in Opened(k) : /\ worker' = [worker EXCEPT ![k] = w]
                             /\ (w = Ended /\ Sends(Failure)) \/ UNCHANGED inbox
  BY DEF Open
<1>7. Meant(s) /\ trial.met = <<>> /\ tally[k] = NoTally
  BY <1>1, <1>4 DEF Opening
<1>8. /\ running # NotRunning /\ panel.stats \notin {"PASS", "FAIL"}
      /\ \A i \in 1..Len(inbox) : ~Parting(inbox[i])
  BY <1>2, AtWork
<1>9. /\ worker'[k] = w /\ DOMAIN worker' = Scans
      /\ \A j \in Scans \ {k} : (Idle(j) /\ tally[j] = NoTally)'
  <2>1. tally' = [tally EXCEPT ![k] = NoTally]
    BY <1>2, <1>3, <1>7 DEF Typed
  <2> QED
    BY <1>2, <1>6, <2>1, NoTallyType, OthersStay
<1>10. w = Ended \/ (/\ m \in Media /\ s.pattern # <<>>
                     /\ w = [pc |-> "scan", setup |-> s, medium |-> m, range |-> 1, s |-> s.plan[1].start])
  <2>1. m \in Media \cup {NoMedium}
    BY <1>2, <1>5, <1>7 DEF Typed, Meant
  <2>2. Opened(k) = {Ended} \cup IF m = NoMedium \/ s.pattern = <<>> THEN {}
                                 ELSE {[pc |-> "scan", setup |-> s, medium |-> m, range |-> 1,
                                        s |-> s.plan[1].start]}
    BY <1>4, <1>5 DEF Opened
  <2> QED
    BY <2>1, <2>2
<1>11. inbox' \in Seq(Messages) /\ Messaged'
  <2>1. CASE w = Ended /\ Sends(Failure)
    <3>1. worker'[running'.scan] = Ended
      BY <1>1, <1>3, <1>9, <2>1
    <3>2. Failure \in Messages /\ Failure.failed = TRUE
      BY MessageType
    <3>3. inbox \in Seq(Messages)
      BY <1>2 DEF Typed
    <3>4. ~(~Failure.failed /\ Failure.report.end = "completed")
      BY <3>2
    <3> QED
      BY <1>8, <2>1, <3>1, <3>2, <3>3, <3>4, OneMore
  <2>2. CASE UNCHANGED inbox
    BY <1>2, <1>8, <2>2, NothingParted DEF Typed
  <2> QED
    BY <1>6, <2>1, <2>2
<1>12. Typed'
  BY <1>2, <1>3, <1>9, <1>11 DEF Typed
<1>13. TrialKept
  BY <1>3 DEF TrialKept
<1>14. Threads'
  <2>1. CASE w = Ended
    <3>1. (Idle(k) /\ tally[k] = NoTally)'
      BY <1>3, <1>7, <1>9, <2>1 DEF Idle
    <3> QED
      BY <1>9, <3>1 DEF Threads
  <2>2. CASE /\ m \in Media /\ s.pattern # <<>>
             /\ w = [pc |-> "scan", setup |-> s, medium |-> m, range |-> 1, s |-> s.plan[1].start]
    <3> DEFINE L == s.plan
               a == L[1].start
    <3>1. L \in Seq(Spans) /\ L # <<>> /\ Apart(L)
      BY <1>7 DEF Meant, PlanWell
    <3>2. 1 \in 1..Len(L) /\ Len(L) \in Nat
      <4> HIDE DEF L
      <4> QED
        BY <3>1
    <3>3. a \in Nat /\ L[1].end \in Nat /\ a < L[1].end
      BY <3>1, <3>2, SpanParts DEF Apart
    <3>4. w = ScanAt(s, m, 1, a)
      BY <2>2 DEF ScanAt
    <3>5. w.setup = s /\ w.medium = m /\ w.range = 1 /\ w.s = a
      <4> HIDE DEF a
      <4> QED
        BY <3>4, ScanAtFields
    <3>6. OnPlan(w)
      BY <3>2, <3>3, <3>5 DEF OnPlan
    <3>7. Behind(w) = {}
      <4>1. Behind(w) = CoveredTo(L, 1 - 1) \cup a..(a - 1)
        BY <3>5 DEF Behind
      <4> HIDE DEF L, a
      <4>2. CoveredTo(L, 1 - 1) = {}
        BY DEF CoveredTo
      <4>3. a..(a - 1) = {}
        BY <3>3
      <4> QED
        BY <4>1, <4>2, <4>3
    <3>8. (MetSectors = {} /\ Len(trial.met) = Cardinality(MetSectors) /\ AllRight)'
      <4>1. MetSectors' = {} /\ Len(trial'.met) = 0 /\ AllRight'
        BY <1>3, <1>7 DEF MetSectors, AllRight
      <4>2. Cardinality({}) = 0
        BY FS_EmptySet
      <4> QED
        BY <4>1, <4>2
    <3>9. Meant(s)'
      BY <1>7, <1>13, MeantSame
    <3>10. m \in Mediums
      BY <2>2, VerifyAssumption
    <3>11. (Bad(tally[k].totals) = 0)'
      BY <1>3, <1>7, NoTallyType
    <3>12. w = ScanAt(w.setup, w.medium, w.range, w.s)
      BY <3>4, <3>5
    <3>13. Scanning(k)'
      <4> HIDE DEF L, a
      <4> QED
        BY <1>9, <2>2, <3>5, <3>6, <3>7, <3>8, <3>9, <3>10, <3>11, <3>12 DEF Scanning
    <3>14. running'.scan = k
      BY <1>1, <1>3
    <3> QED
      BY <1>9, <3>13, <3>14 DEF Threads
  <2> QED
    BY <1>10, <2>1, <2>2
<1>15. Flight'
  <2>1. w # NoThread
    <3>1. w.pc \in {"scan", "ended"}
      BY <1>10 DEF Ended
    <3> QED
      BY <3>1 DEF NoThread
  <2> QED
    BY <1>1, <1>3, <1>8, <1>9, <2>1 DEF Flight
<1>16. Shown'
  BY <1>3, <1>8 DEF Shown
<1>17. NeverSkipped'
  BY <1>13, TrialSame DEF VerifyInv, NeverSkipped
<1> QED
  BY <1>11, <1>12, <1>14, <1>15, <1>16, <1>17 DEF VerifyInv

--------------------------------------------------------------------------------
(* A chunk.                                                                     *)

\* The plan of what the operator asked for is what he did not ask to skip.
LEMMA PlanIsPlanned ==
  ASSUME NEW s, Meant(s)
  PROVE  s.plan \in Seq(Spans) /\ Apart(s.plan) /\ Covered(s.plan) = Planned
         /\ Planned \cap Skipped = {}
<1>1. Covered(s.skips) = Skipped
  BY DEF Meant, SkipsWell, Named, Skipped
<1>2. s.plan \in Seq(Spans) /\ Apart(s.plan) /\ Covered(s.plan) = (0..(trial.total - 1)) \ Covered(s.skips)
  BY DEF Meant, PlanWell
<1>3. Covered(s.plan) = Planned
  BY <1>1, <1>2 DEF Planned
<1> QED
  BY <1>2, <1>3 DEF Planned

\* run asks for no more than a chunk, and not beyond the range.
LEMMA RequestFits ==
  ASSUME NEW w, w.setup.plan \in Seq(Spans), OnPlan(w), ~AtEnd(w)
  PROVE  /\ Request(w) \in Nat /\ 1 <= Request(w) /\ Request(w) <= ChunkSectors
         /\ w.s \in Nat /\ w.s + Request(w) <= w.setup.plan[w.range].end
<1> DEFINE e == w.setup.plan[w.range].end
           n == Request(w)
<1>1. w.range \in 1..Len(w.setup.plan) /\ w.s \in Nat
  BY DEF OnPlan
<1>2. e \in Nat /\ w.s < e
  BY <1>1, SpanParts DEF AtEnd
<1>3. n = IF ChunkSectors <= e - w.s THEN ChunkSectors ELSE e - w.s
  BY DEF Request, Least
<1>4. ChunkSectors \in Nat /\ 1 <= ChunkSectors
  BY ScanAssumption
<1> HIDE DEF e, n
<1>5. n \in Nat /\ 1 <= n /\ n <= ChunkSectors /\ w.s + n <= e
  BY <1>1, <1>2, <1>3, <1>4
<1> QED
  BY <1>1, <1>5 DEF e, n

\* What is met in a chunk: its sectors, once each.
MetMore(here, n, fine) ==
  /\ trial' \in Trials /\ trial'.total = trial.total /\ trial'.skips = trial.skips
  /\ MetSectors' = MetSectors \cup here /\ Len(trial'.met) = Len(trial.met) + n
  /\ (AllRight' <=> AllRight /\ fine)

LEMMA MetChunk ==
  ASSUME trial \in Trials, NEW w, NEW s \in Nat, w.s = s, NEW n \in Nat, NEW failed,
         Met(w, n, failed),
         \A i \in 1..n : Truth(w.medium, w.setup.pattern, s + i - 1, failed) \in Statuses
  PROVE  MetMore(s..(s + n - 1), n,
                 \A i \in 1..n : Truth(w.medium, w.setup.pattern, s + i - 1, failed) = "ok")
<1> DEFINE Tr(i) == Truth(w.medium, w.setup.pattern, s + i - 1, failed)
           new == [i \in 1..n |-> [sector |-> s + i - 1, status |-> Tr(i)]]
           old == trial.met
           all == old \o new
<1>1. trial' = [trial EXCEPT !.met = all]
  BY DEF Met
<1>2. \A i \in 1..n : [sector |-> s + i - 1, status |-> Tr(i)] \in Mets
  <2> TAKE i \in 1..n
  <2>1. s + i - 1 \in Nat /\ Tr(i) \in Statuses
    OBVIOUS
  <2> HIDE DEF Tr
  <2> QED
    BY <2>1 DEF Mets
<1> HIDE DEF Tr
<1>3. new \in [1..n -> Mets]
  BY <1>2
<1>4. new \in Seq(Mets) /\ Len(new) = n
  <2> HIDE DEF new
  <2> QED
    BY <1>3, Sequence
<1>5. old \in Seq(Mets)
  BY DEF Trials
<1>6. \A i \in 1..n : new[i].sector = s + i - 1 /\ new[i].status = Tr(i)
  OBVIOUS
<1> HIDE DEF new, old
<1>7. /\ all \in Seq(Mets) /\ Len(all) = Len(old) + n
      /\ SectorsOf(all) = SectorsOf(old) \cup SectorsOf(new)
      /\ (Right(all) <=> Right(old) /\ Right(new))
  BY <1>4, <1>5, Joined, MoreMet
<1>8. SectorsOf(new) = s..(s + n - 1)
  <2>1. SectorsOf(new) = {new[i].sector : i \in 1..n}
    BY <1>4 DEF SectorsOf
  <2>2. ASSUME NEW i \in 1..n PROVE new[i].sector \in s..(s + n - 1)
    BY <1>6
  <2>3. ASSUME NEW x \in s..(s + n - 1) PROVE \E i \in 1..n : x = new[i].sector
    <3> DEFINE i == x - s + 1
    <3>1. i \in 1..n /\ s + i - 1 = x
      OBVIOUS
    <3> HIDE DEF i
    <3> QED
      BY <1>6, <3>1
  <2> QED
    BY <2>1, <2>2, <2>3
<1>9. Right(new) <=> \A i \in 1..n : Tr(i) = "ok"
  BY <1>4, <1>6 DEF Right
<1> HIDE DEF all
<1>10. /\ trial' \in Trials /\ trial'.total = trial.total /\ trial'.skips = trial.skips
       /\ trial'.met = all
  BY <1>1, <1>7 DEF Trials
<1>11. MetSectors = SectorsOf(old) /\ (AllRight <=> Right(old))
  BY DEF MetSectors, AllRight, SectorsOf, Right, old
<1>12. MetSectors' = SectorsOf(all) /\ (AllRight' <=> Right(all))
  BY <1>10 DEF MetSectors, AllRight, SectorsOf, Right
<1> QED
  BY <1>7, <1>8, <1>9, <1>10, <1>11, <1>12 DEF MetMore, Tr, old

LEMMA CountedMore ==
  ASSUME NEW A, IsFiniteSet(A), NEW s \in Nat, NEW n \in Nat, A \cap s..(s + n - 1) = {}
  PROVE  Cardinality(A \cup s..(s + n - 1)) = Cardinality(A) + n
<1> DEFINE z == s + n - 1
           B == s..z
<1>1. z \in Int /\ (IF s > z THEN 0 ELSE z - s + 1) = n
  OBVIOUS
<1> HIDE DEF z
<1>2. IsFiniteSet(B) /\ Cardinality(B) = n
  BY <1>1, FS_Interval
<1>3. A \cap B = {}
  BY DEF z
<1> HIDE DEF B
<1>4. Cardinality(A \cup B) = Cardinality(A) + Cardinality(B) - Cardinality(A \cap B)
  BY <1>2, FS_Union
<1>5. Cardinality(A \cap B) = 0
  BY <1>3, FS_EmptySet
<1>6. Cardinality(A) \in Nat
  BY FS_CardinalityType
<1>7. Cardinality(A \cup B) = Cardinality(A) + n
  BY <1>2, <1>4, <1>5, <1>6
<1> QED
  BY <1>7 DEF B, z

\* Where the scan is after a chunk.
LEMMA ChunkScans ==
  ASSUME NEW k \in Scans, NEW w, NEW n \in Nat, NEW t, NEW fine,
         Meant(w.setup), w.setup.pattern # <<>>, w.medium \in Mediums, OnPlan(w),
         Moved(w, Advanced(w, n), n), w.s \in Nat,
         MetSectors = Behind(w), Len(trial.met) = Cardinality(MetSectors),
         MetMore(w.s..(w.s + n - 1), n, fine),
         (Bad(t.totals) = 0) <=> AllRight /\ fine,
         worker'[k] = Advanced(w, n), tally'[k].totals = t.totals
  PROVE  Scanning(k)'
<1> DEFINE v == Advanced(w, n)
           here == w.s..(w.s + n - 1)
<1>1. /\ v = ScanAt(w.setup, w.medium, v.range, v.s) /\ OnPlan(v)
      /\ Behind(v) = Behind(w) \cup here /\ Behind(w) \cap here = {}
  BY DEF Moved
<1>2. w.setup.plan \in Seq(Spans) /\ Apart(w.setup.plan)
  BY PlanIsPlanned
<1>3. IsFiniteSet(MetSectors)
  BY <1>2, BehindBelow
<1>4. Cardinality(MetSectors \cup here) = Cardinality(MetSectors) + n
  BY <1>1, <1>3, CountedMore
<1> HIDE DEF here
<1>5. /\ trial'.total = trial.total /\ trial'.skips = trial.skips
      /\ MetSectors' = MetSectors \cup here /\ Len(trial'.met) = Len(trial.met) + n
      /\ (AllRight' <=> AllRight /\ fine)
  BY DEF MetMore, here
<1> HIDE DEF v
<1>6. v.setup = w.setup /\ v.medium = w.medium
  BY <1>1, ScanAtFields
<1>7. Meant(w.setup)'
  <2> DEFINE s == w.setup
  <2>1. Meant(s)
    OBVIOUS
  <2> HIDE DEF s
  <2>2. Meant(s)'
    BY <1>5, <2>1 DEF Meant
  <2> QED
    BY <2>2 DEF s
<1>8. (MetSectors = Behind(v) /\ Len(trial.met) = Cardinality(MetSectors))'
  <2>1. MetSectors' = Behind(v) /\ Len(trial'.met) = Cardinality(MetSectors')
    BY <1>1, <1>4, <1>5
  <2> QED
    BY <2>1
<1>9. ((Bad(tally[k].totals) = 0) <=> AllRight)'
  <2>1. (Bad(tally'[k].totals) = 0) <=> AllRight'
    BY <1>5
  <2> QED
    BY <2>1 DEF Bad
<1>10. worker'[k] = v
  BY DEF v
<1>11. v = ScanAt(v.setup, v.medium, v.range, v.s)
  BY <1>1, <1>6
<1> QED
  BY <1>1, <1>6, <1>7, <1>8, <1>9, <1>10, <1>11 DEF Scanning

LEMMA ChunkKeeps == ASSUME NEW k \in Scans PROVE VerifyInv /\ Chunk(k) => VerifyInv'
<1> SUFFICES ASSUME VerifyInv, Chunk(k) PROVE VerifyInv'
  OBVIOUS
<1>1. PICK w : w = worker[k]
  OBVIOUS
<1>2. PICK n : n = Request(w)
  OBVIOUS
<1>3. worker[k].pc = "scan" /\ ~AtEnd(w)
  BY <1>1 DEF Chunk, Reading
<1>4. Scanning(k) /\ running.scan = k
  BY <1>3, PcScan
<1>5. ~Idle(k)
  BY <1>3 DEF Idle, NoThread, Ended
<1>6. /\ running # NotRunning /\ (\A i \in 1..Len(inbox) : ~Parting(inbox[i]))
      /\ panel.stats \notin {"PASS", "FAIL"}
  BY <1>5, AtWork
<1>7. /\ w = ScanAt(w.setup, w.medium, w.range, w.s)
      /\ Meant(w.setup) /\ w.setup.pattern # <<>> /\ w.medium \in Mediums
      /\ OnPlan(w) /\ MetSectors = Behind(w)
      /\ Len(trial.met) = Cardinality(MetSectors)
      /\ (Bad(tally[k].totals) = 0) <=> AllRight
  BY <1>1, <1>4 DEF Scanning
<1>8. w.setup.plan \in Seq(Spans) /\ Apart(w.setup.plan) /\ Covered(w.setup.plan) = Planned
      /\ Planned \cap Skipped = {}
  BY <1>7, PlanIsPlanned
<1>9. /\ n \in Nat /\ 1 <= n /\ n <= ChunkSectors /\ w.s \in Nat
      /\ w.s + n <= w.setup.plan[w.range].end
  BY <1>2, <1>3, <1>7, <1>8, RequestFits
<1>10. Moved(w, Advanced(w, n), n)
  BY <1>7, <1>8, <1>9, AdvancedMoves
<1>11. Typed /\ tally[k] \in Tallies /\ inbox \in Seq(Messages) /\ trial \in Trials
  BY DEF VerifyInv, Typed
<1>12. UNCHANGED <<disks, targets, selected, fields, running, cancelled, panel, plan, edits>>
       /\ worker' = [worker EXCEPT ![k] = Advanced(w, n)]
  BY <1>1, <1>2 DEF Chunk, idle
<1> DEFINE here == w.s..(w.s + n - 1)
           Taken(again, failed) ==
             IF again THEN BySector(tally[k], w.medium, w.setup.pattern, w.s, n, failed)
             ELSE ReadWhole(tally[k], w.medium, w.setup.pattern, w.s, n)
<1>13. PICK failed \in SUBSET here, again \in BOOLEAN :
         /\ failed # {} => again
         /\ \A s \in here : Fails(w.medium, s) => s \in failed
         /\ Met(w, n, failed)
         /\ \/ /\ Sends(Reported(Emitted(Taken(again, failed), w.s + n)))
               /\ tally' = [tally EXCEPT ![k] = [Taken(again, failed) EXCEPT !.report = NoReport]]
            \/ tally' = [tally EXCEPT ![k] = Taken(again, failed)] /\ UNCHANGED inbox
  BY <1>1, <1>2 DEF Chunk
<1> DEFINE u == Taken(again, failed)
           fine == \A i \in 1..n : Truth(w.medium, w.setup.pattern, w.s + i - 1, failed) = "ok"
<1>14. TurnWell(u, tally[k], w.medium, w.setup.pattern, w.s, n, failed)
  <2> DEFINE was == tally[k]
             m == w.medium
             p == w.setup.pattern
             s == w.s
  <2>1. was \in Tallies /\ m \in Mediums /\ p \in Seq(Nat) /\ p # <<>> /\ s \in Nat
    BY <1>7, <1>9, <1>11 DEF Meant
  <2>2. \A x \in s..(s + n - 1) : Fails(m, x) => x \in failed
    BY <1>13
  <2> HIDE DEF was, m, p, s
  <2>3. TurnWell(IF again THEN BySector(was, m, p, s, n, failed) ELSE ReadWhole(was, m, p, s, n),
                 was, m, p, s, n, failed)
    BY <1>9, <1>13, <2>1, <2>2, TurnCounts
  <2> QED
    BY <2>3 DEF was, m, p, s
<1> HIDE DEF Taken
<1>15. PICK t : t = u
  OBVIOUS
<1>16. /\ t \in Tallies
       /\ (Bad(t.totals) = 0) <=> Bad(tally[k].totals) = 0 /\ fine
       /\ \A i \in 1..n : Truth(w.medium, w.setup.pattern, w.s + i - 1, failed) \in Statuses
  BY <1>14, <1>15 DEF TurnWell
<1>17. MetMore(here, n, fine)
  BY <1>9, <1>11, <1>13, <1>16, MetChunk
<1> HIDE DEF fine, u
<1>18. (Bad(t.totals) = 0) <=> AllRight /\ fine
  BY <1>7, <1>16
<1>19. PICK rest \in Tallies : rest.totals = t.totals /\ tally' = [tally EXCEPT ![k] = rest]
  <2> DEFINE e == [t EXCEPT !.report = NoReport]
  <2>1. e \in Tallies /\ e.totals = t.totals
    BY <1>16, NoTallyType DEF Tallies
  <2>2. tally' = [tally EXCEPT ![k] = e] \/ tally' = [tally EXCEPT ![k] = t]
    BY <1>13, <1>15 DEF u
  <2> HIDE DEF e
  <2> QED
    BY <1>16, <2>1, <2>2
<1>20. inbox' \in Seq(Messages) /\ Messaged'
  <2>1. CASE UNCHANGED inbox
    BY <1>6, <1>11, <2>1, NothingParted
  <2>2. CASE ~UNCHANGED inbox
    <3>1. PICK msg : msg = Reported(Emitted(t, w.s + n)) /\ Sends(msg)
      BY <1>13, <1>15, <2>2 DEF u
    <3>2. w.s + n \in Nat
      BY <1>9
    <3> DEFINE r == Emitted(t, w.s + n)
    <3>3. r \in Reports /\ r.end = "none"
      BY <1>16, <3>2, EmittedType
    <3> HIDE DEF r
    <3>4. msg \in Messages /\ msg.failed = FALSE /\ msg.report = r
      BY <3>1, <3>3, MessageType DEF r
    <3>5. ~Parting(msg) /\ msg.report.end # "completed"
      BY <3>3, <3>4 DEF Parting
    <3> QED
      BY <1>6, <1>11, <3>1, <3>4, <3>5, OneMore
  <2> QED
    BY <2>1, <2>2
<1>21. PICK v : v = Advanced(w, n)
  OBVIOUS
<1>22. /\ worker'[k] = v /\ tally'[k] = rest /\ DOMAIN worker' = Scans
       /\ tally' \in [Scans -> Tallies]
       /\ \A j \in Scans \ {k} : (Idle(j) /\ tally[j] = NoTally)'
  BY <1>5, <1>12, <1>19, <1>21, OthersStay
<1>23. Scanning(k)'
  <2>1. worker'[k] = Advanced(w, n) /\ tally'[k].totals = t.totals
    BY <1>19, <1>21, <1>22
  <2> QED
    BY <1>7, <1>9, <1>10, <1>17, <1>18, <2>1, ChunkScans
<1>24. Threads'
  BY <1>4, <1>12, <1>22, <1>23 DEF Threads
<1>25. Typed'
  BY <1>11, <1>12, <1>17, <1>20, <1>22 DEF Typed, MetMore
<1>26. Flight'
  <2>1. v # NoThread
    <3>1. v = ScanAt(w.setup, w.medium, v.range, v.s)
      BY <1>10, <1>21 DEF Moved
    <3>2. v.pc = "scan"
      BY <3>1, ScanAtFields
    <3> QED
      BY <3>2 DEF NoThread
  <2> QED
    BY <1>4, <1>6, <1>12, <1>22, <2>1 DEF Flight
<1>27. Shown'
  BY <1>6, <1>12 DEF Shown
<1>28. NeverSkipped'
  <2>1. Skipped' = Skipped /\ MetSectors' = MetSectors \cup here
    BY <1>17 DEF MetMore, Skipped
  <2>2. here \cap Skipped = {}
    BY <1>8, <1>10 DEF Moved
  <2> QED
    BY <2>1, <2>2 DEF VerifyInv, NeverSkipped
<1> QED
  BY <1>20, <1>24, <1>25, <1>26, <1>27, <1>28 DEF VerifyInv

--------------------------------------------------------------------------------
(* The last report, and what the application makes of a report.                 *)

LEMMA FinishKeeps == ASSUME NEW k \in Scans PROVE VerifyInv /\ Finish(k) => VerifyInv'
<1> SUFFICES ASSUME VerifyInv, Finish(k) PROVE VerifyInv'
  OBVIOUS
<1>1. PICK w : w = worker[k]
  OBVIOUS
<1>2. worker[k].pc = "scan" /\ UNCHANGED <<disks, targets, selected, fields, running, cancelled,
                                           panel, plan, edits, trial>>
      /\ worker' = [worker EXCEPT ![k] = Ended] /\ tally' = [tally EXCEPT ![k] = NoTally]
  BY DEF Finish, idle
<1>3. Scanning(k) /\ running.scan = k
  BY <1>2, PcScan
<1>4. ~Idle(k)
  BY <1>2 DEF Idle, NoThread, Ended
<1>5. /\ running # NotRunning /\ (\A i \in 1..Len(inbox) : ~Parting(inbox[i]))
      /\ panel.stats \notin {"PASS", "FAIL"}
  BY <1>4, AtWork
<1>6. /\ Meant(w.setup) /\ OnPlan(w) /\ MetSectors = Behind(w)
      /\ Len(trial.met) = Cardinality(MetSectors)
      /\ (Bad(tally[k].totals) = 0) <=> AllRight
  BY <1>1, <1>3 DEF Scanning
<1>7. Typed /\ tally[k] \in Tallies /\ inbox \in Seq(Messages)
  BY DEF VerifyInv, Typed
<1>8. /\ worker'[k] = Ended /\ tally'[k] = NoTally /\ DOMAIN worker' = Scans
      /\ tally' \in [Scans -> Tallies]
      /\ \A j \in Scans \ {k} : (Idle(j) /\ tally[j] = NoTally)'
  BY <1>2, <1>4, NoTallyType, OthersStay
<1>9. TrialKept
  BY <1>2 DEF TrialKept
<1>10. PICK t : t = tally[k]
  OBVIOUS
<1>11. PICK at : at = Last(w.setup.plan).end
  OBVIOUS
<1>12. at \in Nat
  <2>1. w.setup.plan \in Seq(Spans) /\ w.setup.plan # <<>>
    BY <1>6, PlanIsPlanned DEF Meant
  <2> DEFINE p == w.setup.plan
             l == Last(p)
  <2> HIDE DEF p
  <2>2. l \in Spans
    BY <2>1, Fronted DEF p
  <2> HIDE DEF l
  <2>3. l.end \in Nat
    BY <2>2, SectorsIs
  <2> QED
    BY <1>11, <2>3 DEF l, p
<1>13. PICK e \in {"completed", "cancelled"} :
         e = (IF AtEnd(w) THEN "completed" ELSE "cancelled")
  OBVIOUS
<1>14. PICK r : r = [Emitted(t, at) EXCEPT !.end = e]
  OBVIOUS
<1>15. Sends(Reported(r))
  BY <1>1, <1>10, <1>11, <1>13, <1>14 DEF Finish
<1>16. r \in Reports /\ r.end = e /\ r.totals = t.totals
  <2>1. t \in Tallies
    BY <1>7, <1>10
  <2>2. \A f \in {"completed", "cancelled"} :
          /\ [Emitted(t, at) EXCEPT !.end = f] \in Reports
          /\ [Emitted(t, at) EXCEPT !.end = f].end = f
          /\ [Emitted(t, at) EXCEPT !.end = f].totals = t.totals
    BY <1>12, <2>1, EmittedType
  <2> QED
    BY <1>14, <2>2
<1>17. e = "completed" => Judged(r.totals)'
  <2> SUFFICES ASSUME e = "completed" PROVE Judged(r.totals)'
    OBVIOUS
  <2>1. AtEnd(w)
    BY <1>13
  <2>2. w.setup.plan \in Seq(Spans) /\ Covered(w.setup.plan) = Planned
    BY <1>6, PlanIsPlanned
  <2>3. MetSectors = Planned
    BY <1>6, <2>1, <2>2, AllBehind
  <2>4. (Bad(r.totals) = 0) <=> AllRight
    BY <1>6, <1>10, <1>16
  <2>5. MetSectors' = MetSectors /\ Planned' = Planned /\ (AllRight' <=> AllRight)
    BY <1>9, TrialSame
  <2> QED
    BY <1>6, <1>9, <2>3, <2>4, <2>5 DEF Judged, TrialKept
<1>18. PICK msg : msg = Reported(r)
  OBVIOUS
<1>19. msg \in Messages /\ msg.failed = FALSE /\ msg.report = r
  BY <1>16, <1>18, MessageType
<1>20. inbox' \in Seq(Messages) /\ Messaged'
  <2>1. worker'[running'.scan] = Ended
    BY <1>2, <1>3, <1>8
  <2>2. Sends(msg)
    BY <1>15, <1>18
  <2>3. msg.report.end = "completed" => Judged(msg.report.totals)'
    BY <1>16, <1>17, <1>19
  <2> QED
    BY <1>5, <1>7, <1>19, <2>1, <2>2, <2>3, OneMore
<1>21. Threads'
  <2>1. (Idle(k) /\ tally[k] = NoTally)'
    BY <1>8 DEF Idle
  <2> QED
    BY <1>8, <2>1 DEF Threads
<1>22. Typed'
  BY <1>2, <1>7, <1>8, <1>20 DEF Typed
<1>23. Flight'
  <2>1. Ended # NoThread
    <3>1. Ended.pc = "ended" /\ NoThread.pc = "none"
      BY DEF Ended, NoThread
    <3> QED
      BY <3>1
  <2> QED
    BY <1>2, <1>3, <1>5, <1>8, <2>1 DEF Flight
<1>24. Shown'
  BY <1>2, <1>5 DEF Shown
<1>25. NeverSkipped'
  BY <1>9, TrialSame DEF VerifyInv, NeverSkipped
<1> QED
  BY <1>20, <1>21, <1>22, <1>23, <1>24, <1>25 DEF VerifyInv

\* When the thread of the scan has ended, every thread is idle.
LEMMA AllIdle ==
  ASSUME VerifyInv, worker[running.scan] = Ended
  PROVE  \A k \in Scans : Idle(k) /\ tally[k] = NoTally
<1> SUFFICES ASSUME NEW k \in Scans, ~(Idle(k) /\ tally[k] = NoTally) PROVE FALSE
  OBVIOUS
<1>1. running.scan = k /\ (Opening(k) \/ Scanning(k))
  BY DEF VerifyInv, Threads
<1>2. worker[k] = Ended
  BY <1>1
<1>3. Idle(k)
  BY <1>2 DEF Idle
<1>4. CASE Opening(k)
  <2>1. worker[k].pc = "open"
    BY <1>4 DEF Opening
  <2> QED
    BY <1>2, <2>1 DEF Ended
<1>5. CASE Scanning(k)
  <2>1. PICK w : w = worker[k]
    OBVIOUS
  <2>2. w = ScanAt(w.setup, w.medium, w.range, w.s)
    BY <1>5, <2>1 DEF Scanning
  <2>3. w.pc = "scan"
    BY <2>2, ScanAtFields
  <2> QED
    BY <1>2, <2>1, <2>3 DEF Ended
<1> QED
  BY <1>1, <1>4, <1>5

\* The scan is over, and every thread with it.
LEMMA OverKeeps ==
  ASSUME VerifyInv, TrialKept, Typed', UNCHANGED <<worker, tally>>, running' = NotRunning,
         worker[running.scan] = Ended, inbox' = <<>>, Shown'
  PROVE  VerifyInv'
<1>1. \A k \in Scans : Idle(k) /\ tally[k] = NoTally
  BY AllIdle
<1>2. Threads'
  <2>1. ASSUME NEW k \in Scans PROVE (Idle(k) /\ tally[k] = NoTally)'
    BY <1>1 DEF Idle
  <2> QED
    BY <2>1 DEF Threads
<1>3. Flight'
  BY DEF Flight
<1>4. Messaged'
  BY DEF Messaged
<1>5. NeverSkipped'
  BY TrialSame DEF VerifyInv, NeverSkipped
<1> QED
  BY <1>2, <1>3, <1>4, <1>5 DEF VerifyInv

\* The window after a report.
LEMMA AppliedShows ==
  ASSUME NEW r \in Reports, panel' = Applied(r)
  PROVE  /\ {"map", "stats", "button"} \subseteq DOMAIN panel'
         /\ panel'.stats = IF r.end = "none" THEN "scanning" ELSE Verdict(r)
<1> DEFINE issues == SubSeq(panel.issues \o r.issues, 1,
                            Least(MAX_ISSUES, Len(panel.issues) + Len(r.issues)))
           unlisted == Most(0, Bad(r.totals) - Len(issues))
           cells == AllMarked(panel.map, r.done)
           rows == IF r.issues # <<>> \/ r.end # "none" THEN Len(issues) + unlisted ELSE panel.rows
           skipped == SectorsAt(targets, selected) - running.planned
           stats == IF r.end = "none" THEN "scanning" ELSE Verdict(r)
           button == IF r.end = "none" THEN panel.button ELSE "Start"
<1>1. panel' = [map |-> cells, issues |-> issues, unlisted |-> unlisted, rows |-> rows,
                totals |-> r.totals, skipped |-> skipped, stats |-> stats, button |-> button]
  BY DEF Applied
<1> HIDE DEF issues, unlisted, cells, rows, skipped, stats, button
<1>2. {"map", "stats", "button"} \subseteq DOMAIN panel' /\ panel'.stats = stats
  BY <1>1
<1> QED
  BY <1>2 DEF stats

\* A report on the way leaves the scan where it is.
LEMMA ReportKeeps ==
  ASSUME VerifyInv, TrialKept, Typed', UNCHANGED <<worker, running, tally, trial>>,
         panel'.stats = "scanning", NEW c \in Nat \ {0}, c = Len(inbox), Len(inbox') = c - 1,
         \A i \in 1..(c - 1) : inbox'[i] = inbox[i + 1], running # NotRunning
  PROVE  VerifyInv'
<1>1. MetSectors' = MetSectors /\ Planned' = Planned /\ (AllRight' <=> AllRight)
  BY TrialSame
<1>2. Threads'
  <2> SUFFICES ASSUME NEW k \in Scans
               PROVE  (\/ Idle(k) /\ tally[k] = NoTally
                       \/ Opening(k) /\ running.scan = k
                       \/ Scanning(k) /\ running.scan = k)'
    BY DEF Threads
  <2>1. CASE Idle(k) /\ tally[k] = NoTally
    BY <2>1 DEF Idle
  <2>2. CASE Opening(k) /\ running.scan = k
    BY <2>2 DEF Opening, Meant
  <2>3. CASE Scanning(k) /\ running.scan = k
    <3>1. PICK w : w = worker[k]
      OBVIOUS
    <3>2. Meant(w.setup)'
      BY <2>3, <3>1 DEF Scanning, Meant
    <3> QED
      BY <1>1, <2>3, <3>1, <3>2 DEF Scanning
  <2>4. \/ Idle(k) /\ tally[k] = NoTally
        \/ Opening(k) /\ running.scan = k
        \/ Scanning(k) /\ running.scan = k
    BY DEF VerifyInv, Threads
  <2> QED
    BY <2>1, <2>2, <2>3, <2>4
<1>3. Flight'
  BY DEF VerifyInv, Flight
<1>4. Messaged'
  <2>1. ASSUME NEW i \in 1..(c - 1)
        PROVE  /\ Parting(inbox'[i]) => i = c - 1 /\ worker[running.scan] = Ended
               /\ ~inbox'[i].failed /\ inbox'[i].report.end = "completed"
                    => Judged(inbox'[i].report.totals)
    <3>1. i + 1 \in 1..c /\ inbox'[i] = inbox[i + 1]
      OBVIOUS
    <3>2. PICK j \in 1..c : j = i + 1
      BY <3>1
    <3>3. /\ Parting(inbox[j]) => j = c /\ worker[running.scan] = Ended
          /\ ~inbox[j].failed /\ inbox[j].report.end = "completed"
               => Judged(inbox[j].report.totals)
      BY DEF VerifyInv, Messaged
    <3>4. inbox'[i] = inbox[j] /\ (j = c => i = c - 1)
      BY <3>1, <3>2
    <3> QED
      BY <3>3, <3>4
  <2>2. ASSUME NEW t, Judged(t) PROVE Judged(t)'
    BY <1>1, <2>2 DEF Judged, TrialKept
  <2>3. ASSUME NEW i \in 1..(c - 1), NEW m, m = inbox'[i]
        PROVE  /\ Parting(m) => i = c - 1 /\ worker'[running'.scan] = Ended
               /\ ~m.failed /\ m.report.end = "completed" => Judged(m.report.totals)'
    <3>1. /\ Parting(m) => i = c - 1 /\ worker[running.scan] = Ended
          /\ ~m.failed /\ m.report.end = "completed" => Judged(m.report.totals)
      BY <2>1, <2>3
    <3>2. Judged(m.report.totals) => Judged(m.report.totals)'
      BY <2>2
    <3> QED
      BY <3>1, <3>2
  <2> QED
    BY <2>3 DEF Messaged, Parting
<1>5. Shown'
  BY DEF Shown
<1>6. NeverSkipped'
  BY TrialSame DEF VerifyInv, NeverSkipped
<1> QED
  BY <1>2, <1>3, <1>4, <1>5, <1>6 DEF VerifyInv

LEMMA DeliverKeeps == VerifyInv /\ Deliver => VerifyInv'
<1> SUFFICES ASSUME VerifyInv, Deliver PROVE VerifyInv'
  OBVIOUS
<1>1. /\ inbox # <<>> /\ inbox' = Tail(inbox)
      /\ UNCHANGED <<disks, targets, selected, fields, cancelled, worker, tally, plan, edits, trial>>
  BY DEF Deliver
<1>2. Typed /\ inbox \in Seq(Messages)
  BY DEF VerifyInv, Typed
<1>3. PICK msg : msg = Head(inbox)
  OBVIOUS
<1>4. PICK c : c = Len(inbox)
  OBVIOUS
<1>5. /\ c \in Nat \ {0} /\ msg = inbox[1] /\ msg \in Messages
      /\ inbox' \in Seq(Messages) /\ Len(inbox') = c - 1
      /\ \A i \in 1..(c - 1) : inbox'[i] = inbox[i + 1]
  BY <1>1, <1>2, <1>3, <1>4
<1>6. running # NotRunning
  BY <1>1 DEF VerifyInv, Flight
<1>7. Parting(msg) => inbox' = <<>> /\ worker[running.scan] = Ended
  <2> SUFFICES ASSUME Parting(msg) PROVE inbox' = <<>> /\ worker[running.scan] = Ended
    OBVIOUS
  <2>1. 1 = c /\ worker[running.scan] = Ended
    BY <1>4, <1>5 DEF VerifyInv, Messaged
  <2> QED
    BY <1>5, <2>1
<1>8. TrialKept
  BY <1>1 DEF TrialKept
<1>9. /\ MetSectors' = MetSectors /\ Planned' = Planned /\ (AllRight' <=> AllRight)
  BY <1>8, TrialSame
<1>10. CASE msg.failed
  <2>1. running' = NotRunning /\ panel' = [panel EXCEPT !.button = "Start", !.stats = "failed"]
    BY <1>3, <1>10 DEF Deliver
  <2>2. {"map", "stats", "button"} \subseteq DOMAIN panel' /\ panel'.stats = "failed"
    BY <1>2, <2>1 DEF Typed
  <2>3. Typed'
    BY <1>1, <1>2, <1>5, <2>2 DEF Typed
  <2>4. Shown'
    BY <2>2 DEF Shown
  <2>5. Parting(msg)
    BY <1>10 DEF Parting
  <2> QED
    BY <1>1, <1>7, <1>8, <2>1, <2>3, <2>4, <2>5, OverKeeps
<1>11. CASE ~msg.failed
  <2>1. PICK r : r = msg.report
    OBVIOUS
  <2>2. r \in Reports /\ msg.failed = FALSE
    BY <1>5, <1>11, <2>1 DEF Messages
  <2>3. panel' = Applied(r) /\ running' = (IF r.end = "none" THEN running ELSE NotRunning)
    BY <1>3, <1>6, <1>11, <2>1 DEF Deliver
  <2>4. /\ {"map", "stats", "button"} \subseteq DOMAIN panel'
        /\ panel'.stats = IF r.end = "none" THEN "scanning" ELSE Verdict(r)
    BY <2>2, <2>3, AppliedShows
  <2>5. Typed'
    BY <1>1, <1>2, <1>5, <2>4 DEF Typed
  <2>6. CASE r.end = "none"
    <3>1. UNCHANGED <<worker, running, tally, trial>> /\ panel'.stats = "scanning"
      BY <1>1, <2>3, <2>4, <2>6
    <3> QED
      BY <1>1, <1>4, <1>5, <1>6, <1>8, <2>5, <3>1, ReportKeeps
  <2>7. CASE r.end # "none"
    <3>1. Parting(msg)
      BY <2>1, <2>7 DEF Parting
    <3>2. Shown'
      <4>1. CASE r.end = "completed"
        <5>1. Judged(r.totals)
          BY <1>4, <1>5, <2>1, <2>2, <4>1 DEF VerifyInv, Messaged
        <5>2. panel'.stats = IF Bad(r.totals) = 0 THEN "PASS" ELSE "FAIL"
          BY <2>4, <4>1 DEF Verdict
        <5>3. (panel'.stats = "PASS") <=> AllRight
          BY <5>1, <5>2 DEF Judged
        <5> QED
          BY <1>1, <1>9, <2>3, <2>7, <5>1, <5>3 DEF Shown, Judged
      <4>2. CASE r.end = "cancelled"
        <5>1. panel'.stats = "stopped"
          BY <2>4, <4>2 DEF Verdict
        <5> QED
          BY <5>1 DEF Shown
      <4> QED
        BY <2>2, <2>7, <4>1, <4>2 DEF Reports
    <3>3. running' = NotRunning
      BY <2>3, <2>7
    <3> QED
      BY <1>1, <1>7, <1>8, <2>5, <3>1, <3>2, <3>3, OverKeeps
  <2> QED
    BY <2>6, <2>7
<1> QED
  BY <1>10, <1>11

--------------------------------------------------------------------------------
\* The invariant holds in every state.
THEOREM VerifyInvariant == VerifySpec => []VerifyInv
<1>1. VerifyInit => VerifyInv
  BY VerifyStarts
<1>2. VerifyInv /\ [VerifyNext]_verifyVars => VerifyInv'
  <2> SUFFICES ASSUME VerifyInv, [VerifyNext]_verifyVars PROVE VerifyInv'
    OBVIOUS
  <2>1. CASE Select
    BY <2>1, SelectKeeps
  <2>2. CASE Type
    BY <2>2, TypeKeeps
  <2>3. CASE Rescan
    BY <2>3, RescanKeeps
  <2>4. CASE Swap
    BY <2>4, SwapKeeps
  <2>5. ASSUME NEW k \in Scans, Start(k) PROVE VerifyInv'
    BY <2>5, StartKeeps
  <2>6. CASE Stop
    BY <2>6, StopKeeps
  <2>7. ASSUME NEW k \in Scans, Open(k) PROVE VerifyInv'
    BY <2>7, OpenKeeps
  <2>8. ASSUME NEW k \in Scans, Chunk(k) PROVE VerifyInv'
    BY <2>8, ChunkKeeps
  <2>9. ASSUME NEW k \in Scans, Finish(k) PROVE VerifyInv'
    BY <2>9, FinishKeeps
  <2>10. CASE Deliver
    BY <2>10, DeliverKeeps
  <2>11. CASE UNCHANGED verifyVars
    <3>1. UNCHANGED <<disks, targets, selected, fields, running, worker, tally, inbox, panel, trial>>
      BY <2>11 DEF verifyVars
    <3>2. Typed
      BY DEF VerifyInv
    <3>3. Typed'
      BY <3>1, <3>2 DEF Typed
    <3>4. TrialKept
      BY <3>1 DEF TrialKept
    <3> QED
      BY <3>1, <3>3, <3>4, QuietStep
  <2> QED
    BY <2>1, <2>2, <2>3, <2>4, <2>5, <2>6, <2>7, <2>8, <2>9, <2>10, <2>11 DEF VerifyNext
<1> QED
  BY <1>1, <1>2, PTL DEF VerifySpec

\* A PASS means that every sector that was to be read was, and holds the pattern;
\* a FAIL that all were read and one does not; what was skipped is not read.
THEOREM VerdictHolds == VerifySpec => []VerdictIsTrue
<1>1. VerifyInv => VerdictIsTrue
  <2> SUFFICES ASSUME VerifyInv PROVE VerdictIsTrue
    OBVIOUS
  <2>1. MetSectors \cap Skipped = {}
    BY DEF VerifyInv, NeverSkipped
  <2>2. PICK c : c = Len(trial.met)
    OBVIOUS
  <2>3. trial.met \in Seq(Mets) /\ c \in 0..Len(trial.met)
    <3>1. trial.met \in Seq(Mets)
      BY DEF VerifyInv, Typed, Trials
    <3> QED
      BY <2>2, <3>1
  <2>4. (BadAmong(c) = <<>>) <=> AllRight
    BY <2>2, <2>3, NoBad DEF AllRight
  <2>5. Shown
    BY DEF VerifyInv
  <2> QED
    BY <2>1, <2>2, <2>4, <2>5 DEF VerdictIsTrue, Shown
<1> QED
  BY <1>1, VerifyInvariant, PTL

--------------------------------------------------------------------------------
(* What the reports tell of what was met.                                       *)

\* BadIn, one sector more.
BadNext(M) ==
  /\ BadIn(M, 0) = <<>>
  /\ \A k \in 0..Len(M) : BadIn(M, k) \in Seq(Mets)
  /\ \A k \in 1..Len(M) : BadIn(M, k) = IF M[k].status = "ok" THEN BadIn(M, k - 1)
                                        ELSE Append(BadIn(M, k - 1), M[k])

LEMMA BadNexts ==
  ASSUME NEW M \in Seq(Mets)
  PROVE  BadNext(M)
<1> DEFINE More(x, k) == IF M[k].status = "ok" THEN x ELSE Append(x, M[k])
           B(k) == BadIn(M, k)
<1>1. PICK n \in Nat : n = Len(M)
  OBVIOUS
<1>2. PICK F \in [0..n -> Seq(Mets)] : F[0] = <<>> /\ \A k \in 1..n : F[k] = More(F[k - 1], k)
  <2>1. n \in 0..Len(M)
    BY <1>1
  <2> QED
    BY <2>1, BadSteps
<1>3. ASSUME NEW c \in 0..n PROVE B(c) = F[c]
  <2>1. PICK f \in [0..c -> Seq(Mets)] :
          f[0] = <<>> /\ (\A k \in 1..c : f[k] = More(f[k - 1], k)) /\ B(c) = f[c]
    BY <1>1, BadSteps
  <2> HIDE DEF More, B
  <2> DEFINE S == {k \in 0..c : f[k] = F[k]}
  <2>2. 0 \in S
    BY <1>2, <2>1
  <2>3. \A k \in 0..(c - 1) : k \in S => k + 1 \in S
    <3> TAKE k \in 0..(c - 1)
    <3> HAVE k \in S
    <3>1. k + 1 \in 1..c /\ k + 1 \in 1..n /\ k + 1 \in 0..c /\ k + 1 - 1 = k /\ f[k] = F[k]
      BY <1>3
    <3>2. PICK j \in 1..c : j = k + 1 /\ j - 1 = k /\ j \in 1..n /\ j \in 0..c
      BY <3>1
    <3>3. f[j] = More(f[j - 1], j) /\ F[j] = More(F[j - 1], j)
      BY <1>2, <2>1, <3>2
    <3>4. f[j] = F[j]
      BY <3>1, <3>2, <3>3
    <3> QED
      BY <3>2, <3>4
  <2> HIDE DEF S
  <2>4. c \in 0..c /\ c \in Nat
    BY <1>3
  <2>5. c \in S
    BY <2>2, <2>3, <2>4, UpTo
  <2> QED
    BY <2>1, <2>5 DEF S
<1> HIDE DEF More, B
<1>4. B(0) = <<>> /\ \A k \in 0..n : B(k) \in Seq(Mets)
  BY <1>2, <1>3
<1>5. ASSUME NEW k \in 1..n PROVE B(k) = More(B(k - 1), k)
  <2>1. k \in 0..n /\ k - 1 \in 0..n
    OBVIOUS
  <2>2. B(k) = F[k] /\ B(k - 1) = F[k - 1]
    BY <1>3, <2>1
  <2> QED
    BY <1>2, <2>2
<1> QED
  BY <1>1, <1>4, <1>5 DEF BadNext, B, More

\* What comes later changes nothing.
LEMMA BadBefore ==
  ASSUME NEW M \in Seq(Mets), NEW N \in Seq(Mets), NEW c \in 0..Len(M)
  PROVE  BadIn(M \o N, c) = BadIn(M, c)
<1> DEFINE J == M \o N
           S == {k \in 0..c : BadIn(J, k) = BadIn(M, k)}
<1>1. J \in Seq(Mets) /\ Len(J) \in Nat /\ Len(M) \in Nat /\ Len(M) <= Len(J)
      /\ \A k \in 1..Len(M) : J[k] = M[k]
  BY Joined
<1>2. BadNext(J) /\ BadNext(M)
  BY <1>1, BadNexts
<1> HIDE DEF J
<1>3. 0 \in S
  BY <1>2 DEF BadNext
<1>4. \A k \in 0..(c - 1) : k \in S => k + 1 \in S
  <2> TAKE k \in 0..(c - 1)
  <2> HAVE k \in S
  <2>1. k + 1 \in 1..Len(M) /\ k + 1 \in 1..Len(J) /\ k + 1 - 1 = k /\ k + 1 \in 0..c
    BY <1>1
  <2> HIDE DEF S
  <2>2. BadIn(J, k) = BadIn(M, k) /\ J[k + 1] = M[k + 1]
    BY <1>1, <2>1 DEF S
  <2>3. PICK j \in 0..c : j = k + 1 /\ j - 1 = k /\ j \in 1..Len(M) /\ j \in 1..Len(J)
    BY <2>1
  <2>4. /\ BadIn(J, j) = IF J[j].status = "ok" THEN BadIn(J, j - 1) ELSE Append(BadIn(J, j - 1), J[j])
        /\ BadIn(M, j) = IF M[j].status = "ok" THEN BadIn(M, j - 1) ELSE Append(BadIn(M, j - 1), M[j])
    BY <1>2, <2>3 DEF BadNext
  <2>5. BadIn(J, j) = BadIn(M, j)
    BY <2>2, <2>3, <2>4
  <2> QED
    BY <2>3, <2>5 DEF S
<1> HIDE DEF S
<1>5. c \in Nat /\ c \in 0..c
  BY <1>1
<1>6. c \in S
  BY <1>3, <1>4, <1>5, UpTo
<1> QED
  BY <1>6 DEF S, J

\* The sectors a scan lists.
Listed(M, n) == [k \in 1..Least(MAX_ISSUES, Len(BadIn(M, n))) |-> BadIn(M, n)[k].sector]

LEMMA ListedType ==
  ASSUME NEW M \in Seq(Mets), NEW n \in 0..Len(M)
  PROVE  /\ Listed(M, n) \in Seq(Nat) /\ Len(BadIn(M, n)) \in Nat
         /\ Len(Listed(M, n)) = Least(MAX_ISSUES, Len(BadIn(M, n)))
<1>1. PICK B \in Seq(Mets) : B = BadIn(M, n)
  BY BadNexts DEF BadNext
<1>2. PICK c \in Nat : c = Least(MAX_ISSUES, Len(B))
  BY ScanAssumption DEF Least
<1>3. c <= Len(B)
  BY <1>2, ScanAssumption DEF Least
<1>4. \A k \in 1..c : B[k] \in Mets
  BY <1>3
<1>5. \A k \in 1..c : B[k].sector \in Nat
  BY <1>4 DEF Mets
<1>6. PICK L : L = [k \in 1..c |-> B[k].sector]
  OBVIOUS
<1>7. L \in [1..c -> Nat]
  BY <1>5, <1>6
<1>8. L \in Seq(Nat) /\ Len(L) = c
  BY <1>7, Sequence
<1>9. Listed(M, n) = L
  BY <1>1, <1>2, <1>6 DEF Listed
<1> QED
  BY <1>1, <1>2, <1>8, <1>9

Lists(M, n) == M[n].status # "ok" /\ Len(BadIn(M, n - 1)) < MAX_ISSUES

LEMMA ListedNext ==
  ASSUME NEW M \in Seq(Mets), NEW n \in 1..Len(M)
  PROVE  Listed(M, n) = IF Lists(M, n) THEN Append(Listed(M, n - 1), M[n].sector)
                        ELSE Listed(M, n - 1)
<1>0. n - 1 \in 0..Len(M) /\ n \in 0..Len(M)
  OBVIOUS
<1>1. PICK A \in Seq(Mets) : A = BadIn(M, n - 1)
  BY <1>0, BadNexts DEF BadNext
<1>2. PICK x \in Mets : x = M[n]
  OBVIOUS
<1>3. BadIn(M, n) = IF x.status = "ok" THEN A ELSE Append(A, x)
  BY <1>1, <1>2, BadNexts DEF BadNext
<1>4. PICK L \in Seq(Nat) : L = Listed(M, n - 1)
  BY <1>0, ListedType
<1>5. PICK K \in Seq(Nat) : K = Listed(M, n)
  BY <1>0, ListedType
<1>6. CASE x.status = "ok"
  <2>1. BadIn(M, n) = BadIn(M, n - 1)
    BY <1>1, <1>3, <1>6
  <2>2. Listed(M, n) = Listed(M, n - 1)
    BY <2>1 DEF Listed
  <2> QED
    BY <1>2, <1>6, <2>2 DEF Lists
<1>7. CASE x.status # "ok"
  <2>1. BadIn(M, n) = Append(A, x)
    BY <1>3, <1>7
  <2>2. PICK B \in Seq(Mets) : B = Append(A, x)
    BY Appended
  <2>3. Len(B) = Len(A) + 1 /\ Len(A) \in Nat /\ (\A k \in 1..Len(A) : B[k] = A[k]) /\ B[Len(A) + 1] = x
    BY <2>2, Appended
  <2>4. L = [k \in 1..Least(MAX_ISSUES, Len(A)) |-> A[k].sector]
    BY <1>1, <1>4 DEF Listed
  <2>5. K = [k \in 1..Least(MAX_ISSUES, Len(B)) |-> B[k].sector]
    BY <1>5, <2>1, <2>2 DEF Listed
  <2>6. Len(L) = Least(MAX_ISSUES, Len(A)) /\ Len(K) = Least(MAX_ISSUES, Len(B))
    BY <1>0, <1>1, <1>4, <1>5, <2>1, <2>2, ListedType
  <2>7. /\ \A k \in 1..Len(L) : L[k] = A[k].sector
        /\ \A k \in 1..Len(K) : K[k] = B[k].sector
    BY <2>4, <2>5, <2>6
  <2>8. CASE Len(A) < MAX_ISSUES
    <3>1. Len(L) = Len(A) /\ Len(K) = Len(A) + 1
      BY <2>3, <2>6, <2>8, ScanAssumption DEF Least
    <3>2. PICK P \in Seq(Nat) : P = Append(L, x.sector)
      <4>1. x.sector \in Nat
        BY DEF Mets
      <4> QED
        BY <4>1, Appended
    <3>3. Len(P) = Len(L) + 1 /\ (\A k \in 1..Len(L) : P[k] = L[k]) /\ P[Len(L) + 1] = x.sector
      <4>1. x.sector \in Nat
        BY DEF Mets
      <4> QED
        BY <3>2, <4>1, Appended
    <3>4. ASSUME NEW k \in 1..Len(K) PROVE K[k] = P[k]
      <4>1. k \in 1..Len(A) \/ k = Len(A) + 1
        BY <2>3, <3>1
      <4>2. CASE k \in 1..Len(A)
        BY <2>3, <2>7, <3>1, <3>3, <4>2
      <4>3. CASE k = Len(A) + 1
        BY <2>3, <2>7, <3>1, <3>3, <4>3
      <4> QED
        BY <4>1, <4>2, <4>3
    <3>5. K = P
      <4>1. Len(K) = Len(P)
        BY <3>1, <3>3
      <4> QED
        BY <3>4, <4>1, SeqEqual
    <3>6. Lists(M, n)
      BY <1>1, <1>2, <1>7, <2>8 DEF Lists
    <3> QED
      BY <1>2, <1>4, <1>5, <3>2, <3>5, <3>6
  <2>9. CASE ~(Len(A) < MAX_ISSUES)
    <3>1. Len(L) = MAX_ISSUES /\ Len(K) = MAX_ISSUES /\ MAX_ISSUES <= Len(A) /\ MAX_ISSUES \in Nat
      BY <2>3, <2>6, <2>9, ScanAssumption DEF Least
    <3>2. ASSUME NEW k \in 1..Len(K) PROVE K[k] = L[k]
      <4>1. k \in 1..Len(A) /\ k \in 1..Len(L)
        BY <2>3, <3>1
      <4> QED
        BY <2>3, <2>7, <4>1
    <3>3. K = L
      <4>1. Len(K) = Len(L)
        BY <3>1
      <4> QED
        BY <3>2, <4>1, SeqEqual
    <3>4. ~Lists(M, n)
      BY <1>1, <2>9 DEF Lists
    <3> QED
      BY <1>4, <1>5, <3>3, <3>4
  <2> QED
    BY <2>8, <2>9
<1> QED
  BY <1>6, <1>7

--------------------------------------------------------------------------------
\* The run is of sectors met between a and b, as they were met.
RunOf(M, a, b, run) ==
  /\ run.range.start < run.range.end
  /\ \A x \in Nat : InRange(x, run.range) =>
       \E i \in (a + 1)..b : M[i].sector = x /\ M[i].status = run.status

\* The runs are all that was met between a and b.
Drawn(M, a, b, done) ==
  /\ \A j \in 1..Len(done) : RunOf(M, a, b, done[j])
  /\ \A i \in (a + 1)..b : \E j \in 1..Len(done) : InRange(M[i].sector, done[j].range)

LEMMA RunParts ==
  ASSUME NEW run \in Runs
  PROVE  /\ run.range \in Spans /\ run.range.start \in Nat /\ run.range.end \in Nat
         /\ run.status \in Statuses
<1>1. run.range \in Spans /\ run.status \in Statuses
  BY DEF Runs
<1> QED
  BY <1>1, SectorsIs

\* A run pushed for sectors just met, all of one status.
LEMMA PushDrawn ==
  ASSUME NEW M \in Seq(Mets), NEW a \in Nat, NEW b \in Nat, NEW n \in Nat, 1 <= n, a <= b,
         b + n <= Len(M), NEW done \in Seq(Runs), Drawn(M, a, b, done), NEW s \in Nat,
         NEW st \in Statuses,
         \A i \in 1..n : M[b + i].sector = s + i - 1 /\ M[b + i].status = st
  PROVE  Drawn(M, a, b + n, PushDone(done, Span(s, s + n), st))
<1>1. PICK c \in Nat : c = b + n
  OBVIOUS
<1>2. PICK e \in Nat : e = s + n
  OBVIOUS
<1>3. PICK r \in Spans : r = Span(s, e) /\ r.start = s /\ r.end = e
  BY SpanType
<1>4. PICK new \in Runs : new = [range |-> r, status |-> st]
  BY DEF Runs
<1>5. ASSUME NEW i \in (b + 1)..c
      PROVE  M[i].sector \in Nat /\ s <= M[i].sector /\ M[i].sector < e /\ M[i].status = st
  <2>1. PICK k \in 1..n : b + k = i
    <3>1. i - b \in 1..n /\ b + (i - b) = i
      BY <1>1
    <3> QED
      BY <3>1
  <2>2. M[i].sector = s + k - 1 /\ M[i].status = st
    BY <2>1
  <2> QED
    BY <1>2, <2>2
<1>6. ASSUME NEW x \in Nat, s <= x, x < e
      PROVE  \E i \in (b + 1)..c : M[i].sector = x /\ M[i].status = st
  <2>1. PICK k \in 1..n : k = x - s + 1
    BY <1>2, <1>6
  <2>2. PICK i \in (b + 1)..c : i = b + k
    BY <1>1
  <2>3. M[i].sector = s + k - 1 /\ M[i].status = st
    BY <2>2
  <2>4. s + k - 1 = x
    BY <2>1
  <2> QED
    BY <2>3, <2>4
<1>7. (\A i \in (a + 1)..b : i \in (a + 1)..c) /\ \A i \in (b + 1)..c : i \in (a + 1)..c
  BY <1>1
<1>8. \A i \in (a + 1)..c : i \in (a + 1)..b \/ i \in (b + 1)..c
  BY <1>1
<1>9. ASSUME NEW run, RunOf(M, a, b, run) PROVE RunOf(M, a, c, run)
  BY <1>7, <1>9 DEF RunOf
<1>10. s < e
  BY <1>2
<1>11. CASE done # <<>> /\ Last(done).status = st /\ Last(done).range.end = s
  <2>1. PICK l \in Runs : l = Last(done)
    BY <1>11, Fronted
  <2>2. PICK F \in Seq(Runs) : F = Front(done)
    BY <1>11, Fronted
  <2>3. PICK m \in Nat \ {0} : m = Len(done)
    BY <1>11, Fronted
  <2>4. l = done[m] /\ Len(F) = m - 1 /\ \A k \in 1..(m - 1) : F[k] = done[k]
    BY <1>11, <2>1, <2>2, <2>3, Fronted
  <2>5. l.range.start \in Nat /\ l.range.end = s /\ l.status = st
    BY <1>11, <2>1, RunParts
  <2>6. PICK g \in Spans : g = Span(l.range.start, e) /\ g.start = l.range.start /\ g.end = e
    BY <2>5, SpanType
  <2>7. PICK both \in Runs : both = [range |-> g, status |-> st] /\ both.range = g /\ both.status = st
    <3>1. [range |-> g, status |-> st] \in Runs
      BY DEF Runs
    <3> QED
      BY <3>1
  <2>8. PICK out \in Seq(Runs) : out = Append(F, both)
    BY Appended
  <2>9. PushDone(done, r, st) = out
    BY <1>3, <1>11, <2>1, <2>2, <2>6, <2>7, <2>8 DEF PushDone
  <2>10. Len(out) = m /\ out[m] = both /\ \A k \in 1..(m - 1) : out[k] = done[k]
    <3>1. Len(out) = Len(F) + 1 /\ (\A k \in 1..Len(F) : out[k] = F[k]) /\ out[Len(F) + 1] = both
      BY <2>8, Appended
    <3>2. Len(F) + 1 = m /\ Len(F) = m - 1
      BY <2>4
    <3> QED
      BY <2>4, <3>1, <3>2
  <2>11. RunOf(M, a, b, l)
    BY <2>3, <2>4 DEF Drawn
  <2>12. RunOf(M, a, c, both)
    <3>1. g.start < g.end
      <4>1. l.range.start < s
        BY <2>5, <2>11 DEF RunOf
      <4> QED
        BY <1>10, <2>5, <2>6, <4>1
    <3>2. ASSUME NEW x \in Nat, InRange(x, g)
          PROVE  \E i \in (a + 1)..c : M[i].sector = x /\ M[i].status = st
      <4>1. l.range.start <= x /\ x < e
        BY <2>6, <3>2 DEF InRange
      <4>2. CASE x < s
        <5>1. InRange(x, l.range)
          BY <2>5, <4>1, <4>2 DEF InRange
        <5>2. \E i \in (a + 1)..b : M[i].sector = x /\ M[i].status = l.status
          BY <2>11, <5>1 DEF RunOf
        <5> QED
          BY <1>7, <2>5, <5>2
      <4>3. CASE s <= x
        BY <1>6, <1>7, <4>1, <4>3
      <4> QED
        BY <4>2, <4>3
    <3> QED
      BY <2>7, <3>1, <3>2 DEF RunOf
  <2>13. ASSUME NEW j \in 1..m PROVE RunOf(M, a, c, out[j])
    <3>1. j = m \/ (j \in 1..(m - 1) /\ j \in 1..Len(done))
      BY <2>3
    <3>2. CASE j = m
      BY <2>10, <2>12, <3>2
    <3>3. CASE j \in 1..(m - 1) /\ j \in 1..Len(done)
      <4>1. RunOf(M, a, b, done[j])
        BY <3>3 DEF Drawn
      <4> QED
        BY <1>9, <2>10, <3>3, <4>1
    <3> QED
      BY <3>1, <3>2, <3>3
  <2>14. ASSUME NEW i \in (a + 1)..c PROVE \E j \in 1..m : InRange(M[i].sector, out[j].range)
    <3>0. m \in 1..m
      OBVIOUS
    <3>1. CASE i \in (a + 1)..b
      <4>1. PICK j \in 1..m : InRange(M[i].sector, done[j].range)
        BY <2>3, <3>1 DEF Drawn
      <4>2. CASE j = m
        <5>1. l.range.start <= M[i].sector /\ M[i].sector < s
          BY <2>4, <2>5, <4>1, <4>2 DEF InRange
        <5>2. M[i].sector \in Nat
          <6>1. i \in 1..Len(M)
            BY <3>1
          <6>2. M[i] \in Mets
            BY <6>1
          <6> QED
            BY <6>2 DEF Mets
        <5>3. InRange(M[i].sector, g)
          BY <1>10, <2>5, <2>6, <5>1, <5>2 DEF InRange
        <5> QED
          BY <2>7, <2>10, <3>0, <5>3
      <4>3. CASE j # m
        <5>1. j \in 1..(m - 1)
          BY <4>3
        <5> QED
          BY <2>10, <4>1, <5>1
      <4> QED
        BY <4>2, <4>3
    <3>2. CASE i \in (b + 1)..c
      <4>1. s <= M[i].sector /\ M[i].sector < e /\ M[i].sector \in Nat
        BY <1>5, <3>2
      <4>2. l.range.start <= s
        <5>1. l.range.start < s
          BY <2>5, <2>11 DEF RunOf
        <5> QED
          BY <2>5, <5>1
      <4>3. InRange(M[i].sector, g)
        BY <2>5, <2>6, <4>1, <4>2 DEF InRange
      <4> QED
        BY <2>7, <2>10, <3>0, <4>3
    <3> QED
      BY <1>8, <3>1, <3>2
  <2>15. Drawn(M, a, c, out)
    BY <2>10, <2>13, <2>14 DEF Drawn
  <2> QED
    BY <1>1, <1>2, <1>3, <2>9, <2>15
<1>12. CASE ~(done # <<>> /\ Last(done).status = st /\ Last(done).range.end = s)
  <2>1. PICK out \in Seq(Runs) : out = Append(done, new)
    BY Appended
  <2>2. PushDone(done, r, st) = out
    BY <1>3, <1>4, <1>12, <2>1 DEF PushDone
  <2>3. PICK m \in Nat : m = Len(done)
    OBVIOUS
  <2>4. Len(out) = m + 1 /\ (\A k \in 1..m : out[k] = done[k]) /\ out[m + 1] = new
    BY <2>1, <2>3, Appended
  <2>5. new.range = r /\ new.status = st
    BY <1>4
  <2>6. RunOf(M, a, c, new)
    <3>1. ASSUME NEW x \in Nat, InRange(x, r)
          PROVE  \E i \in (a + 1)..c : M[i].sector = x /\ M[i].status = st
      <4>1. s <= x /\ x < e
        BY <1>3, <3>1 DEF InRange
      <4> QED
        BY <1>6, <1>7, <4>1
    <3> QED
      BY <1>3, <1>10, <2>5, <3>1 DEF RunOf
  <2>7. ASSUME NEW j \in 1..(m + 1) PROVE RunOf(M, a, c, out[j])
    <3>1. j \in 1..m \/ j = m + 1
      BY <2>3, OneUp
    <3>2. CASE j \in 1..m
      <4>1. RunOf(M, a, b, done[j])
        BY <2>3, <3>2 DEF Drawn
      <4> QED
        BY <1>9, <2>4, <3>2, <4>1
    <3> QED
      BY <2>4, <2>6, <3>1, <3>2
  <2>8. ASSUME NEW i \in (a + 1)..c PROVE \E j \in 1..(m + 1) : InRange(M[i].sector, out[j].range)
    <3>0. m + 1 \in 1..(m + 1) /\ \A j \in 1..m : j \in 1..(m + 1)
      BY <2>3
    <3>1. CASE i \in (a + 1)..b
      <4>1. PICK j \in 1..m : InRange(M[i].sector, done[j].range)
        BY <2>3, <3>1 DEF Drawn
      <4> QED
        BY <2>4, <3>0, <4>1
    <3>2. CASE i \in (b + 1)..c
      <4>1. InRange(M[i].sector, r)
        BY <1>3, <1>5, <3>2 DEF InRange
      <4> QED
        BY <2>4, <2>5, <3>0, <4>1
    <3> QED
      BY <1>8, <3>1, <3>2
  <2>9. Drawn(M, a, c, out)
    BY <2>4, <2>7, <2>8 DEF Drawn
  <2> QED
    BY <1>1, <1>2, <1>3, <2>2, <2>9
<1> QED
  BY <1>11, <1>12

--------------------------------------------------------------------------------
\* What a report after a tells: the counts of everything met, and the news since.
Told(M, a, done, issues, totals) ==
  LET b == Checked(totals)
  IN  /\ a <= b /\ b <= Len(M) /\ Bad(totals) = Len(BadIn(M, b))
      /\ Listed(M, a) \o issues = Listed(M, b)
      /\ Drawn(M, a, b, done)

\* A tally that has counted the first b.
Tells(M, a, b, t) ==
  /\ t \in Tallies /\ Checked(t.totals) = b
  /\ t.kept = Least(MAX_ISSUES, Len(BadIn(M, b)))
  /\ Told(M, a, t.report.done, t.report.issues, t.totals)

JoinsAppended(s, t, x) == s \o Append(t, x) = Append(s \o t, x)

LEMMA AppendJoined ==
  ASSUME NEW X, NEW s \in Seq(X), NEW t \in Seq(X), NEW x \in X
  PROVE  JoinsAppended(s, t, x)
<1>1. PICK u \in Seq(X) : u = Append(t, x)
  BY Appended
<1>2. PICK j \in Seq(X) : j = s \o t
  BY Joined
<1>3. PICK a \in Seq(X) : a = s \o u
  BY Joined
<1>4. PICK b \in Seq(X) : b = Append(j, x)
  BY Appended
<1>5. PICK m \in Nat : m = Len(s)
  OBVIOUS
<1>6. PICK n \in Nat : n = Len(t)
  OBVIOUS
<1>7. Len(u) = n + 1 /\ (\A k \in 1..n : u[k] = t[k]) /\ u[n + 1] = x
  BY <1>1, <1>6, Appended
<1>8. Len(j) = m + n /\ (\A k \in 1..m : j[k] = s[k]) /\ \A k \in 1..n : j[m + k] = t[k]
  BY <1>2, <1>5, <1>6, Joined
<1>9. Len(a) = m + n + 1 /\ (\A k \in 1..m : a[k] = s[k]) /\ \A k \in 1..(n + 1) : a[m + k] = u[k]
  <2>1. /\ Len(a) = Len(s) + Len(u) /\ (\A k \in 1..Len(s) : a[k] = s[k])
        /\ \A k \in 1..Len(u) : a[Len(s) + k] = u[k]
    BY <1>3, Joined
  <2> QED
    BY <1>5, <1>7, <2>1
<1>10. Len(b) = m + n + 1 /\ (\A k \in 1..(m + n) : b[k] = j[k]) /\ b[m + n + 1] = x
  BY <1>4, <1>8, Appended
<1>11. ASSUME NEW k \in 1..Len(a) PROVE a[k] = b[k]
  <2>1. CASE k <= m
    <3>1. k \in 1..m /\ k \in 1..(m + n)
      BY <2>1
    <3> QED
      BY <1>8, <1>9, <1>10, <3>1
  <2>2. CASE k > m /\ k <= m + n
    <3>1. PICK i \in 1..n : m + i = k
      <4>1. k - m \in 1..n /\ m + (k - m) = k
        BY <2>2
      <4> QED
        BY <4>1
    <3>2. i \in 1..(n + 1) /\ k \in 1..(m + n)
      BY <3>1
    <3> QED
      BY <1>7, <1>8, <1>9, <1>10, <3>1, <3>2
  <2>3. CASE k = m + n + 1
    <3>1. PICK i \in 1..(n + 1) : i = n + 1 /\ m + i = k
      BY <2>3
    <3> QED
      BY <1>7, <1>9, <1>10, <2>3, <3>1
  <2> QED
    BY <1>9, <2>1, <2>2, <2>3
<1>12. a = b
  <2>1. Len(a) = Len(b)
    BY <1>9, <1>10
  <2> QED
    BY <1>11, <2>1, SeqEqual
<1> QED
  BY <1>1, <1>2, <1>3, <1>4, <1>12 DEF JoinsAppended

RecordedAs(o, t, s, status) ==
  LET lists == status # "ok" /\ t.kept < MAX_ISSUES
  IN  /\ o.report.done = PushDone(t.report.done, Span(s, s + 1), status)
      /\ o.report.issues = IF lists THEN Append(t.report.issues, s) ELSE t.report.issues
      /\ o.kept = IF lists THEN t.kept + 1 ELSE t.kept

LEMMA RecordedParts ==
  ASSUME NEW t \in Tallies, NEW s, NEW status
  PROVE  RecordedAs(Recorded(t, s, status), t, s, status)
<1> DEFINE lists == status # "ok" /\ t.kept < MAX_ISSUES
           done == PushDone(t.report.done, Span(s, s + 1), status)
           issues == IF lists THEN Append(t.report.issues, s) ELSE t.report.issues
           kept == IF lists THEN t.kept + 1 ELSE t.kept
           report == [t.report EXCEPT !.done = done, !.issues = issues]
           totals == Counted(t.totals, status)
<1>1. t.report \in Drafts
  BY TallyParts
<1>2. Recorded(t, s, status) = [report |-> report, totals |-> totals, kept |-> kept]
  BY DEF Recorded
<1> HIDE DEF done, issues, totals, kept
<1>3. report.done = done /\ report.issues = issues
  BY <1>1 DEF Drafts
<1> HIDE DEF report
<1>4. Recorded(t, s, status).report = report /\ Recorded(t, s, status).kept = kept
  BY <1>2
<1> QED
  BY <1>3, <1>4 DEF done, issues, kept, RecordedAs

\* record tells of one sector more.
LEMMA RecordedTells ==
  ASSUME NEW M \in Seq(Mets), NEW a \in Nat, NEW b \in Nat, b < Len(M), NEW t, Tells(M, a, b, t),
         NEW s \in Nat, NEW st \in Statuses, M[b + 1].sector = s, M[b + 1].status = st
  PROVE  Tells(M, a, b + 1, Recorded(t, s, st))
<1>1. PICK c \in 1..Len(M) : c = b + 1 /\ c - 1 = b /\ c \in 0..Len(M) /\ b \in 0..Len(M)
  OBVIOUS
<1>2. PICK o : o = Recorded(t, s, st)
  OBVIOUS
<1>3. /\ t \in Tallies /\ Checked(t.totals) = b /\ t.kept = Least(MAX_ISSUES, Len(BadIn(M, b)))
      /\ a <= b /\ Bad(t.totals) = Len(BadIn(M, b))
      /\ Listed(M, a) \o t.report.issues = Listed(M, b) /\ Drawn(M, a, b, t.report.done)
  BY DEF Tells, Told
<1>4. /\ t.totals \in Totals /\ t.kept \in Nat /\ t.report.done \in Seq(Runs)
      /\ t.report.issues \in Seq(Nat)
  BY <1>3, TallyParts
<1>5. o \in Tallies /\ o.totals = Counted(t.totals, st)
  BY <1>2, <1>3, RecordedType
<1>6. Checked(o.totals) = c /\ Bad(o.totals) = IF st = "ok" THEN Bad(t.totals) ELSE Bad(t.totals) + 1
  <2>1. PICK T \in Totals : T = t.totals
    BY <1>4
  <2>2. /\ Checked(Counted(T, st)) = Checked(T) + 1
        /\ Bad(Counted(T, st)) = IF st = "ok" THEN Bad(T) ELSE Bad(T) + 1
    BY CountedTotals
  <2> QED
    BY <1>1, <1>3, <1>5, <2>1, <2>2
<1> DEFINE lists == st # "ok" /\ t.kept < MAX_ISSUES
<1>7. /\ o.report.done = PushDone(t.report.done, Span(s, s + 1), st)
      /\ o.report.issues = IF lists THEN Append(t.report.issues, s) ELSE t.report.issues
      /\ o.kept = IF lists THEN t.kept + 1 ELSE t.kept
  <2>1. RecordedAs(o, t, s, st)
    BY <1>2, <1>3, RecordedParts
  <2> QED
    BY <2>1 DEF RecordedAs
<1>8. PICK A \in Seq(Mets) : A = BadIn(M, b)
  BY <1>1, BadNexts DEF BadNext
<1>9. PICK B \in Seq(Mets) : B = BadIn(M, c)
  BY <1>1, BadNexts DEF BadNext
<1>10. PICK x \in Mets : x = M[c] /\ x.sector = s /\ x.status = st
  BY <1>1
<1>11. B = IF st = "ok" THEN A ELSE Append(A, x)
  BY <1>1, <1>8, <1>9, <1>10, BadNexts DEF BadNext
<1>12. Len(A) \in Nat /\ Len(B) = IF st = "ok" THEN Len(A) ELSE Len(A) + 1
  BY <1>11, Appended
<1>13. Bad(o.totals) = Len(B)
  BY <1>3, <1>6, <1>8, <1>12
<1>14. lists <=> st # "ok" /\ Len(A) < MAX_ISSUES
  BY <1>3, <1>8, <1>12, ScanAssumption DEF Least
<1>15. o.kept = Least(MAX_ISSUES, Len(B))
  <2>1. CASE lists
    BY <1>3, <1>7, <1>8, <1>12, <1>14, <2>1, ScanAssumption DEF Least
  <2>2. CASE ~lists
    BY <1>3, <1>7, <1>8, <1>12, <1>14, <2>2, ScanAssumption DEF Least
  <2> QED
    BY <2>1, <2>2
<1>16. Lists(M, c) <=> lists
  BY <1>1, <1>8, <1>10, <1>14 DEF Lists
<1> HIDE DEF lists
<1>17. Listed(M, a) \o o.report.issues = Listed(M, c)
  <2>1. PICK L \in Seq(Nat) : L = Listed(M, a)
    <3>1. a \in 0..Len(M)
      BY <1>3
    <3> QED
      BY <3>1, ListedType
  <2>2. PICK I \in Seq(Nat) : I = t.report.issues
    BY <1>4
  <2>3. L \o I = Listed(M, b)
    BY <1>3, <2>1, <2>2
  <2>4. Listed(M, c) = IF lists THEN Append(L \o I, s) ELSE L \o I
    BY <1>1, <1>10, <1>16, <2>3, ListedNext
  <2>5. L \o Append(I, s) = Append(L \o I, s)
    <3>1. JoinsAppended(L, I, s)
      BY AppendJoined
    <3> QED
      BY <3>1 DEF JoinsAppended
  <2> QED
    BY <1>7, <2>1, <2>2, <2>4, <2>5
<1>18. Drawn(M, a, c, o.report.done)
  <2>0. PICK D \in Seq(Runs) : D = t.report.done
    BY <1>4
  <2>1. PICK n \in Nat : n = 1 /\ 1 <= n /\ b + n <= Len(M)
    BY <1>1
  <2>a. Drawn(M, a, b, D) /\ a <= b
    BY <1>3, <2>0
  <2>2. \A i \in 1..n : M[b + i].sector = s + i - 1 /\ M[b + i].status = st
    BY <2>1
  <2>3. Drawn(M, a, b + n, PushDone(D, Span(s, s + n), st))
    BY <2>1, <2>2, <2>a, PushDrawn
  <2> QED
    BY <1>1, <1>7, <2>0, <2>1, <2>3
<1>19. a <= c /\ c <= Len(M)
  BY <1>1, <1>3
<1>20. Told(M, a, o.report.done, o.report.issues, o.totals)
  BY <1>6, <1>9, <1>13, <1>17, <1>18, <1>19 DEF Told
<1>21. Tells(M, a, c, o)
  BY <1>5, <1>6, <1>9, <1>15, <1>20 DEF Tells
<1> QED
  BY <1>1, <1>2, <1>21

\* Sectors n.. of a chunk, told one by one.
LEMMA BySectorTells ==
  ASSUME NEW M \in Seq(Mets), NEW a \in Nat, NEW b \in Nat, NEW c \in Nat, b + c <= Len(M),
         NEW t, Tells(M, a, b, t), NEW m, NEW p, NEW s \in Nat, NEW failed,
         \A i \in 1..c : /\ M[b + i].sector = s + i - 1
                         /\ M[b + i].status = StatusOf(m, p, s + i - 1, failed)
  PROVE  Tells(M, a, b + c, BySector(t, m, p, s, c, failed))
<1>0. t \in Tallies
  BY DEF Tells
<1>1. PICK f \in [0..c -> Tallies] :
        /\ f[0] = t
        /\ \A k \in 1..c : f[k] = Recorded(f[k - 1], s + k - 1, StatusOf(m, p, s + k - 1, failed))
        /\ BySector(t, m, p, s, c, failed) = f[c]
  <2>1. SectorSteps(t, m, p, s, c, failed)
    BY <1>0, BySectorSteps
  <2> QED
    BY <2>1 DEF SectorSteps
<1> DEFINE Held(k) == Tells(M, a, b + k, f[k])
           S == {k \in 0..c : Held(k)}
<1>2. 0 \in S
  BY <1>1
<1>3. \A k \in 0..(c - 1) : k \in S => k + 1 \in S
  <2> TAKE k \in 0..(c - 1)
  <2> HAVE k \in S
  <2>1. Held(k)
    OBVIOUS
  <2>2. PICK j \in 1..c : j = k + 1 /\ j - 1 = k /\ j \in 0..c
    OBVIOUS
  <2>3. PICK d \in Nat : d = b + k /\ d + 1 = b + j /\ d < Len(M)
    BY <2>2
  <2>4. PICK z \in Nat : z = s + j - 1
    OBVIOUS
  <2>5. PICK st \in Statuses : st = StatusOf(m, p, z, failed)
    BY StatusType
  <2>6. M[d + 1].sector = z /\ M[d + 1].status = st
    BY <2>2, <2>3, <2>4, <2>5
  <2>7. f[j] = Recorded(f[k], z, st)
    BY <1>1, <2>2, <2>4, <2>5
  <2>8. Tells(M, a, d, f[k])
    BY <2>1, <2>3
  <2>9. Tells(M, a, d + 1, Recorded(f[k], z, st))
    BY <2>3, <2>6, <2>8, RecordedTells
  <2>10. Held(j)
    BY <2>3, <2>7, <2>9
  <2> HIDE DEF Held
  <2> QED
    BY <2>2, <2>10
<1> HIDE DEF S
<1>4. c \in 0..c
  OBVIOUS
<1>5. c \in S
  BY <1>2, <1>3, <1>4, UpTo
<1> QED
  BY <1>1, <1>5 DEF S

--------------------------------------------------------------------------------
\* Sectors that are right add nothing to the bad ones.
LEMMA BadSame ==
  ASSUME NEW M \in Seq(Mets), NEW b \in Nat, NEW c \in Nat, b + c <= Len(M),
         \A i \in 1..c : M[b + i].status = "ok"
  PROVE  BadIn(M, b + c) = BadIn(M, b)
<1> DEFINE S == {k \in 0..c : BadIn(M, b + k) = BadIn(M, b)}
<1>1. 0 \in S
  OBVIOUS
<1>2. \A k \in 0..(c - 1) : k \in S => k + 1 \in S
  <2> TAKE k \in 0..(c - 1)
  <2> HAVE k \in S
  <2>1. PICK d \in 1..Len(M) : d = b + (k + 1) /\ d - 1 = b + k
    OBVIOUS
  <2>2. k + 1 \in 1..c /\ k + 1 \in 0..c
    OBVIOUS
  <2>3. M[d].status = "ok"
    BY <2>1, <2>2
  <2>4. BadIn(M, d) = BadIn(M, d - 1)
    BY <2>3, BadNexts DEF BadNext
  <2>5. BadIn(M, d - 1) = BadIn(M, b)
    BY <2>1
  <2> QED
    BY <2>1, <2>2, <2>4, <2>5
<1> HIDE DEF S
<1>3. c \in 0..c
  OBVIOUS
<1>4. c \in S
  BY <1>1, <1>2, <1>3, UpTo
<1> QED
  BY <1>4 DEF S

WholeAs(o, t, s, c) ==
  /\ o.report.done = PushDone(t.report.done, Span(s, s + c), "ok")
  /\ o.report.issues = t.report.issues /\ o.kept = t.kept

LEMMA WholeParts ==
  ASSUME NEW t \in Tallies, NEW s, NEW c
  PROVE  WholeAs(RecordedWhole(t, s, c), t, s, c)
<1> DEFINE done == PushDone(t.report.done, Span(s, s + c), "ok")
           report == [t.report EXCEPT !.done = done]
           totals == [t.totals EXCEPT !.ok = @ + c]
<1>1. t.report \in Drafts
  BY TallyParts
<1>2. RecordedWhole(t, s, c) = [t EXCEPT !.report = report, !.totals = totals]
  BY DEF RecordedWhole, Tallies
<1> HIDE DEF done, totals
<1>3. report.done = done /\ report.issues = t.report.issues
  BY <1>1 DEF Drafts
<1> HIDE DEF report
<1>4. RecordedWhole(t, s, c).report = report /\ RecordedWhole(t, s, c).kept = t.kept
  BY <1>2 DEF Tallies
<1> QED
  BY <1>3, <1>4 DEF done, WholeAs

\* A whole chunk that matches is told at once.
LEMMA WholeTells ==
  ASSUME NEW M \in Seq(Mets), NEW a \in Nat, NEW b \in Nat, NEW c \in Nat, 1 <= c, b + c <= Len(M),
         NEW t, Tells(M, a, b, t), NEW s \in Nat,
         \A i \in 1..c : M[b + i].sector = s + i - 1 /\ M[b + i].status = "ok"
  PROVE  Tells(M, a, b + c, RecordedWhole(t, s, c))
<1>1. PICK e \in Nat : e = b + c /\ b <= e
  OBVIOUS
<1>2. PICK o : o = RecordedWhole(t, s, c)
  OBVIOUS
<1>3. /\ t \in Tallies /\ Checked(t.totals) = b /\ t.kept = Least(MAX_ISSUES, Len(BadIn(M, b)))
      /\ a <= b /\ Bad(t.totals) = Len(BadIn(M, b))
      /\ Listed(M, a) \o t.report.issues = Listed(M, b) /\ Drawn(M, a, b, t.report.done)
  BY DEF Tells, Told
<1>4. PICK D \in Seq(Runs) : D = t.report.done
  BY <1>3, TallyParts
<1>5. PICK T \in Totals : T = t.totals
  BY <1>3, TallyParts
<1>6. o \in Tallies /\ o.totals = [T EXCEPT !.ok = @ + c]
  BY <1>2, <1>3, <1>5, RecordedWholeType
<1>7. Checked(o.totals) = e /\ Bad(o.totals) = Bad(T)
  <2>1. T.ok \in Nat /\ T.mismatch \in Nat /\ T.unreadable \in Nat
    BY DEF Totals
  <2>2. /\ o.totals.ok = T.ok + c /\ o.totals.mismatch = T.mismatch
        /\ o.totals.unreadable = T.unreadable
    BY <1>6 DEF Totals
  <2>3. PICK x \in Nat, y \in Nat, z \in Nat : x = T.ok /\ y = T.mismatch /\ z = T.unreadable
    BY <2>1
  <2>4. x + y + z = b
    BY <1>3, <1>5, <2>3 DEF Checked
  <2>5. Checked(o.totals) = (x + c) + y + z /\ Bad(o.totals) = y + z /\ Bad(T) = y + z
    BY <2>2, <2>3 DEF Checked, Bad
  <2> QED
    BY <1>1, <2>4, <2>5
<1>8. o.report.done = PushDone(D, Span(s, s + c), "ok") /\ o.report.issues = t.report.issues
      /\ o.kept = t.kept
  <2>1. WholeAs(o, t, s, c)
    BY <1>2, <1>3, WholeParts
  <2> QED
    BY <1>4, <2>1 DEF WholeAs
<1>9. BadIn(M, e) = BadIn(M, b)
  BY <1>1, BadSame
<1>10. Listed(M, e) = Listed(M, b)
  BY <1>9 DEF Listed
<1>11. Drawn(M, a, e, o.report.done)
  <2>1. PICK st \in Statuses : st = "ok"
    BY DEF Statuses
  <2>2. \A i \in 1..c : M[b + i].sector = s + i - 1 /\ M[b + i].status = st
    BY <2>1
  <2>3. Drawn(M, a, b, D) /\ a <= b
    BY <1>3, <1>4
  <2>4. Drawn(M, a, b + c, PushDone(D, Span(s, s + c), st))
    BY <2>2, <2>3, PushDrawn
  <2> QED
    BY <1>1, <1>8, <2>1, <2>4
<1>12. a <= e /\ e <= Len(M)
  BY <1>1, <1>3
<1>13. Told(M, a, o.report.done, o.report.issues, o.totals)
  BY <1>3, <1>5, <1>7, <1>8, <1>9, <1>10, <1>11, <1>12 DEF Told
<1>14. Tells(M, a, e, o)
  BY <1>3, <1>6, <1>7, <1>8, <1>9, <1>13 DEF Tells
<1> QED
  BY <1>1, <1>2, <1>14

\* A report keeps telling the truth when more is met.
LEMMA ToldLater ==
  ASSUME NEW M \in Seq(Mets), NEW N \in Seq(Mets), NEW a \in Nat, NEW done, NEW issues,
         NEW totals \in Totals, Told(M, a, done, issues, totals)
  PROVE  Told(M \o N, a, done, issues, totals)
<1>1. PICK J \in Seq(Mets) : J = M \o N
  BY Joined
<1>2. Len(M) \in Nat /\ Len(J) \in Nat /\ Len(M) <= Len(J) /\ \A k \in 1..Len(M) : J[k] = M[k]
  BY <1>1, Joined
<1>3. PICK b \in Nat : b = Checked(totals)
  <2>1. totals.ok \in Nat /\ totals.mismatch \in Nat /\ totals.unreadable \in Nat
    BY DEF Totals
  <2> QED
    BY <2>1 DEF Checked
<1>4. /\ a <= b /\ b <= Len(M) /\ Bad(totals) = Len(BadIn(M, b))
      /\ Listed(M, a) \o issues = Listed(M, b) /\ Drawn(M, a, b, done)
  BY <1>3 DEF Told
<1>5. a \in 0..Len(M) /\ b \in 0..Len(M) /\ b <= Len(J)
  BY <1>2, <1>4
<1>6. BadIn(J, a) = BadIn(M, a) /\ BadIn(J, b) = BadIn(M, b)
  BY <1>1, <1>5, BadBefore
<1>7. Listed(J, a) = Listed(M, a) /\ Listed(J, b) = Listed(M, b)
  BY <1>6 DEF Listed
<1>8. \A i \in (a + 1)..b : J[i] = M[i]
  <2>1. \A i \in (a + 1)..b : i \in 1..Len(M)
    BY <1>4
  <2> QED
    BY <1>2, <2>1
<1>9. Drawn(J, a, b, done)
  <2>1. ASSUME NEW run, RunOf(M, a, b, run) PROVE RunOf(J, a, b, run)
    BY <1>8, <2>1 DEF RunOf
  <2> QED
    BY <1>4, <1>8, <2>1 DEF Drawn
<1>10. Told(J, a, done, issues, totals)
  BY <1>3, <1>4, <1>5, <1>6, <1>7, <1>9 DEF Told
<1> QED
  BY <1>1, <1>10

\* A turn of the loop, whole or sector by sector, tells of the chunk.
LEMMA TurnTells ==
  ASSUME NEW M \in Seq(Mets), NEW a \in Nat, NEW b \in Nat, NEW was, Tells(M, a, b, was),
         NEW m \in Mediums, NEW p \in Seq(Nat), p # <<>>, NEW s \in Nat,
         NEW n \in Nat, 1 <= n, n <= ChunkSectors, b + n <= Len(M),
         NEW failed, NEW again \in BOOLEAN,
         failed # {} => again, \A x \in s..(s + n - 1) : Fails(m, x) => x \in failed,
         \A i \in 1..n : M[b + i].sector = s + i - 1 /\ M[b + i].status = Truth(m, p, s + i - 1, failed)
  PROVE  Tells(M, a, b + n, IF again THEN BySector(was, m, p, s, n, failed)
                            ELSE ReadWhole(was, m, p, s, n))
<1>1. TurnTrue(m, p, s, n, failed, again)
  BY TurnStatus
<1>2. \A i \in 1..n : /\ M[b + i].sector = s + i - 1
                      /\ M[b + i].status = StatusOf(m, p, s + i - 1, failed)
  BY <1>1 DEF TurnTrue
<1>3. CASE again \/ ~Matches(m, p, s, n)
  <2>1. Tells(M, a, b + n, BySector(was, m, p, s, n, failed))
    BY <1>2, BySectorTells
  <2>2. CASE again
    BY <2>1, <2>2
  <2>3. CASE ~again
    <3>1. failed = {} /\ ~Matches(m, p, s, n)
      BY <1>3, <2>3
    <3>2. ReadWhole(was, m, p, s, n) = BySector(was, m, p, s, n, failed)
      BY <3>1 DEF ReadWhole
    <3> QED
      BY <2>1, <2>3, <3>2
  <2> QED
    BY <2>2, <2>3
<1>4. CASE ~again /\ Matches(m, p, s, n)
  <2>1. \A i \in 1..n : StatusOf(m, p, s + i - 1, failed) = "ok"
    BY <1>1, <1>4 DEF TurnTrue
  <2>2. \A i \in 1..n : M[b + i].sector = s + i - 1 /\ M[b + i].status = "ok"
    BY <1>2, <2>1
  <2>3. Tells(M, a, b + n, RecordedWhole(was, s, n))
    BY <2>2, WholeTells
  <2>4. ReadWhole(was, m, p, s, n) = RecordedWhole(was, s, n)
    BY <1>4 DEF ReadWhole
  <2> QED
    BY <1>4, <2>3, <2>4
<1> QED
  BY <1>3, <1>4

--------------------------------------------------------------------------------
(* The surface map: a bucket shows the worst sector in it.                      *)

Bucket(T, s) == (s * Least(T, BUCKETS)) \div Most(T, 1)

\* Bucket q holds the sectors from q/K of the disk up to (q + 1)/K.
LEMMA BucketBounds ==
  ASSUME NEW T \in Nat \ {0}, NEW s \in Nat, NEW K, K = Least(T, BUCKETS), NEW q, q = Bucket(T, s)
  PROVE  /\ K \in Nat \ {0} /\ K <= T /\ q \in Nat /\ s * K \in Nat /\ q * T \in Nat
         /\ q * T <= s * K /\ s * K < q * T + T
<1>1. K \in Nat \ {0} /\ K <= T
  BY ScanAssumption DEF Least
<1>2. Most(T, 1) = T
  BY DEF Most
<1>3. PICK x \in Nat : x = s * K
  BY <1>1, Product
<1>4. q = x \div T
  BY <1>2, <1>3 DEF Bucket
<1>5. q \in Nat /\ x % T \in 0..(T - 1) /\ q * T + (x % T) = x
  BY <1>4, Remainder
<1>6. PICK y \in Nat : y = q * T
  BY <1>5, Product
<1>7. y <= x /\ x < y + T
  BY <1>5, <1>6
<1> QED
  BY <1>1, <1>3, <1>5, <1>6, <1>7

LEMMA OneMoreTimes ==
  ASSUME NEW a \in Nat, NEW c \in Nat
  PROVE  a * c \in Nat /\ (a + 1) * c = a * c + c
OBVIOUS

\* A sector further on is in the same bucket or the next.
BucketGrows(T, s) == Bucket(T, s) <= Bucket(T, s + 1) /\ Bucket(T, s + 1) <= Bucket(T, s) + 1

LEMMA BucketNext ==
  ASSUME NEW T \in Nat \ {0}, NEW s \in Nat
  PROVE  BucketGrows(T, s)
<1>1. PICK K : K = Least(T, BUCKETS)
  OBVIOUS
<1>2. PICK q : q = Bucket(T, s)
  OBVIOUS
<1>3. PICK z \in Nat : z = s + 1
  OBVIOUS
<1>4. PICK r : r = Bucket(T, z)
  OBVIOUS
<1>5. /\ K \in Nat \ {0} /\ K <= T /\ q \in Nat /\ s * K \in Nat /\ q * T \in Nat
      /\ q * T <= s * K /\ s * K < q * T + T
  BY <1>1, <1>2, BucketBounds
<1>6. /\ r \in Nat /\ z * K \in Nat /\ r * T \in Nat /\ r * T <= z * K /\ z * K < r * T + T
  BY <1>1, <1>4, BucketBounds
<1>7. PICK x \in Nat : x = s * K
  BY <1>5
<1>8. z * K = x + K
  BY <1>3, <1>5, <1>7, OneMoreTimes
<1>9. q <= r
  <2> SUFFICES ASSUME r + 1 <= q PROVE FALSE
    BY <1>5, <1>6
  <2>1. PICK u \in Nat : u = r + 1
    BY <1>6
  <2>2. u * T \in Nat /\ u * T <= q * T
    BY <1>5, <2>1, ProductGrows
  <2>3. u * T = r * T + T
    BY <1>6, <2>1, OneMoreTimes
  <2>4. PICK a \in Nat, b \in Nat : a = r * T /\ b = q * T
    BY <1>5, <1>6
  <2>5. a + T <= b /\ b <= x /\ x + K < a + T
    BY <1>5, <1>6, <1>7, <1>8, <2>2, <2>3, <2>4
  <2> QED
    BY <1>5, <2>5
<1>10. r <= q + 1
  <2> SUFFICES ASSUME q + 2 <= r PROVE FALSE
    BY <1>5, <1>6
  <2>1. PICK u \in Nat, v \in Nat : u = q + 1 /\ v = u + 1
    BY <1>5
  <2>2. v * T \in Nat /\ v * T <= r * T
    <3>1. v <= r
      BY <1>5, <1>6, <2>1
    <3> QED
      BY <1>6, <3>1, ProductGrows
  <2>3. u * T \in Nat /\ v * T = u * T + T
    BY <2>1, OneMoreTimes
  <2>a. u * T = q * T + T
    BY <1>5, <2>1, OneMoreTimes
  <2>4. PICK a \in Nat, b \in Nat : a = r * T /\ b = q * T
    BY <1>5, <1>6
  <2>5. b + T + T <= a /\ a <= x + K /\ x < b + T
    BY <1>5, <1>6, <1>7, <1>8, <2>2, <2>3, <2>a, <2>4
  <2> QED
    BY <1>5, <2>5
<1> QED
  BY <1>2, <1>3, <1>4, <1>9, <1>10 DEF BucketGrows

\* The sectors of the disk are in the buckets there are.
LEMMA BucketBelow ==
  ASSUME NEW T \in Nat \ {0}, NEW s \in 0..(T - 1)
  PROVE  Bucket(T, s) \in 0..(Least(T, BUCKETS) - 1)
<1>1. PICK K : K = Least(T, BUCKETS)
  OBVIOUS
<1>2. PICK q : q = Bucket(T, s)
  OBVIOUS
<1>3. /\ K \in Nat \ {0} /\ K <= T /\ q \in Nat /\ s * K \in Nat /\ q * T \in Nat
      /\ q * T <= s * K /\ s * K < q * T + T
  BY <1>1, <1>2, BucketBounds
<1>4. q < K
  <2> SUFFICES ASSUME K <= q PROVE FALSE
    BY <1>3
  <2>1. K * T <= q * T /\ K * T \in Nat
    BY <1>3, ProductGrows
  <2>2. PICK u \in Nat : u = s + 1 /\ u <= T
    OBVIOUS
  <2>3. u * K <= T * K /\ u * K \in Nat /\ T * K \in Nat
    BY <1>3, <2>2, ProductGrows
  <2>4. u * K = s * K + K
    BY <1>3, <2>2, OneMoreTimes
  <2>5. T * K = K * T
    BY <1>3
  <2>6. PICK a \in Nat, b \in Nat, c \in Nat : a = s * K /\ b = q * T /\ c = K * T
    BY <1>3, <2>1
  <2>7. c <= b /\ b <= a /\ a + K <= c
    BY <1>3, <2>1, <2>3, <2>4, <2>5, <2>6
  <2> QED
    BY <1>3, <2>7
<1> QED
  BY <1>1, <1>2, <1>3, <1>4

\* The first and the last bucket are those of the first and the last sector.
LEMMA BucketEnds ==
  ASSUME NEW T \in Nat \ {0}
  PROVE  Bucket(T, 0) = 0 /\ Bucket(T, T - 1) = Least(T, BUCKETS) - 1
<1>1. PICK K : K = Least(T, BUCKETS)
  OBVIOUS
<1>2. PICK s \in Nat : s = T - 1 /\ s + 1 = T
  OBVIOUS
<1>3. PICK q : q = Bucket(T, s)
  OBVIOUS
<1>4. /\ K \in Nat \ {0} /\ K <= T /\ q \in Nat /\ s * K \in Nat /\ q * T \in Nat
      /\ q * T <= s * K /\ s * K < q * T + T
  BY <1>1, <1>3, BucketBounds
<1>5. q <= K - 1
  <2>1. s \in 0..(T - 1)
    BY <1>2
  <2> QED
    BY <1>1, <1>3, <1>4, <2>1, BucketBelow
<1>6. K - 1 <= q
  <2> SUFFICES ASSUME q + 2 <= K PROVE FALSE
    BY <1>4
  <2>1. PICK u \in Nat, v \in Nat : u = q + 1 /\ v = u + 1
    BY <1>4
  <2>2. v * T \in Nat /\ v * T <= K * T /\ K * T \in Nat
    BY <1>4, <2>1, ProductGrows
  <2>3. u * T \in Nat /\ v * T = u * T + T
    BY <2>1, OneMoreTimes
  <2>4. u * T = q * T + T
    BY <1>4, <2>1, OneMoreTimes
  <2>5. (s + 1) * K = s * K + K
    BY <1>4, OneMoreTimes
  <2>6. K * T = s * K + K
    BY <1>2, <1>4, <2>5
  <2>7. PICK a \in Nat, b \in Nat : a = s * K /\ b = q * T
    BY <1>4
  <2>8. b + T + T <= a + K /\ a < b + T
    BY <1>4, <2>2, <2>3, <2>4, <2>6, <2>7
  <2> QED
    BY <1>4, <2>8
<1>7. Bucket(T, 0) = 0
  <2>1. PICK r : r = Bucket(T, 0)
    OBVIOUS
  <2>2. r \in Nat /\ r * T \in Nat /\ r * T <= 0 * K
    BY <1>1, <2>1, BucketBounds
  <2>3. 0 * K = 0
    BY <1>4
  <2>4. r = 0
    <3> SUFFICES ASSUME 1 <= r PROVE FALSE
      BY <2>2
    <3>1. 1 * T <= r * T
      BY <2>2, ProductGrows
    <3> QED
      BY <2>2, <2>3, <3>1
  <2> QED
    BY <2>1, <2>4
<1> QED
  BY <1>1, <1>2, <1>3, <1>4, <1>5, <1>6, <1>7

\* Every bucket between those of two sectors holds a sector between them.
LEMMA BucketAttained ==
  ASSUME NEW T \in Nat \ {0}, NEW a \in Nat, NEW e \in Nat, a <= e,
         NEW x \in Bucket(T, a)..Bucket(T, e)
  PROVE  \E s \in a..e : Bucket(T, s) = x
<1>1. PICK c \in Nat : c = e - a
  OBVIOUS
<1> DEFINE Upto(k) == \A y \in Bucket(T, a)..Bucket(T, a + k) : \E s \in a..(a + k) : Bucket(T, s) = y
           S == {k \in 0..c : Upto(k)}
<1>2. \A s \in Nat : Bucket(T, s) \in Nat
  <2> TAKE s \in Nat
  <2>1. PICK K, q : K = Least(T, BUCKETS) /\ q = Bucket(T, s)
    OBVIOUS
  <2> QED
    BY <2>1, BucketBounds
<1>3. 0 \in S
  <2>1. \A y \in Bucket(T, a)..Bucket(T, a) : \E s \in a..a : Bucket(T, s) = y
    BY <1>2
  <2>2. a + 0 = a
    OBVIOUS
  <2>3. Upto(0)
    BY <2>1, <2>2
  <2> HIDE DEF Upto
  <2> QED
    BY <2>3
<1>4. \A k \in 0..(c - 1) : k \in S => k + 1 \in S
  <2> TAKE k \in 0..(c - 1)
  <2> HAVE k \in S
  <2>1. Upto(k)
    OBVIOUS
  <2>2. PICK d \in Nat, f \in Nat : d = a + k /\ f = d + 1 /\ f = a + (k + 1)
    OBVIOUS
  <2>3. Bucket(T, f) <= Bucket(T, d) + 1
    BY <2>2, BucketNext DEF BucketGrows
  <2>4. ASSUME NEW y \in Bucket(T, a)..Bucket(T, f) PROVE \E s \in a..f : Bucket(T, s) = y
    <3>0. y \in Nat /\ Bucket(T, a) \in Nat /\ Bucket(T, d) \in Nat /\ Bucket(T, f) \in Nat
      BY <1>2, <2>4
    <3>1. CASE y <= Bucket(T, d)
      <4>1. y \in Bucket(T, a)..Bucket(T, a + k)
        BY <2>2, <2>4, <3>0, <3>1
      <4>2. PICK s \in a..(a + k) : Bucket(T, s) = y
        BY <2>1, <4>1
      <4>3. s \in a..f
        BY <2>2
      <4> QED
        BY <4>2, <4>3
    <3>2. CASE ~(y <= Bucket(T, d))
      <4>1. y = Bucket(T, f)
        BY <2>3, <2>4, <3>0, <3>2
      <4>2. f \in a..f
        BY <2>2
      <4> QED
        BY <4>1, <4>2
    <3> QED
      BY <3>1, <3>2
  <2>5. Upto(k + 1)
    BY <2>2, <2>4
  <2>6. k + 1 \in 0..c
    BY <1>1
  <2> HIDE DEF Upto
  <2> QED
    BY <2>5, <2>6
<1> HIDE DEF S
<1>5. c \in 0..c
  OBVIOUS
<1>6. c \in S
  BY <1>3, <1>4, <1>5, UpTo
<1>7. Upto(c) /\ a + c = e
  BY <1>1, <1>6 DEF S
<1> QED
  BY <1>7

\* Sectors in order are in buckets in order.
LEMMA BucketMonotone ==
  ASSUME NEW T \in Nat \ {0}, NEW a \in Nat, NEW e \in Nat, a <= e
  PROVE  Bucket(T, a) <= Bucket(T, e) /\ Bucket(T, a) \in Nat /\ Bucket(T, e) \in Nat
<1>1. PICK K : K = Least(T, BUCKETS)
  OBVIOUS
<1>2. PICK q, r : q = Bucket(T, a) /\ r = Bucket(T, e)
  OBVIOUS
<1>3. /\ K \in Nat \ {0} /\ q \in Nat /\ a * K \in Nat /\ q * T \in Nat /\ q * T <= a * K
  BY <1>1, <1>2, BucketBounds
<1>4. r \in Nat /\ e * K \in Nat /\ r * T \in Nat /\ e * K < r * T + T
  BY <1>1, <1>2, BucketBounds
<1>5. a * K <= e * K
  BY <1>3, ProductGrows
<1>6. q <= r
  <2> SUFFICES ASSUME r + 1 <= q PROVE FALSE
    BY <1>3, <1>4
  <2>1. PICK u \in Nat : u = r + 1
    BY <1>4
  <2>2. u * T \in Nat /\ u * T <= q * T /\ u * T = r * T + T
    BY <1>3, <1>4, <2>1, ProductGrows, OneMoreTimes
  <2> QED
    BY <1>3, <1>4, <1>5, <2>2
<1> QED
  BY <1>2, <1>3, <1>4, <1>6

--------------------------------------------------------------------------------
CellStates == {"pending", "skipped", "ok", "mismatch", "unreadable"}
Marks == [range : Spans, status : CellStates]
Maps(T) == [sectors : {T}, cells : [1..Least(T, BUCKETS) -> CellStates]]

\* The map shows of each bucket the worst that is so of a sector in it.
Paints(map, T, st) ==
  \A b \in 1..Least(T, BUCKETS) :
    /\ \E s \in 0..(T - 1) : Bucket(T, s) = b - 1 /\ st[s] = map.cells[b]
    /\ \A s \in 0..(T - 1) : Bucket(T, s) = b - 1 => Rank(st[s]) <= Rank(map.cells[b])

LEMMA Ranks ==
  /\ \A x \in CellStates : Rank(x) \in Nat
  /\ \A x, y \in CellStates : Rank(x) = Rank(y) => x = y
  /\ Rank("pending") = 0
<1>1. Rank("pending") = 0
  BY DEF Rank
<1>2. Rank("skipped") = 1
  BY DEF Rank
<1>3. Rank("ok") = 2
  BY DEF Rank
<1>4. Rank("mismatch") = 3
  BY DEF Rank
<1>5. Rank("unreadable") = 4
  BY DEF Rank
<1> QED
  BY <1>1, <1>2, <1>3, <1>4, <1>5 DEF CellStates

LEMMA WorseOf ==
  ASSUME NEW x \in CellStates, NEW y \in CellStates
  PROVE  Worse(x, y) \in {x, y} /\ Rank(x) <= Rank(Worse(x, y)) /\ Rank(y) <= Rank(Worse(x, y))
BY Ranks DEF Worse

LEMMA MapParts ==
  ASSUME NEW T \in Nat, NEW map \in Maps(T)
  PROVE  /\ map.sectors = T /\ map.cells \in [1..Least(T, BUCKETS) -> CellStates]
         /\ Least(T, BUCKETS) \in Nat /\ \A s : BucketOf(map, s) = Bucket(T, s)
<1>1. PICK K \in Nat : K = Least(T, BUCKETS)
  BY ScanAssumption DEF Least
<1>2. map.sectors = T /\ map.cells \in [1..K -> CellStates]
  BY <1>1 DEF Maps
<1>3. Len(map.cells) = K
  BY <1>2, Sequence
<1> QED
  BY <1>1, <1>2, <1>3 DEF BucketOf, Bucket

LEMMA MarkParts ==
  ASSUME NEW run \in Marks
  PROVE  run.range.start \in Nat /\ run.range.end \in Nat /\ run.status \in CellStates
<1>1. run.range \in Spans /\ run.status \in CellStates
  BY DEF Marks
<1> QED
  BY <1>1, SectorsIs

\* What mark makes of the cells.
MarkedCells(new, map, T, r, c) ==
  /\ new \in Maps(T)
  /\ \A b \in 1..Least(T, BUCKETS) :
       new.cells[b] = IF b - 1 \in Bucket(T, r.start)..Bucket(T, r.end - 1)
                      THEN Worse(map.cells[b], c) ELSE map.cells[b]

LEMMA MarkedMap ==
  ASSUME NEW T \in Nat, NEW map \in Maps(T), NEW r, NEW c \in CellStates
  PROVE  MarkedCells(Marked(map, r, c), map, T, r, c)
<1>1. PICK K \in Nat : K = Least(T, BUCKETS)
  BY MapParts
<1>2. map.sectors = T /\ map.cells \in [1..K -> CellStates] /\ \A s : BucketOf(map, s) = Bucket(T, s)
  BY <1>1, MapParts
<1> DEFINE B == Bucket(T, r.start)..Bucket(T, r.end - 1)
           cells == [b \in 1..K |-> IF b - 1 \in B THEN Worse(map.cells[b], c) ELSE map.cells[b]]
<1>3. Marked(map, r, c) = [map EXCEPT !.cells = cells]
  BY <1>2 DEF Marked
<1> HIDE DEF B
<1>4. \A b \in 1..K : Worse(map.cells[b], c) \in CellStates /\ map.cells[b] \in CellStates
  BY <1>2 DEF Worse
<1>5. cells \in [1..K -> CellStates]
  BY <1>4
<1>6. \A b \in 1..K : cells[b] = IF b - 1 \in B THEN Worse(map.cells[b], c) ELSE map.cells[b]
  OBVIOUS
<1> HIDE DEF cells
<1>7. Marked(map, r, c) = [sectors |-> T, cells |-> cells]
  BY <1>2, <1>3 DEF Maps
<1>8. PICK new : new = Marked(map, r, c)
  OBVIOUS
<1>9. new \in Maps(T) /\ new.cells = cells
  BY <1>1, <1>5, <1>7, <1>8 DEF Maps
<1>10. \A b \in 1..K : new.cells[b] = IF b - 1 \in B THEN Worse(map.cells[b], c) ELSE map.cells[b]
  BY <1>6, <1>9
<1> QED
  BY <1>1, <1>8, <1>9, <1>10 DEF MarkedCells, B

\* mark shows a range of one status, where nothing worse was.
LEMMA MarkedPaints ==
  ASSUME NEW T \in Nat, NEW map \in Maps(T), NEW run \in Marks,
         run.range.start < run.range.end, run.range.end <= T,
         NEW st \in [0..(T - 1) -> CellStates], NEW so \in [0..(T - 1) -> CellStates],
         Paints(map, T, st),
         \A s \in 0..(T - 1) : IF InRange(s, run.range)
                               THEN so[s] = run.status /\ Rank(st[s]) <= Rank(run.status)
                               ELSE so[s] = st[s]
  PROVE  Paints(Marked(map, run.range, run.status), T, so)
<1>1. PICK K \in Nat : K = Least(T, BUCKETS)
  BY MapParts
<1>2. PICK a \in Nat, e \in Nat, c \in CellStates :
        a = run.range.start /\ e = run.range.end /\ c = run.status
  BY MarkParts
<1>3. a < e /\ e <= T /\ T \in Nat \ {0} /\ e - 1 \in Nat /\ a <= e - 1
  BY <1>2
<1>4. PICK new \in Maps(T) : new = Marked(map, run.range, run.status)
  BY <1>2, MarkedMap DEF MarkedCells
<1> DEFINE Hit(b) == b - 1 \in Bucket(T, a)..Bucket(T, e - 1)
<1>5. \A b \in 1..K : new.cells[b] = IF Hit(b) THEN Worse(map.cells[b], c) ELSE map.cells[b]
  <2>1. MarkedCells(new, map, T, run.range, c)
    BY <1>2, <1>4, MarkedMap
  <2> QED
    BY <1>1, <1>2, <2>1 DEF MarkedCells
<1>6. \A s \in 0..(T - 1) : /\ a <= s /\ s < e => so[s] = c /\ Rank(st[s]) <= Rank(c)
                            /\ ~(a <= s /\ s < e) => so[s] = st[s]
  BY <1>2 DEF InRange
<1>7. ASSUME NEW b \in 1..K
      PROVE  /\ \E s \in 0..(T - 1) : Bucket(T, s) = b - 1 /\ so[s] = new.cells[b]
             /\ \A s \in 0..(T - 1) : Bucket(T, s) = b - 1 => Rank(so[s]) <= Rank(new.cells[b])
  <2>1. PICK o \in 0..(T - 1) : Bucket(T, o) = b - 1 /\ st[o] = map.cells[b]
    BY <1>1 DEF Paints
  <2>2. \A s \in 0..(T - 1) : Bucket(T, s) = b - 1 => Rank(st[s]) <= Rank(map.cells[b])
    BY <1>1 DEF Paints
  <2>3. PICK x \in CellStates : x = map.cells[b]
    BY <1>1, MapParts
  <2>4. PICK w : w = Worse(x, c)
    OBVIOUS
  <2>5. w \in {x, c} /\ w \in CellStates /\ Rank(x) <= Rank(w) /\ Rank(c) <= Rank(w)
        /\ Rank(x) \in Nat /\ Rank(c) \in Nat /\ Rank(w) \in Nat
    BY <2>4, WorseOf, Ranks
  <2>6. CASE Hit(b)
    <3>1. new.cells[b] = w
      BY <1>5, <2>3, <2>4, <2>6
    <3>2. PICK s \in a..(e - 1) : Bucket(T, s) = b - 1
      <4>1. \E s \in a..(e - 1) : Bucket(T, s) = b - 1
        BY <1>3, <2>6, BucketAttained
      <4> QED
        BY <4>1
    <3>3. s \in 0..(T - 1) /\ so[s] = c
      BY <1>3, <1>6, <3>2
    <3>4. \E z \in 0..(T - 1) : Bucket(T, z) = b - 1 /\ so[z] = w
      <4>1. CASE w = c
        BY <3>2, <3>3, <4>1
      <4>2. CASE w = x /\ ~(a <= o /\ o < e)
        <5>1. so[o] = x
          BY <1>6, <2>1, <2>3, <4>2
        <5> QED
          BY <2>1, <4>2, <5>1
      <4>3. CASE w = x /\ a <= o /\ o < e
        <5>1. so[o] = c /\ Rank(x) <= Rank(c)
          BY <1>6, <2>1, <2>3, <4>3
        <5>2. Rank(x) = Rank(c)
          BY <2>5, <4>3, <5>1
        <5>3. x = c
          BY <2>3, <5>2, Ranks
        <5> QED
          BY <2>1, <4>3, <5>1, <5>3
      <4> QED
        BY <2>5, <4>1, <4>2, <4>3
    <3>5. ASSUME NEW z \in 0..(T - 1), Bucket(T, z) = b - 1 PROVE Rank(so[z]) <= Rank(w)
      <4>1. CASE a <= z /\ z < e
        <5>1. so[z] = c
          BY <1>6, <4>1
        <5> QED
          BY <2>5, <5>1
      <4>2. CASE ~(a <= z /\ z < e)
        <5>1. so[z] = st[z] /\ Rank(st[z]) <= Rank(x)
          BY <1>6, <2>2, <2>3, <3>5, <4>2
        <5>2. Rank(st[z]) \in Nat
          BY Ranks
        <5> QED
          BY <2>5, <5>1, <5>2
      <4> QED
        BY <4>1, <4>2
    <3> QED
      BY <3>1, <3>4, <3>5
  <2>7. CASE ~Hit(b)
    <3>1. new.cells[b] = x
      BY <1>5, <2>3, <2>7
    <3>2. ASSUME NEW z \in 0..(T - 1), Bucket(T, z) = b - 1 PROVE so[z] = st[z]
      <4> SUFFICES ASSUME a <= z, z < e PROVE FALSE
        BY <1>6
      <4>1. z \in Nat /\ z <= e - 1
        BY <1>3
      <4>2. Bucket(T, a) <= Bucket(T, z) /\ Bucket(T, z) <= Bucket(T, e - 1)
            /\ Bucket(T, a) \in Nat /\ Bucket(T, z) \in Nat /\ Bucket(T, e - 1) \in Nat
        BY <1>3, <4>1, BucketMonotone
      <4> QED
        BY <2>7, <3>2, <4>2
    <3>3. so[o] = x
      BY <2>1, <2>3, <3>2
    <3>4. ASSUME NEW z \in 0..(T - 1), Bucket(T, z) = b - 1 PROVE Rank(so[z]) <= Rank(x)
      BY <2>2, <2>3, <3>2, <3>4
    <3> QED
      BY <2>1, <3>1, <3>3, <3>4
  <2> QED
    BY <2>6, <2>7
<1>8. Paints(new, T, so)
  BY <1>1, <1>7 DEF Paints
<1> QED
  BY <1>4, <1>8

\* A map made afresh shows a disk of which nothing is known.
LEMMA FreshPaints ==
  ASSUME NEW T \in Nat
  PROVE  FreshMap(T) \in Maps(T) /\ Paints(FreshMap(T), T, [s \in 0..(T - 1) |-> "pending"])
<1>1. PICK K \in Nat : K = Least(T, BUCKETS) /\ K <= T
  BY ScanAssumption DEF Least
<1>2. PICK cells : cells = [b \in 1..K |-> "pending"]
  OBVIOUS
<1>3. cells \in [1..K -> CellStates] /\ \A b \in 1..K : cells[b] = "pending"
  BY <1>2 DEF CellStates
<1>4. FreshMap(T) = [sectors |-> T, cells |-> cells]
  BY <1>1, <1>2 DEF FreshMap
<1>5. FreshMap(T) \in Maps(T) /\ FreshMap(T).cells = cells
  BY <1>1, <1>3, <1>4 DEF Maps
<1>6. PICK st : st = [s \in 0..(T - 1) |-> "pending"]
  OBVIOUS
<1>7. ASSUME NEW b \in 1..K
      PROVE  /\ \E s \in 0..(T - 1) : Bucket(T, s) = b - 1 /\ st[s] = cells[b]
             /\ \A s \in 0..(T - 1) : Bucket(T, s) = b - 1 => Rank(st[s]) <= Rank(cells[b])
  <2>1. T \in Nat \ {0}
    BY <1>1
  <2>2. Bucket(T, 0) = 0 /\ Bucket(T, T - 1) = K - 1
    BY <1>1, <2>1, BucketEnds
  <2>3. PICK l \in Nat, y \in Nat : l = T - 1 /\ y = b - 1
    BY <2>1
  <2>4. y \in Bucket(T, 0)..Bucket(T, l)
    BY <2>2, <2>3
  <2>5. PICK s \in 0..l : Bucket(T, s) = y
    BY <2>1, <2>4, BucketAttained
  <2>6. \A z \in 0..(T - 1) : st[z] = cells[b]
    BY <1>3, <1>6
  <2>7. \A z \in 0..(T - 1) : Rank(st[z]) <= Rank(cells[b])
    <3>1. Rank(cells[b]) = 0
      BY <1>3, Ranks
    <3> QED
      BY <2>6, <3>1
  <2> QED
    BY <2>3, <2>5, <2>6, <2>7
<1>8. Paints(FreshMap(T), T, st)
  BY <1>1, <1>5, <1>7 DEF Paints
<1> QED
  BY <1>5, <1>6, <1>8

--------------------------------------------------------------------------------
\* The map run by run.
MarkSteps(map, T, runs) ==
  \E f \in [0..Len(runs) -> Maps(T)] :
  /\ f[0] = map
  /\ \A k \in 1..Len(runs) : f[k] = Marked(f[k - 1], runs[k].range, runs[k].status)
  /\ AllMarked(map, runs) = f[Len(runs)]

\* mark is called for the runs one by one.
LEMMA AllMarkedSteps ==
  ASSUME NEW T \in Nat, NEW map \in Maps(T), NEW runs \in Seq(Marks)
  PROVE  MarkSteps(map, T, runs)
<1> DEFINE n == Len(runs)
           X == Maps(T)
           x0 == map
           Do(x, k) == Marked(x, runs[k].range, runs[k].status)
           step == [q \in (1..n) \X X |-> Do(q[2], q[1])]
           Body(f, k) == IF k = 0 THEN x0 ELSE Do(f[k - 1], k)
           R == CHOOSE f : f = [k \in 0..n |-> Body(f, k)]
<1>1. n \in Nat /\ x0 \in X /\ \A k \in 1..n : runs[k].status \in CellStates
  <2>1. \A k \in 1..n : runs[k] \in Marks
    OBVIOUS
  <2> QED
    BY <2>1, MarkParts
<1>2. \A k \in 1..n, x \in X : Do(x, k) \in X
  <2> HIDE DEF n
  <2> QED
    BY <1>1, MarkedMap DEF MarkedCells
<1>3. step \in [(1..n) \X X -> X] /\ \A k \in 1..n, x \in X : step[<<k, x>>] = Do(x, k)
  <2> HIDE DEF n, X, Do
  <2> QED
    BY <1>2
<1> HIDE DEF step
<1>4. PICK f \in [0..n -> X] : f[0] = x0 /\ \A k \in 1..n : f[k] = step[<<k, f[k - 1]>>]
  <2>1. n \in Nat /\ x0 \in X
    BY <1>1
  <2> HIDE DEF n, X, x0
  <2>2. Recurs(n, X, x0, step)
    BY <1>3, <2>1, Recursion
  <2> QED
    BY <2>2 DEF Recurs
<1>5. \A k \in 1..n : f[k] = Do(f[k - 1], k)
  <2> HIDE DEF X, x0, Do
  <2> TAKE k \in 1..n
  <2>1. k - 1 \in 0..n /\ f[k - 1] \in X
    BY <1>1
  <2> HIDE DEF n
  <2> QED
    BY <1>3, <1>4, <2>1
<1>6. f = [k \in 0..n |-> Body(f, k)]
  <2>1. \A k \in 0..n : k = 0 \/ k \in 1..n
    BY <1>1
  <2>2. \A k \in 0..n : f[k] = Body(f, k)
    <3> HIDE DEF n, X, Do
    <3> QED
      BY <1>4, <1>5, <2>1
  <2> HIDE DEF Body, n, X
  <2> QED
    BY <2>2
<1>7. R = [k \in 0..n |-> Body(R, k)]
  <2> HIDE DEF Body, n
  <2> QED
    BY <1>6
<1>8. AllMarked(map, runs) = R[n]
  BY DEF AllMarked
<1> HIDE DEF R
<1>9. \A k \in 0..n : R[k] = Body(R, k)
  <2> HIDE DEF Body, n
  <2> QED
    BY <1>7
<1>10. R[0] = x0 /\ \A k \in 1..n : R[k] = Do(R[k - 1], k)
  <2>1. 0 \in 0..n /\ \A k \in 1..n : k \in 0..n /\ k # 0
    BY <1>1
  <2> HIDE DEF n, x0, Do
  <2> QED
    BY <1>9, <2>1
<1>11. \A k \in 0..n : R[k] \in X
  <2> DEFINE S == {k \in 0..n : R[k] \in X}
  <2>1. 0 \in S
    <3>1. 0 \in 0..n /\ x0 \in X
      BY <1>1
    <3> HIDE DEF n, X, x0
    <3> QED
      BY <1>10, <3>1
  <2>2. \A k \in 0..(n - 1) : k \in S => k + 1 \in S
    <3> TAKE k \in 0..(n - 1)
    <3> HAVE k \in S
    <3>1. k + 1 \in 1..n /\ k + 1 \in 0..n /\ k + 1 - 1 = k
      BY <1>1
    <3> HIDE DEF n, X, Do
    <3>2. R[k + 1] = Do(R[k], k + 1)
      BY <1>10, <3>1
    <3> QED
      BY <1>2, <3>1, <3>2
  <2> HIDE DEF S
  <2>3. 0..n \subseteq S
    BY <1>1, <2>1, <2>2, UpTo
  <2> QED
    BY <2>3 DEF S
<1>12. R \in [0..n -> X]
  <2> HIDE DEF Body, n, X
  <2>1. R = [k \in 0..n |-> R[k]]
    BY <1>7, <1>9
  <2> QED
    BY <1>11, <2>1
<1> HIDE DEF X, Do
<1>13. \E g \in [0..n -> X] :
         /\ g[0] = x0 /\ (\A k \in 1..n : g[k] = Do(g[k - 1], k)) /\ AllMarked(map, runs) = g[n]
  BY <1>8, <1>10, <1>12
<1> QED
  BY <1>13 DEF X, Do, MarkSteps


Painted(map, T, st) == map \in Maps(T) /\ Paints(map, T, st)

\* Runs that tell of a disk what is so of it, and are no better than before.
LEMMA AllPainted ==
  ASSUME NEW T \in Nat, NEW map, NEW runs \in Seq(Marks),
         NEW st \in [0..(T - 1) -> CellStates], NEW so \in [0..(T - 1) -> CellStates],
         Painted(map, T, st),
         \A j \in 1..Len(runs) :
           /\ runs[j].range.start < runs[j].range.end /\ runs[j].range.end <= T
           /\ \A s \in 0..(T - 1) : InRange(s, runs[j].range) =>
                so[s] = runs[j].status /\ Rank(st[s]) <= Rank(runs[j].status),
         \A s \in 0..(T - 1) : \/ so[s] = st[s]
                               \/ \E j \in 1..Len(runs) : InRange(s, runs[j].range)
  PROVE  Painted(AllMarked(map, runs), T, so)
<1>1. PICK n \in Nat : n = Len(runs)
  OBVIOUS
<1>2. PICK f \in [0..n -> Maps(T)] :
        /\ f[0] = map /\ \A k \in 1..n : f[k] = Marked(f[k - 1], runs[k].range, runs[k].status)
        /\ AllMarked(map, runs) = f[n]
  <2>1. MarkSteps(map, T, runs)
    BY AllMarkedSteps DEF Painted
  <2> QED
    BY <1>1, <2>1 DEF MarkSteps
<1> DEFINE Hit(s, k) == \E j \in 1..k : InRange(s, runs[j].range)
           mid(k) == [s \in 0..(T - 1) |-> IF Hit(s, k) THEN so[s] ELSE st[s]]
           S == {k \in 0..n : Paints(f[k], T, mid(k))}
<1>3. \A k \in 0..n : mid(k) \in [0..(T - 1) -> CellStates]
  <2> HIDE DEF Hit
  <2> QED
    OBVIOUS
<1>4. 0 \in S
  <2>1. \A s \in 0..(T - 1) : ~Hit(s, 0)
    OBVIOUS
  <2> HIDE DEF Hit
  <2>2. mid(0) = st
    BY <2>1
  <2> HIDE DEF mid
  <2> QED
    BY <1>2, <2>2 DEF Painted
<1>5. \A k \in 0..(n - 1) : k \in S => k + 1 \in S
  <2> TAKE k \in 0..(n - 1)
  <2> HAVE k \in S
  <2>1. PICK j \in 1..n : j = k + 1 /\ j - 1 = k /\ j \in 0..n
    OBVIOUS
  <2>2. PICK run \in Marks : run = runs[j]
    BY <1>1
  <2>3. f[j] = Marked(f[k], run.range, run.status) /\ f[k] \in Maps(T)
    BY <1>2, <2>1, <2>2
  <2>4. run.range.start < run.range.end /\ run.range.end <= T
    BY <1>1, <2>2
  <2>5. \A s \in 0..(T - 1) : InRange(s, run.range) =>
          so[s] = run.status /\ Rank(st[s]) <= Rank(run.status)
    BY <1>1, <2>2
  <2>6. \A s : Hit(s, j) <=> Hit(s, k) \/ InRange(s, run.range)
    <3>1. \A i : i \in 1..j <=> i \in 1..k \/ i = j
      BY <2>1
    <3> QED
      BY <2>2, <3>1
  <2> HIDE DEF Hit
  <2>7. PICK a : a = mid(k)
    OBVIOUS
  <2>8. PICK b : b = mid(j)
    OBVIOUS
  <2>9. a \in [0..(T - 1) -> CellStates] /\ b \in [0..(T - 1) -> CellStates]
    BY <1>3, <2>1, <2>7, <2>8
  <2>10. ASSUME NEW s \in 0..(T - 1)
         PROVE  IF InRange(s, run.range)
                THEN b[s] = run.status /\ Rank(a[s]) <= Rank(run.status)
                ELSE b[s] = a[s]
    <3>1. a[s] = IF Hit(s, k) THEN so[s] ELSE st[s]
      BY <2>7
    <3>2. b[s] = IF Hit(s, j) THEN so[s] ELSE st[s]
      BY <2>8
    <3>3. CASE InRange(s, run.range)
      <4>1. b[s] = run.status
        BY <2>5, <2>6, <3>2, <3>3
      <4>2. Rank(run.status) \in Nat
        BY <2>9, <4>1, Ranks
      <4>3. Rank(run.status) <= Rank(run.status)
        BY <4>2
      <4>4. Rank(a[s]) <= Rank(run.status)
        BY <2>5, <3>1, <3>3, <4>3
      <4> QED
        BY <3>3, <4>1, <4>4
    <3>4. CASE ~InRange(s, run.range)
      BY <2>6, <3>1, <3>2, <3>4
    <3> QED
      BY <3>3, <3>4
  <2>11. Paints(f[k], T, a)
    BY <2>7
  <2>12. Paints(Marked(f[k], run.range, run.status), T, b)
    <3>1. PICK m \in Maps(T) : m = f[k]
      BY <2>3
    <3> QED
      BY <2>4, <2>9, <2>10, <2>11, <3>1, MarkedPaints
  <2>13. Paints(f[j], T, mid(j))
    BY <2>3, <2>8, <2>12
  <2> QED
    BY <2>1, <2>13
<1> HIDE DEF S
<1>6. n \in 0..n
  BY <1>1
<1>7. n \in S
  BY <1>1, <1>4, <1>5, <1>6, UpTo
<1>8. mid(n) = so
  <2>1. \A s \in 0..(T - 1) : Hit(s, n) \/ so[s] = st[s]
    BY <1>1
  <2> HIDE DEF Hit
  <2> QED
    BY <2>1
<1> HIDE DEF mid
<1>9. Paints(f[n], T, so) /\ f[n] \in Maps(T)
  BY <1>1, <1>2, <1>7, <1>8 DEF S
<1> QED
  BY <1>2, <1>9 DEF Painted

--------------------------------------------------------------------------------
\* No sector is met twice.
Distinct(M) == \A i, j \in 1..Len(M) : M[i].sector = M[j].sector => i = j

\* ShownAs, of any sequence and any sectors skipped.
ShownIn(M, Sk, s, n) ==
  IF s \in Sk THEN "skipped"
  ELSE LET at == {k \in 1..n : M[k].sector = s}
       IN  IF at = {} THEN "pending" ELSE M[CHOOSE k \in at : TRUE].status

Surface(M, Sk, T, n) == [s \in 0..(T - 1) |-> ShownIn(M, Sk, s, n)]

LEMMA ShownAsIs == \A s, n : ShownAs(s, n) = ShownIn(trial.met, Skipped, s, n)
BY DEF ShownAs, ShownIn

LEMMA ShownSkipped ==
  ASSUME NEW M, NEW Sk, NEW s \in Sk, NEW n
  PROVE  ShownIn(M, Sk, s, n) = "skipped"
BY DEF ShownIn

LEMMA ShownPending ==
  ASSUME NEW M, NEW Sk, NEW s, s \notin Sk, NEW n, \A k \in 1..n : M[k].sector # s
  PROVE  ShownIn(M, Sk, s, n) = "pending"
<1>1. {k \in 1..n : M[k].sector = s} = {}
  OBVIOUS
<1> QED
  BY <1>1 DEF ShownIn

LEMMA ShownMet ==
  ASSUME NEW M \in Seq(Mets), Distinct(M), NEW Sk, NEW s, s \notin Sk, NEW n \in 0..Len(M),
         NEW i \in 1..n, M[i].sector = s
  PROVE  ShownIn(M, Sk, s, n) = M[i].status
<1> DEFINE at == {k \in 1..n : M[k].sector = s}
<1>1. at = {i}
  <2>1. \A k \in 1..n : k \in 1..Len(M)
    OBVIOUS
  <2> QED
    BY <2>1 DEF Distinct
<1>2. ShownIn(M, Sk, s, n) = IF at = {} THEN "pending" ELSE M[CHOOSE k \in at : TRUE].status
  BY DEF ShownIn
<1> HIDE DEF at
<1>3. (CHOOSE k \in at : TRUE) \in at
  BY <1>1
<1> QED
  BY <1>1, <1>2, <1>3

\* What may be shown of a sector.
LEMMA ShownIs ==
  ASSUME NEW M \in Seq(Mets), Distinct(M), NEW Sk, NEW s, NEW n \in 0..Len(M)
  PROVE  /\ ShownIn(M, Sk, s, n) \in CellStates
         /\ \/ s \in Sk /\ ShownIn(M, Sk, s, n) = "skipped"
            \/ s \notin Sk /\ ShownIn(M, Sk, s, n) = "pending" /\ \A k \in 1..n : M[k].sector # s
            \/ s \notin Sk /\ \E k \in 1..n : M[k].sector = s /\ ShownIn(M, Sk, s, n) = M[k].status
<1>1. CASE s \in Sk
  BY <1>1, ShownSkipped DEF CellStates
<1>2. CASE s \notin Sk /\ \A k \in 1..n : M[k].sector # s
  BY <1>2, ShownPending DEF CellStates
<1>3. ASSUME s \notin Sk, NEW k \in 1..n, M[k].sector = s
      PROVE  ShownIn(M, Sk, s, n) = M[k].status /\ M[k].status \in CellStates
  <2>1. ShownIn(M, Sk, s, n) = M[k].status
    BY <1>3, ShownMet
  <2>2. k \in 1..Len(M)
    OBVIOUS
  <2>3. M[k] \in Mets
    BY <2>2
  <2> QED
    BY <2>1, <2>3 DEF Mets, Statuses, CellStates
<1> QED
  BY <1>1, <1>2, <1>3

\* More that is met later changes nothing of what is shown.
LEMMA ShownLater ==
  ASSUME NEW M, NEW J, NEW Sk, NEW s, NEW n, \A k \in 1..n : J[k] = M[k]
  PROVE  ShownIn(J, Sk, s, n) = ShownIn(M, Sk, s, n)
<1>1. PICK at : at = {k \in 1..n : M[k].sector = s}
  OBVIOUS
<1>2. at = {k \in 1..n : J[k].sector = s}
  BY <1>1
<1>3. at # {} => (CHOOSE k \in at : TRUE) \in 1..n
  BY <1>1
<1>4. ShownIn(M, Sk, s, n) = IF s \in Sk THEN "skipped" ELSE IF at = {} THEN "pending"
                             ELSE M[CHOOSE k \in at : TRUE].status
  BY <1>1 DEF ShownIn
<1>5. ShownIn(J, Sk, s, n) = IF s \in Sk THEN "skipped" ELSE IF at = {} THEN "pending"
                             ELSE J[CHOOSE k \in at : TRUE].status
  BY <1>2 DEF ShownIn
<1> QED
  BY <1>3, <1>4, <1>5

\* A report takes the map from what was reported before to what is now.
LEMMA ReportPaints ==
  ASSUME NEW T \in Nat, NEW M \in Seq(Mets), Distinct(M), NEW Sk,
         \A i \in 1..Len(M) : M[i].sector \in 0..(T - 1) /\ M[i].sector \notin Sk,
         NEW a \in Nat, NEW b \in Nat, a <= b, b <= Len(M),
         NEW done \in Seq(Runs), Drawn(M, a, b, done),
         NEW map, Painted(map, T, Surface(M, Sk, T, a))
  PROVE  Painted(AllMarked(map, done), T, Surface(M, Sk, T, b))
<1>1. PICK st : st = Surface(M, Sk, T, a)
  OBVIOUS
<1>2. PICK so : so = Surface(M, Sk, T, b)
  OBVIOUS
<1>3. a \in 0..Len(M) /\ b \in 0..Len(M)
  OBVIOUS
<1>4. \A s \in 0..(T - 1) : st[s] = ShownIn(M, Sk, s, a) /\ so[s] = ShownIn(M, Sk, s, b)
  BY <1>1, <1>2 DEF Surface
<1>5. st \in [0..(T - 1) -> CellStates] /\ so \in [0..(T - 1) -> CellStates]
  <2>1. \A s : ShownIn(M, Sk, s, a) \in CellStates /\ ShownIn(M, Sk, s, b) \in CellStates
    BY <1>3, ShownIs
  <2> QED
    BY <1>1, <1>2, <2>1 DEF Surface
<1>6. done \in Seq(Marks)
  <2>1. PICK n \in Nat : n = Len(done) /\ done \in [1..n -> Runs]
    OBVIOUS
  <2>2. Runs \subseteq Marks
    BY DEF Runs, Marks, Statuses, CellStates
  <2>3. done \in [1..n -> Marks]
    BY <2>1, <2>2
  <2> QED
    BY <2>3, Sequence
<1>7. \A i \in (a + 1)..b : i \in 1..Len(M) /\ i \in 1..b
  OBVIOUS
<1>8. ASSUME NEW j \in 1..Len(done)
      PROVE  /\ done[j].range.start < done[j].range.end /\ done[j].range.end <= T
             /\ \A s \in 0..(T - 1) : InRange(s, done[j].range) =>
                  so[s] = done[j].status /\ Rank(st[s]) <= Rank(done[j].status)
  <2>1. PICK run \in Runs : run = done[j]
    OBVIOUS
  <2>2. RunOf(M, a, b, run)
    BY <2>1 DEF Drawn
  <2>3. run.range.start \in Nat /\ run.range.end \in Nat /\ run.status \in Statuses
    BY RunParts
  <2>4. run.range.start < run.range.end
    BY <2>2 DEF RunOf
  <2>5. run.range.end <= T
    <3>1. PICK x \in Nat : x = run.range.end - 1
      BY <2>3, <2>4
    <3>2. InRange(x, run.range)
      BY <2>3, <2>4, <3>1 DEF InRange
    <3>3. PICK i \in (a + 1)..b : M[i].sector = x
      BY <2>2, <3>2 DEF RunOf
    <3>4. x \in 0..(T - 1)
      BY <1>7, <3>3
    <3> QED
      BY <2>3, <3>1, <3>4
  <2>6. ASSUME NEW s \in 0..(T - 1), InRange(s, run.range)
        PROVE  so[s] = run.status /\ Rank(st[s]) <= Rank(run.status)
    <3>1. PICK i \in (a + 1)..b : M[i].sector = s /\ M[i].status = run.status
      BY <2>2, <2>6 DEF RunOf
    <3>2. s \notin Sk
      BY <1>7, <3>1
    <3>3. so[s] = run.status
      BY <1>3, <1>4, <1>7, <3>1, <3>2, ShownMet
    <3>4. \A k \in 1..a : M[k].sector # s
      <4> SUFFICES ASSUME NEW k \in 1..a, M[k].sector = s PROVE FALSE
        OBVIOUS
      <4>1. k \in 1..Len(M) /\ k # i
        OBVIOUS
      <4> QED
        BY <1>7, <3>1, <4>1 DEF Distinct
    <3>5. st[s] = "pending"
      BY <1>4, <3>2, <3>4, ShownPending
    <3>6. Rank(run.status) \in Nat /\ Rank(st[s]) = 0
      <4>1. run.status \in CellStates
        BY <2>3 DEF Statuses, CellStates
      <4> QED
        BY <3>5, <4>1, Ranks
    <3> QED
      BY <3>3, <3>6
  <2> QED
    BY <2>1, <2>4, <2>5, <2>6
<1>9. ASSUME NEW s \in 0..(T - 1)
      PROVE  so[s] = st[s] \/ \E j \in 1..Len(done) : InRange(s, done[j].range)
  <2>1. CASE s \in Sk
    BY <1>4, <2>1, ShownSkipped
  <2>2. CASE s \notin Sk /\ \E i \in (a + 1)..b : M[i].sector = s
    BY <2>2 DEF Drawn
  <2>3. ASSUME s \notin Sk, NEW i \in 1..a, M[i].sector = s PROVE so[s] = st[s]
    <3>1. i \in 1..b
      OBVIOUS
    <3> QED
      BY <1>3, <1>4, <2>3, <3>1, ShownMet
  <2>4. CASE s \notin Sk /\ \A i \in 1..b : M[i].sector # s
    <3>1. \A i \in 1..a : M[i].sector # s
      <4>1. \A i \in 1..a : i \in 1..b
        OBVIOUS
      <4> QED
        BY <2>4, <4>1
    <3>2. st[s] = "pending"
      BY <1>4, <2>4, <3>1, ShownPending
    <3>3. so[s] = "pending"
      BY <1>4, <2>4, ShownPending
    <3> QED
      BY <3>2, <3>3
  <2>5. \A i \in 1..b : i \in 1..a \/ i \in (a + 1)..b
    OBVIOUS
  <2> QED
    BY <2>1, <2>2, <2>3, <2>4, <2>5
<1>10. Painted(map, T, st)
  BY <1>1
<1>11. Painted(AllMarked(map, done), T, so)
  BY <1>5, <1>6, <1>8, <1>9, <1>10, AllPainted
<1> QED
  BY <1>2, <1>11

\* The window of a scan that begins shows what is skipped.
LEMMA StartPaints ==
  ASSUME NEW T \in Nat, NEW skips \in Seq(Spans), Apart(skips), Covered(skips) \subseteq 0..(T - 1)
  PROVE  Painted(AllMarked(FreshMap(T), [j \in 1..Len(skips) |->
                                           [range |-> skips[j], status |-> "skipped"]]),
                 T, Surface(<<>>, Covered(skips), T, 0))
<1>1. PICK n \in Nat : n = Len(skips)
  OBVIOUS
<1>2. PICK Sk : Sk = Covered(skips)
  OBVIOUS
<1>3. PICK st : st = [s \in 0..(T - 1) |-> "pending"]
  OBVIOUS
<1>4. PICK so : so = Surface(<<>>, Sk, T, 0)
  OBVIOUS
<1>5. PICK runs : runs = [j \in 1..n |-> [range |-> skips[j], status |-> "skipped"]]
  OBVIOUS
<1>6. \A s \in 0..(T - 1) : so[s] = IF s \in Sk THEN "skipped" ELSE "pending"
  <2> TAKE s \in 0..(T - 1)
  <2>1. so[s] = ShownIn(<<>>, Sk, s, 0)
    BY <1>4 DEF Surface
  <2>2. \A k \in 1..0 : <<>>[k].sector # s
    OBVIOUS
  <2> QED
    BY <2>1, <2>2, ShownSkipped, ShownPending
<1>7. st \in [0..(T - 1) -> CellStates] /\ so \in [0..(T - 1) -> CellStates]
      /\ \A s \in 0..(T - 1) : st[s] = "pending"
  <2>1. so = [s \in 0..(T - 1) |-> so[s]]
    BY <1>4 DEF Surface
  <2> QED
    BY <1>3, <1>6, <2>1 DEF CellStates
<1>8. runs \in Seq(Marks) /\ Len(runs) = n
  <2>1. runs \in [1..n -> Marks]
    BY <1>1, <1>5 DEF Marks, CellStates
  <2> QED
    BY <2>1, Sequence
<1>9. \A j \in 1..n : runs[j].range = skips[j] /\ runs[j].status = "skipped"
  BY <1>5
<1>10. ASSUME NEW j \in 1..n
       PROVE  /\ runs[j].range.start < runs[j].range.end /\ runs[j].range.end <= T
              /\ \A s \in 0..(T - 1) : InRange(s, runs[j].range) =>
                   so[s] = runs[j].status /\ Rank(st[s]) <= Rank(runs[j].status)
  <2>1. PICK r \in Spans : r = skips[j]
    BY <1>1
  <2>2. r.start \in Nat /\ r.end \in Nat
    BY SectorsIs
  <2>3. r.start < r.end
    BY <1>1, <2>1 DEF Apart
  <2>4. \A x \in Nat : InRange(x, r) => x \in Sk
    BY <1>1, <1>2, <2>1 DEF Covered, CoveredTo
  <2>5. r.end <= T
    <3>1. PICK x \in Nat : x = r.end - 1
      BY <2>2, <2>3
    <3>2. InRange(x, r)
      BY <2>2, <2>3, <3>1 DEF InRange
    <3>3. x \in 0..(T - 1)
      BY <1>2, <2>4, <3>2
    <3> QED
      BY <2>2, <3>1, <3>3
  <2>6. Rank("pending") <= Rank("skipped")
    <3>1. "skipped" \in CellStates
      BY DEF CellStates
    <3>2. Rank("skipped") \in Nat /\ Rank("pending") = 0
      BY <3>1, Ranks
    <3> QED
      BY <3>2
  <2> QED
    BY <1>6, <1>7, <1>9, <2>1, <2>3, <2>4, <2>5, <2>6
<1>11. ASSUME NEW s \in 0..(T - 1)
       PROVE  so[s] = st[s] \/ \E j \in 1..n : InRange(s, runs[j].range)
  <2>1. CASE s \in Sk
    BY <1>1, <1>2, <1>9, <2>1 DEF Covered, CoveredTo
  <2>2. CASE s \notin Sk
    BY <1>6, <1>7, <2>2
  <2> QED
    BY <2>1, <2>2
<1>12. Painted(FreshMap(T), T, st)
  BY <1>3, FreshPaints DEF Painted
<1>13. Painted(AllMarked(FreshMap(T), runs), T, so)
  BY <1>7, <1>8, <1>10, <1>11, <1>12, AllPainted
<1> QED
  BY <1>1, <1>2, <1>4, <1>5, <1>13

--------------------------------------------------------------------------------
\* The length of ranges that lie apart is how many sectors they cover.
LEMMA LengthCounts ==
  ASSUME NEW L \in Seq(Spans), Apart(L)
  PROVE  Length(L) = Cardinality(Covered(L)) /\ IsFiniteSet(Covered(L))
<1>1. PICK n \in Nat : n = Len(L)
  OBVIOUS
<1>2. PICK f \in [0..n -> Int] :
        /\ f[0] = 0 /\ \A k \in 1..n : f[k] = f[k - 1] + (L[k].end - L[k].start)
        /\ Length(L) = f[n]
  BY <1>1, LengthSum
<1> DEFINE S == {k \in 0..n : IsFiniteSet(CoveredTo(L, k)) /\ Cardinality(CoveredTo(L, k)) = f[k]}
<1>3. 0 \in S
  <2>1. CoveredTo(L, 0) = {}
    BY DEF CoveredTo
  <2>2. IsFiniteSet({}) /\ Cardinality({}) = 0
    BY FS_EmptySet
  <2>3. 0 \in 0..n
    OBVIOUS
  <2> QED
    BY <1>2, <2>1, <2>2, <2>3
<1>4. \A k \in 0..(n - 1) : k \in S => k + 1 \in S
  <2> TAKE k \in 0..(n - 1)
  <2> HAVE k \in S
  <2>1. PICK j \in 1..n : j = k + 1 /\ j - 1 = k /\ j \in 0..n
    OBVIOUS
  <2>2. PICK A : A = CoveredTo(L, k)
    OBVIOUS
  <2>3. IsFiniteSet(A) /\ Cardinality(A) = f[k]
    BY <2>2
  <2>4. PICK r \in Spans : r = L[j]
    BY <1>1
  <2>5. PICK s \in Nat, e \in Nat : s = r.start /\ e = r.end
    BY SectorsIs
  <2>6. s < e
    BY <1>1, <2>4, <2>5 DEF Apart
  <2>7. PICK c \in Nat : c = e - s /\ s + c - 1 = e - 1
    BY <2>6
  <2>8. CoveredTo(L, j) = A \cup s..(s + c - 1)
    <3>1. CoveredTo(L, k + 1) = CoveredTo(L, k) \cup Sectors(L[k + 1])
      BY <1>1, CoveredNext
    <3>2. Sectors(r) = s..(e - 1)
      BY <2>5 DEF Sectors
    <3> QED
      BY <2>1, <2>2, <2>4, <2>7, <3>1, <3>2
  <2>9. A \cap s..(s + c - 1) = {}
    <3> SUFFICES ASSUME NEW x \in A, x \in Nat, s <= x PROVE FALSE
      BY <2>2 DEF CoveredTo
    <3>1. PICK i \in 1..k : InRange(x, L[i]) /\ x \in Nat
      BY <2>2 DEF CoveredTo
    <3>2. i \in 1..Len(L) /\ j \in 1..Len(L) /\ i < j
      BY <1>1, <2>1
    <3>3. L[i].end <= L[j].start
      BY <3>2 DEF Apart
    <3>4. L[i].end \in Nat /\ x < L[i].end
      BY <3>1, <3>2, SpanParts DEF InRange
    <3>5. L[j].start = s
      BY <2>4, <2>5
    <3>6. PICK y \in Nat : y = L[i].end
      BY <3>4
    <3> QED
      BY <3>3, <3>4, <3>5, <3>6
  <2>10. Cardinality(A \cup s..(s + c - 1)) = Cardinality(A) + c
    BY <2>3, <2>9, CountedMore
  <2>11. IsFiniteSet(A \cup s..(s + c - 1))
    <3>1. IsFiniteSet(s..(s + c - 1))
      BY FS_Interval
    <3> QED
      BY <2>3, <3>1, FS_Union
  <2>12. f[j] = f[k] + (e - s)
    BY <1>2, <2>1, <2>4, <2>5
  <2>13. IsFiniteSet(CoveredTo(L, j)) /\ Cardinality(CoveredTo(L, j)) = f[j]
    BY <2>3, <2>7, <2>8, <2>10, <2>11, <2>12
  <2> QED
    BY <2>1, <2>13
<1> HIDE DEF S
<1>5. n \in 0..n
  OBVIOUS
<1>6. n \in S
  BY <1>3, <1>4, <1>5, UpTo
<1> QED
  BY <1>1, <1>2, <1>6 DEF S, Covered

\* What is skipped and what is planned make the disk.
LEMMA SkippedAndPlanned ==
  ASSUME trial.total \in Nat
  PROVE  /\ Cardinality(Skipped) \in Nat /\ Cardinality(Planned) \in Nat
         /\ Cardinality(Skipped) + Cardinality(Planned) = trial.total
<1>1. PICK T \in Nat : T = trial.total
  OBVIOUS
<1> DEFINE D == 0..(T - 1)
<1>2. IsFiniteSet(D) /\ Cardinality(D) = T
  <2>1. PICK z \in Int : z = T - 1
    OBVIOUS
  <2>2. IsFiniteSet(0..z) /\ Cardinality(0..z) = IF 0 > z THEN 0 ELSE z - 0 + 1
    BY <2>1, FS_Interval
  <2> QED
    BY <2>1, <2>2
<1>3. Skipped \subseteq D /\ Planned = D \ Skipped
  BY <1>1 DEF Skipped, Planned
<1> HIDE DEF D
<1>4. IsFiniteSet(Skipped) /\ IsFiniteSet(Planned)
  BY <1>2, <1>3, FS_Subset
<1>5. Cardinality(Planned) = Cardinality(D) - Cardinality(D \cap Skipped)
  BY <1>2, <1>3, FS_Difference
<1>6. D \cap Skipped = Skipped
  BY <1>3
<1>7. Cardinality(Skipped) \in Nat /\ Cardinality(Planned) \in Nat
  BY <1>4, FS_CardinalityType
<1>8. PICK p \in Nat, q \in Nat : p = Cardinality(Planned) /\ q = Cardinality(Skipped)
  BY <1>7
<1>9. p = T - q
  BY <1>2, <1>5, <1>6, <1>8
<1>10. q + p = T
  BY <1>9
<1> QED
  BY <1>1, <1>7, <1>8, <1>10

--------------------------------------------------------------------------------
(* What the window shows: the second half of the invariant.                     *)

Fielded == /\ {"issues", "unlisted", "rows", "totals", "skipped"} \subseteq DOMAIN panel
           /\ panel.totals \in Totals

\* What was met was to be read, and is met once.
Orderly == MetSectors \subseteq Planned /\ Distinct(trial.met)

PanelCounts == LET n == Checked(panel.totals) IN
  /\ n <= Len(trial.met) /\ Bad(panel.totals) = Len(BadIn(trial.met, n))
  /\ panel.issues = Listed(trial.met, n) /\ Len(panel.issues) + panel.unlisted = Bad(panel.totals)
  /\ panel.stats \in {"PASS", "FAIL", "stopped"} => panel.rows = Bad(panel.totals)

\* How far the window and the first i messages tell.
Reach(i) == Checked(IF i = 0 THEN panel.totals ELSE inbox[i].report.totals)

\* Each message takes up where the one before it ends, ...
Chained == \A i \in 1..Len(inbox) :
  LET r == inbox[i].report
  IN  ~inbox[i].failed => Told(trial.met, Reach(i - 1), r.done, r.issues, r.totals)

\* ... and what a thread has counted where the last one does.
Counting == \A k \in Scans :
  worker[k].pc = "scan" => Tells(trial.met, Reach(Len(inbox)), Len(trial.met), tally[k])

\* The list stays the one the scan was started from.
InFlight == running # NotRunning => /\ SectorsAt(targets, selected) = trial.total
                                    /\ running.planned = Cardinality(Planned)

Beside == panel.skipped = Cardinality(Skipped)

MapTrue == trial.map => Painted(panel.map, trial.total,
                                Surface(trial.met, Skipped, trial.total, Checked(panel.totals)))

PanelInv == /\ Fielded /\ Orderly /\ PanelCounts /\ Chained /\ Counting /\ InFlight /\ Beside
            /\ MapTrue

--------------------------------------------------------------------------------
Grows(M, J) == J = M \/ \E N \in Seq(Mets) : J = M \o N

\* What is told of what was met stays so when more is.
Stays(M, J) ==
  /\ J \in Seq(Mets) /\ Len(M) \in Nat /\ Len(J) \in Nat /\ Len(M) <= Len(J)
  /\ \A k \in 1..Len(M) : J[k] = M[k]
  /\ \A c \in 0..Len(M) : BadIn(J, c) = BadIn(M, c) /\ Listed(J, c) = Listed(M, c)
  /\ \A done, issues : \A a \in Nat, totals \in Totals :
       Told(M, a, done, issues, totals) => Told(J, a, done, issues, totals)

LEMMA GrowsStays ==
  ASSUME NEW M \in Seq(Mets), NEW J, Grows(M, J)
  PROVE  Stays(M, J)
<1>1. CASE J = M
  BY <1>1 DEF Stays
<1>2. ASSUME NEW N \in Seq(Mets), J = M \o N PROVE Stays(M, J)
  <2>1. J \in Seq(Mets) /\ Len(M) \in Nat /\ Len(J) \in Nat /\ Len(M) <= Len(J)
        /\ \A k \in 1..Len(M) : J[k] = M[k]
    BY <1>2, Joined
  <2>2. \A c \in 0..Len(M) : BadIn(J, c) = BadIn(M, c)
    BY <1>2, BadBefore
  <2>3. \A c \in 0..Len(M) : Listed(J, c) = Listed(M, c)
    BY <2>2 DEF Listed
  <2>4. ASSUME NEW a \in Nat, NEW done, NEW issues, NEW totals \in Totals,
               Told(M, a, done, issues, totals)
        PROVE  Told(J, a, done, issues, totals)
    BY <1>2, <2>4, ToldLater
  <2> QED
    BY <2>1, <2>2, <2>3, <2>4 DEF Stays
<1> QED
  BY <1>1, <1>2 DEF Grows

LEMMA CheckedType ==
  ASSUME NEW t \in Totals
  PROVE  Checked(t) \in Nat /\ Bad(t) \in Nat
<1>1. t.ok \in Nat /\ t.mismatch \in Nat /\ t.unreadable \in Nat
  BY DEF Totals
<1> QED
  BY <1>1 DEF Checked, Bad

LEMMA TrialParts ==
  ASSUME trial \in Trials
  PROVE  trial.met \in Seq(Mets) /\ trial.total \in Nat /\ Len(trial.met) \in Nat
<1>1. trial.met \in Seq(Mets) /\ trial.total \in Nat
  BY DEF Trials
<1> QED
  BY <1>1

\* The window shows what it showed, of what is left of the trial.
PanelKept ==
  /\ {"issues", "unlisted", "rows", "totals", "skipped"} \subseteq DOMAIN panel'
  /\ panel'.issues = panel.issues /\ panel'.unlisted = panel.unlisted
  /\ panel'.rows = panel.rows /\ panel'.totals = panel.totals /\ panel'.skipped = panel.skipped
  /\ panel'.stats \in {"PASS", "FAIL", "stopped"} => panel'.stats = panel.stats
  /\ trial'.map => trial.map /\ panel'.map = panel.map

LEMMA WindowStays ==
  ASSUME trial \in Trials, PanelInv, Grows(trial.met, trial'.met), trial'.total = trial.total,
         trial'.skips = trial.skips, PanelKept
  PROVE  (Fielded /\ PanelCounts /\ Beside /\ MapTrue)'
<1>1. PICK M \in Seq(Mets) : M = trial.met
  BY TrialParts
<1>2. PICK J : J = trial'.met
  OBVIOUS
<1>3. Stays(M, J)
  BY <1>1, <1>2, GrowsStays
<1>4. PICK t \in Totals : t = panel.totals /\ panel'.totals = t
  BY DEF PanelInv, Fielded, PanelKept
<1>5. PICK n \in Nat : n = Checked(t)
  BY CheckedType
<1>6. n <= Len(M) /\ Len(M) \in Nat
  BY <1>1, <1>4, <1>5, TrialParts DEF PanelInv, PanelCounts
<1>7. n \in 0..Len(M) /\ n <= Len(J) /\ BadIn(J, n) = BadIn(M, n) /\ Listed(J, n) = Listed(M, n)
      /\ \A k \in 1..n : J[k] = M[k]
  BY <1>3, <1>6 DEF Stays
<1>8. Fielded'
  BY <1>4 DEF Fielded, PanelKept
<1>9. PanelCounts'
  <2>1. /\ Bad(t) = Len(BadIn(M, n)) /\ panel.issues = Listed(M, n)
        /\ Len(panel.issues) + panel.unlisted = Bad(t)
        /\ panel.stats \in {"PASS", "FAIL", "stopped"} => panel.rows = Bad(t)
    BY <1>1, <1>4, <1>5 DEF PanelInv, PanelCounts
  <2>2. /\ n <= Len(J) /\ Bad(t) = Len(BadIn(J, n)) /\ panel'.issues = Listed(J, n)
        /\ Len(panel'.issues) + panel'.unlisted = Bad(t)
        /\ panel'.stats \in {"PASS", "FAIL", "stopped"} => panel'.rows = Bad(t)
    BY <1>7, <2>1 DEF PanelKept
  <2> QED
    BY <1>2, <1>4, <1>5, <2>2 DEF PanelCounts
<1>10. Skipped' = Skipped
  BY DEF Skipped
<1>11. Beside'
  BY <1>10 DEF PanelInv, Beside, PanelKept
<1>12. MapTrue'
  <2> SUFFICES ASSUME trial'.map PROVE MapTrue'
    BY DEF MapTrue
  <2>1. PICK T : T = trial.total
    OBVIOUS
  <2>2. PICK Sk : Sk = Skipped
    OBVIOUS
  <2>3. Painted(panel'.map, T, Surface(M, Sk, T, n))
    BY <1>1, <1>4, <1>5, <2>1, <2>2 DEF PanelInv, MapTrue, PanelKept
  <2>4. \A s : ShownIn(J, Sk, s, n) = ShownIn(M, Sk, s, n)
    BY <1>7, ShownLater
  <2>5. Surface(J, Sk, T, n) = Surface(M, Sk, T, n)
    BY <2>4 DEF Surface
  <2> QED
    BY <1>2, <1>4, <1>5, <1>10, <2>1, <2>2, <2>3, <2>5 DEF MapTrue
<1> QED
  BY <1>8, <1>9, <1>11, <1>12

\* The inputs that leave the threads and their messages alone.
LEMMA QuietPanel ==
  ASSUME VerifyInv, PanelInv, TrialKept, PanelKept, UNCHANGED <<worker, tally, inbox, running>>,
         running # NotRunning => UNCHANGED <<targets, selected>>
  PROVE  PanelInv'
<1>1. trial \in Trials
  BY DEF VerifyInv, Typed
<1>2. (Fielded /\ PanelCounts /\ Beside /\ MapTrue)'
  BY <1>1, WindowStays DEF Grows, TrialKept
<1>3. MetSectors' = MetSectors /\ Planned' = Planned
  BY TrialSame
<1>4. Orderly'
  BY <1>3 DEF PanelInv, Orderly, TrialKept
<1>5. \A i : Reach(i)' = Reach(i)
  BY DEF Reach, PanelKept
<1>6. Chained'
  BY <1>5 DEF PanelInv, Chained, TrialKept
<1>7. Counting'
  BY <1>5 DEF PanelInv, Counting, TrialKept
<1>8. InFlight'
  BY <1>3 DEF PanelInv, InFlight, TrialKept
<1> QED
  BY <1>2, <1>4, <1>6, <1>7, <1>8 DEF PanelInv

LEMMA RemapPanel ==
  ASSUME Typed, Fielded, NEW sectors, Remapped(sectors)
  PROVE  TrialKept /\ PanelKept
<1> DEFINE m == FreshMap(sectors)
<1>1. TrialKept /\ trial' = [trial EXCEPT !.map = FALSE] /\ trial \in Trials
  BY RemapKeeps DEF Remapped, Typed
<1>2. panel' = [panel EXCEPT !.map = m]
  BY DEF Remapped
<1> HIDE DEF m
<1>3. ~trial'.map
  BY <1>1 DEF Trials
<1> QED
  BY <1>1, <1>2, <1>3 DEF PanelKept, Fielded

LEMMA SelectPanel == VerifyInv /\ PanelInv /\ Select => PanelInv'
<1> SUFFICES ASSUME VerifyInv, PanelInv, Select PROVE PanelInv'
  OBVIOUS
<1>1. Typed /\ Fielded
  BY DEF VerifyInv, PanelInv
<1>2. UNCHANGED <<worker, tally, inbox, running, targets>>
  BY DEF Select, thread
<1>3. PICK i \in DOMAIN targets :
        IF running = NotRunning
        THEN selected' = i /\ Remapped(targets[i].sectors)
        ELSE UNCHANGED <<selected, panel, trial, plan>>
  BY DEF Select
<1>4. CASE running = NotRunning
  <2>1. TrialKept /\ PanelKept
    BY <1>1, <1>3, <1>4, RemapPanel
  <2> QED
    BY <1>2, <1>4, <2>1, QuietPanel
<1>5. CASE running # NotRunning
  <2>1. UNCHANGED <<selected, panel, trial>>
    BY <1>3, <1>5
  <2>2. TrialKept /\ PanelKept
    BY <1>1, <2>1 DEF TrialKept, PanelKept, Fielded
  <2> QED
    BY <1>2, <2>1, <2>2, QuietPanel
<1> QED
  BY <1>4, <1>5

LEMMA RescanPanel == VerifyInv /\ PanelInv /\ Rescan => PanelInv'
<1> SUFFICES ASSUME VerifyInv, PanelInv, Rescan PROVE PanelInv'
  OBVIOUS
<1>1. Typed /\ Fielded
  BY DEF VerifyInv, PanelInv
<1>2. UNCHANGED <<worker, tally, inbox, running>> /\ running = NotRunning
  BY DEF Rescan, thread
<1>3. \E sectors : Remapped(sectors)
  BY DEF Rescan
<1>4. TrialKept /\ PanelKept
  BY <1>1, <1>3, RemapPanel
<1> QED
  BY <1>2, <1>4, QuietPanel

\* Nothing the window shows depends on what is typed, plugged in, or asked to stop.
LEMMA ElsewherePanel ==
  ASSUME VerifyInv, PanelInv,
         UNCHANGED <<worker, tally, inbox, running, targets, selected, panel, trial>>
  PROVE  PanelInv'
<1>1. TrialKept /\ PanelKept
  BY DEF TrialKept, PanelKept, PanelInv, Fielded
<1> QED
  BY <1>1, QuietPanel

--------------------------------------------------------------------------------
Blank == /\ BadIn(<<>>, 0) = <<>> /\ Listed(<<>>, 0) = <<>>
         /\ NoTotals \in Totals /\ Checked(NoTotals) = 0 /\ Bad(NoTotals) = 0
         /\ Distinct(<<>>)

\* Of nothing, nothing is told.
LEMMA NothingTold == Blank
<1>0. <<>> \in Seq(Mets) /\ Len(<<>>) = 0
  OBVIOUS
<1>1. PICK M \in Seq(Mets) : M = <<>> /\ Len(M) = 0
  BY <1>0
<1>2. BadIn(M, 0) = <<>>
  BY BadNexts DEF BadNext
<1>3. PICK L \in Seq(Nat) : L = Listed(M, 0) /\ Len(L) = 0
  <2>1. 0 \in 0..Len(M)
    BY <1>1
  <2>2. Listed(M, 0) \in Seq(Nat) /\ Len(Listed(M, 0)) = Least(MAX_ISSUES, Len(BadIn(M, 0)))
    BY <2>1, ListedType
  <2>3. Least(MAX_ISSUES, Len(<<>>)) = 0
    BY ScanAssumption DEF Least
  <2> QED
    BY <1>2, <2>2, <2>3
<1>4. L = <<>>
  BY <1>3
<1>5. NoTotals \in Totals /\ Checked(NoTotals) = 0 /\ Bad(NoTotals) = 0
  BY DEF NoTotals, Totals, Checked, Bad
<1>6. Distinct(M)
  BY <1>1 DEF Distinct
<1> QED
  BY <1>1, <1>2, <1>3, <1>4, <1>5, <1>6 DEF Blank

\* A window that shows nothing yet.
Emptied(p) == /\ {"issues", "unlisted", "rows", "totals", "skipped"} \subseteq DOMAIN p
              /\ p.issues = <<>> /\ p.unlisted = 0 /\ p.totals = NoTotals
              /\ p.stats \notin {"PASS", "FAIL", "stopped"}

LEMMA PanelStarts == VerifyInit => PanelInv
<1> SUFFICES ASSUME VerifyInit PROVE PanelInv
  OBVIOUS
<1> DEFINE m == FreshMap(SectorsAt(targets, selected))
<1>1. panel = [EmptyPanel EXCEPT !.map = m] /\ trial = NoTrial /\ running = NotRunning /\ inbox = <<>>
      /\ worker = [k \in Scans |-> NoThread]
  BY DEF VerifyInit
<1> HIDE DEF m
<1>2. Emptied(panel) /\ panel.skipped = 0
  BY <1>1 DEF EmptyPanel, Emptied
<1>3. trial.met = <<>> /\ trial.total = 0 /\ ~trial.map
  BY <1>1 DEF NoTrial
<1>4. Blank
  BY NothingTold
<1>5. Fielded
  BY <1>2, <1>4 DEF Fielded, Emptied, Blank
<1>6. Len(trial.met) = 0 /\ MetSectors = {}
  BY <1>3 DEF MetSectors
<1>7. Orderly
  BY <1>3, <1>4, <1>6 DEF Orderly, Blank
<1>8. PanelCounts
  <2>1. Len(<<>>) = 0
    OBVIOUS
  <2> QED
    BY <1>2, <1>3, <1>4, <2>1 DEF PanelCounts, Emptied, Blank
<1>9. Chained
  BY <1>1 DEF Chained
<1>10. Counting
  BY <1>1 DEF Counting, NoThread
<1>11. Skipped = {}
  BY <1>3 DEF Skipped
<1>12. Beside
  BY <1>2, <1>11, FS_EmptySet DEF Beside
<1> QED
  BY <1>1, <1>3, <1>5, <1>7, <1>8, <1>9, <1>10, <1>12 DEF PanelInv, InFlight, MapTrue

LEMMA StartPanel == ASSUME NEW k \in Scans PROVE VerifyInv /\ PanelInv /\ Start(k) => PanelInv'
<1> SUFFICES ASSUME VerifyInv, PanelInv, Start(k) PROVE PanelInv'
  OBVIOUS
<1>1. Typed
  BY DEF VerifyInv
<1>2. running = NotRunning /\ UNCHANGED <<targets, selected, tally, inbox>>
  BY DEF Start
<1>3. inbox = <<>> /\ \A j \in Scans : Idle(j)
  BY <1>2, NoneFlies
<1> DEFINE found == Setups(targets, selected, fields)
<1>4. CASE found = {}
  <2>1. UNCHANGED <<running, worker, panel, trial>>
    BY <1>4 DEF Start
  <2> QED
    BY <1>2, <2>1, ElsewherePanel
<1>5. CASE found # {}
  <2> DEFINE Map(s) == AllMarked(FreshMap(s.target.sectors),
                                 [j \in 1..Len(s.skips) |->
                                    [range |-> s.skips[j], status |-> "skipped"]])
  <2>1. PICK s \in found :
          /\ running' = [scan |-> k, planned |-> Length(s.plan)]
          /\ worker' = [worker EXCEPT ![k] = [pc |-> "open", setup |-> s]]
          /\ panel' = [EmptyPanel EXCEPT !.map = Map(s), !.skipped = Length(s.skips),
                                         !.stats = "opening", !.button = "Stop"]
          /\ trial' = [map |-> TRUE, total |-> s.target.sectors, skips |-> fields.skips,
                       pattern |-> s.pattern, met |-> <<>>]
    BY <1>5 DEF Start
  <2>2. selected # 0 /\ MeantBy(s, fields.skips, targets[selected])
    BY <1>1, SetupMeans DEF Typed
  <2>3. PICK T \in Nat : T = s.target.sectors /\ T = targets[selected].sectors
    BY <2>2 DEF MeantBy, Targets
  <2>4. PICK skips \in Seq(Spans) : skips = s.skips /\ Apart(skips)
                                    /\ Covered(skips) = Named(fields.skips, T)
    BY <2>2, <2>3 DEF MeantBy, SkipsWell
  <2>5. PICK left \in Seq(Spans) : left = s.plan /\ Apart(left)
                                   /\ Covered(left) = (0..(T - 1)) \ Covered(skips)
    BY <2>2, <2>3, <2>4 DEF MeantBy, PlanWell
  <2>6. PICK map : map = Map(s)
    OBVIOUS
  <2>7. Painted(map, T, Surface(<<>>, Covered(skips), T, 0))
    <3>1. Covered(skips) \subseteq 0..(T - 1)
      BY <2>4 DEF Named
    <3>2. map = AllMarked(FreshMap(T), [j \in 1..Len(skips) |->
                                          [range |-> skips[j], status |-> "skipped"]])
      BY <2>3, <2>4, <2>6
    <3> QED
      BY <2>4, <3>1, <3>2, StartPaints
  <2> HIDE DEF found, Map
  <2>8. /\ Emptied(panel') /\ panel'.skipped = Length(skips) /\ panel'.map = map
    <3>1. PICK c : c = Length(skips)
      OBVIOUS
    <3>2. panel' = [EmptyPanel EXCEPT !.map = map, !.skipped = c, !.stats = "opening", !.button = "Stop"]
      BY <2>1, <2>4, <2>6, <3>1
    <3> QED
      BY <3>1, <3>2 DEF EmptyPanel, Emptied
  <2>9. trial'.met = <<>> /\ trial'.total = T /\ trial'.skips = fields.skips
    BY <2>1, <2>3
  <2>10. Blank
    BY NothingTold
  <2>11. Skipped' = Covered(skips) /\ Planned' = Covered(left)
    <3>1. Skipped' = Covered(skips)
      BY <2>4, <2>9 DEF Skipped, Named
    <3> QED
      BY <2>5, <2>9, <3>1 DEF Planned
  <2>12. Fielded'
    BY <2>8, <2>10 DEF Fielded, Emptied, Blank
  <2>13. Orderly'
    BY <2>9, <2>10 DEF Orderly, MetSectors, Blank
  <2>14. PanelCounts'
    <3>1. Len(<<>>) = 0
      OBVIOUS
    <3> QED
      BY <2>8, <2>9, <2>10, <3>1 DEF PanelCounts, Emptied, Blank
  <2>15. Chained'
    BY <1>2, <1>3 DEF Chained
  <2>16. Counting'
    <3>1. ASSUME NEW j \in Scans PROVE worker'[j].pc # "scan"
      <4>1. CASE j = k
        <5>1. worker'[k] = [pc |-> "open", setup |-> s]
          BY <1>1, <2>1 DEF Typed
        <5> QED
          BY <4>1, <5>1
      <4>2. CASE j # k
        <5>1. worker'[j] = worker[j]
          BY <1>1, <2>1, <4>2 DEF Typed
        <5> QED
          BY <1>3, <5>1 DEF Idle, NoThread, Ended
      <4> QED
        BY <4>1, <4>2
    <3> QED
      BY <3>1 DEF Counting
  <2>17. InFlight'
    <3>1. running'.planned = Cardinality(Covered(left))
      BY <2>1, <2>5, LengthCounts
    <3>2. SectorsAt(targets, selected) = T
      BY <2>2, <2>3 DEF SectorsAt
    <3> QED
      BY <1>2, <2>9, <2>11, <3>1, <3>2 DEF InFlight
  <2>18. Beside'
    <3>1. Length(skips) = Cardinality(Covered(skips))
      BY <2>4, LengthCounts
    <3> QED
      BY <2>8, <2>11, <3>1 DEF Beside
  <2>19. MapTrue'
    BY <2>7, <2>8, <2>9, <2>10, <2>11 DEF MapTrue, Emptied, Blank
  <2> QED
    BY <2>12, <2>13, <2>14, <2>15, <2>16, <2>17, <2>18, <2>19 DEF PanelInv
<1> QED
  BY <1>4, <1>5

--------------------------------------------------------------------------------
LEMMA MessageParts ==
  ASSUME NEW msg \in Messages
  PROVE  msg.report \in Reports /\ msg.report.totals \in Totals
         /\ msg.report.done \in Seq(Runs) /\ msg.report.issues \in Seq(Nat)
<1>1. msg.report \in Reports
  BY DEF Messages
<1>2. PICK r \in Reports : r = msg.report
  BY <1>1
<1>3. r.totals \in Totals /\ r.done \in Seq(Runs) /\ r.issues \in Seq(Nat)
  BY DEF Reports
<1> QED
  BY <1>1, <1>2, <1>3

LEMMA ReachType ==
  ASSUME Typed, Fielded, NEW i \in 0..Len(inbox)
  PROVE  Reach(i) \in Nat
<1>1. inbox \in Seq(Messages)
  BY DEF Typed
<1>2. CASE i = 0
  BY <1>2, CheckedType DEF Reach, Fielded
<1>3. CASE i # 0
  <2>1. inbox[i] \in Messages
    BY <1>1, <1>3
  <2>2. inbox[i].report.totals \in Totals
    BY <2>1, MessageParts
  <2> QED
    BY <1>3, <2>2, CheckedType DEF Reach
<1> QED
  BY <1>2, <1>3

\* The messages there were, when more is met.
LEMMA ChainHolds ==
  ASSUME VerifyInv, PanelInv, Grows(trial.met, trial'.met), NEW i \in 1..Len(inbox), ~inbox[i].failed
  PROVE  LET r == inbox[i].report
         IN  Told(trial'.met, Reach(i - 1), r.done, r.issues, r.totals)
<1>1. PICK msg \in Messages : msg = inbox[i]
  BY DEF VerifyInv, Typed
<1>2. PICK r : r = msg.report /\ r.totals \in Totals
  BY MessageParts
<1>3. Reach(i - 1) \in Nat
  <2>1. i - 1 \in 0..Len(inbox)
    BY DEF VerifyInv, Typed
  <2> QED
    BY <2>1, ReachType DEF VerifyInv, PanelInv
<1>4. Told(trial.met, Reach(i - 1), r.done, r.issues, r.totals)
  BY <1>1, <1>2 DEF PanelInv, Chained
<1>5. Stays(trial.met, trial'.met)
  BY GrowsStays, TrialParts DEF VerifyInv, Typed
<1>6. Told(trial'.met, Reach(i - 1), r.done, r.issues, r.totals)
  BY <1>2, <1>3, <1>4, <1>5 DEF Stays
<1> QED
  BY <1>1, <1>2, <1>6

LEMMA ChainSame ==
  ASSUME VerifyInv, PanelInv, Grows(trial.met, trial'.met), UNCHANGED <<inbox, panel>>
  PROVE  Chained' /\ Reach(Len(inbox))' = Reach(Len(inbox))
<1>1. \A i : Reach(i)' = Reach(i)
  BY DEF Reach
<1>2. ASSUME NEW i \in 1..Len(inbox), ~inbox[i].failed
      PROVE  LET r == inbox[i].report
             IN  Told(trial'.met, Reach(i - 1)', r.done, r.issues, r.totals)
  BY <1>1, <1>2, ChainHolds
<1>3. Chained'
  BY <1>2 DEF Chained
<1>4. Reach(Len(inbox))' = Reach(Len(inbox))
  BY DEF Reach
<1> QED
  BY <1>3, <1>4

LEMMA ChainLonger ==
  ASSUME VerifyInv, PanelInv, Grows(trial.met, trial'.met), UNCHANGED panel,
         NEW msg \in Messages, Sends(msg), NEW r, r = msg.report,
         ~msg.failed => Told(trial'.met, Reach(Len(inbox)), r.done, r.issues, r.totals)
  PROVE  Chained' /\ Reach(Len(inbox))' = Checked(r.totals)
<1>1. inbox \in Seq(Messages) /\ Typed /\ Fielded
  BY DEF VerifyInv, Typed, PanelInv
<1>2. PICK n \in Nat : n = Len(inbox)
  BY <1>1
<1>3. Len(inbox') = n + 1 /\ (\A i \in 1..n : inbox'[i] = inbox[i]) /\ inbox'[n + 1] = msg
  <2>1. inbox' = Append(inbox, msg)
    BY DEF Sends
  <2> QED
    BY <1>1, <1>2, <2>1, Appended
<1>4. \A i \in 0..n : Reach(i)' = Reach(i)
  <2>1. \A i \in 0..n : i = 0 \/ i \in 1..n
    BY <1>2
  <2> QED
    BY <1>3, <2>1 DEF Reach
<1>5. Reach(n + 1)' = Checked(r.totals)
  <2>1. n + 1 # 0
    BY <1>2
  <2> QED
    BY <1>3, <2>1 DEF Reach
<1>6. ASSUME NEW i \in 1..(n + 1), ~inbox'[i].failed
      PROVE  LET q == inbox'[i].report
             IN  Told(trial'.met, Reach(i - 1)', q.done, q.issues, q.totals)
  <2>1. i \in 1..n \/ i = n + 1
    BY OneUp
  <2>2. CASE i \in 1..n
    <3>1. i - 1 \in 0..n /\ inbox'[i] = inbox[i]
      BY <1>3, <2>2
    <3>2. Reach(i - 1)' = Reach(i - 1)
      BY <1>4, <3>1
    <3> QED
      BY <1>2, <1>6, <2>2, <3>1, <3>2, ChainHolds
  <2>3. CASE i = n + 1
    <3>1. i - 1 = n /\ n \in 0..n
      BY <2>3
    <3>2. Reach(i - 1)' = Reach(n)
      BY <1>4, <3>1
    <3> QED
      BY <1>2, <1>3, <1>6, <2>3, <3>2
  <2> QED
    BY <2>1, <2>2, <2>3
<1>7. Chained'
  BY <1>3, <1>6 DEF Chained
<1> QED
  BY <1>3, <1>5, <1>7

--------------------------------------------------------------------------------
\* A thread goes on: the window and the choice stay, and more may be met.
LEMMA ThreadPanel ==
  ASSUME VerifyInv, PanelInv, UNCHANGED <<panel, running, targets, selected>>,
         Grows(trial.met, trial'.met), trial'.total = trial.total, trial'.skips = trial.skips,
         trial'.map = trial.map, Orderly', Chained', Counting'
  PROVE  PanelInv'
<1>1. trial \in Trials
  BY DEF VerifyInv, Typed
<1>2. PanelKept
  BY DEF PanelKept, PanelInv, Fielded
<1>3. (Fielded /\ PanelCounts /\ Beside /\ MapTrue)'
  BY <1>1, <1>2, WindowStays
<1>4. Planned' = Planned
  BY DEF Planned, Skipped
<1>5. InFlight'
  BY <1>4 DEF PanelInv, InFlight
<1> QED
  BY <1>3, <1>5 DEF PanelInv

\* No other thread is scanning.
LEMMA OnlyOne ==
  ASSUME VerifyInv, NEW k \in Scans, ~Idle(k), NEW w, worker' = [worker EXCEPT ![k] = w]
  PROVE  worker'[k] = w /\ \A j \in Scans : worker'[j].pc = "scan" => j = k
<1>1. DOMAIN worker = Scans
  BY DEF VerifyInv, Typed
<1>2. ASSUME NEW j \in Scans \ {k} PROVE worker'[j].pc # "scan"
  <2>1. Idle(j) /\ worker'[j] = worker[j]
    BY <1>1, AtWork
  <2> QED
    BY <2>1 DEF Idle, NoThread, Ended
<1> QED
  BY <1>1, <1>2

LEMMA OpenPanel == ASSUME NEW k \in Scans PROVE VerifyInv /\ PanelInv /\ Open(k) => PanelInv'
<1> SUFFICES ASSUME VerifyInv, PanelInv, Open(k) PROVE PanelInv'
  OBVIOUS
<1>1. Opening(k) /\ worker[k].pc = "open"
  BY PcOpen DEF Open
<1>2. ~Idle(k) /\ Typed /\ Fielded
  <2>1. ~Idle(k)
    BY <1>1 DEF Idle, NoThread, Ended
  <2> QED
    BY <2>1 DEF VerifyInv, PanelInv
<1>3. UNCHANGED <<panel, running, targets, selected, tally, trial>>
  BY DEF Open, idle
<1>4. trial.met = <<>> /\ tally[k] = NoTally
  BY <1>1 DEF Opening
<1>5. PICK w \in Opened(k) : /\ worker' = [worker EXCEPT ![k] = w]
                             /\ (w = Ended /\ Sends(Failure)) \/ UNCHANGED inbox
  BY DEF Open
<1>6. worker'[k] = w /\ \A j \in Scans : worker'[j].pc = "scan" => j = k
  BY <1>2, <1>5, OnlyOne
<1>7. Grows(trial.met, trial'.met)
  BY <1>3 DEF Grows
<1>8. Orderly'
  <2>1. TrialKept
    BY <1>3 DEF TrialKept
  <2>2. MetSectors' = MetSectors /\ Planned' = Planned
    BY <2>1, TrialSame
  <2> QED
    BY <1>3, <2>2 DEF PanelInv, Orderly
<1>9. CASE w = Ended /\ Sends(Failure)
  <2>1. PICK msg \in Messages : msg = Failure /\ msg.failed
    BY MessageType
  <2>2. Chained'
    BY <1>3, <1>7, <1>9, <2>1, ChainLonger
  <2>3. Counting'
    BY <1>6, <1>9 DEF Counting, Ended
  <2> QED
    BY <1>3, <1>7, <1>8, <2>2, <2>3, ThreadPanel
<1>10. CASE UNCHANGED inbox
  <2>1. Chained' /\ Reach(Len(inbox))' = Reach(Len(inbox))
    BY <1>3, <1>7, <1>10, ChainSame
  <2>2. Reach(Len(inbox)) = 0
    <3>1. PICK n \in Nat : n = Len(inbox)
      BY <1>2 DEF Typed
    <3>2. n \in 0..Len(inbox) /\ Reach(n) \in Nat
      <4>1. n \in 0..Len(inbox)
        BY <3>1
      <4> QED
        BY <1>2, <4>1, ReachType
    <3>3. Len(trial.met) = 0
      BY <1>4
    <3>4. CASE n = 0
      BY <3>1, <3>2, <3>3, <3>4 DEF Reach, PanelInv, PanelCounts
    <3>5. CASE n # 0
      <4>1. n \in 1..Len(inbox)
        BY <3>1, <3>5
      <4>2. ~inbox[n].failed
        BY <1>2, <4>1, AtWork DEF Parting
      <4>3. Reach(n) <= Len(trial.met)
        BY <3>5, <4>1, <4>2 DEF Reach, PanelInv, Chained, Told
      <4> QED
        BY <3>1, <3>2, <3>3, <4>3
    <3> QED
      BY <3>4, <3>5
  <2>3. Tells(<<>>, 0, 0, NoTally)
    <3>1. Blank
      BY NothingTold
    <3>2. /\ NoTally.totals = NoTotals /\ NoTally.kept = 0
          /\ NoTally.report.done = <<>> /\ NoTally.report.issues = <<>>
      BY DEF NoTally, NoReport
    <3>3. Least(MAX_ISSUES, Len(<<>>)) = 0
      BY ScanAssumption DEF Least
    <3>4. Drawn(<<>>, 0, 0, <<>>)
      BY DEF Drawn
    <3>5. <<>> \o <<>> = <<>> /\ Len(<<>>) = 0
      OBVIOUS
    <3>6. Told(<<>>, 0, <<>>, <<>>, NoTotals)
      BY <3>1, <3>4, <3>5 DEF Told, Blank
    <3> QED
      BY <3>1, <3>2, <3>3, <3>6, NoTallyType DEF Tells, Blank
  <2>4. Counting'
    <3>1. Tells(trial'.met, Reach(Len(inbox))', Len(trial'.met), tally'[k])
      <4>1. Len(<<>>) = 0
        OBVIOUS
      <4> QED
        BY <1>3, <1>4, <2>1, <2>2, <2>3, <4>1
    <3> QED
      BY <1>6, <3>1 DEF Counting
  <2> QED
    BY <1>3, <1>7, <1>8, <2>1, <2>4, ThreadPanel
<1> QED
  BY <1>5, <1>9, <1>10

--------------------------------------------------------------------------------
EmittedAs(r, t) == r.done = t.report.done /\ r.issues = t.report.issues /\ r.totals = t.totals

\* A report says what was counted.
LEMMA EmittedSays ==
  ASSUME NEW t \in Tallies, NEW s
  PROVE  /\ EmittedAs(Emitted(t, s), t)
         /\ \A e : EmittedAs([Emitted(t, s) EXCEPT !.end = e], t)
<1> DEFINE a == t.report
           b == t.totals
           r == Emitted(t, s)
<1>1. a \in Drafts
  BY TallyParts
<1>2. r = [a EXCEPT !.pos = s, !.totals = b]
  BY DEF Emitted
<1> HIDE DEF a, b, r
<1>3. r.done = a.done /\ r.issues = a.issues /\ r.totals = b
      /\ {"done", "issues", "totals"} \subseteq DOMAIN r
  BY <1>1, <1>2 DEF Drafts
<1>4. ASSUME NEW e, NEW q, q = [r EXCEPT !.end = e]
      PROVE  q.done = a.done /\ q.issues = a.issues /\ q.totals = b
  BY <1>3, <1>4
<1> QED
  BY <1>3, <1>4 DEF a, b, r, EmittedAs

\* After a report a tally tells of the same, with no news.
LEMMA TellsAfresh ==
  ASSUME NEW M \in Seq(Mets), NEW a, NEW b \in 0..Len(M), NEW t, Tells(M, a, b, t)
  PROVE  Tells(M, b, b, [t EXCEPT !.report = NoReport])
<1>1. t \in Tallies /\ Checked(t.totals) = b /\ t.kept = Least(MAX_ISSUES, Len(BadIn(M, b)))
      /\ Bad(t.totals) = Len(BadIn(M, b))
  BY DEF Tells, Told
<1>2. PICK e : e = [t EXCEPT !.report = NoReport]
  OBVIOUS
<1>3. e \in Tallies /\ e.totals = t.totals /\ e.kept = t.kept /\ e.report = NoReport
  BY <1>1, <1>2, NoTallyType DEF Tallies
<1>4. e.report.done = <<>> /\ e.report.issues = <<>>
  BY <1>3 DEF NoReport
<1>5. Listed(M, b) \o <<>> = Listed(M, b)
  <2>1. PICK L \in Seq(Nat) : L = Listed(M, b)
    BY ListedType
  <2>2. L \o <<>> = L
    OBVIOUS
  <2> QED
    BY <2>1, <2>2
<1>6. Drawn(M, b, b, <<>>)
  BY DEF Drawn
<1>7. Told(M, b, e.report.done, e.report.issues, e.totals)
  BY <1>1, <1>3, <1>4, <1>5, <1>6 DEF Told
<1>8. Tells(M, b, b, e)
  BY <1>1, <1>3, <1>7 DEF Tells
<1> QED
  BY <1>2, <1>8

\* What a chunk adds to what was met.
Chunked(M, J, w, n, failed) ==
  /\ \E N \in Seq(Mets) : J = M \o N
  /\ J \in Seq(Mets) /\ Len(J) = Len(M) + n /\ \A i \in 1..Len(M) : J[i] = M[i]
  /\ \A i \in 1..n : /\ J[Len(M) + i].sector = w.s + i - 1
                     /\ J[Len(M) + i].status = Truth(w.medium, w.setup.pattern, w.s + i - 1, failed)

LEMMA MetChunked ==
  ASSUME trial \in Trials, NEW w, NEW s \in Nat, w.s = s, NEW n \in Nat, NEW failed,
         Met(w, n, failed),
         \A i \in 1..n : Truth(w.medium, w.setup.pattern, s + i - 1, failed) \in Statuses
  PROVE  Chunked(trial.met, trial'.met, w, n, failed) /\ trial'.map = trial.map
<1> DEFINE Tr(i) == Truth(w.medium, w.setup.pattern, s + i - 1, failed)
           new == [i \in 1..n |-> [sector |-> s + i - 1, status |-> Tr(i)]]
           old == trial.met
           all == old \o new
<1>1. trial' = [trial EXCEPT !.met = all]
  BY DEF Met
<1>2. \A i \in 1..n : [sector |-> s + i - 1, status |-> Tr(i)] \in Mets
  <2> TAKE i \in 1..n
  <2>1. s + i - 1 \in Nat /\ Tr(i) \in Statuses
    OBVIOUS
  <2> HIDE DEF Tr
  <2> QED
    BY <2>1 DEF Mets
<1> HIDE DEF Tr
<1>3. new \in [1..n -> Mets]
  BY <1>2
<1>4. new \in Seq(Mets) /\ Len(new) = n
  <2> HIDE DEF new
  <2> QED
    BY <1>3, Sequence
<1>5. old \in Seq(Mets)
  BY DEF Trials
<1>6. \A i \in 1..n : new[i].sector = s + i - 1 /\ new[i].status = Tr(i)
  OBVIOUS
<1> HIDE DEF new, old
<1>7. /\ all \in Seq(Mets) /\ Len(all) = Len(old) + n
      /\ (\A i \in 1..Len(old) : all[i] = old[i]) /\ \A i \in 1..n : all[Len(old) + i] = new[i]
  <2>1. /\ all \in Seq(Mets) /\ Len(all) = Len(old) + Len(new)
        /\ \A i \in 1..Len(old) : all[i] = old[i]
    BY <1>4, <1>5, Joined
  <2>2. \A i \in 1..Len(new) : all[Len(old) + i] = new[i]
    BY <1>4, <1>5, Joined
  <2> HIDE DEF all
  <2> QED
    BY <1>4, <2>1, <2>2
<1>8. \E N \in Seq(Mets) : all = old \o N
  BY <1>4
<1> HIDE DEF all
<1>9. trial'.met = all /\ trial'.map = trial.map
  BY <1>1 DEF Trials
<1>10. Chunked(old, all, w, n, failed)
  <2>1. ASSUME NEW i \in 1..n
        PROVE  all[Len(old) + i].sector = s + i - 1 /\ all[Len(old) + i].status = Tr(i)
    BY <1>6, <1>7
  <2> QED
    BY <1>7, <1>8, <2>1 DEF Chunked, Tr
<1> QED
  BY <1>9, <1>10 DEF old

\* A chunk of sectors that were not met keeps what was met in order.
LEMMA ChunkDistinct ==
  ASSUME NEW M \in Seq(Mets), NEW J, NEW w, w.s \in Nat, NEW n \in Nat, NEW failed,
         Chunked(M, J, w, n, failed), Distinct(M),
         \A i \in 1..Len(M) : M[i].sector \notin w.s..(w.s + n - 1)
  PROVE  Distinct(J)
<1>1. PICK m \in Nat, s \in Nat : m = Len(M) /\ s = w.s
  OBVIOUS
<1>2. /\ Len(J) = m + n /\ (\A i \in 1..m : J[i] = M[i])
      /\ \A i \in 1..n : J[m + i].sector = s + i - 1
  BY <1>1 DEF Chunked
<1>3. ASSUME NEW i \in 1..(m + n), ~(i <= m) PROVE J[i].sector = s + (i - m) - 1 /\ i - m \in 1..n
  <2>1. PICK c \in 1..n : c = i - m /\ m + c = i
    <3>1. i - m \in 1..n /\ m + (i - m) = i
      BY <1>3
    <3> QED
      BY <3>1
  <2>2. J[m + c].sector = s + c - 1
    BY <1>2
  <2> QED
    BY <2>1, <2>2
<1>4. ASSUME NEW i \in 1..(m + n), NEW j \in 1..(m + n), J[i].sector = J[j].sector PROVE i = j
  <2>1. CASE i <= m /\ j <= m
    <3>1. i \in 1..m /\ j \in 1..m
      BY <2>1
    <3>2. M[i].sector = M[j].sector
      BY <1>2, <1>4, <3>1
    <3> QED
      BY <1>1, <3>1, <3>2 DEF Distinct
  <2>2. CASE ~(i <= m) /\ ~(j <= m)
    <3>1. s + (i - m) - 1 = s + (j - m) - 1
      BY <1>3, <1>4, <2>2
    <3> QED
      BY <3>1
  <2>3. CASE i <= m /\ ~(j <= m)
    <3>1. i \in 1..m
      BY <2>3
    <3>2. M[i].sector = s + (j - m) - 1 /\ j - m \in 1..n
      BY <1>2, <1>3, <1>4, <2>3, <3>1
    <3>3. M[i].sector \in s..(s + n - 1)
      BY <3>2
    <3> QED
      BY <1>1, <3>1, <3>3
  <2>4. CASE ~(i <= m) /\ j <= m
    <3>1. j \in 1..m
      BY <2>4
    <3>2. M[j].sector = s + (i - m) - 1 /\ i - m \in 1..n
      BY <1>2, <1>3, <1>4, <2>4, <3>1
    <3>3. M[j].sector \in s..(s + n - 1)
      BY <3>2
    <3> QED
      BY <1>1, <3>1, <3>3
  <2> QED
    BY <2>1, <2>2, <2>3, <2>4
<1> QED
  BY <1>2, <1>4 DEF Distinct

--------------------------------------------------------------------------------
LEMMA ChunkPanel == ASSUME NEW k \in Scans PROVE VerifyInv /\ PanelInv /\ Chunk(k) => PanelInv'
<1> SUFFICES ASSUME VerifyInv, PanelInv, Chunk(k) PROVE PanelInv'
  OBVIOUS
<1>1. PICK w : w = worker[k]
  OBVIOUS
<1>2. PICK n : n = Request(w)
  OBVIOUS
<1>3. worker[k].pc = "scan" /\ ~AtEnd(w)
  BY <1>1 DEF Chunk, Reading
<1>4. Scanning(k) /\ running.scan = k
  BY <1>3, PcScan
<1>5. ~Idle(k)
  BY <1>3 DEF Idle, NoThread, Ended
<1>6. /\ w = ScanAt(w.setup, w.medium, w.range, w.s)
      /\ Meant(w.setup) /\ w.setup.pattern # <<>> /\ w.medium \in Mediums
      /\ OnPlan(w) /\ MetSectors = Behind(w)
  BY <1>1, <1>4 DEF Scanning
<1>7. w.setup.plan \in Seq(Spans) /\ Apart(w.setup.plan) /\ Covered(w.setup.plan) = Planned
  BY <1>6, PlanIsPlanned
<1>8. /\ n \in Nat /\ 1 <= n /\ n <= ChunkSectors /\ w.s \in Nat
      /\ w.s + n <= w.setup.plan[w.range].end
  BY <1>2, <1>3, <1>6, <1>7, RequestFits
<1>9. Moved(w, Advanced(w, n), n)
  BY <1>6, <1>7, <1>8, AdvancedMoves
<1>10. Typed /\ tally \in [Scans -> Tallies] /\ trial \in Trials
  BY DEF VerifyInv, Typed
<1>11. UNCHANGED <<panel, running, targets, selected>>
       /\ worker' = [worker EXCEPT ![k] = Advanced(w, n)]
  BY <1>1, <1>2 DEF Chunk, idle
<1> DEFINE here == w.s..(w.s + n - 1)
           Taken(again, failed) ==
             IF again THEN BySector(tally[k], w.medium, w.setup.pattern, w.s, n, failed)
             ELSE ReadWhole(tally[k], w.medium, w.setup.pattern, w.s, n)
<1>12. PICK failed \in SUBSET here, again \in BOOLEAN :
         /\ failed # {} => again
         /\ \A s \in here : Fails(w.medium, s) => s \in failed
         /\ Met(w, n, failed)
         /\ \/ /\ Sends(Reported(Emitted(Taken(again, failed), w.s + n)))
               /\ tally' = [tally EXCEPT ![k] = [Taken(again, failed) EXCEPT !.report = NoReport]]
            \/ tally' = [tally EXCEPT ![k] = Taken(again, failed)] /\ UNCHANGED inbox
  BY <1>1, <1>2 DEF Chunk
<1>13. PICK was \in Tallies, m \in Mediums, p \in Seq(Nat), s \in Nat :
         was = tally[k] /\ m = w.medium /\ p = w.setup.pattern /\ s = w.s
  BY <1>6, <1>8, <1>10 DEF Meant
<1>14. PICK t : t = Taken(again, failed)
  OBVIOUS
<1>15. p # <<>> /\ \A x \in s..(s + n - 1) : Fails(m, x) => x \in failed
  BY <1>6, <1>12, <1>13
<1>16. t = IF again THEN BySector(was, m, p, s, n, failed) ELSE ReadWhole(was, m, p, s, n)
  BY <1>13, <1>14
<1>17. /\ t \in Tallies
       /\ \A i \in 1..n : Truth(m, p, s + i - 1, failed) \in Statuses
  <2>1. TurnWell(t, was, m, p, s, n, failed)
    BY <1>8, <1>12, <1>15, <1>16, TurnCounts
  <2> QED
    BY <2>1 DEF TurnWell
<1>18. /\ \/ /\ Sends(Reported(Emitted(t, s + n)))
             /\ tally' = [tally EXCEPT ![k] = [t EXCEPT !.report = NoReport]]
          \/ tally' = [tally EXCEPT ![k] = t] /\ UNCHANGED inbox
       /\ Met(w, n, failed)
  BY <1>12, <1>13, <1>14
<1> HIDE DEF Taken, here
<1>19. Chunked(trial.met, trial'.met, w, n, failed) /\ trial'.map = trial.map
  BY <1>8, <1>10, <1>13, <1>17, <1>18, MetChunked
<1>20. /\ trial'.total = trial.total /\ trial'.skips = trial.skips
       /\ MetSectors' = MetSectors \cup s..(s + n - 1)
  <2>1. MetMore(s..(s + n - 1), n,
                \A i \in 1..n : Truth(w.medium, w.setup.pattern, s + i - 1, failed) = "ok")
    BY <1>8, <1>10, <1>13, <1>17, <1>18, MetChunk
  <2> QED
    BY <2>1 DEF MetMore
<1>21. PICK M \in Seq(Mets) : M = trial.met
  BY <1>10, TrialParts
<1>22. PICK J \in Seq(Mets) : J = trial'.met
  BY <1>19 DEF Chunked
<1>23. /\ Len(J) = Len(M) + n
       /\ \A i \in 1..n : J[Len(M) + i].sector = s + i - 1
                          /\ J[Len(M) + i].status = Truth(m, p, s + i - 1, failed)
  BY <1>13, <1>19, <1>21, <1>22 DEF Chunked
<1>24. Grows(trial.met, trial'.met)
  BY <1>19 DEF Chunked, Grows
<1>25. Orderly'
  <2>1. Planned' = Planned
    BY <1>20 DEF Planned, Skipped
  <2>2. MetSectors' \subseteq Planned'
    BY <1>7, <1>9, <1>13, <1>20, <2>1 DEF PanelInv, Orderly, Moved
  <2>3. \A i \in 1..Len(M) : M[i].sector \notin s..(s + n - 1)
    BY <1>6, <1>9, <1>13, <1>21 DEF Moved, MetSectors
  <2>4. Distinct(J)
    <3>1. Chunked(M, J, w, n, failed) /\ Distinct(M)
      BY <1>19, <1>21, <1>22 DEF PanelInv, Orderly
    <3> QED
      BY <1>8, <1>13, <2>3, <3>1, ChunkDistinct
  <2> QED
    BY <1>22, <2>2, <2>4 DEF Orderly
<1>26. PICK a \in Nat : a = Reach(Len(inbox))
  <2>1. Len(inbox) \in 0..Len(inbox)
    BY <1>10 DEF Typed
  <2> QED
    BY <1>10, <2>1, ReachType DEF PanelInv
<1>27. PICK b \in Nat : b = Len(M) /\ b + n = Len(J) /\ b + n \in 0..Len(J)
  BY <1>8, <1>23
<1>28. Tells(M, a, b, was)
  BY <1>3, <1>13, <1>21, <1>26, <1>27 DEF PanelInv, Counting
<1>29. Tells(J, a, b, was)
  <2>1. Stays(M, J)
    BY <1>21, <1>22, <1>24, GrowsStays
  <2>2. b \in 0..Len(M)
    BY <1>27
  <2>3. /\ BadIn(J, b) = BadIn(M, b)
        /\ \A done, issues : \A totals \in Totals :
             Told(M, a, done, issues, totals) => Told(J, a, done, issues, totals)
    BY <2>1, <2>2 DEF Stays
  <2>4. was.totals \in Totals
    BY TallyParts
  <2> QED
    BY <1>28, <2>3, <2>4 DEF Tells
<1>30. Tells(J, a, b + n, t)
  <2>1. \A i \in 1..n : /\ J[b + i].sector = s + i - 1
                        /\ J[b + i].status = Truth(m, p, s + i - 1, failed)
    BY <1>23, <1>27
  <2>2. b + n <= Len(J)
    BY <1>27
  <2> QED
    BY <1>8, <1>12, <1>15, <1>16, <1>29, <2>1, <2>2, TurnTells
<1>31. \A j \in Scans : worker'[j].pc = "scan" => j = k
  BY <1>5, <1>11, OnlyOne
<1>32. CASE tally' = [tally EXCEPT ![k] = t] /\ UNCHANGED inbox
  <2>1. Chained' /\ Reach(Len(inbox))' = Reach(Len(inbox))
    BY <1>11, <1>24, <1>32, ChainSame
  <2>2. tally'[k] = t
    BY <1>10, <1>32
  <2>3. Counting'
    <3>1. Tells(trial'.met, Reach(Len(inbox))', Len(trial'.met), tally'[k])
      BY <1>22, <1>26, <1>27, <1>30, <2>1, <2>2
    <3> QED
      BY <1>31, <3>1 DEF Counting
  <2> QED
    BY <1>11, <1>19, <1>20, <1>24, <1>25, <2>1, <2>3, ThreadPanel
<1>33. CASE /\ Sends(Reported(Emitted(t, s + n)))
            /\ tally' = [tally EXCEPT ![k] = [t EXCEPT !.report = NoReport]]
  <2>1. PICK r \in Reports : r = Emitted(t, s + n) /\ EmittedAs(r, t)
    <3>1. s + n \in Nat
      BY <1>8
    <3> QED
      BY <1>17, <3>1, EmittedType, EmittedSays
  <2>2. PICK msg \in Messages : msg = Reported(r) /\ msg.report = r
    BY MessageType
  <2>3. Told(J, a, r.done, r.issues, r.totals) /\ Checked(r.totals) = b + n
    BY <1>30, <2>1 DEF Tells, EmittedAs
  <2>4. Chained' /\ Reach(Len(inbox))' = Checked(r.totals)
    <3>1. Told(trial'.met, Reach(Len(inbox)), r.done, r.issues, r.totals)
      BY <1>22, <1>26, <2>3
    <3>2. Sends(msg) /\ r = msg.report
      BY <1>33, <2>1, <2>2
    <3> QED
      BY <1>11, <1>24, <3>1, <3>2, ChainLonger
  <2>5. tally'[k] = [t EXCEPT !.report = NoReport]
    BY <1>10, <1>33
  <2>6. Tells(J, b + n, b + n, [t EXCEPT !.report = NoReport])
    BY <1>27, <1>30, TellsAfresh
  <2>7. Counting'
    <3>1. Tells(trial'.met, Reach(Len(inbox))', Len(trial'.met), tally'[k])
      BY <1>22, <1>27, <2>3, <2>4, <2>5, <2>6
    <3> QED
      BY <1>31, <3>1 DEF Counting
  <2> QED
    BY <1>11, <1>19, <1>20, <1>24, <1>25, <2>4, <2>7, ThreadPanel
<1> QED
  BY <1>13, <1>18, <1>32, <1>33

LEMMA FinishPanel == ASSUME NEW k \in Scans PROVE VerifyInv /\ PanelInv /\ Finish(k) => PanelInv'
<1> SUFFICES ASSUME VerifyInv, PanelInv, Finish(k) PROVE PanelInv'
  OBVIOUS
<1>1. PICK w : w = worker[k]
  OBVIOUS
<1>2. /\ worker[k].pc = "scan" /\ UNCHANGED <<panel, running, targets, selected, trial>>
      /\ worker' = [worker EXCEPT ![k] = Ended]
  BY DEF Finish, idle
<1>3. ~Idle(k)
  BY <1>2 DEF Idle, NoThread, Ended
<1>4. Meant(w.setup)
  BY <1>1, <1>2, PcScan DEF Scanning
<1>5. PICK t \in Tallies : t = tally[k]
  BY DEF VerifyInv, Typed
<1>6. PICK at \in Nat : at = Last(w.setup.plan).end
  <2>1. PICK p \in Seq(Spans) : p = w.setup.plan /\ p # <<>>
    BY <1>4, PlanIsPlanned DEF Meant
  <2>2. PICK l \in Spans : l = Last(p)
    BY <2>1, Fronted
  <2>3. l.end \in Nat
    BY SectorsIs
  <2> QED
    BY <2>1, <2>2, <2>3
<1>7. PICK e \in {"completed", "cancelled"} :
        e = (IF AtEnd(w) THEN "completed" ELSE "cancelled")
  OBVIOUS
<1>8. PICK r : r = [Emitted(t, at) EXCEPT !.end = e]
  OBVIOUS
<1>9. Sends(Reported(r))
  BY <1>1, <1>5, <1>6, <1>7, <1>8 DEF Finish
<1>10. r \in Reports /\ EmittedAs(r, t)
  <2>1. \A f \in {"completed", "cancelled"} : [Emitted(t, at) EXCEPT !.end = f] \in Reports
    BY EmittedType
  <2>2. \A f : EmittedAs([Emitted(t, at) EXCEPT !.end = f], t)
    BY EmittedSays
  <2> QED
    BY <1>8, <2>1, <2>2
<1>11. PICK msg \in Messages : msg = Reported(r) /\ msg.report = r
  BY <1>10, MessageType
<1>12. Grows(trial.met, trial'.met)
  BY <1>2 DEF Grows
<1>13. Chained'
  <2>1. Tells(trial.met, Reach(Len(inbox)), Len(trial.met), t)
    BY <1>2, <1>5 DEF PanelInv, Counting
  <2>2. Told(trial'.met, Reach(Len(inbox)), r.done, r.issues, r.totals)
    BY <1>2, <1>10, <2>1 DEF Tells, EmittedAs
  <2>3. Sends(msg) /\ r = msg.report
    BY <1>9, <1>11
  <2> QED
    BY <1>2, <1>12, <2>2, <2>3, ChainLonger
<1>14. Counting'
  <2>1. worker'[k] = Ended /\ \A j \in Scans : worker'[j].pc = "scan" => j = k
    BY <1>2, <1>3, OnlyOne
  <2> QED
    BY <2>1 DEF Counting, Ended
<1>15. Orderly'
  <2>1. TrialKept
    BY <1>2 DEF TrialKept
  <2>2. MetSectors' = MetSectors /\ Planned' = Planned
    BY <2>1, TrialSame
  <2> QED
    BY <1>2, <2>2 DEF PanelInv, Orderly
<1> QED
  BY <1>2, <1>12, <1>13, <1>14, <1>15, ThreadPanel

--------------------------------------------------------------------------------
\* The first bad sectors, and how many more.
Listing(old, r) == SubSeq(old \o r.issues, 1, Least(MAX_ISSUES, Len(old) + Len(r.issues)))

AppliedAs(r) ==
  LET issues == Listing(panel.issues, r)
      unlisted == Most(0, Bad(r.totals) - Len(issues))
  IN  /\ {"issues", "unlisted", "rows", "totals", "skipped"} \subseteq DOMAIN panel'
      /\ panel'.map = AllMarked(panel.map, r.done)
      /\ panel'.issues = issues /\ panel'.unlisted = unlisted
      /\ (r.end # "none" => panel'.rows = Len(issues) + unlisted)
      /\ panel'.totals = r.totals
      /\ panel'.skipped = SectorsAt(targets, selected) - running.planned
      /\ (r.end = "none" => panel'.stats = "scanning")

LEMMA AppliedFields ==
  ASSUME NEW r, panel' = Applied(r)
  PROVE  AppliedAs(r)
<1> DEFINE issues == Listing(panel.issues, r)
           unlisted == Most(0, Bad(r.totals) - Len(issues))
           cells == AllMarked(panel.map, r.done)
           rows == IF r.issues # <<>> \/ r.end # "none" THEN Len(issues) + unlisted ELSE panel.rows
           skipped == SectorsAt(targets, selected) - running.planned
           stats == IF r.end = "none" THEN "scanning" ELSE Verdict(r)
           button == IF r.end = "none" THEN panel.button ELSE "Start"
<1>1. panel' = [map |-> cells, issues |-> issues, unlisted |-> unlisted, rows |-> rows,
                totals |-> r.totals, skipped |-> skipped, stats |-> stats, button |-> button]
  BY DEF Applied, Listing
<1> HIDE DEF issues, unlisted, cells, rows, skipped, stats, button
<1>2. /\ {"issues", "unlisted", "rows", "totals", "skipped"} \subseteq DOMAIN panel'
      /\ panel'.map = cells /\ panel'.issues = issues /\ panel'.unlisted = unlisted
      /\ panel'.rows = rows /\ panel'.totals = r.totals /\ panel'.skipped = skipped
      /\ panel'.stats = stats
  BY <1>1
<1>3. r.end # "none" => rows = Len(issues) + unlisted
  BY DEF rows
<1>4. r.end = "none" => stats = "scanning"
  BY DEF stats
<1>5. /\ {"issues", "unlisted", "rows", "totals", "skipped"} \subseteq DOMAIN panel'
      /\ panel'.map = cells /\ panel'.issues = issues /\ panel'.unlisted = unlisted
      /\ (r.end # "none" => panel'.rows = Len(issues) + unlisted)
      /\ panel'.totals = r.totals /\ panel'.skipped = skipped
      /\ (r.end = "none" => panel'.stats = "scanning")
  BY <1>2, <1>3, <1>4
<1> QED
  BY <1>5 DEF issues, unlisted, cells, skipped, AppliedAs

\* What is listed is never more than a scan lists.
LEMMA ListingIs ==
  ASSUME NEW M \in Seq(Mets), NEW a \in 0..Len(M), NEW r \in Reports,
         Told(M, a, r.done, r.issues, r.totals)
  PROVE  /\ Listing(Listed(M, a), r) = Listed(M, Checked(r.totals))
         /\ LET l == Len(Listed(M, Checked(r.totals)))
            IN  l \in Nat /\ l + Most(0, Bad(r.totals) - l) = Bad(r.totals)
<1>1. PICK b \in Nat : b = Checked(r.totals)
  <2>1. r.totals \in Totals
    BY DEF Reports
  <2> QED
    BY <2>1, CheckedType
<1>2. b \in 0..Len(M) /\ Bad(r.totals) = Len(BadIn(M, b)) /\ Listed(M, a) \o r.issues = Listed(M, b)
  BY <1>1 DEF Told
<1>3. PICK L \in Seq(Nat) : L = Listed(M, a)
  BY ListedType
<1>4. PICK I \in Seq(Nat) : I = r.issues
  BY DEF Reports
<1>5. PICK C \in Seq(Nat) : C = Listed(M, b)
  BY <1>2, ListedType
<1>6. Len(C) = Least(MAX_ISSUES, Len(BadIn(M, b))) /\ Len(BadIn(M, b)) \in Nat
  BY <1>2, <1>5, ListedType
<1>7. PICK c \in Nat, d \in Nat : c = Len(C) /\ d = Bad(r.totals)
  BY <1>2, <1>6
<1>8. c <= MAX_ISSUES /\ c <= d
  BY <1>2, <1>6, <1>7, ScanAssumption DEF Least
<1>9. L \o I = C /\ Len(L) + Len(I) = c
  <2>1. Len(L \o I) = Len(L) + Len(I)
    BY Joined
  <2> QED
    BY <1>2, <1>3, <1>4, <1>5, <1>7, <2>1
<1>10. Least(MAX_ISSUES, c) = c
  BY <1>8, ScanAssumption DEF Least
<1>11. SubSeq(C, 1, c) = C
  BY <1>7
<1>12. Listing(L, r) = C
  BY <1>4, <1>9, <1>10, <1>11 DEF Listing
<1>13. c + Most(0, d - c) = d
  BY <1>8 DEF Most
<1> QED
  BY <1>1, <1>3, <1>5, <1>7, <1>12, <1>13

LEMMA DeliverPanel == VerifyInv /\ PanelInv /\ Deliver => PanelInv'
<1> SUFFICES ASSUME VerifyInv, PanelInv, Deliver PROVE PanelInv'
  OBVIOUS
<1>1. /\ inbox # <<>> /\ inbox' = Tail(inbox)
      /\ UNCHANGED <<targets, selected, worker, tally, trial>>
  BY DEF Deliver
<1>2. Typed /\ Fielded /\ inbox \in Seq(Messages)
  BY DEF VerifyInv, PanelInv, Typed
<1>3. PICK msg : msg = Head(inbox)
  OBVIOUS
<1>4. PICK c : c = Len(inbox)
  OBVIOUS
<1>5. /\ c \in Nat \ {0} /\ msg = inbox[1] /\ msg \in Messages /\ Len(inbox') = c - 1
      /\ \A i \in 1..(c - 1) : inbox'[i] = inbox[i + 1]
  BY <1>1, <1>2, <1>3, <1>4
<1>6. running # NotRunning
  BY <1>1 DEF VerifyInv, Flight
<1>7. TrialKept
  BY <1>1 DEF TrialKept
<1>8. MetSectors' = MetSectors /\ Skipped' = Skipped /\ Planned' = Planned
  BY <1>7, TrialSame
<1>9. Orderly'
  BY <1>1, <1>8 DEF PanelInv, Orderly
<1>10. trial \in Trials
  BY <1>2 DEF Typed
<1>11. CASE msg.failed
  <2>1. running' = NotRunning /\ panel' = [panel EXCEPT !.button = "Start", !.stats = "failed"]
    BY <1>3, <1>11 DEF Deliver
  <2>2. inbox' = <<>> /\ worker[running.scan] = Ended
    <3>1. Parting(inbox[1])
      BY <1>5, <1>11 DEF Parting
    <3>2. 1 = c /\ worker[running.scan] = Ended
      BY <1>4, <1>5, <3>1 DEF VerifyInv, Messaged
    <3> QED
      BY <1>1, <1>2, <1>5, <3>2
  <2>3. PanelKept
    <3>1. panel'.stats = "failed" \/ panel'.stats = panel.stats
      BY <2>1
    <3>2. "stats" \in DOMAIN panel
      BY <1>2 DEF Typed
    <3>3. panel'.stats = "failed"
      BY <2>1, <3>2
    <3> QED
      BY <1>1, <1>2, <2>1, <3>3 DEF PanelKept, Fielded
  <2>4. (Fielded /\ PanelCounts /\ Beside /\ MapTrue)'
    BY <1>1, <1>10, <2>3, WindowStays DEF Grows
  <2>5. Chained'
    BY <2>2 DEF Chained
  <2>6. Counting'
    <3>1. \A k \in Scans : Idle(k)
      BY <2>2, AllIdle
    <3> QED
      BY <1>1, <3>1 DEF Counting, Idle, NoThread, Ended
  <2>7. InFlight'
    BY <2>1 DEF InFlight
  <2> QED
    BY <1>9, <2>4, <2>5, <2>6, <2>7 DEF PanelInv
<1>12. CASE ~msg.failed
  <2>1. PICK r \in Reports : r = msg.report
    BY <1>5, MessageParts
  <2>2. r.totals \in Totals /\ r.done \in Seq(Runs) /\ r.issues \in Seq(Nat)
    BY DEF Reports
  <2>3. panel' = Applied(r) /\ running' = (IF r.end = "none" THEN running ELSE NotRunning)
    BY <1>3, <1>6, <1>12, <2>1 DEF Deliver
  <2>4. AppliedAs(r)
    BY <2>3, AppliedFields
  <2>5. PICK M \in Seq(Mets) : M = trial.met /\ trial'.met = M
    BY <1>1, <1>10, TrialParts
  <2>6. PICK a \in 0..Len(M) : a = Checked(panel.totals)
    <3>1. Checked(panel.totals) \in Nat /\ Checked(panel.totals) <= Len(M) /\ Len(M) \in Nat
      BY <1>2, <2>5, CheckedType DEF Fielded, PanelInv, PanelCounts
    <3> QED
      BY <3>1
  <2>7. PICK b \in Nat : b = Checked(r.totals)
    BY <2>2, CheckedType
  <2>8. Told(M, a, r.done, r.issues, r.totals)
    <3>1. 1 \in 1..Len(inbox) /\ 1 - 1 = 0
      BY <1>4, <1>5
    <3>2. Told(M, Reach(1 - 1), r.done, r.issues, r.totals)
      BY <1>5, <1>12, <2>1, <2>5, <3>1 DEF PanelInv, Chained
    <3>3. Reach(1 - 1) = a
      BY <2>6, <3>1 DEF Reach
    <3> QED
      BY <3>2, <3>3
  <2>9. a <= b /\ b <= Len(M) /\ Bad(r.totals) = Len(BadIn(M, b)) /\ Drawn(M, a, b, r.done)
    BY <2>7, <2>8 DEF Told
  <2>10. Fielded'
    BY <2>2, <2>4 DEF Fielded, AppliedAs
  <2>11. PanelCounts'
    <3>1. panel.issues = Listed(M, a)
      BY <2>5, <2>6 DEF PanelInv, PanelCounts
    <3>2. Listing(panel.issues, r) = Listed(M, b)
      BY <2>7, <2>8, <3>1, ListingIs
    <3>3. PICK l \in Nat : l = Len(Listed(M, b)) /\ l + Most(0, Bad(r.totals) - l) = Bad(r.totals)
      BY <2>7, <2>8, ListingIs
    <3>4. panel'.issues = Listed(M, b) /\ panel'.unlisted = Most(0, Bad(r.totals) - l)
          /\ panel'.totals = r.totals
      BY <2>4, <3>2, <3>3 DEF AppliedAs
    <3>5. Len(panel'.issues) + panel'.unlisted = Bad(r.totals)
      BY <3>3, <3>4
    <3>6. panel'.stats \in {"PASS", "FAIL", "stopped"} => panel'.rows = Bad(r.totals)
      <4> SUFFICES ASSUME r.end # "none" PROVE panel'.rows = Bad(r.totals)
        BY <2>4 DEF AppliedAs
      <4> QED
        BY <2>4, <3>2, <3>3 DEF AppliedAs
    <3> QED
      BY <2>5, <2>7, <2>9, <3>4, <3>5, <3>6 DEF PanelCounts
  <2>12. Beside'
    <3>1. SectorsAt(targets, selected) = trial.total /\ running.planned = Cardinality(Planned)
      BY <1>6 DEF PanelInv, InFlight
    <3>2. panel'.skipped = trial.total - Cardinality(Planned)
      BY <2>4, <3>1 DEF AppliedAs
    <3>3. PICK p \in Nat, q \in Nat :
            p = Cardinality(Planned) /\ q = Cardinality(Skipped) /\ q + p = trial.total
      BY <1>10, TrialParts, SkippedAndPlanned
    <3>4. panel'.skipped = q
      BY <3>2, <3>3
    <3> QED
      BY <1>8, <3>3, <3>4 DEF Beside
  <2>13. MapTrue'
    <3> SUFFICES ASSUME trial'.map PROVE MapTrue'
      BY DEF MapTrue
    <3>1. PICK T \in Nat : T = trial.total /\ trial'.total = T
      BY <1>1, <1>10, TrialParts
    <3>2. PICK Sk : Sk = Skipped /\ Skipped' = Sk
      BY <1>8
    <3>3. Painted(panel.map, T, Surface(M, Sk, T, a))
      BY <1>1, <2>5, <2>6, <3>1, <3>2 DEF PanelInv, MapTrue
    <3>4. \A i \in 1..Len(M) : M[i].sector \in 0..(T - 1) /\ M[i].sector \notin Sk
      BY <2>5, <3>1, <3>2 DEF PanelInv, Orderly, MetSectors, Planned
    <3>5. Distinct(M)
      BY <2>5 DEF PanelInv, Orderly
    <3>6. a \in Nat
      OBVIOUS
    <3>7. Painted(AllMarked(panel.map, r.done), T, Surface(M, Sk, T, b))
      BY <2>2, <2>9, <3>3, <3>4, <3>5, <3>6, ReportPaints
    <3>8. panel'.map = AllMarked(panel.map, r.done) /\ Checked(panel'.totals) = b
      BY <2>4, <2>7 DEF AppliedAs
    <3> QED
      BY <2>5, <3>1, <3>2, <3>7, <3>8 DEF MapTrue
  <2>14. \A i \in 0..(c - 1) : Reach(i)' = Reach(i + 1)
    <3> TAKE i \in 0..(c - 1)
    <3>0. i + 1 # 0
      BY <1>5
    <3>1. CASE i = 0
      <4>1. Reach(i)' = Checked(r.totals)
        BY <2>4, <3>1 DEF Reach, AppliedAs
      <4>2. Reach(i + 1) = Checked(inbox[1].report.totals)
        BY <3>1 DEF Reach
      <4> QED
        BY <1>5, <2>1, <4>1, <4>2
    <3>2. CASE i # 0
      <4>1. i \in 1..(c - 1)
        BY <1>5, <3>2
      <4>2. inbox'[i] = inbox[i + 1]
        BY <1>5, <4>1
      <4> QED
        BY <3>0, <3>2, <4>2 DEF Reach
    <3> QED
      BY <3>1, <3>2
  <2>15. Chained'
    <3>1. ASSUME NEW i \in 1..(c - 1), ~inbox'[i].failed
          PROVE  LET q == inbox'[i].report
                 IN  Told(trial'.met, Reach(i - 1)', q.done, q.issues, q.totals)
      <4>1. PICK j \in 1..c : j = i + 1 /\ j - 1 = i
        BY <1>5
      <4>2. inbox'[i] = inbox[j]
        BY <1>5, <4>1
      <4>3. i - 1 \in 0..(c - 1) /\ i - 1 + 1 = i
        BY <1>5
      <4>4. Reach(i - 1)' = Reach(j - 1)
        BY <2>14, <4>1, <4>3
      <4>5. PICK q : q = inbox[j].report
        OBVIOUS
      <4>6. Told(trial.met, Reach(j - 1), q.done, q.issues, q.totals)
        BY <1>4, <3>1, <4>1, <4>2, <4>5 DEF PanelInv, Chained
      <4> QED
        BY <1>1, <4>2, <4>4, <4>5, <4>6
    <3> QED
      BY <1>5, <3>1 DEF Chained
  <2>16. Counting'
    <3>1. c - 1 \in 0..(c - 1) /\ c - 1 + 1 = c
      BY <1>5
    <3>2. Reach(Len(inbox))' = Reach(Len(inbox))
      <4>1. Reach(c - 1)' = Reach(c)
        BY <2>14, <3>1
      <4>2. Reach(Len(inbox))' = Reach(c - 1)'
        BY <1>5 DEF Reach
      <4> QED
        BY <1>4, <4>1, <4>2
    <3> QED
      BY <1>1, <3>2 DEF PanelInv, Counting
  <2>17. InFlight'
    BY <1>1, <1>8, <2>3 DEF PanelInv, InFlight
  <2> QED
    BY <1>9, <2>10, <2>11, <2>12, <2>13, <2>15, <2>16, <2>17 DEF PanelInv
<1> QED
  BY <1>11, <1>12

--------------------------------------------------------------------------------
LEMMA PanelSteps == VerifyInv /\ PanelInv /\ [VerifyNext]_verifyVars => PanelInv'
<1> SUFFICES ASSUME VerifyInv, PanelInv, [VerifyNext]_verifyVars PROVE PanelInv'
  OBVIOUS
<1>1. CASE Select
  BY <1>1, SelectPanel
<1>2. CASE Type
  <2>1. UNCHANGED <<worker, tally, inbox, running, targets, selected, panel, trial>>
    BY <1>2 DEF Type, thread
  <2> QED
    BY <2>1, ElsewherePanel
<1>3. CASE Rescan
  BY <1>3, RescanPanel
<1>4. CASE Swap
  <2>1. UNCHANGED <<worker, tally, inbox, running, targets, selected, panel, trial>>
    BY <1>4 DEF Swap, thread
  <2> QED
    BY <2>1, ElsewherePanel
<1>5. ASSUME NEW k \in Scans, Start(k) PROVE PanelInv'
  BY <1>5, StartPanel
<1>6. CASE Stop
  <2>1. UNCHANGED <<worker, tally, inbox, running, targets, selected, panel, trial>>
    BY <1>6 DEF Stop
  <2> QED
    BY <2>1, ElsewherePanel
<1>7. ASSUME NEW k \in Scans, Open(k) PROVE PanelInv'
  BY <1>7, OpenPanel
<1>8. ASSUME NEW k \in Scans, Chunk(k) PROVE PanelInv'
  BY <1>8, ChunkPanel
<1>9. ASSUME NEW k \in Scans, Finish(k) PROVE PanelInv'
  BY <1>9, FinishPanel
<1>10. CASE Deliver
  BY <1>10, DeliverPanel
<1>11. CASE UNCHANGED verifyVars
  <2>1. UNCHANGED <<worker, tally, inbox, running, targets, selected, panel, trial>>
    BY <1>11 DEF verifyVars
  <2> QED
    BY <2>1, ElsewherePanel
<1> QED
  BY <1>1, <1>2, <1>3, <1>4, <1>5, <1>6, <1>7, <1>8, <1>9, <1>10, <1>11 DEF VerifyNext

\* What the window shows, with what is on its way to it and what a thread has
\* counted, is what was met, in every state.
THEOREM PanelInvariant == VerifySpec => []PanelInv
<1>1. VerifyInit => PanelInv
  BY PanelStarts
<1>2. VerifyInv /\ PanelInv /\ [VerifyNext]_verifyVars => PanelInv'
  BY PanelSteps
<1> QED
  BY <1>1, <1>2, VerifyInvariant, PTL DEF VerifySpec

\* The counts, the list of bad sectors, the number skipped and the map are, at
\* all times, those of the sectors reported so far.
THEOREM PanelHolds == VerifySpec => []PanelIsTrue
<1>1. VerifyInv /\ PanelInv => PanelIsTrue
  <2> SUFFICES ASSUME VerifyInv, PanelInv PROVE PanelIsTrue
    OBVIOUS
  <2>1. PICK n \in Nat : n = Checked(panel.totals)
    BY CheckedType DEF PanelInv, Fielded
  <2>2. BadAmong(n) = BadIn(trial.met, n)
    BY BadAmongIs
  <2>3. /\ n <= Len(trial.met) /\ Bad(panel.totals) = Len(BadAmong(n))
        /\ panel.issues = Listed(trial.met, n) /\ Len(panel.issues) + panel.unlisted = Bad(panel.totals)
        /\ panel.stats \in {"PASS", "FAIL", "stopped"} => panel.rows = Bad(panel.totals)
    BY <2>1, <2>2 DEF PanelInv, PanelCounts
  <2>4. panel.issues = [k \in 1..Least(MAX_ISSUES, Len(BadAmong(n))) |-> BadAmong(n)[k].sector]
    BY <2>2, <2>3 DEF Listed
  <2>5. panel.skipped = Cardinality(Skipped)
    BY DEF PanelInv, Beside
  <2>6. ASSUME trial.map, NEW b \in DOMAIN panel.map.cells
        PROVE  LET inside == {s \in 0..(trial.total - 1) : BucketOf(panel.map, s) = b - 1}
               IN  /\ \E s \in inside : ShownAs(s, n) = panel.map.cells[b]
                   /\ \A s \in inside : Rank(ShownAs(s, n)) <= Rank(panel.map.cells[b])
    <3>1. PICK T \in Nat : T = trial.total
      BY TrialParts DEF VerifyInv, Typed
    <3>2. PICK st : st = Surface(trial.met, Skipped, T, n)
      OBVIOUS
    <3>3. PICK map \in Maps(T) : map = panel.map /\ Paints(map, T, st)
      BY <2>1, <2>6, <3>1, <3>2 DEF PanelInv, MapTrue, Painted
    <3>4. b \in 1..Least(T, BUCKETS) /\ \A s : BucketOf(map, s) = Bucket(T, s)
      BY <2>6, <3>3, MapParts
    <3>5. \A s \in 0..(T - 1) : ShownAs(s, n) = st[s]
      BY <3>2, ShownAsIs DEF Surface
    <3>6. /\ \E s \in 0..(T - 1) : Bucket(T, s) = b - 1 /\ st[s] = map.cells[b]
          /\ \A s \in 0..(T - 1) : Bucket(T, s) = b - 1 => Rank(st[s]) <= Rank(map.cells[b])
      BY <3>3, <3>4 DEF Paints
    <3> QED
      BY <3>1, <3>3, <3>4, <3>5, <3>6
  <2> QED
    BY <2>1, <2>3, <2>4, <2>5, <2>6 DEF PanelIsTrue
<1> QED
  BY <1>1, VerifyInvariant, PanelInvariant, PTL
================================================================================
