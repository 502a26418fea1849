----------------------------- MODULE Replay_proofs -----------------------------
(***************************************************************************)
(* Proofs about Replay, for any recordings and flows, any animation, pace  *)
(* and settle budget: the artifacts are whole. The invariant accounts for  *)
(* every edit (delivered, queued or not asked for yet), says what the one  *)
(* request slot and the surface hold, what the ending left behind at each  *)
(* of its turns, and what the turns of a settle cost.                      *)
(***************************************************************************)
EXTENDS Replay, FiniteSetTheorems, FunctionTheorems, SequenceTheorems, TLAPS

Items == [at : Nat, event : {"edit", "esc"}]
EndNames == {<<"fail shot", 0>>, <<"fail tree", 0>>, <<"end shot", 0>>, <<"end tree", 0>>}
Names == ({"shot", "tree"} \X Nat) \cup EndNames
Screens == [content : Nat, anim : Nat, dirty : BOOLEAN, request : Names \cup {Nothing}]
Pictures == [content : Nat, moving : BOOLEAN]
Artifacts == [name : Names, content : Nat, moving : BOOLEAN]
Loops == [pc : {"serve", "ending", "tick", "sleep", "over"}, now : Nat, last : Nat,
          dt : Nat, wake : Int, woken : BOOLEAN, stirs : Nat]

Typed ==
  /\ job \in [flow : BOOLEAN, script : {job.script}, fast : BOOLEAN,
              shot : BOOLEAN, tree : BOOLEAN, end : {"stay", "exit", "as recorded"}]
  /\ job.script \in IF job.flow THEN Flows ELSE Recordings
  /\ done \in Nat /\ stopped \in BOOLEAN /\ queue \in Seq(Items) /\ nextMs \in Nat
  /\ blocked \in (Waits \X Nat) \cup {Nothing}
  /\ ending \in [settle : Nat, frames : 0..NotYet, reported : BOOLEAN]
  /\ ui \in Screens /\ surface \in Pictures /\ flip \in Nat
  /\ files \subseteq Artifacts
  /\ loop \in Loops

(* Where a source stands: a flow waits for nothing while input is queued.  *)
Played ==
  /\ job.flow => done <= Len(job.script)
  /\ ~job.flow => done = 0 /\ ~stopped /\ blocked = Nothing
  /\ stopped => queue = <<>> /\ blocked = Nothing /\ done > 0
  /\ blocked # Nothing =>
       queue = <<>> /\ done > 0 /\ blocked = <<job.script[done], done>>

(* Every edit asked for is on the screen or in the queue.                  *)
Pending(q) == Cardinality({k \in DOMAIN q : q[k].event = "edit"})
All == <<"end shot", 0>>
Accounted == ui.content + Pending(queue) = Owed(All)

(* What is captured, and what is asked for, is of no earlier screen.       *)
Captured ==
  /\ ~ui.dirty => surface = Now(ui)
  /\ ui.request # Nothing => ui.content >= Owed(ui.request)
  /\ \A f \in files : f.content >= Owed(f.name)
  /\ ui.request \in EndNames => Finished
  /\ \A f \in files : f.name \in EndNames => Finished
  /\ ending.frames # NotYet \/ ending.reported => Finished

(* What the ending has left when it is this far.                           *)
Ended ==
  /\ ending.reported =>
       stopped /\ Written("fail tree") /\ (~job.shot => Left("fail shot"))
  /\ ending.frames # NotYet =>
       /\ ~ToReport
       /\ job.tree => Written("end tree")
       /\ job.shot => Left("end shot") \/ LastIs("shot")
  /\ job.end = "as recorded" => ~job.flow /\ ~job.shot /\ ~job.tree
  /\ Over => ending.frames = 0 \/ job.end = "as recorded"

(* What a settle has cost a recording: two turns for each unit the         *)
(* animation moved, the timeout's and the flip's, and one for each event.  *)
Flips == IF flip # 0 /\ flip <= loop.now THEN 1 ELSE 0
Slack ==
  CASE loop.pc \in {"serve", "ending"} -> IF loop.dt = 0 THEN 1 + Flips ELSE 0
    [] At("tick") -> IF loop.dt = 0 THEN Flips ELSE -1
    [] At("sleep") -> IF loop.now = loop.last THEN (IF loop.woken THEN 1 ELSE 0) + Flips ELSE 0
    [] OTHER -> 0

Cost == ending.settle + 2 * ui.anim + Slack - loop.stirs

Moving == ui.anim # 0 /\ ui.anim # Forever
Afforded == \E l \in Lengths \ {Forever} : ui.anim <= l /\ Cost <= 2 * l + 2

Settling ==
  /\ ~At("sleep") => ~loop.woken /\ (job.flow \/ loop.now = loop.last)
  /\ loop.last <= loop.now
  /\ ~job.flow =>
       /\ queue # <<>> => ending.settle = 0
       /\ At("sleep") /\ queue = <<>> => loop.wake > loop.last
       /\ ending.frames = NotYet /\ Moving => Afforded

Moved ==
  /\ ui.request = All \/ (\E f \in files : f.name = All) => ending.frames # NotYet /\ job.shot
  /\ ~job.flow /\ SettlesInTime =>
       /\ job.shot /\ ending.frames # NotYet => ~Moving
       /\ \A f \in files : f.name = All /\ f.moving => ui.anim = Forever

IInv == Typed /\ Played /\ Accounted /\ Captured /\ Ended /\ Settling /\ Moved

-----------------------------------------------------------------------------
(* What the operators return.                                              *)

LEMMA MinOf ==
  ASSUME NEW a \in Int, NEW b \in Int, NEW c \in Int,
         NEW S, S \subseteq {a, b, c}, S # {}
  PROVE  Min(S) \in S
<1>1. \A T \in SUBSET {a, b} : T # {} => \E m \in T : \A x \in T : m <= x
  <2>1. SUFFICES ASSUME NEW T \in SUBSET {a, b}, T # {}
                 PROVE  \E m \in T : \A x \in T : m <= x
    OBVIOUS
  <2>2. CASE a \notin T \/ b \notin T
    <3>1. PICK m \in T : \A x \in T : x = m
      BY <2>1, <2>2
    <3> QED
      BY <3>1
  <2>3. CASE a \in T /\ b \in T
    BY <2>1, <2>3
  <2> QED
    BY <2>2, <2>3
<1>2. \E m \in S : \A x \in S : m <= x
  <2>1. S \ {c} \in SUBSET {a, b} /\ \A x \in S : x = c \/ x \in S \ {c}
    OBVIOUS
  <2>2. CASE S \ {c} = {}
    <3>1. c \in S /\ \A x \in S : x = c
      BY <2>1, <2>2
    <3> QED
      BY <3>1
  <2>3. CASE S \ {c} # {}
    <3>1. PICK m \in S \ {c} : \A x \in S \ {c} : m <= x
      BY <1>1, <2>1, <2>3
    <3>2. m \in Int
      BY <2>1
    <3>3. CASE c \in S /\ c <= m
      BY <2>1, <3>1, <3>2, <3>3
    <3>4. CASE ~(c \in S /\ c <= m)
      <4>1. \A x \in S : m <= x
        BY <2>1, <3>1, <3>2, <3>4
      <4> QED
        BY <3>1, <4>1
    <3> QED
      BY <3>3, <3>4
  <2> QED
    BY <2>2, <2>3
<1> QED
  BY <1>2 DEF Min

LEMMA MaxOf ==
  ASSUME NEW a \in Int, NEW b \in Int
  PROVE  Max({a, b}) \in {a, b} /\ a <= Max({a, b}) /\ b <= Max({a, b})
<1>1. \E m \in {a, b} : \A x \in {a, b} : m >= x
  OBVIOUS
<1> QED
  BY <1>1 DEF Max

LEMMA ConstantsAre ==
  /\ Forever \in Nat /\ MaxStirs \in Nat /\ \A l \in Lengths : l \in Nat
  /\ LongestStep \in Nat \ {0} /\ Backstop \in Nat \ {0}
  /\ StepGap \in Nat /\ TapHold \in Nat /\ WaitTime \in Nat
  /\ REPLAY_MAX_SETTLE_FRAMES \in Nat \ {0}
BY ReplayAssumption, Zenon

LEMMA InputIs ==
  ASSUME nextMs \in Nat, NEW last \in {0, 1}, NEW event \in {"edit", "esc"}
  PROVE  /\ Input(event, last) \in Seq(Items)
         /\ DOMAIN Input(event, last) = 1..(last + 1)
         /\ \A k \in 1..(last + 1) : Input(event, last)[k].event = event
<1>1. \A k \in 1..(last + 1) :
         [at |-> nextMs + (k - 1) * TapHold, event |-> event] \in Items
  <2>1. TapHold \in Nat
    BY ReplayAssumption
  <2>2. \A k \in 1..(last + 1) : k - 1 \in {0, 1}
    OBVIOUS
  <2>3. \A k \in 1..(last + 1) : (k - 1) * TapHold \in Nat
    BY <2>1, <2>2
  <2> QED
    BY <2>3 DEF Items
<1>2. Input(event, last) \in [1..(last + 1) -> Items]
  BY <1>1 DEF Input
<1>3. last + 1 \in Nat
  OBVIOUS
<1> QED
  BY <1>2, <1>3 DEF Input

LEMMA ItemsOf ==
  ASSUME NEW q \in Seq(Items), q # <<>>
  PROVE  Head(q) \in Items /\ Tail(q) \in Seq(Items) /\ Head(q).event \in {"edit", "esc"}
<1>1. Head(q) \in Items /\ Tail(q) \in Seq(Items)
  BY HeadTailProperties
<1> QED
  BY <1>1 DEF Items

LEMMA TimeoutIs ==
  ASSUME Typed, NEW anim \in Nat
  PROVE  /\ Timeout(anim) \in Int
         /\ ~job.flow /\ queue = <<>> => Timeout(anim) > 0
<1> DEFINE ms == IF queue = <<>> THEN nextMs ELSE Head(queue).at
           due == IF job.fast \/ blocked # Nothing THEN 0 ELSE Max({0, ms - loop.now})
           S == {Backstop} \cup (IF anim > 0 THEN {1} ELSE {})
                  \cup (IF ending.frames # NotYet THEN {1} ELSE NextDue)
<1>1. Backstop \in Nat /\ Backstop \in Int /\ Backstop > 0
  BY ReplayAssumption
<1>2. ms \in Int
  <2>1. queue \in Seq(Items) /\ nextMs \in Nat
    BY DEF Typed
  <2>2. queue # <<>> => Head(queue) \in Items
    BY <2>1, ItemsOf
  <2> QED
    BY <2>1, <2>2 DEF Items
<1>3. loop.now \in Nat
  BY DEF Typed, Loops
<1>4. due \in Int
  <2> DEFINE d == ms - loop.now
  <2>0. d \in Int
    BY <1>2, <1>3
  <2>1. Max({0, d}) \in Int
    <3> HIDE DEF d
    <3> QED
      BY <2>0, MaxOf
  <2> QED
    BY <2>1
<1>5. NextDue \subseteq {due} /\ (~job.flow /\ queue = <<>> => NextDue = {})
  BY DEF NextDue
<1>6. S \subseteq {Backstop, 1, due} /\ S # {}
  BY <1>5
<1>7. Min(S) \in S
  <2>1. 1 \in Int
    OBVIOUS
  <2> HIDE DEF S, due
  <2> QED
    BY <1>1, <1>4, <1>6, <2>1, MinOf, Zenon
<1>8. ~job.flow /\ queue = <<>> => S \subseteq {Backstop, 1}
  BY <1>5
<1>9. Timeout(anim) = Min(S)
  BY DEF Timeout
<1> DEFINE m == Min(S)
<1>10. m \in S /\ Timeout(anim) = m
  BY <1>7, <1>9
<1>11. m \in {Backstop, 1, due} /\ (~job.flow /\ queue = <<>> => m \in {Backstop, 1})
  <2> HIDE DEF m, S, due
  <2> QED
    BY <1>6, <1>8, <1>10
<1> HIDE DEF m, S, due
<1> QED
  BY <1>1, <1>4, <1>10, <1>11

-----------------------------------------------------------------------------
(* What becomes of a request: it stays, or it is written off a surface     *)
(* that shows the screen as it is.                                         *)

Takes(u, w) ==
  /\ ui' \in Screens /\ ui'.content = u.content /\ ui'.anim = u.anim
  /\ \/ ui'.request = u.request /\ files' = w
     \/ /\ ui'.request = Nothing
        /\ files' = w \cup {Shown(n, Now(u)) : n \in {u.request} \ {Nothing}}
  /\ ~ui'.dirty => surface' = Now(ui')

LEMMA Fulfills ==
  ASSUME NEW u \in Screens, NEW w, ~u.dirty => surface = Now(u),
         Fulfill(u, w), surface' = surface
  PROVE  Takes(u, w)
<1> DEFINE v == [u EXCEPT !.request = Nothing]
<1>1. v \in Screens /\ v.content = u.content /\ v.anim = u.anim /\ v.dirty = u.dirty /\ v.request = Nothing
  BY DEF Screens
<1>2. Now(v) = Now(u)
  BY <1>1 DEF Now
<1>3. CASE u.dirty
  BY <1>3 DEF Fulfill, Takes
<1>4. CASE ~u.dirty
  <2>1. ui' = v /\ files' = w \cup {Shown(n, Now(u)) : n \in {u.request} \ {Nothing}}
    BY <1>4 DEF Fulfill
  <2> HIDE DEF v
  <2> QED
    BY <1>1, <1>2, <1>4, <2>1 DEF Takes
<1> QED
  BY <1>3, <1>4

LEMMA Renders ==
  ASSUME NEW u \in Screens, NEW free \in BOOLEAN, ~u.dirty => surface = Now(u),
         Render(u, free)
  PROVE  /\ Takes(u, files)
         /\ surface' = surface \/ surface' = Now(u)
         /\ ~free => flip' = flip
         /\ free => flip' \in {0, loop.now + 1}
<1> DEFINE v == [u EXCEPT !.dirty = FALSE, !.request = Nothing]
<1>1. v \in Screens /\ v.content = u.content /\ v.anim = u.anim /\ v.request = Nothing
  BY DEF Screens
<1>2. Now(v) = Now(u)
  BY <1>1 DEF Now
<1>3. CASE ~(u.dirty /\ free)
  BY <1>3 DEF Render, Takes
<1>4. CASE u.dirty /\ free
  <2>1. /\ ui' = v /\ files' = files \cup {Shown(n, Now(u)) : n \in {u.request} \ {Nothing}}
        /\ surface' = Now(u) /\ flip' = loop.now + 1
    BY <1>4 DEF Render
  <2> HIDE DEF v
  <2> QED
    BY <1>1, <1>2, <1>4, <2>1 DEF Takes
<1> QED
  BY <1>3, <1>4

LEMMA NowIs ==
  ASSUME NEW u \in Screens
  PROVE  /\ Now(u) \in Pictures
         /\ u.request # Nothing => Shown(u.request, Now(u)) \in Artifacts
         /\ \A n : /\ Shown(n, Now(u)).name = n
                   /\ Shown(n, Now(u)).content = u.content
                   /\ Shown(n, Now(u)).moving = (u.anim > 0)
BY DEF Screens, Pictures, Artifacts, Shown, Now

LEMMA TakesTyped ==
  ASSUME NEW u \in Screens, NEW w, w \subseteq Artifacts, Takes(u, w)
  PROVE  /\ ui' \in Screens /\ files' \subseteq Artifacts
         /\ ui'.request = u.request \/ ui'.request = Nothing
         /\ w \subseteq files'
         /\ \A f \in files' : f \in w \/ (u.request # Nothing /\ f = Shown(u.request, Now(u)))
BY NowIs DEF Takes


-----------------------------------------------------------------------------
(* Types.                                                                  *)

LEMMA EndOfIs ==
  ASSUME NEW exit, NEW flow \in BOOLEAN, NEW artifact \in BOOLEAN
  PROVE  /\ EndOf(exit, flow, artifact) \in {"stay", "exit", "as recorded"}
         /\ EndOf(exit, flow, artifact) = "as recorded" => ~flow /\ ~artifact
<1>1. CASE exit = "0"
  BY <1>1 DEF EndOf
<1>2. CASE exit # "0" /\ (exit = "1" \/ flow \/ artifact)
  BY <1>2 DEF EndOf
<1>3. CASE exit # "0" /\ ~(exit = "1" \/ flow \/ artifact)
  BY <1>3 DEF EndOf
<1> QED
  BY <1>1, <1>2, <1>3

LEMMA GotoTyped ==
  ASSUME Typed, NEW pc \in {"serve", "ending", "tick", "sleep", "over"}, Goto(pc)
  PROVE  /\ loop' \in Loops
         /\ loop'.pc = pc /\ loop'.now = loop.now /\ loop'.last = loop.last
         /\ loop'.dt = loop.dt /\ loop'.wake = loop.wake /\ loop'.woken = loop.woken
         /\ loop'.stirs = loop.stirs
BY DEF Typed, Loops, Goto

LEMMA TypedInit ==
  ASSUME Init
  PROVE  Typed
<1>1. PICK shot \in BOOLEAN, tree \in BOOLEAN, flow \in BOOLEAN, fast \in BOOLEAN,
           exit \in {"unset", "0", "1"} :
        \E s \in IF flow THEN Flows ELSE Recordings :
          /\ job = [flow |-> flow, script |-> s, fast |-> fast, shot |-> shot, tree |-> tree,
                    end |-> EndOf(exit, flow, shot \/ tree)]
          /\ queue = IF flow THEN <<>> ELSE s
  BY DEF Init
<1>2. PICK s \in IF flow THEN Flows ELSE Recordings :
          /\ job = [flow |-> flow, script |-> s, fast |-> fast, shot |-> shot, tree |-> tree,
                    end |-> EndOf(exit, flow, shot \/ tree)]
          /\ queue = IF flow THEN <<>> ELSE s
  BY <1>1
<1>3. job \in [flow : BOOLEAN, script : {job.script}, fast : BOOLEAN,
               shot : BOOLEAN, tree : BOOLEAN, end : {"stay", "exit", "as recorded"}]
  <2>1. EndOf(exit, flow, shot \/ tree) \in {"stay", "exit", "as recorded"}
    BY EndOfIs
  <2> QED
    BY <1>2, <2>1
<1>4. job.script \in IF job.flow THEN Flows ELSE Recordings
  BY <1>2
<1>5. queue \in Seq(Items)
  <2>1. \A r \in Recordings : r \in Seq(Items)
    BY ReplayAssumption DEF Items
  <2> QED
    BY <1>2, <2>1
<1>6. ui \in Screens /\ surface \in Pictures
  BY DEF Init, Screens, Pictures
<1>7. ending \in [settle : Nat, frames : 0..NotYet, reported : BOOLEAN]
  BY DEF Init, NotYet
<1>8. loop \in Loops
  BY DEF Init, Loops
<1> QED
  BY <1>3, <1>4, <1>5, <1>6, <1>7, <1>8 DEF Init, Typed

LEMMA PathsTyped ==
  ASSUME Typed
  PROVE  /\ <<"fail shot", 0>> \in Names /\ <<"fail tree", 0>> \in Names
         /\ <<"end shot", 0>> \in Names /\ <<"end tree", 0>> \in Names
         /\ \A b \in {"shot", "tree"} \X Nat : b \in Names
         /\ \A n \in Names : Shown(n, Now(ui)) \in Artifacts
         /\ \A n \in Names : [ui EXCEPT !.request = n] \in Screens
<1>1. Names = ({"shot", "tree"} \X Nat) \cup EndNames
  BY DEF Names
<1>2. ui \in Screens
  BY DEF Typed
<1>3. \A n \in Names : Shown(n, Now(ui)) \in Artifacts
  BY <1>2 DEF Shown, Now, Screens, Artifacts
<1>4. \A n \in Names : [ui EXCEPT !.request = n] \in Screens
  BY <1>2 DEF Screens
<1> QED
  BY <1>1, <1>3, <1>4 DEF EndNames


(* The screen and the files of every step but an edit are those of some    *)
(* screen u and files w whose request was seen to.                         *)

Current == ~ui.dirty => surface = Now(ui)

Asking(n) == [ui EXCEPT !.request = n]
AnimLeft(dt) == IF ui.anim = Forever THEN Forever ELSE Max({0, ui.anim - dt})
Ticked == [ui EXCEPT !.anim = AnimLeft(loop.dt), !.dirty = @ \/ ui.anim > 0]
Stirred == [ui EXCEPT !.dirty = TRUE]

LEMMA AskingIs ==
  ASSUME Typed, NEW n \in Names
  PROVE  /\ Asking(n) \in Screens /\ Asking(n).request = n /\ Asking(n).content = ui.content
         /\ Asking(n).anim = ui.anim /\ Asking(n).dirty = ui.dirty
         /\ Now(Asking(n)) = Now(ui)
BY DEF Typed, Asking, Screens, Now

LEMMA TickedIs ==
  ASSUME Typed, Current
  PROVE  /\ AnimLeft(loop.dt) \in Nat
         /\ ui.anim = 0 \/ ui.anim = Forever => AnimLeft(loop.dt) = ui.anim
         /\ AnimLeft(loop.dt) = 0 \/ AnimLeft(loop.dt) = ui.anim \/ AnimLeft(loop.dt) = ui.anim - loop.dt
         /\ loop.dt = 0 => AnimLeft(loop.dt) = ui.anim
         /\ ui.anim # Forever /\ AnimLeft(loop.dt) # 0 => AnimLeft(loop.dt) = ui.anim - loop.dt
         /\ Ticked \in Screens /\ Ticked.request = ui.request /\ Ticked.content = ui.content
         /\ Ticked.anim = AnimLeft(loop.dt)
         /\ ~Ticked.dirty => surface = Now(Ticked)
<1> DEFINE d == ui.anim - loop.dt
<1>1. ui.anim \in Nat /\ loop.dt \in Nat /\ Forever \in Nat /\ d \in Int /\ 0 \in Int
  <2>1. ui \in Screens /\ loop.dt \in Nat
    BY DEF Typed, Loops
  <2>2. ui.anim \in Nat
    BY <2>1 DEF Screens
  <2> QED
    BY <2>1, <2>2, ConstantsAre
<1>2. Max({0, d}) \in {0, d} /\ 0 <= Max({0, d}) /\ d <= Max({0, d})
  <2> HIDE DEF d
  <2> QED
    BY <1>1, MaxOf, Zenon
<1> DEFINE m == Max({0, d})
<1>3. AnimLeft(loop.dt) = IF ui.anim = Forever THEN Forever ELSE m
  BY DEF AnimLeft
<1>4. /\ AnimLeft(loop.dt) \in Nat
      /\ ui.anim = 0 \/ ui.anim = Forever => AnimLeft(loop.dt) = ui.anim
      /\ AnimLeft(loop.dt) = 0 \/ AnimLeft(loop.dt) = ui.anim \/ AnimLeft(loop.dt) = ui.anim - loop.dt
      /\ loop.dt = 0 => AnimLeft(loop.dt) = ui.anim
      /\ ui.anim # Forever /\ AnimLeft(loop.dt) # 0 => AnimLeft(loop.dt) = ui.anim - loop.dt
  <2>1. m \in {0, d} /\ 0 <= m /\ d <= m
    BY <1>2
  <2> HIDE DEF m
  <2> QED
    BY <1>1, <1>3, <2>1
<1>5. /\ Ticked \in Screens /\ Ticked.request = ui.request /\ Ticked.content = ui.content
      /\ Ticked.anim = AnimLeft(loop.dt)
      /\ ~Ticked.dirty => ~ui.dirty /\ ~(ui.anim > 0)
  BY <1>4 DEF Ticked, Typed, Screens
<1>6. ASSUME ~Ticked.dirty
      PROVE  surface = Now(Ticked)
  <2>1. ~ui.dirty /\ ui.anim = 0
    BY <1>1, <1>5, <1>6
  <2>2. Ticked.anim = 0 /\ surface = Now(ui)
    BY <1>4, <1>5, <2>1 DEF Current
  <2> QED
    BY <1>5, <2>1, <2>2 DEF Now
<1> QED
  BY <1>4, <1>5, <1>6

LEMMA StirredIs ==
  ASSUME Typed
  PROVE  /\ Stirred \in Screens /\ Stirred.request = ui.request
         /\ Stirred.content = ui.content /\ Stirred.anim = ui.anim /\ Stirred.dirty
BY DEF Typed, Stirred, Screens

LEMMA FrameTakes ==
  ASSUME Typed, Current
  PROVE  /\ Tick => Takes(Ticked, files)
         /\ FlipDone => Takes(ui, files)
         /\ Stir => Takes(Stirred, files)
         /\ Tick \/ FlipDone \/ Stir => surface' \in Pictures /\ flip' \in Nat
         /\ Tick \/ Stir => flip' = flip \/ (flip = 0 /\ flip' \in {0, loop.now + 1})
         /\ FlipDone => flip' \in {0, loop.now + 1}
<1>0. loop.now \in Nat /\ flip \in Nat /\ surface \in Pictures /\ ui \in Screens
  BY DEF Typed, Loops
<1>1. ASSUME Tick
      PROVE  /\ Takes(Ticked, files) /\ surface' \in Pictures
             /\ flip' = flip \/ (flip = 0 /\ flip' \in {0, loop.now + 1})
  <2>1. Render(Ticked, flip = 0)
    BY <1>1 DEF Tick, Ticked, AnimLeft
  <2>2. Now(Ticked) \in Pictures
    BY TickedIs, NowIs
  <2> QED
    BY <1>0, <2>1, <2>2, TickedIs, Renders
<1>2. ASSUME FlipDone
      PROVE  Takes(ui, files) /\ surface' \in Pictures /\ flip' \in {0, loop.now + 1}
  <2>1. Render(ui, TRUE)
    BY <1>2 DEF FlipDone
  <2>2. Now(ui) \in Pictures
    BY <1>0, NowIs
  <2> QED
    BY <1>0, <2>1, <2>2, Renders DEF Current
<1>3. ASSUME Stir
      PROVE  /\ Takes(Stirred, files) /\ surface' \in Pictures
             /\ flip' = flip \/ (flip = 0 /\ flip' \in {0, loop.now + 1})
  <2>1. Render(Stirred, flip = 0)
    BY <1>3 DEF Stir, Stirred
  <2>2. Now(Stirred) \in Pictures
    BY StirredIs, NowIs
  <2> QED
    BY <1>0, <2>1, <2>2, StirredIs, Renders
<1> QED
  BY <1>0, <1>1, <1>2, <1>3


LEMMA PlayTakes ==
  ASSUME Typed, Current
  PROVE  /\ Unblock => \/ blocked[1] = "shot" /\ blocked \in Names /\ Takes(Asking(blocked), files)
                       \/ /\ blocked[1] = "tree" /\ blocked \in Names
                          /\ Takes(ui, files \cup {Shown(blocked, Now(ui))})
                       \/ Takes(ui, files)
         /\ Report => Takes(Asking(<<"fail shot", 0>>),
                            files \cup {Shown(<<"fail tree", 0>>, Now(ui))})
         /\ Capture => Takes(IF job.shot THEN Asking(All) ELSE ui,
                             files \cup (IF job.tree THEN {Shown(<<"end tree", 0>>, Now(ui))} ELSE {}))
         /\ CountDown \/ End => Takes(ui, files)
<1>0. ui \in Screens /\ blocked \in (Waits \X Nat) \cup {Nothing}
  BY DEF Typed
<1>1. ASSUME Unblock
      PROVE  \/ blocked[1] = "shot" /\ blocked \in Names /\ Takes(Asking(blocked), files)
             \/ /\ blocked[1] = "tree" /\ blocked \in Names
                /\ Takes(ui, files \cup {Shown(blocked, Now(ui))})
             \/ Takes(ui, files)
  <2>1. surface' = surface /\ blocked # Nothing
    BY <1>1 DEF Unblock, screen
  <2>2. blocked[1] \in {"shot", "tree"} => blocked \in Names
    BY <1>0, <2>1 DEF Waits, Names
  <2>3. CASE blocked[1] = "shot"
    <3>1. Fulfill(Asking(blocked), files)
      BY <1>1, <2>3 DEF Unblock, Asking
    <3> QED
      BY <2>1, <2>2, <2>3, <3>1, AskingIs, Fulfills DEF Current
  <2>4. CASE blocked[1] = "tree"
    <3>1. files' = files \cup {Shown(blocked, Now(ui))} /\ ui' = ui
      BY <1>1, <2>4 DEF Unblock
    <3> QED
      BY <1>0, <2>1, <2>2, <2>4, <3>1 DEF Takes, Current
  <2>5. CASE blocked[1] \notin {"shot", "tree"}
    <3>1. files' = files /\ ui' = ui
      BY <1>1, <2>5 DEF Unblock
    <3> QED
      BY <1>0, <2>1, <3>1 DEF Takes, Current
  <2> QED
    BY <2>3, <2>4, <2>5
<1>2. ASSUME Report
      PROVE  Takes(Asking(<<"fail shot", 0>>), files \cup {Shown(<<"fail tree", 0>>, Now(ui))})
  <2>1. /\ Fulfill(Asking(<<"fail shot", 0>>), files \cup {Shown(<<"fail tree", 0>>, Now(ui))})
        /\ surface' = surface
    BY <1>2 DEF Report, Asking, screen
  <2> QED
    BY <2>1, AskingIs, PathsTyped, Fulfills DEF Current
<1>3. ASSUME Capture
      PROVE  Takes(IF job.shot THEN Asking(All) ELSE ui,
                   files \cup (IF job.tree THEN {Shown(<<"end tree", 0>>, Now(ui))} ELSE {}))
  <2>1. /\ surface' = surface
        /\ ui' = IF job.shot THEN Asking(All) ELSE ui
        /\ files' = files \cup (IF job.tree THEN {Shown(<<"end tree", 0>>, Now(ui))} ELSE {})
    BY <1>3 DEF Capture, Asking, All, screen
  <2> QED
    BY <1>0, <2>1, AskingIs, PathsTyped DEF Takes, Current, All
<1>4. ASSUME CountDown \/ End
      PROVE  Takes(ui, files)
  <2>1. Fulfill(ui, files) /\ surface' = surface
    BY <1>4 DEF CountDown, End, screen
  <2> QED
    BY <1>0, <2>1, Fulfills DEF Current
<1> QED
  BY <1>1, <1>2, <1>3, <1>4


LEMMA ScriptIs ==
  ASSUME Typed
  PROVE  /\ job.flow => job.script \in Seq(Kinds)
         /\ ~job.flow => job.script \in Seq(Items)
<1>1. /\ \A r \in Recordings : r \in Seq([at : Nat, event : {"edit", "esc"}])
      /\ \A f \in Flows : f \in Seq(Kinds)
  BY ReplayAssumption, Zenon
<1>2. job.script \in IF job.flow THEN Flows ELSE Recordings
  BY DEF Typed
<1> QED
  BY <1>1, <1>2, Zenon DEF Items

LEMMA KindIs ==
  ASSUME Typed, Played, Idle, ~IsDone
  PROVE  /\ job.flow /\ job.script \in Seq(Kinds) /\ done + 1 \in 1..Len(job.script)
         /\ job.script[done + 1] \in Kinds
         /\ ~stopped /\ queue = <<>> /\ blocked = Nothing
<1>0. job.flow /\ done \in Nat
  BY DEF Idle, Typed
<1>1. job.flow /\ job.script \in Seq(Kinds) /\ done \in Nat /\ Len(job.script) \in Nat
  BY <1>0, ScriptIs
<1>2. done < Len(job.script)
  BY <1>1 DEF Played, IsDone
<1>3. done + 1 \in 1..Len(job.script)
  BY <1>1, <1>2
<1> QED
  BY <1>1, <1>3 DEF Idle, IsDone

LEMMA StepIs ==
  ASSUME Typed, Played, Advance
  PROVE  LET kind == job.script[done + 1]
         IN  /\ queue' \in Seq(Items) /\ nextMs' \in Nat
             /\ kind \in Inputs => blocked' = Nothing
             /\ kind = "tap" => queue' = Input("edit", 1)
             /\ kind = "key" => queue' = Input("edit", 0)
             /\ kind = "escape" => queue' = Input("esc", 0)
             /\ kind \notin Inputs => queue' = <<>>
             /\ kind \in {"wait", "expect"} => blocked' = Nothing
             /\ kind \in Waits => blocked' = <<kind, done + 1>>
<1> DEFINE kind == job.script[done + 1]
<1>1. nextMs \in Nat /\ queue = <<>> /\ queue \in Seq(Items) /\ done \in Nat /\ blocked = Nothing
  BY DEF Typed, Advance, Idle
<1>2. Step(kind)
  BY DEF Advance
<1>3. TapHold \in Nat /\ StepGap \in Nat /\ WaitTime \in Nat
  BY ConstantsAre
<1>0. kind \in Kinds
  BY KindIs DEF Advance
<1> HIDE DEF kind
<1>4. CASE kind = "tap"
  <2>1. queue' = Input("edit", 1) /\ nextMs' = nextMs + TapHold + StepGap /\ UNCHANGED blocked
    BY <1>2, <1>4 DEF Step
  <2>2. Input("edit", 1) \in Seq(Items)
    BY <1>1, InputIs
  <2> QED
    BY <1>1, <1>3, <1>4, <2>1, <2>2 DEF Inputs, Waits, kind
<1>5. CASE kind = "key"
  <2>1. queue' = Input("edit", 0) /\ nextMs' = nextMs + StepGap /\ UNCHANGED blocked
    BY <1>2, <1>5 DEF Step
  <2>2. Input("edit", 0) \in Seq(Items)
    BY <1>1, InputIs
  <2> QED
    BY <1>1, <1>3, <1>5, <2>1, <2>2 DEF Inputs, Waits, kind
<1>6. CASE kind = "escape"
  <2>1. queue' = Input("esc", 0) /\ nextMs' = nextMs + StepGap /\ UNCHANGED blocked
    BY <1>2, <1>6 DEF Step
  <2>2. Input("esc", 0) \in Seq(Items)
    BY <1>1, InputIs
  <2> QED
    BY <1>1, <1>3, <1>6, <2>1, <2>2 DEF Inputs, Waits, kind
<1>7. CASE kind \in {"wait", "expect"}
  <2>1. nextMs' \in Nat /\ UNCHANGED <<queue, blocked>>
    BY <1>1, <1>2, <1>3, <1>7 DEF Step
  <2> QED
    BY <1>1, <1>7, <2>1 DEF Inputs, Waits, kind
<1>8. CASE kind \in Waits
  <2>1. blocked' = <<kind, done + 1>> /\ UNCHANGED <<queue, nextMs>>
    BY <1>2, <1>8 DEF Step, Waits
  <2> QED
    BY <1>1, <1>8, <2>1 DEF Inputs, Waits, kind
<1> QED
  BY <1>0, <1>4, <1>5, <1>6, <1>7, <1>8 DEF Kinds, Inputs

LEMMA WakeIs ==
  ASSUME Typed, Settling, Wake
  PROVE  LET dt == loop.now - loop.last
         IN  /\ loop' \in Loops /\ (loop'.dt = 0 <=> dt = 0)
             /\ loop'.pc = "serve" /\ ~loop'.woken /\ loop'.now = loop.now
             /\ loop'.last = loop.now /\ loop'.stirs = loop.stirs /\ loop'.wake = loop.wake
<1> DEFINE dt == loop.now - loop.last
           m == Min({dt, LongestStep})
<1>1. loop.now \in Nat /\ loop.last \in Nat /\ loop.last <= loop.now
  BY DEF Typed, Loops, Settling
<1>2. dt \in Nat /\ dt \in Int /\ LongestStep \in Int /\ LongestStep \in Nat \ {0}
  BY <1>1, ConstantsAre
<1>3. m \in {dt, LongestStep} /\ m <= dt
  <2> DEFINE S == {dt, LongestStep}
  <2>1. \E x \in S : \A y \in S : x <= y
    <3> HIDE DEF dt
    <3> QED
      BY <1>2
  <2>2. Min(S) \in S /\ \A y \in S : Min(S) <= y
    <3> HIDE DEF S
    <3> QED
      BY <2>1 DEF Min
  <2> QED
    BY <2>2
<1>4. loop' = [loop EXCEPT !.pc = "serve", !.woken = FALSE, !.last = loop.now, !.dt = m]
  BY DEF Wake
<1>5. /\ m \in Nat => loop' \in Loops
      /\ loop'.pc = "serve" /\ ~loop'.woken /\ loop'.now = loop.now /\ loop'.dt = m
      /\ loop'.last = loop.now /\ loop'.stirs = loop.stirs /\ loop'.wake = loop.wake
  <2> HIDE DEF m
  <2> QED
    BY <1>4 DEF Typed, Loops
<1>6. m \in Nat /\ (m = 0 <=> dt = 0)
  <2> HIDE DEF m, dt
  <2> QED
    BY <1>2, <1>3
<1> QED
  BY <1>5, <1>6


LEMMA LoopTyped ==
  ASSUME Typed, Settling
  PROVE  /\ Tick => loop' \in Loops
         /\ FlipDone \/ Stir \/ Clock => loop' \in Loops
<1>1. loop \in Loops /\ ui \in Screens
  BY DEF Typed
<1>2. ASSUME Tick
      PROVE  loop' \in Loops
  <2> DEFINE t == Timeout(IF ui.anim = Forever THEN Forever ELSE Max({0, ui.anim - loop.dt}))
  <2>1. loop' = [loop EXCEPT !.pc = "sleep", !.wake = loop.now + t]
    BY <1>2 DEF Tick
  <2>2. t \in Int
    <3>1. AnimLeft(loop.dt) \in Nat
      <4> DEFINE d == ui.anim - loop.dt
      <4>1. d \in Int /\ 0 \in Int /\ Forever \in Nat
        <5>1. ui.anim \in Nat /\ loop.dt \in Nat
          BY <1>1 DEF Screens, Loops
        <5> QED
          BY <5>1, ConstantsAre
      <4>2. Max({0, d}) \in {0, d} /\ 0 <= Max({0, d})
        <5> HIDE DEF d
        <5> QED
          BY <4>1, MaxOf, Zenon
      <4> DEFINE m == Max({0, d})
      <4>3. m \in Nat
        <5>1. m \in {0, d} /\ 0 <= m
          BY <4>2
        <5> HIDE DEF m, d
        <5> QED
          BY <4>1, <5>1
      <4> QED
        BY <4>1, <4>3 DEF AnimLeft
    <3>2. t = Timeout(AnimLeft(loop.dt))
      BY DEF AnimLeft
    <3> QED
      BY <3>1, <3>2, TimeoutIs
  <2> DEFINE u == loop.now + t
  <2>3. u \in Int /\ loop' = [loop EXCEPT !.pc = "sleep", !.wake = u]
    <3> HIDE DEF t
    <3> QED
      BY <1>1, <2>1, <2>2 DEF Loops
  <2> HIDE DEF u
  <2> QED
    BY <1>1, <2>3 DEF Loops
<1>3. FlipDone => loop' \in Loops
  BY <1>1 DEF FlipDone, Loops
<1>4. ASSUME Stir
      PROVE  loop' \in Loops
  <2> DEFINE k == loop.stirs + 1
  <2>1. k \in Nat /\ loop' = [loop EXCEPT !.woken = TRUE, !.stirs = k]
    BY <1>1, <1>4 DEF Stir, Loops
  <2> HIDE DEF k
  <2> QED
    BY <1>1, <2>1 DEF Loops
<1>5. Clock => loop' \in Loops
  BY <1>1 DEF Clock, Loops
<1> QED
  BY <1>2, <1>3, <1>4, <1>5


(* The types hold after every step.                                        *)
LEMMA TypedNext ==
  ASSUME Typed, Played, Current, Settling, [Next]_vars
  PROVE  Typed'
<1>0. /\ ui \in Screens /\ loop \in Loops /\ files \subseteq Artifacts /\ surface \in Pictures
      /\ flip \in Nat /\ queue \in Seq(Items) /\ nextMs \in Nat /\ done \in Nat
      /\ ending \in [settle : Nat, frames : 0..NotYet, reported : BOOLEAN]
  BY DEF Typed
<1>1. CASE Edit
  <2>1. queue # <<>> /\ queue' = Tail(queue)
    BY <1>1 DEF Edit, Ripe
  <2>2. Tail(queue) \in Seq(Items)
    BY <1>0, <2>1, ItemsOf
  <2>3. PICK a \in Lengths \cup {ui.anim} :
           ui' = [ui EXCEPT !.content = @ + 1, !.anim = a, !.dirty = TRUE]
    BY <1>1 DEF Edit
  <2>4. a \in Nat
    BY <1>0, <2>3, ConstantsAre DEF Screens
  <2>5. ui' \in Screens
    <3> DEFINE c == ui.content + 1
    <3>1. c \in Nat /\ ui' = [ui EXCEPT !.content = c, !.anim = a, !.dirty = TRUE]
      BY <1>0, <2>3 DEF Screens
    <3> HIDE DEF c
    <3> QED
      BY <1>0, <2>4, <3>1 DEF Screens
  <2> QED
    BY <1>1, <2>1, <2>2, <2>5 DEF Edit, Typed, screen
<1>2. CASE Quit
  <2>1. queue # <<>> /\ queue' = Tail(queue)
    BY <1>2 DEF Quit, Ripe
  <2>2. Tail(queue) \in Seq(Items)
    BY <1>0, <2>1, ItemsOf
  <2>3. loop' \in Loops
    BY <1>0, <1>2, GotoTyped DEF Quit
  <2> QED
    BY <1>2, <2>1, <2>2, <2>3 DEF Quit, Typed, screen
<1>3. CASE AwaitSettle
  <2>1. ending' \in [settle : Nat, frames : 0..NotYet, reported : BOOLEAN]
    <3> DEFINE n == ending.settle + 1
    <3>1. n \in Nat /\ ending' = [ending EXCEPT !.settle = n]
      BY <1>0, <1>3 DEF AwaitSettle
    <3> HIDE DEF n
    <3> QED
      BY <1>0, <3>1
  <2>2. loop' \in Loops
    BY <1>3, GotoTyped DEF AwaitSettle
  <2> QED
    BY <1>3, <2>1, <2>2 DEF AwaitSettle, Typed, driver, screen
<1>4. CASE Unblock
  <2>1. nextMs' \in Nat /\ blocked' = Nothing
    BY <1>0, <1>4, ConstantsAre DEF Unblock
  <2>2. ending' \in [settle : Nat, frames : 0..NotYet, reported : BOOLEAN]
    BY <1>0, <1>4 DEF Unblock
  <2>3. ui' \in Screens /\ files' \subseteq Artifacts
    BY <1>0, <1>4, PlayTakes, AskingIs, PathsTyped, TakesTyped
  <2> QED
    BY <1>4, <2>1, <2>2, <2>3 DEF Unblock, Typed, screen
<1>5. CASE Advance
  <2>1. queue' \in Seq(Items) /\ nextMs' \in Nat /\ done' \in Nat
    BY <1>0, <1>5, StepIs DEF Advance
  <2>2. blocked' \in (Waits \X Nat) \cup {Nothing}
    BY <1>0, <1>5, StepIs, KindIs DEF Advance, Kinds
  <2> QED
    BY <1>5, <2>1, <2>2 DEF Advance, Typed, screen
<1>6. CASE Fail
  <2>1. done' \in Nat
    BY <1>0, <1>6 DEF Fail
  <2> QED
    BY <1>6, <2>1 DEF Fail, Typed, screen
<1>7. CASE Pause \/ Playing
  <2>1. loop' \in Loops
    BY <1>7, GotoTyped DEF Pause, Playing
  <2> QED
    BY <1>7, <2>1 DEF Pause, Playing, Typed, driver, screen
<1>8. CASE Report
  <2>1. job' = [job EXCEPT !.end = "exit"] /\ ending' = [ending EXCEPT !.reported = TRUE]
    BY <1>8 DEF Report
  <2>2. /\ job' \in [flow : BOOLEAN, script : {job'.script}, fast : BOOLEAN,
                     shot : BOOLEAN, tree : BOOLEAN, end : {"stay", "exit", "as recorded"}]
        /\ job'.script = job.script /\ job'.flow = job.flow
    BY <2>1 DEF Typed
  <2>3. ending' \in [settle : Nat, frames : 0..NotYet, reported : BOOLEAN]
    BY <1>0, <2>1
  <2>4. ui' \in Screens /\ files' \subseteq Artifacts
    <3> DEFINE u == Asking(<<"fail shot", 0>>)
               w == files \cup {Shown(<<"fail tree", 0>>, Now(ui))}
    <3>1. Takes(u, w)
      BY <1>8, PlayTakes
    <3>2. u \in Screens /\ w \subseteq Artifacts
      BY <1>0, AskingIs, PathsTyped
    <3> HIDE DEF u, w
    <3> QED
      BY <3>1, <3>2, TakesTyped
  <2> QED
    BY <1>8, <2>2, <2>3, <2>4 DEF Report, Typed, driver, screen
<1>9. CASE SettleEnd
  <2>1. ending' \in [settle : Nat, frames : 0..NotYet, reported : BOOLEAN]
    <3> DEFINE n == ending.settle + 1
    <3>1. n \in Nat /\ ending' = [ending EXCEPT !.settle = n]
      BY <1>0, <1>9 DEF SettleEnd
    <3> HIDE DEF n
    <3> QED
      BY <1>0, <3>1
  <2>2. loop' \in Loops
    BY <1>9, GotoTyped DEF SettleEnd
  <2> QED
    BY <1>9, <2>1, <2>2 DEF SettleEnd, Typed, driver, screen
<1>10. CASE Capture
  <2>1. ending' \in [settle : Nat, frames : 0..NotYet, reported : BOOLEAN]
    <3>1. ending' = [ending EXCEPT !.frames = 2]
      BY <1>10 DEF Capture
    <3>2. 2 \in 0..NotYet
      BY DEF NotYet
    <3> QED
      BY <1>0, <3>1, <3>2
  <2>2. loop' \in Loops
    BY <1>10, GotoTyped DEF Capture
  <2>3. ui' \in Screens /\ files' \subseteq Artifacts
    <3> DEFINE u == IF job.shot THEN Asking(All) ELSE ui
               w == files \cup (IF job.tree THEN {Shown(<<"end tree", 0>>, Now(ui))} ELSE {})
    <3>1. Takes(u, w)
      BY <1>10, PlayTakes
    <3>2. u \in Screens /\ w \subseteq Artifacts
      BY <1>0, AskingIs, PathsTyped DEF All
    <3> HIDE DEF u, w
    <3> QED
      BY <3>1, <3>2, TakesTyped
  <2> QED
    BY <1>10, <2>1, <2>2, <2>3 DEF Capture, Typed, driver, screen
<1>11. CASE CountDown
  <2>1. ending' \in [settle : Nat, frames : 0..NotYet, reported : BOOLEAN]
    <3> DEFINE n == ending.frames - 1
    <3>1. n \in 0..NotYet /\ ending' = [ending EXCEPT !.frames = n]
      BY <1>0, <1>11 DEF CountDown, NotYet
    <3> HIDE DEF n
    <3> QED
      BY <1>0, <3>1
  <2>2. loop' \in Loops
    BY <1>11, GotoTyped DEF CountDown
  <2>3. ui' \in Screens /\ files' \subseteq Artifacts
    BY <1>0, <1>11, PlayTakes, TakesTyped
  <2> QED
    BY <1>11, <2>1, <2>2, <2>3 DEF CountDown, Typed, driver, screen
<1>12. CASE End
  <2>1. loop' \in Loops
    BY <1>12, GotoTyped DEF End
  <2>2. ui' \in Screens /\ files' \subseteq Artifacts
    BY <1>0, <1>12, PlayTakes, TakesTyped
  <2> QED
    BY <1>12, <2>1, <2>2 DEF End, Typed, driver, screen
<1>13. CASE Tick
  <2>1. ui' \in Screens /\ files' \subseteq Artifacts
    BY <1>0, <1>13, FrameTakes, TickedIs, TakesTyped
  <2> QED
    BY <1>13, <2>1, FrameTakes, LoopTyped DEF Tick, Typed, driver
<1>14. CASE FlipDone
  <2>1. ui' \in Screens /\ files' \subseteq Artifacts
    BY <1>0, <1>14, FrameTakes, TakesTyped
  <2> QED
    BY <1>14, <2>1, FrameTakes, LoopTyped DEF FlipDone, Typed, driver
<1>15. CASE Stir
  <2>1. ui' \in Screens /\ files' \subseteq Artifacts
    BY <1>0, <1>15, FrameTakes, StirredIs, TakesTyped
  <2> QED
    BY <1>15, <2>1, FrameTakes, LoopTyped DEF Stir, Typed, driver
<1>16. CASE Wake
  <2>1. loop' \in Loops
    BY <1>16, WakeIs
  <2> QED
    BY <1>16, <2>1 DEF Wake, Typed, driver, screen
<1>17. CASE Clock
  <2>1. loop' \in Loops
    BY <1>17, LoopTyped
  <2> QED
    BY <1>17, <2>1 DEF Clock, Typed, driver, screen
<1>18. CASE UNCHANGED vars
  BY <1>18 DEF vars, Typed
<1> QED
  BY <1>1, <1>2, <1>3, <1>4, <1>5, <1>6, <1>7, <1>8, <1>9, <1>10, <1>11, <1>12, <1>13,
     <1>14, <1>15, <1>16, <1>17, <1>18 DEF Next, Terminated


-----------------------------------------------------------------------------
(* What the sources count.                                                 *)

LEMMA CountUpTo ==
  ASSUME NEW S, NEW i \in Nat \ {0}
  PROVE  /\ Cardinality((1..i) \cap S) \in Nat
         /\ Cardinality((1..(i - 1)) \cap S) \in Nat
         /\ Cardinality((1..i) \cap S)
              = Cardinality((1..(i - 1)) \cap S) + (IF i \in S THEN 1 ELSE 0)
<1> DEFINE A == (1..i) \cap S
           B == (1..(i - 1)) \cap S
<1>1. IsFiniteSet(A) /\ IsFiniteSet(B)
  <2>1. IsFiniteSet(1..i) /\ IsFiniteSet(1..(i - 1))
    BY FS_Interval
  <2> QED
    BY <2>1, FS_Subset
<1>2. Cardinality(A) \in Nat /\ Cardinality(B) \in Nat
  BY <1>1, FS_CardinalityType
<1>3. CASE i \in S
  <2>1. A = B \cup {i} /\ i \notin B
    BY <1>3
  <2>2. Cardinality(A) = Cardinality(B) + 1
    BY <1>1, <2>1, FS_AddElement
  <2> QED
    BY <1>2, <1>3, <2>2
<1>4. CASE i \notin S
  <2>1. A = B
    BY <1>4
  <2> HIDE DEF A, B
  <2>2. Cardinality(A) = Cardinality(B) + 0
    BY <1>2, <2>1
  <2> QED
    BY <1>2, <1>4, <2>2 DEF A, B
<1> QED
  BY <1>3, <1>4

EditsOf(kind) == IF kind = "tap" THEN 2 ELSE IF kind = "key" THEN 1 ELSE 0

LEMMA EditsAfter ==
  ASSUME NEW i \in Nat \ {0}
  PROVE  /\ EditsBefore(i) \in Nat
         /\ EditsBefore(i + 1) = EditsBefore(i) + EditsOf(job.script[i])
<1> DEFINE S == {k \in Nat : job.script[k] \in {"tap", "key"}}
           T == {k \in Nat : job.script[k] = "tap"}
           s(j) == Cardinality((1..j) \cap S)
           t(j) == Cardinality((1..j) \cap T)
<1>1. ASSUME NEW j \in Nat
      PROVE  EditsBefore(j + 1) = s(j) + t(j)
  <2> DEFINE S1 == {k \in 1..((j + 1) - 1) : job.script[k] \in {"tap", "key"}}
             T1 == {k \in 1..((j + 1) - 1) : job.script[k] = "tap"}
  <2>1. S1 = (1..j) \cap S
    OBVIOUS
  <2>2. T1 = (1..j) \cap T
    OBVIOUS
  <2>3. EditsBefore(j + 1) = Cardinality(S1) + Cardinality(T1)
    BY DEF EditsBefore
  <2> HIDE DEF S1, T1, S, T
  <2> QED
    BY <2>1, <2>2, <2>3
<1>2. /\ s(i) \in Nat /\ s(i - 1) \in Nat /\ s(i) = s(i - 1) + (IF i \in S THEN 1 ELSE 0)
      /\ t(i) \in Nat /\ t(i - 1) \in Nat /\ t(i) = t(i - 1) + (IF i \in T THEN 1 ELSE 0)
  BY CountUpTo
<1>3. /\ EditsBefore(i + 1) = s(i) + t(i)
      /\ EditsBefore((i - 1) + 1) = s(i - 1) + t(i - 1)
  BY <1>1
<1>4. (i - 1) + 1 = i
  OBVIOUS
<1>5. /\ i \in S <=> job.script[i] \in {"tap", "key"}
      /\ i \in T <=> job.script[i] = "tap"
  OBVIOUS
<1> HIDE DEF s, t, S, T
<1>6. EditsBefore(i) = s(i - 1) + t(i - 1)
  BY <1>3, <1>4
<1> QED
  BY <1>2, <1>3, <1>5, <1>6 DEF EditsOf

LEMMA PendingTail ==
  ASSUME NEW q \in Seq(Items), q # <<>>
  PROVE  /\ Pending(Tail(q)) \in Nat
         /\ Pending(q) = Pending(Tail(q)) + (IF Head(q).event = "edit" THEN 1 ELSE 0)
<1> DEFINE A == {k \in DOMAIN Tail(q) : Tail(q)[k].event = "edit"}
           B == {k \in 2..Len(q) : q[k].event = "edit"}
           C == {k \in DOMAIN q : q[k].event = "edit"}
           f == [k \in A |-> k + 1]
<1>1. /\ Len(q) \in Nat \ {0} /\ DOMAIN q = 1..Len(q) /\ Head(q) = q[1]
      /\ DOMAIN Tail(q) = 1..(Len(q) - 1)
      /\ \A k \in 1..(Len(q) - 1) : Tail(q)[k] = q[k + 1]
  OBVIOUS
<1>2. IsFiniteSet(A) /\ IsFiniteSet(B)
  <2>1. IsFiniteSet(1..(Len(q) - 1)) /\ IsFiniteSet(2..Len(q))
    BY <1>1, FS_Interval
  <2> QED
    BY <1>1, <2>1, FS_Subset
<1>3. f \in Bijection(A, B)
  <2>1. f \in [A -> B]
    BY <1>1
  <2>2. \A x, y \in A : f[x] = f[y] => x = y
    BY <1>1
  <2>3. \A z \in B : \E x \in A : f[x] = z
    <3>1. ASSUME NEW z \in B
          PROVE  z - 1 \in A /\ f[z - 1] = z
      <4>1. z - 1 \in 1..(Len(q) - 1) /\ (z - 1) + 1 = z
        BY <1>1
      <4>2. z - 1 \in A
        BY <1>1, <4>1
      <4> QED
        BY <4>1, <4>2
    <3> QED
      BY <3>1
  <2> HIDE DEF f, A, B
  <2> QED
    BY <2>1, <2>2, <2>3, Zenon DEF Bijection, Injection, Surjection, IsInjective
<1>4. Cardinality(A) = Cardinality(B) /\ Cardinality(A) \in Nat
  <2>1. ExistsBijection(A, B)
    BY <1>3 DEF ExistsBijection
  <2> HIDE DEF A, B
  <2> QED
    BY <1>2, <2>1, FS_Bijection, FS_CardinalityType
<1>5. CASE q[1].event = "edit"
  <2>1. C = B \cup {1} /\ 1 \notin B
    BY <1>1, <1>5
  <2>2. Cardinality(C) = Cardinality(B) + 1
    BY <1>2, <2>1, FS_AddElement
  <2> QED
    BY <1>1, <1>4, <1>5, <2>2 DEF Pending
<1>6. CASE q[1].event # "edit"
  <2>1. C = B
    BY <1>1, <1>6
  <2>2. Pending(q) = Cardinality(B) /\ Pending(Tail(q)) = Cardinality(B)
    BY <1>4, <2>1 DEF Pending
  <2> HIDE DEF A, B, C
  <2> QED
    BY <1>1, <1>4, <1>6, <2>2
<1> QED
  BY <1>5, <1>6

LEMMA PendingOf ==
  ASSUME nextMs \in Nat
  PROVE  /\ Pending(<<>>) = 0
         /\ Pending(Input("edit", 1)) = 2
         /\ Pending(Input("edit", 0)) = 1
         /\ Pending(Input("esc", 0)) = 0
<1>1. {k \in DOMAIN <<>> : <<>>[k].event = "edit"} = {}
  OBVIOUS
<1>2. {k \in DOMAIN Input("edit", 1) : Input("edit", 1)[k].event = "edit"} = {1} \cup {2}
  <2>1. DOMAIN Input("edit", 1) = 1..2 /\ \A k \in 1..2 : Input("edit", 1)[k].event = "edit"
    BY InputIs
  <2> QED
    BY <2>1
<1>3. {k \in DOMAIN Input("edit", 0) : Input("edit", 0)[k].event = "edit"} = {1}
  <2>1. DOMAIN Input("edit", 0) = 1..1 /\ \A k \in 1..1 : Input("edit", 0)[k].event = "edit"
    BY InputIs
  <2> QED
    BY <2>1
<1>4. {k \in DOMAIN Input("esc", 0) : Input("esc", 0)[k].event = "edit"} = {}
  <2>1. \A k \in DOMAIN Input("esc", 0) : Input("esc", 0)[k].event = "esc"
    BY InputIs
  <2> QED
    BY <2>1
<1>5. Cardinality({}) = 0 /\ Cardinality({1}) = 1 /\ IsFiniteSet({1})
  BY FS_EmptySet, FS_Singleton
<1>6. Cardinality({1} \cup {2}) = 2
  BY <1>5, FS_AddElement
<1> QED
  BY <1>1, <1>2, <1>3, <1>4, <1>5, <1>6 DEF Pending


LEMMA OwedSame ==
  ASSUME job'.flow = job.flow, job'.script = job.script, done' = done, stopped' = stopped, NEW n
  PROVE  Owed(n)' = Owed(n)
<1>1. ASSUME NEW i
      PROVE  EditsBefore(i)' = EditsBefore(i)
  BY DEF EditsBefore
<1>2. EditsBefore(n[2])' = EditsBefore(n[2])
  BY <1>1
<1>3. EditsBefore(IF stopped THEN done ELSE done + 1)'
        = EditsBefore(IF stopped THEN done ELSE done + 1)
  <2> DEFINE i == IF stopped THEN done ELSE done + 1
  <2>1. i' = i
    OBVIOUS
  <2> QED
    BY <2>1 DEF EditsBefore
<1>4. Cardinality({k \in DOMAIN job.script : job.script[k].event = "edit"})'
        = Cardinality({k \in DOMAIN job.script : job.script[k].event = "edit"})
  OBVIOUS
<1> QED
  BY <1>2, <1>3, <1>4 DEF Owed

(* Every step but those of a source leaves it as it is.                    *)
LEMMA OthersKeep ==
  ASSUME Typed, Current, [Next]_vars, ~Edit, ~Quit, ~Advance, ~Fail
  PROVE  /\ job'.flow = job.flow /\ job'.script = job.script
         /\ job'.shot = job.shot /\ job'.tree = job.tree
         /\ UNCHANGED <<done, stopped, queue>>
         /\ ui'.content = ui.content
<1>0. ui \in Screens
  BY DEF Typed
<1>1. CASE AwaitSettle \/ Pause \/ Playing \/ SettleEnd \/ Wake \/ Clock \/ UNCHANGED vars
  BY <1>1 DEF AwaitSettle, Pause, Playing, SettleEnd, Wake, Clock, vars, driver, screen
<1>2. CASE Unblock
  <2>1. ui'.content = ui.content
    BY <1>2, PlayTakes, AskingIs DEF Takes
  <2> QED
    BY <1>2, <2>1 DEF Unblock
<1>3. CASE Report
  <2>1. ui'.content = ui.content
    BY <1>3, PlayTakes, AskingIs, PathsTyped DEF Takes
  <2>2. job' = [job EXCEPT !.end = "exit"] /\ UNCHANGED driver
    BY <1>3 DEF Report
  <2> QED
    BY <2>1, <2>2 DEF Typed, driver
<1>4. CASE Capture
  <2>1. ui'.content = ui.content
    BY <1>0, <1>4 DEF Capture, Screens
  <2> QED
    BY <1>4, <2>1 DEF Capture, driver
<1>5. CASE CountDown \/ End
  <2>1. ui'.content = ui.content
    BY <1>5, PlayTakes DEF Takes
  <2> QED
    BY <1>5, <2>1 DEF CountDown, End, driver
<1>6. CASE Tick \/ FlipDone \/ Stir
  <2>1. ui'.content = ui.content
    BY <1>6, FrameTakes, TickedIs, StirredIs DEF Takes
  <2> QED
    BY <1>6, <2>1 DEF Tick, FlipDone, Stir, driver
<1> QED
  BY <1>1, <1>2, <1>3, <1>4, <1>5, <1>6 DEF Next, Terminated

LEMMA PlayedInit ==
  ASSUME Init
  PROVE  Played
<1>1. Typed
  BY TypedInit
<1>2. job.flow => Len(job.script) \in Nat
  BY <1>1, ScriptIs
<1> QED
  BY <1>2 DEF Init, Played

LEMMA PlayedNext ==
  ASSUME Typed, Played, Current, [Next]_vars
  PROVE  Played'
<1>0. done \in Nat /\ (job.flow => Len(job.script) \in Nat)
  <2>1. job.flow => Len(job.script) \in Nat
    BY ScriptIs
  <2> QED
    BY <2>1 DEF Typed
<1>1. CASE Edit \/ Quit
  <2>1. UNCHANGED <<job, done, stopped, blocked>> /\ queue # <<>>
    BY <1>1 DEF Edit, Quit, Ripe
  <2> QED
    BY <2>1 DEF Played
<1>2. CASE Advance
  <2> DEFINE kind == job.script[done + 1]
  <2>1. UNCHANGED <<job, stopped>> /\ done' = done + 1
    BY <1>2 DEF Advance
  <2>2. /\ kind \in Inputs => blocked' = Nothing
        /\ kind \notin Inputs => queue' = <<>>
        /\ kind \in {"wait", "expect"} => blocked' = Nothing
        /\ kind \in Waits => blocked' = <<kind, done + 1>>
    BY <1>2, StepIs
  <2>3. /\ job.flow /\ done + 1 \in 1..Len(job.script) /\ ~stopped /\ kind \in Kinds
    BY <1>2, KindIs DEF Advance
  <2>4. blocked' # Nothing => kind \in Waits /\ kind \notin Inputs
    BY <2>2, <2>3 DEF Kinds, Waits, Inputs
  <2> HIDE DEF kind
  <2>5. blocked' # Nothing => queue' = <<>> /\ blocked' = <<kind, done'>>
    BY <2>1, <2>2, <2>4
  <2>6. done' <= Len(job.script) /\ done' > 0
    BY <1>0, <2>1, <2>3
  <2>7. kind = (job.script[done])'
    BY <2>1 DEF kind
  <2> QED
    BY <2>1, <2>3, <2>5, <2>6, <2>7 DEF Played
<1>3. CASE Fail
  <2>1. UNCHANGED <<job, queue, blocked>> /\ done' = done + 1 /\ stopped'
    BY <1>3 DEF Fail
  <2>2. job.flow /\ done + 1 \in 1..Len(job.script) /\ queue = <<>> /\ blocked = Nothing
    BY <1>3, KindIs DEF Fail
  <2> QED
    BY <1>0, <2>1, <2>2 DEF Played
<1>4. CASE ~Edit /\ ~Quit /\ ~Advance /\ ~Fail
  <2>1. /\ job'.flow = job.flow /\ job'.script = job.script
        /\ UNCHANGED <<done, stopped, queue>>
    BY <1>4, OthersKeep
  <2>2. blocked' = blocked \/ blocked' = Nothing
    BY <1>4 DEF Next, AwaitSettle, Unblock, Pause, Playing, Report, SettleEnd, Capture, CountDown,
                End, Tick, FlipDone, Stir, Wake, Clock, Terminated, vars, driver
  <2> QED
    BY <2>1, <2>2 DEF Played
<1> QED
  BY <1>1, <1>2, <1>3, <1>4

LEMMA AccountedInit ==
  ASSUME Init
  PROVE  Accounted
<1>1. ui.content = 0 /\ done = 0 /\ ~stopped /\ queue = IF job.flow THEN <<>> ELSE job.script
  BY DEF Init
<1>2. CASE job.flow
  <2>1. Pending(queue) = 0
    <3>1. nextMs \in Nat
      BY DEF Init
    <3> QED
      BY <1>1, <1>2, <3>1, PendingOf
  <2>2. Owed(All) = EditsBefore(1)
    BY <1>1, <1>2 DEF Owed, All
  <2>3. EditsBefore(1) = 0
    <3>1. 1..(1 - 1) = {}
      OBVIOUS
    <3>2. Cardinality({}) = 0
      BY FS_EmptySet
    <3>3. /\ {k \in 1..(1 - 1) : job.script[k] \in {"tap", "key"}} = {}
          /\ {k \in 1..(1 - 1) : job.script[k] = "tap"} = {}
      BY <3>1
    <3> QED
      BY <3>2, <3>3 DEF EditsBefore
  <2> QED
    BY <1>1, <2>1, <2>2, <2>3 DEF Accounted
<1>3. CASE ~job.flow
  <2>1. Owed(All) = Pending(queue)
    BY <1>1, <1>3 DEF Owed, All, Pending
  <2>2. Pending(queue) \in Nat
    <3>1. queue \in Seq(Items)
      BY TypedInit DEF Typed
    <3>2. CASE queue = <<>>
      <4>1. nextMs \in Nat
        BY DEF Init
      <4> QED
        BY <3>2, <4>1, PendingOf
    <3>3. CASE queue # <<>>
      BY <3>1, <3>3, PendingTail
    <3> QED
      BY <3>2, <3>3
  <2> QED
    BY <1>1, <2>1, <2>2 DEF Accounted
<1> QED
  BY <1>2, <1>3

LEMMA AccountedNext ==
  ASSUME Typed, Played, Current, Accounted, [Next]_vars
  PROVE  Accounted'
<1>0. ui \in Screens /\ ui.content \in Nat /\ queue \in Seq(Items) /\ done \in Nat /\ nextMs \in Nat
  BY DEF Typed, Screens
<1>1. CASE Edit
  <2>1. queue # <<>> /\ Head(queue).event = "edit" /\ queue' = Tail(queue)
    BY <1>1 DEF Edit, Ripe
  <2>2. ui'.content = ui.content + 1
    BY <1>0, <1>1 DEF Edit, Screens
  <2>3. Owed(All)' = Owed(All)
    BY <1>1, OwedSame DEF Edit
  <2>4. Pending(queue)' = Pending(Tail(queue))
    BY <2>1 DEF Pending
  <2> QED
    BY <1>0, <2>1, <2>2, <2>3, <2>4, PendingTail DEF Accounted
<1>2. CASE Quit
  <2>1. queue # <<>> /\ Head(queue).event = "esc" /\ queue' = Tail(queue) /\ ui' = ui
    BY <1>2 DEF Quit, Ripe
  <2>3. Owed(All)' = Owed(All)
    BY <1>2, OwedSame DEF Quit
  <2>4. Pending(queue)' = Pending(Tail(queue))
    BY <2>1 DEF Pending
  <2> QED
    BY <1>0, <2>1, <2>3, <2>4, PendingTail DEF Accounted
<1>3. CASE Advance
  <2> DEFINE kind == job.script[done + 1]
  <2>1. ui' = ui /\ done' = done + 1 /\ stopped' = stopped /\ job' = job
    BY <1>3 DEF Advance
  <2>2. job.flow /\ ~stopped /\ queue = <<>> /\ kind \in Kinds
    BY <1>3, KindIs DEF Advance
  <2>3. Owed(All) = EditsBefore(done + 1) /\ Owed(All)' = EditsBefore((done + 1) + 1)
    <3>1. Owed(All)' = EditsBefore(done + 1)'
      BY <2>1, <2>2 DEF Owed, All
    <3>2. EditsBefore(done + 1)' = EditsBefore((done + 1) + 1)
      BY <2>1 DEF EditsBefore
    <3> QED
      BY <2>2, <3>1, <3>2 DEF Owed, All
  <2>4. /\ EditsBefore(done + 1) \in Nat
        /\ EditsBefore((done + 1) + 1) = EditsBefore(done + 1) + EditsOf(kind)
    BY <1>0, EditsAfter
  <2>5. Pending(queue)' = EditsOf(kind) /\ Pending(queue) = 0
    <3>1. /\ kind = "tap" => queue' = Input("edit", 1)
          /\ kind = "key" => queue' = Input("edit", 0)
          /\ kind = "escape" => queue' = Input("esc", 0)
          /\ kind \notin Inputs => queue' = <<>>
      BY <1>3, StepIs
    <3>2. Pending(queue)' = Pending(queue')
      BY DEF Pending
    <3>3. /\ kind = "tap" => Pending(queue') = 2
          /\ kind = "key" => Pending(queue') = 1
          /\ kind \notin {"tap", "key"} => Pending(queue') = 0
      <4>1. /\ Pending(<<>>) = 0 /\ Pending(Input("edit", 1)) = 2
            /\ Pending(Input("edit", 0)) = 1 /\ Pending(Input("esc", 0)) = 0
        BY <1>0, PendingOf
      <4> HIDE DEF kind
      <4> QED
        BY <3>1, <4>1 DEF Inputs
    <3> QED
      BY <1>0, <2>2, <3>2, <3>3, PendingOf DEF EditsOf
  <2> HIDE DEF kind
  <2> QED
    BY <1>0, <2>1, <2>3, <2>4, <2>5 DEF Accounted
<1>4. CASE Fail
  <2>1. ui' = ui /\ done' = done + 1 /\ stopped' /\ job' = job /\ queue' = queue
    BY <1>4 DEF Fail
  <2>2. job.flow /\ ~stopped
    BY <1>4, KindIs DEF Fail
  <2>3. Owed(All) = EditsBefore(done + 1) /\ Owed(All)' = EditsBefore(done + 1)
    <3>1. Owed(All)' = EditsBefore(done)'
      BY <2>1, <2>2 DEF Owed, All
    <3>2. EditsBefore(done)' = EditsBefore(done + 1)
      BY <2>1 DEF EditsBefore
    <3> QED
      BY <2>2, <3>1, <3>2 DEF Owed, All
  <2>4. Pending(queue)' = Pending(queue)
    BY <2>1 DEF Pending
  <2> QED
    BY <2>1, <2>3, <2>4 DEF Accounted
<1>5. CASE ~Edit /\ ~Quit /\ ~Advance /\ ~Fail
  <2>1. /\ job'.flow = job.flow /\ job'.script = job.script /\ queue' = queue
        /\ done' = done /\ stopped' = stopped /\ ui'.content = ui.content
    BY <1>5, OthersKeep
  <2>2. Owed(All)' = Owed(All)
    BY <2>1, OwedSame
  <2>3. Pending(queue)' = Pending(queue)
    BY <2>1 DEF Pending
  <2> QED
    BY <2>1, <2>2, <2>3 DEF Accounted
<1> QED
  BY <1>1, <1>2, <1>3, <1>4, <1>5


-----------------------------------------------------------------------------
(* What is captured.                                                       *)

\* What a screen asks for, and what is written, owes nothing.
Square(u, w) ==
  /\ u.request # Nothing => u.content >= Owed(u.request)
  /\ \A f \in w : f.content >= Owed(f.name)
  /\ u.request \in EndNames => Finished
  /\ \A f \in w : f.name \in EndNames => Finished

LEMMA NothingIsNoName == Nothing \notin Names /\ Nothing \notin EndNames
BY DEF Nothing, Names, EndNames

LEMMA EndNamesAre ==
  ASSUME NEW n \in EndNames
  PROVE  /\ n[1] \in {"fail shot", "fail tree", "end shot", "end tree"} /\ n[2] = 0
         /\ n[1] \notin {"shot", "tree"} /\ n # Nothing
         /\ n[1] = "end shot" => n = All
<1>1. CASE n = <<"fail shot", 0>>
  BY <1>1 DEF Nothing
<1>2. CASE n = <<"fail tree", 0>>
  BY <1>2 DEF Nothing
<1>3. CASE n = <<"end shot", 0>>
  BY <1>3 DEF Nothing, All
<1>4. CASE n = <<"end tree", 0>>
  BY <1>4 DEF Nothing
<1> QED
  BY <1>1, <1>2, <1>3, <1>4 DEF EndNames

LEMMA FinishedSame ==
  ASSUME job'.flow = job.flow, job'.script = job.script, done' = done, stopped' = stopped,
         queue' = queue
  PROVE  Finished' = Finished
BY DEF Finished, IsDone

LEMMA TakesSquare ==
  ASSUME Typed, NEW u \in Screens, NEW w \in SUBSET Artifacts, Takes(u, w), Square(u, w),
         job'.flow = job.flow, job'.script = job.script,
         done' = done, stopped' = stopped, Finished => Finished'
  PROVE  Square(ui, files)' /\ Current'
<1>1. /\ ui' \in Screens /\ files' \subseteq Artifacts
      /\ ui'.request = u.request \/ ui'.request = Nothing
      /\ \A f \in files' : f \in w \/ (u.request # Nothing /\ f = Shown(u.request, Now(u)))
  BY TakesTyped
<1>2. \A n : Owed(n)' = Owed(n)
  BY OwedSame
<1>3. Finished => Finished'
  OBVIOUS
<1>4. ui'.content = u.content
  BY DEF Takes
<1>5. ASSUME ui'.request # Nothing
      PROVE  ui'.content >= Owed(ui.request)'
  <2>1. ui'.request = u.request /\ u.content >= Owed(u.request)
    BY <1>1, <1>5 DEF Square
  <2>2. Owed(ui.request)' = Owed(ui'.request)
    BY OwedSame DEF Owed, EditsBefore
  <2> QED
    BY <1>4, <2>1, <2>2
<1>6. ASSUME NEW f \in files'
      PROVE  f.content >= Owed(f.name)' /\ (f.name \in EndNames => Finished)
  <2>1. CASE f \in w
    BY <1>2, <2>1 DEF Square
  <2>2. CASE u.request # Nothing /\ f = Shown(u.request, Now(u))
    <3>1. f.name = u.request /\ f.content = u.content
      BY <2>2, NowIs
    <3>2. Owed(f.name)' = Owed(f.name)
      BY <1>2
    <3> QED
      BY <2>2, <3>1, <3>2 DEF Square
  <2> QED
    BY <1>1, <1>6, <2>1, <2>2
<1>7. ui'.request \in EndNames => Finished
  BY <1>1, NothingIsNoName DEF Square
<1>8. Current'
  BY DEF Takes, Current
<1> QED
  BY <1>3, <1>5, <1>6, <1>7, <1>8 DEF Square

LEMMA CapturedIs == Captured <=> /\ Current /\ Square(ui, files)
                                 /\ ending.frames # NotYet \/ ending.reported => Finished
BY DEF Captured, Current, Square

\* Of the current screen nothing is owed once a source is through.
LEMMA EndOwesNothing ==
  ASSUME Typed, Accounted, Finished
  PROVE  \A n \in EndNames : ui.content = Owed(n)
<1>1. queue = <<>> /\ nextMs \in Nat /\ ui.content \in Nat
  BY DEF Finished, Typed, Screens
<1>2. ui.content = Owed(All)
  BY <1>1, PendingOf DEF Accounted
<1>3. \A n \in EndNames : Owed(n) = Owed(All)
  <2>1. All[1] \notin {"shot", "tree"} /\ \A n \in EndNames : n[1] \notin {"shot", "tree"}
    BY DEF EndNames, All
  <2> QED
    BY <2>1 DEF Owed
<1> QED
  BY <1>2, <1>3


LEMMA OwedIsNat ==
  ASSUME Typed, Accounted, NEW n \in Names
  PROVE  Owed(n) \in Nat
<1>0. queue \in Seq(Items) /\ nextMs \in Nat /\ ui.content \in Nat
  BY DEF Typed, Screens
<1>1. CASE n[1] \in {"shot", "tree"}
  <2>1. n[2] \in Nat
    <3>1. \A m \in EndNames : m[2] = 0
      BY EndNamesAre
    <3>2. CASE n \in EndNames
      BY <3>1, <3>2
    <3>3. CASE n \notin EndNames
      BY <3>3 DEF Names
    <3> QED
      BY <3>2, <3>3
  <2>2. EditsBefore(n[2]) \in Nat
    <3>1. CASE n[2] = 0
      <4>1. /\ {k \in 1..(0 - 1) : job.script[k] \in {"tap", "key"}} = {}
            /\ {k \in 1..(0 - 1) : job.script[k] = "tap"} = {}
        OBVIOUS
      <4>2. Cardinality({}) = 0
        BY FS_EmptySet
      <4>3. EditsBefore(0) = 0
        BY <4>1, <4>2 DEF EditsBefore
      <4> QED
        BY <3>1, <4>3
    <3>2. CASE n[2] # 0
      BY <2>1, <3>2, EditsAfter
    <3> QED
      BY <3>1, <3>2
  <2> QED
    BY <1>1, <2>2 DEF Owed
<1>2. CASE n[1] \notin {"shot", "tree"}
  <2>1. Owed(n) = Owed(All)
    <3>1. All[1] \notin {"shot", "tree"}
      BY DEF All
    <3> QED
      BY <1>2, <3>1 DEF Owed
  <2>2. Pending(queue) \in Nat
    <3>1. CASE queue = <<>>
      BY <1>0, <3>1, PendingOf
    <3>2. CASE queue # <<>>
      BY <1>0, <3>2, PendingTail
    <3> QED
      BY <3>1, <3>2
  <2> QED
    BY <1>0, <2>1, <2>2 DEF Accounted
<1> QED
  BY <1>1, <1>2

LEMMA CapturedInit ==
  ASSUME Init
  PROVE  Captured
<1>1. /\ ui.request = Nothing /\ files = {} /\ ending.frames = NotYet /\ ~ending.reported
      /\ surface = [content |-> 0, moving |-> FALSE] /\ ui.content = 0 /\ ui.anim = 0
  BY DEF Init
<1>2. (0 > 0) = FALSE
  OBVIOUS
<1>3. surface = Now(ui)
  BY <1>1, <1>2, Zenon DEF Now
<1> QED
  BY <1>1, <1>3, NothingIsNoName DEF Captured

LEMMA CapturedPlay ==
  ASSUME Typed, Played, Accounted, Captured, Edit \/ Quit \/ Advance \/ Fail
  PROVE  Captured'
<1>0. ui \in Screens /\ ui.content \in Nat /\ ui.request \in Names \cup {Nothing} /\ files \in SUBSET Artifacts
  BY DEF Typed, Screens
<1>1. Current /\ Square(ui, files) /\ (ending.frames # NotYet \/ ending.reported => Finished)
  BY CapturedIs
<1>2. CASE Edit
  <2>1. PICK a \in Lengths \cup {ui.anim} :
           ui' = [ui EXCEPT !.content = @ + 1, !.anim = a, !.dirty = TRUE]
    BY <1>2 DEF Edit
  <2>2. ~Finished /\ UNCHANGED <<job, done, stopped, files, ending>>
    BY <1>2 DEF Edit, Finished, Ripe
  <2> DEFINE u == [ui EXCEPT !.content = @ + 1, !.anim = a, !.dirty = TRUE]
  <2>3. u \in Screens /\ u.content = ui.content + 1 /\ u.request = ui.request /\ u.dirty
    <3>1. a \in Nat
      BY <1>0, ConstantsAre DEF Screens
    <3> DEFINE c == ui.content + 1
    <3>2. c \in Nat /\ u = [ui EXCEPT !.content = c, !.anim = a, !.dirty = TRUE]
      BY <1>0 DEF Screens
    <3> HIDE DEF c, u
    <3>3. u \in Screens /\ u.content = c /\ u.request = ui.request /\ u.dirty
      BY <1>0, <3>1, <3>2 DEF Screens
    <3> QED
      BY <3>3 DEF c
  <2> HIDE DEF u
  <2>4. Takes(u, files)
    <3>1. ui' = u
      BY <2>1 DEF u
    <3> QED
      BY <2>2, <2>3, <3>1 DEF Takes
  <2>5. Square(u, files)
    <3>1. u.request # Nothing => u.content >= Owed(u.request)
      <4>1. SUFFICES ASSUME u.request # Nothing
                     PROVE  u.content >= Owed(u.request)
        OBVIOUS
      <4>2. Owed(ui.request) \in Nat
        BY <1>0, <2>3, <4>1, OwedIsNat
      <4>3. ui.content >= Owed(ui.request)
        BY <1>1, <2>3, <4>1 DEF Square
      <4> QED
        BY <1>0, <2>3, <4>2, <4>3
    <3> QED
      BY <1>1, <2>3, <3>1 DEF Square
  <2>6. Square(ui, files)' /\ Current'
    BY <1>0, <2>2, <2>3, <2>4, <2>5, TakesSquare
  <2> QED
    BY <1>1, <2>2, <2>6 DEF Captured, Current, Square
<1>3. CASE Quit
  <2>1. ~Finished /\ UNCHANGED <<job, done, stopped, files, ending, ui, surface>>
    BY <1>3 DEF Quit, Finished, Ripe, screen
  <2>2. Takes(ui, files)
    BY <1>0, <1>1, <2>1 DEF Takes, Current
  <2>3. Square(ui, files)' /\ Current'
    BY <1>0, <1>1, <2>1, <2>2, TakesSquare
  <2> QED
    BY <1>1, <2>1, <2>3 DEF Captured, Current, Square
<1>4. CASE Advance \/ Fail
  <2>1. UNCHANGED <<job, files, ending, ui, surface>>
    BY <1>4 DEF Advance, Fail, screen
  <2>2. ~Finished
    BY <1>4 DEF Advance, Fail, Finished, Idle
  <2>3. ASSUME NEW n \in Names, n \notin EndNames
        PROVE  Owed(n)' = Owed(n)
    <3>1. n[1] \in {"shot", "tree"}
      BY <2>3 DEF Names
    <3>2. EditsBefore(n[2])' = EditsBefore(n[2])
      BY <2>1 DEF EditsBefore
    <3> QED
      BY <3>1, <3>2 DEF Owed
  <2>4. ui.request \notin EndNames /\ \A f \in files : f.name \notin EndNames
    BY <1>1, <2>2 DEF Square
  <2>5. ASSUME ui.request # Nothing
        PROVE  ui.content >= Owed(ui.request)'
    <3>1. ui.request \in Names /\ ui.request[1] \in {"shot", "tree"}
      BY <1>0, <2>4, <2>5 DEF Names
    <3>2. Owed(ui.request)' = Owed(ui.request)
      <4>1. EditsBefore(ui.request[2])' = EditsBefore(ui.request[2])
        BY <2>1 DEF EditsBefore
      <4>2. ui.request' = ui.request
        BY <2>1
      <4> QED
        BY <3>1, <4>1, <4>2 DEF Owed
    <3> QED
      BY <1>1, <2>5, <3>2 DEF Square
  <2>6. ASSUME NEW f \in files
        PROVE  f.content >= Owed(f.name)'
    <3>1. f.name \in Names /\ f.name \notin EndNames
      BY <1>0, <2>4 DEF Artifacts
    <3>2. Owed(f.name)' = Owed(f.name)
      BY <2>3, <3>1
    <3> QED
      BY <1>1, <3>2 DEF Square
  <2> QED
    BY <1>1, <2>1, <2>2, <2>4, <2>5, <2>6 DEF Captured, Current, Now
<1> QED
  BY <1>2, <1>3, <1>4


LEMMA CapturedOthers ==
  ASSUME Typed, Played, Accounted, Captured, [Next]_vars, ~Edit, ~Quit, ~Advance, ~Fail
  PROVE  Captured'
<1>0. ui \in Screens /\ files \in SUBSET Artifacts
  BY DEF Typed
<1>1. Current /\ Square(ui, files) /\ (ending.frames # NotYet \/ ending.reported => Finished)
  BY CapturedIs
<1>2. /\ job'.flow = job.flow /\ job'.script = job.script
      /\ UNCHANGED <<done, stopped, queue>>
  BY <1>1, OthersKeep
<1>3. Finished' = Finished
  BY <1>2, FinishedSame
<1>4. \A n \in EndNames : Finished => ui.content >= Owed(n)
  <2>1. SUFFICES ASSUME NEW n \in EndNames, Finished
                 PROVE  ui.content >= Owed(n)
    OBVIOUS
  <2>2. ui.content = Owed(n) /\ ui.content \in Nat
    BY <1>0, <2>1, EndOwesNothing DEF Screens
  <2> QED
    BY <2>2
<1>5. SUFFICES /\ Square(ui, files)' /\ Current'
               /\ ending'.frames # NotYet \/ ending'.reported => Finished
  BY <1>3 DEF Captured, Current, Square
<1>6. ASSUME NEW u \in Screens, NEW w \in SUBSET Artifacts, Takes(u, w), Square(u, w)
      PROVE  Square(ui, files)' /\ Current'
  BY <1>2, <1>3, <1>6, TakesSquare
<1>7. CASE AwaitSettle \/ Pause \/ Playing \/ SettleEnd \/ Wake \/ Clock \/ UNCHANGED vars
  <2>1. UNCHANGED <<ui, files, surface>>
    BY <1>7 DEF AwaitSettle, Pause, Playing, SettleEnd, Wake, Clock, vars, driver, screen
  <2>2. ending'.frames = ending.frames /\ ending'.reported = ending.reported
    BY <1>7 DEF AwaitSettle, Pause, Playing, SettleEnd, Wake, Clock, vars, Typed
  <2>3. Takes(ui, files)
    BY <1>0, <1>1, <2>1 DEF Takes, Current
  <2> QED
    BY <1>0, <1>1, <1>6, <2>2, <2>3
<1>8. CASE Unblock
  <2>1. ending'.frames = ending.frames /\ ending'.reported = ending.reported
    BY <1>8 DEF Unblock, Typed
  <2>2. blocked \in Names => Asking(blocked) \in Screens /\ Shown(blocked, Now(ui)) \in Artifacts
    BY AskingIs, PathsTyped
  <2>3. /\ blocked[1] = "shot" /\ blocked \in Names => Square(Asking(blocked), files)
        /\ blocked[1] = "tree" /\ blocked \in Names
             => Square(ui, files \cup {Shown(blocked, Now(ui))})
    <3>1. SUFFICES ASSUME blocked \in Names, blocked[1] \in {"shot", "tree"}
                   PROVE  /\ Square(Asking(blocked), files)
                          /\ Square(ui, files \cup {Shown(blocked, Now(ui))})
      OBVIOUS
    <3>2. blocked \notin EndNames
      <4>1. \A n \in EndNames : n[1] \notin {"shot", "tree"}
        BY EndNamesAre
      <4> QED
        BY <3>1, <4>1
    <3>3. ui.content >= Owed(blocked)
      <4>1. /\ queue = <<>> /\ done > 0 /\ done \in Nat /\ nextMs \in Nat
            /\ blocked = <<job.script[done], done>> /\ job.flow /\ ~stopped
            /\ ui.content \in Nat
        BY <1>8 DEF Unblock, Played, Typed, Screens
      <4>2. Owed(blocked) = EditsBefore(done) /\ Owed(All) = EditsBefore(done + 1)
        BY <3>1, <4>1 DEF Owed, All
      <4>3. /\ EditsBefore(done) \in Nat
            /\ EditsBefore(done + 1) = EditsBefore(done) + EditsOf(job.script[done])
        BY <4>1, EditsAfter
      <4>4. EditsOf(job.script[done]) \in Nat
        BY DEF EditsOf
      <4>5. ui.content = EditsBefore(done + 1)
        BY <4>1, <4>2, PendingOf DEF Accounted
      <4> QED
        BY <4>2, <4>3, <4>4, <4>5
    <3>4. /\ Asking(blocked).request = blocked /\ Asking(blocked).content = ui.content
      BY <3>1, AskingIs
    <3>5. Shown(blocked, Now(ui)).name = blocked /\ Shown(blocked, Now(ui)).content = ui.content
      BY <1>0, NowIs
    <3> QED
      BY <1>1, <3>2, <3>3, <3>4, <3>5 DEF Square
  <2> QED
    BY <1>0, <1>1, <1>6, <1>8, <2>1, <2>2, <2>3, PlayTakes
<1>9. CASE Report
  <2> DEFINE u == Asking(<<"fail shot", 0>>)
             w == files \cup {Shown(<<"fail tree", 0>>, Now(ui))}
  <2>1. Takes(u, w) /\ Finished
    BY <1>1, <1>9, PlayTakes DEF Report
  <2>2. u \in Screens /\ w \in SUBSET Artifacts /\ u.request = <<"fail shot", 0>>
        /\ u.content = ui.content
    BY <1>0, AskingIs, PathsTyped
  <2>3. <<"fail shot", 0>> \in EndNames /\ <<"fail tree", 0>> \in EndNames
    BY DEF EndNames
  <2>4. /\ Shown(<<"fail tree", 0>>, Now(ui)).name = <<"fail tree", 0>>
        /\ Shown(<<"fail tree", 0>>, Now(ui)).content = ui.content
    BY <1>0, NowIs
  <2>5. Square(u, w)
    <3>1. \A f \in w : f \in files \/ f = Shown(<<"fail tree", 0>>, Now(ui))
      OBVIOUS
    <3> HIDE DEF u, w
    <3> QED
      BY <1>1, <1>4, <2>1, <2>2, <2>3, <2>4, <3>1 DEF Square
  <2> HIDE DEF u, w
  <2> QED
    BY <1>6, <2>1, <2>2, <2>5
<1>10. CASE Capture
  <2> DEFINE u == IF job.shot THEN Asking(All) ELSE ui
             w == files \cup (IF job.tree THEN {Shown(<<"end tree", 0>>, Now(ui))} ELSE {})
  <2>1. Takes(u, w) /\ Finished
    BY <1>1, <1>10, PlayTakes DEF Capture, AtEnd
  <2>2. u \in Screens /\ w \in SUBSET Artifacts
        /\ (u = ui \/ (u.request = All /\ u.content = ui.content))
    BY <1>0, AskingIs, PathsTyped DEF All
  <2>3. All \in EndNames /\ <<"end tree", 0>> \in EndNames
    BY DEF EndNames, All
  <2>4. /\ Shown(<<"end tree", 0>>, Now(ui)).name = <<"end tree", 0>>
        /\ Shown(<<"end tree", 0>>, Now(ui)).content = ui.content
    BY <1>0, NowIs
  <2>5. Square(u, w)
    <3>1. \A f \in w : f \in files \/ f = Shown(<<"end tree", 0>>, Now(ui))
      OBVIOUS
    <3> HIDE DEF u, w
    <3> QED
      BY <1>1, <1>4, <2>1, <2>2, <2>3, <2>4, <3>1 DEF Square
  <2> HIDE DEF u, w
  <2> QED
    BY <1>6, <2>1, <2>2, <2>5
<1>11. CASE CountDown \/ End
  <2>1. Takes(ui, files) /\ Finished
    BY <1>1, <1>11, PlayTakes DEF CountDown, End, AtEnd
  <2> QED
    BY <1>0, <1>1, <1>6, <2>1
<1>12. CASE Tick \/ FlipDone \/ Stir
  <2>1. ending' = ending
    BY <1>12 DEF Tick, FlipDone, Stir
  <2>2. PICK u \in {ui, Ticked, Stirred} : Takes(u, files)
    BY <1>1, <1>12, FrameTakes
  <2>3. u \in Screens /\ u.request = ui.request /\ u.content = ui.content
    BY <1>0, <1>1, TickedIs, StirredIs
  <2>4. Square(u, files)
    BY <1>1, <2>3 DEF Square
  <2> QED
    BY <1>0, <1>1, <1>6, <2>1, <2>2, <2>3, <2>4
<1> QED
  BY <1>7, <1>8, <1>9, <1>10, <1>11, <1>12 DEF Next, Terminated


-----------------------------------------------------------------------------
(* What the ending leaves.                                                 *)

LEMMA TakesLeft ==
  ASSUME NEW u \in Screens, NEW w, Takes(u, w), NEW kind, kind # "none"
  PROVE  /\ (\E f \in w : f.name[1] = kind) => Written(kind)'
         /\ (\E f \in w : f.name[1] = kind) \/ u.request[1] = kind => Left(kind)'
<1>1. w \subseteq files'
  BY DEF Takes
<1>2. (\E f \in w : f.name[1] = kind) => Written(kind)'
  BY <1>1 DEF Written
<1>3. ASSUME u.request[1] = kind
      PROVE  Left(kind)'
  <2>1. u.request # Nothing
    BY <1>3 DEF Nothing
  <2>2. CASE ui'.request = u.request
    BY <1>3, <2>2 DEF Left
  <2>3. CASE ui'.request # u.request
    <3>1. Shown(u.request, Now(u)) \in files'
      BY <2>1, <2>3 DEF Takes
    <3>2. Shown(u.request, Now(u)).name = u.request
      BY DEF Shown
    <3> QED
      BY <1>3, <3>1, <3>2 DEF Left, Written
  <2> QED
    BY <2>2, <2>3
<1> QED
  BY <1>2, <1>3 DEF Left

LEMMA EndedInit ==
  ASSUME Init
  PROVE  Ended
<1>1. PICK shot \in BOOLEAN, tree \in BOOLEAN, flow \in BOOLEAN, fast \in BOOLEAN,
           exit \in {"unset", "0", "1"} :
        \E s \in IF flow THEN Flows ELSE Recordings :
          /\ job = [flow |-> flow, script |-> s, fast |-> fast, shot |-> shot, tree |-> tree,
                    end |-> EndOf(exit, flow, shot \/ tree)]
          /\ queue = IF flow THEN <<>> ELSE s
  BY DEF Init
<1>2. PICK s \in IF flow THEN Flows ELSE Recordings :
          job = [flow |-> flow, script |-> s, fast |-> fast, shot |-> shot, tree |-> tree,
                 end |-> EndOf(exit, flow, shot \/ tree)]
  BY <1>1
<1>3. EndOf(exit, flow, shot \/ tree) = "as recorded" => ~flow /\ ~(shot \/ tree)
  BY EndOfIs
<1>4. job.end = "as recorded" => ~job.flow /\ ~job.shot /\ ~job.tree
  BY <1>2, <1>3
<1>5. ~ending.reported /\ ending.frames = NotYet /\ ~Over
  BY DEF Init, Over
<1> QED
  BY <1>4, <1>5 DEF Ended

LEMMA EndedTakes ==
  ASSUME Typed, Ended, NEW u \in Screens, NEW w, Takes(u, w), files \subseteq w,
         u.request = ui.request,
         UNCHANGED <<job, stopped>>,
         ending'.reported = ending.reported,
         ending'.frames # NotYet => ending.frames # NotYet,
         Over' => ending'.frames = 0 \/ job.end = "as recorded"
  PROVE  Ended'
<1>1. ASSUME NEW kind \in {"fail tree", "end tree", "fail shot", "end shot"}
      PROVE  /\ Written(kind) => Written(kind)'
             /\ Left(kind) => Left(kind)'
  <2>1. kind # "none"
    OBVIOUS
  <2>2. /\ (\E f \in w : f.name[1] = kind) => Written(kind)'
        /\ (\E f \in w : f.name[1] = kind) \/ u.request[1] = kind => Left(kind)'
    BY <2>1, TakesLeft
  <2>3. Written(kind) => \E f \in w : f.name[1] = kind
    BY DEF Written
  <2> QED
    BY <2>2, <2>3 DEF Left
<1>2. LastIs("shot")' = LastIs("shot")
  BY DEF LastIs
<1>3. ToReport' = ToReport
  BY DEF ToReport
<1>4. ending'.reported =>
        stopped' /\ Written("fail tree")' /\ (~job'.shot => Left("fail shot")')
  BY <1>1 DEF Ended
<1>5. ending'.frames # NotYet =>
        /\ ~ToReport'
        /\ job'.tree => Written("end tree")'
        /\ job'.shot => Left("end shot")' \/ LastIs("shot")'
  BY <1>1, <1>2, <1>3 DEF Ended
<1> QED
  BY <1>4, <1>5 DEF Ended

LEMMA EndedPlay ==
  ASSUME Typed, Captured, Ended, Edit \/ Quit \/ Advance \/ Fail
  PROVE  Ended'
<1>1. ~Finished
  BY DEF Edit, Quit, Advance, Fail, Finished, Idle, Ripe
<1>2. ending.frames = NotYet /\ ~ending.reported
  BY <1>1 DEF Captured
<1>3. job' = job /\ ending' = ending
  BY DEF Edit, Quit, Advance, Fail
<1>4. Over' => job.end = "as recorded"
  BY DEF Edit, Quit, Advance, Fail, Over, Ended, Idle, Serving, At
<1> QED
  BY <1>2, <1>3, <1>4 DEF Ended

LEMMA PcOthers ==
  ASSUME Typed, [Next]_vars
  PROVE  /\ AwaitSettle \/ Pause => loop.pc = "serve" /\ loop'.pc = "ending"
         /\ Unblock => loop.pc = "serve" /\ loop'.pc = "serve"
         /\ Report => loop.pc = "ending" /\ loop'.pc = "ending"
         /\ Playing \/ SettleEnd \/ Capture \/ CountDown => loop.pc = "ending" /\ loop'.pc = "tick"
         /\ End => loop.pc = "ending" /\ loop'.pc = "over"
         /\ Tick => loop.pc = "tick" /\ loop'.pc = "sleep"
         /\ FlipDone \/ Stir => loop.pc = "sleep" /\ loop'.pc = "sleep"
         /\ Wake => loop.pc = "sleep" /\ loop'.pc = "serve"
         /\ Clock => loop.pc \in {"sleep", "serve"} /\ loop'.pc = loop.pc
<1>1. loop \in Loops
  BY DEF Typed
<1> USE DEF Loops, At, Goto
<1>2. AwaitSettle \/ Pause => loop.pc = "serve" /\ loop'.pc = "ending"
  BY <1>1 DEF AwaitSettle, Pause, Serving, Idle
<1>3. Unblock => loop.pc = "serve" /\ loop'.pc = "serve"
  BY <1>1 DEF Unblock, Serving
<1>4. Report => loop.pc = "ending" /\ loop'.pc = "ending"
  BY <1>1 DEF Report
<1>5. Playing \/ SettleEnd \/ Capture \/ CountDown => loop.pc = "ending" /\ loop'.pc = "tick"
  BY <1>1 DEF Playing, SettleEnd, Capture, CountDown, AtEnd
<1>6. End => loop.pc = "ending" /\ loop'.pc = "over"
  BY <1>1 DEF End, AtEnd
<1>7. Tick => loop.pc = "tick" /\ loop'.pc = "sleep"
  BY <1>1 DEF Tick
<1>8. FlipDone \/ Stir => loop.pc = "sleep" /\ loop'.pc = "sleep"
  BY <1>1 DEF FlipDone, Stir
<1>9. Wake => loop.pc = "sleep" /\ loop'.pc = "serve"
  BY <1>1 DEF Wake
<1>10. Clock => loop.pc \in {"sleep", "serve"} /\ loop'.pc = loop.pc
  BY <1>1 DEF Clock, Spinning, Serving
<1> QED
  BY <1>2, <1>3, <1>4, <1>5, <1>6, <1>7, <1>8, <1>9, <1>10

LEMMA EndedOthers ==
  ASSUME Typed, Played, Captured, Ended, [Next]_vars, ~Edit, ~Quit, ~Advance, ~Fail
  PROVE  Ended'
<1>0. ui \in Screens /\ Current
  BY CapturedIs DEF Typed
<1>1. CASE AwaitSettle \/ Pause \/ Playing \/ SettleEnd \/ Wake \/ Clock \/ UNCHANGED vars
  <2>1. UNCHANGED <<job, stopped, ui, files, surface>>
    BY <1>1 DEF AwaitSettle, Pause, Playing, SettleEnd, Wake, Clock, vars, driver, screen
  <2>2. ending'.frames = ending.frames /\ ending'.reported = ending.reported
    BY <1>1 DEF AwaitSettle, Pause, Playing, SettleEnd, Wake, Clock, vars, Typed
  <2>3. Takes(ui, files)
    BY <1>0, <2>1 DEF Takes, Current
  <2>4. Over' => Over
    BY <1>1, PcOthers DEF Over, vars
  <2> QED
    BY <1>0, <2>1, <2>2, <2>3, <2>4, EndedTakes DEF Ended
<1>2. CASE Unblock
  <2>1. ending'.frames = ending.frames /\ ending'.reported = ending.reported /\ ~Over'
    BY <1>2, PcOthers DEF Unblock, Typed, Over
  <2>2. UNCHANGED <<job, done, stopped, queue>>
    BY <1>2 DEF Unblock
  <2>3. ~stopped /\ blocked # Nothing
    BY <1>2 DEF Unblock, Played
  <2>4. ~ending.reported
    BY <2>3 DEF Ended
  <2>5. CASE Takes(ui, files) \/ Takes(ui, files \cup {Shown(blocked, Now(ui))})
    BY <1>0, <2>1, <2>2, <2>5, EndedTakes
  <2>6. CASE blocked[1] = "shot" /\ blocked \in Names /\ Takes(Asking(blocked), files)
    <3>1. ending.frames # NotYet => LastIs("shot")
      <4>1. SUFFICES ASSUME ending.frames # NotYet
                     PROVE  LastIs("shot")
        OBVIOUS
      <4>2. Finished /\ job.flow /\ done > 0 /\ blocked = <<job.script[done], done>>
        BY <2>3, <4>1 DEF Captured, Played
      <4>3. done = Len(job.script)
        BY <2>3, <4>2 DEF Finished, IsDone
      <4>4. job.script # <<>>
        BY <4>2, <4>3
      <4> QED
        BY <2>6, <4>2, <4>3, <4>4 DEF LastIs
    <3>2. ending.frames # NotYet => ~ToReport /\ (job.tree => Written("end tree")')
      <4>1. Written("end tree") => Written("end tree")'
        <5>1. Asking(blocked) \in Screens
          BY <2>6, AskingIs
        <5> QED
          BY <2>6, <5>1, TakesLeft DEF Written
      <4> QED
        BY <4>1 DEF Ended
    <3>3. LastIs("shot")' = LastIs("shot") /\ ToReport' = ToReport
      BY <2>1, <2>2 DEF LastIs, ToReport
    <3>4. job.end = "as recorded" => ~job.flow /\ ~job.shot /\ ~job.tree
      BY DEF Ended
    <3> QED
      BY <2>1, <2>2, <2>4, <3>1, <3>2, <3>3, <3>4 DEF Ended
  <2> QED
    BY <1>0, <1>2, <2>5, <2>6, PlayTakes
<1>3. CASE Report
  <2> DEFINE u == Asking(<<"fail shot", 0>>)
             w == files \cup {Shown(<<"fail tree", 0>>, Now(ui))}
  <2>1. Takes(u, w) /\ stopped /\ stopped' = stopped
    BY <1>0, <1>3, PlayTakes DEF Report, ToReport, driver
  <2>2. u \in Screens /\ u.request = <<"fail shot", 0>>
    BY AskingIs, PathsTyped
  <2>3. \E f \in w : f.name[1] = "fail tree"
    <3>1. Shown(<<"fail tree", 0>>, Now(ui)).name[1] = "fail tree"
      BY DEF Shown
    <3> QED
      BY <3>1
  <2>4. Written("fail tree")'
    <3> HIDE DEF u, w
    <3> QED
      BY <2>1, <2>2, <2>3, TakesLeft
  <2>5. Left("fail shot")'
    <3> HIDE DEF u, w
    <3>1. <<"fail shot", 0>>[1] = "fail shot"
      OBVIOUS
    <3>2. u.request[1] = "fail shot"
      BY <2>2, <3>1
    <3> QED
      BY <2>1, <2>2, <3>2, TakesLeft
  <2>6. ending'.frames = ending.frames /\ ending.frames = NotYet
    BY <1>3 DEF Report, Ended, Typed
  <2>7. job'.end = "exit" /\ ~Over'
    BY <1>3, PcOthers DEF Report, Typed, Over
  <2> HIDE DEF u, w
  <2> QED
    BY <2>1, <2>4, <2>5, <2>6, <2>7 DEF Ended
<1>4. CASE Capture
  <2> DEFINE u == IF job.shot THEN Asking(All) ELSE ui
             w == files \cup (IF job.tree THEN {Shown(<<"end tree", 0>>, Now(ui))} ELSE {})
  <2>1. Takes(u, w) /\ ~ToReport /\ UNCHANGED <<job, stopped>> /\ ~Over'
    BY <1>0, <1>4, PlayTakes, PcOthers DEF Capture, AtEnd, driver, Over
  <2>2. u \in Screens /\ (job.shot => u.request = All) /\ (~job.shot => u = ui)
    BY <1>0, AskingIs, PathsTyped DEF All
  <2>3. job.tree => \E f \in w : f.name[1] = "end tree"
    <3>1. Shown(<<"end tree", 0>>, Now(ui)).name[1] = "end tree"
      BY DEF Shown
    <3> QED
      BY <3>1
  <2>4. files \subseteq w
    OBVIOUS
  <2>5. ending'.reported = ending.reported
    BY <1>4 DEF Capture, Typed
  <2> HIDE DEF u, w
  <2>6. job.tree => Written("end tree")'
    BY <2>1, <2>2, <2>3, TakesLeft
  <2>7. job.shot => Left("end shot")'
    <3>1. All[1] = "end shot"
      BY DEF All
    <3>2. job.shot => u.request[1] = "end shot"
      BY <2>2, <3>1
    <3> QED
      BY <2>1, <2>2, <3>2, TakesLeft
  <2>8. Written("fail tree") => Written("fail tree")'
    BY <2>1, <2>2, <2>4, TakesLeft DEF Written
  <2>9. ~job.shot /\ Left("fail shot") => Left("fail shot")'
    <3>1. (\E f \in w : f.name[1] = "fail shot") \/ u.request[1] = "fail shot" => Left("fail shot")'
      BY <2>1, <2>2, TakesLeft
    <3>2. Written("fail shot") => \E f \in w : f.name[1] = "fail shot"
      BY <2>4 DEF Written
    <3>3. ~job.shot => u.request[1] = ui.request[1]
      BY <2>2
    <3>4. Left("fail shot") => Written("fail shot") \/ ui.request[1] = "fail shot"
      BY DEF Left
    <3> DEFINE L == Left("fail shot")
               M == Left("fail shot")'
    <3>5. (\E f \in w : f.name[1] = "fail shot") \/ u.request[1] = "fail shot" => M
      BY <3>1
    <3>6. L => Written("fail shot") \/ ui.request[1] = "fail shot"
      BY <3>4
    <3> HIDE DEF L, M
    <3>7. ~job.shot /\ L => M
      BY <3>2, <3>3, <3>5, <3>6
    <3> QED
      BY <3>7 DEF L, M
  <2>10. ToReport' = ToReport
    BY <2>1, <2>5 DEF ToReport
  <2> QED
    BY <2>1, <2>5, <2>6, <2>7, <2>8, <2>9, <2>10 DEF Ended
<1>5. CASE CountDown \/ End
  <2>1. Takes(ui, files) /\ UNCHANGED <<job, stopped>>
    BY <1>0, <1>5, PlayTakes DEF CountDown, End, driver
  <2>2. ending'.reported = ending.reported /\ ending.frames # NotYet
    <3>1. ending.frames # NotYet
      BY <1>5 DEF CountDown, End, NotYet
    <3>2. ending'.reported = ending.reported
      BY <1>5 DEF CountDown, End, Typed
    <3> QED
      BY <3>1, <3>2
  <2>3. Over' => ending'.frames = 0
    BY <1>5, PcOthers DEF CountDown, End, Over
  <2> QED
    BY <1>0, <2>1, <2>2, <2>3, EndedTakes
<1>6. CASE Tick \/ FlipDone \/ Stir
  <2>1. UNCHANGED <<job, stopped, ending>> /\ ~Over'
    BY <1>6, PcOthers DEF Tick, FlipDone, Stir, driver, Over
  <2>2. PICK u \in {ui, Ticked, Stirred} : Takes(u, files)
    BY <1>0, <1>6, FrameTakes
  <2>3. u \in Screens /\ u.request = ui.request
    BY <1>0, TickedIs, StirredIs
  <2> QED
    BY <2>1, <2>2, <2>3, EndedTakes
<1> QED
  BY <1>1, <1>2, <1>3, <1>4, <1>5, <1>6 DEF Next, Terminated


-----------------------------------------------------------------------------
(* What the end shot shows.                                                *)

LEMMA MovedInit ==
  ASSUME Init
  PROVE  Moved
<1>1. /\ ui.request = Nothing /\ ending.frames = NotYet /\ files = {}
  BY DEF Init
<1>2. Nothing # All
  BY NothingIsNoName DEF EndNames, All
<1> QED
  BY <1>1, <1>2 DEF Moved

LEMMA MovedTakes ==
  ASSUME Typed, Moved, NEW u \in Screens, NEW w \in SUBSET Artifacts, Takes(u, w),
         \A f \in w : f \in files \/ f.name # All,
         u.request = ui.request \/ u.request # All,
         ~Moving => u.anim = ui.anim,
         job'.flow = job.flow, job'.shot = job.shot,
         ending'.frames # NotYet <=> ending.frames # NotYet,
         SettlesInTime' => SettlesInTime
  PROVE  Moved'
<1>1. /\ ui'.request = u.request \/ ui'.request = Nothing
      /\ \A f \in files' : f \in w \/ (u.request # Nothing /\ f = Shown(u.request, Now(u)))
      /\ ui'.anim = u.anim
  BY TakesTyped DEF Takes
<1>2. Nothing # All
  BY NothingIsNoName DEF EndNames, All
<1>3. Shown(u.request, Now(u)).name = u.request /\ (Shown(u.request, Now(u)).moving => u.anim > 0)
  BY NowIs
<1>4. ASSUME NEW f \in files', f.name = All
      PROVE  f \in files \/ (ui.request = All /\ f = Shown(u.request, Now(u)))
  BY <1>1, <1>3, <1>4
<1>5. ui'.request = All \/ (\E f \in files' : f.name = All) => ending'.frames # NotYet /\ job'.shot
  <2>1. ui'.request = All => ui.request = All
    BY <1>1, <1>2
  <2>2. (\E f \in files' : f.name = All) => ui.request = All \/ (\E f \in files : f.name = All)
    BY <1>4
  <2>3. ui.request = All \/ (\E f \in files : f.name = All) => ending.frames # NotYet /\ job.shot
    BY DEF Moved
  <2> QED
    BY <2>1, <2>2, <2>3
<1>6. ASSUME ~job'.flow, SettlesInTime'
      PROVE  /\ job'.shot /\ ending'.frames # NotYet => ~Moving'
             /\ \A f \in files' : f.name = All /\ f.moving => ui'.anim = Forever
  <2>1. job.shot /\ ending.frames # NotYet => ~Moving /\ u.anim = ui.anim
    BY <1>6 DEF Moved
  <2>2. job'.shot /\ ending'.frames # NotYet => ~Moving'
    BY <1>1, <2>1 DEF Moving
  <2>3. ASSUME NEW f \in files', f.name = All, f.moving
        PROVE  ui'.anim = Forever
    <3>1. ui.request = All \/ \E g \in files : g.name = All
      BY <1>4, <2>3
    <3>2. ~Moving /\ u.anim = ui.anim
      BY <2>1, <3>1 DEF Moved
    <3>3. CASE f \in files
      BY <1>1, <1>6, <2>3, <3>2, <3>3 DEF Moved
    <3>4. CASE f = Shown(u.request, Now(u))
      <4>1. u.anim > 0
        BY <1>3, <2>3, <3>4
      <4> QED
        BY <1>1, <3>2, <4>1 DEF Moving
    <3> QED
      BY <1>4, <2>3, <3>3, <3>4
  <2> QED
    BY <2>2, <2>3
<1> QED
  BY <1>5, <1>6 DEF Moved

LEMMA BudgetKept ==
  ASSUME Typed, Typed', loop'.stirs >= loop.stirs
  PROVE  SettlesInTime' => SettlesInTime
<1>1. loop.stirs \in Nat /\ loop'.stirs \in Nat
  BY DEF Typed, Loops
<1>2. \A l \in Lengths : l \in Nat
  BY ConstantsAre
<1>3. ASSUME NEW l \in Lengths \ {Forever}
      PROVE  WithinBudget(l)' => WithinBudget(l)
  <2>1. l \in Nat /\ REPLAY_MAX_SETTLE_FRAMES \in Nat
    BY <1>2, ConstantsAre
  <2> QED
    BY <1>1, <2>1 DEF WithinBudget
<1> QED
  BY <1>3 DEF SettlesInTime

LEMMA CostIs ==
  ASSUME Typed
  PROVE  /\ Flips \in {0, 1} /\ Slack \in Int /\ Cost \in Int
         /\ loop.pc # "tick" => Slack >= 0
         /\ loop.pc \in {"serve", "ending"} => Slack <= 2
<1>1. loop \in Loops /\ flip \in Nat /\ ui.anim \in Nat /\ ending.settle \in Nat /\ loop.stirs \in Nat
  BY DEF Typed, Screens, Loops
<1>2. Flips \in {0, 1}
  BY DEF Flips
<1>3. /\ Slack \in Int /\ (loop.pc # "tick" => Slack >= 0)
      /\ loop.pc \in {"serve", "ending"} => Slack <= 2
  BY <1>1, <1>2 DEF Slack, At, Loops
<1>4. Cost \in Int
  BY <1>1, <1>3 DEF Cost
<1> QED
  BY <1>2, <1>3, <1>4

LEMMA LoopIs ==
  ASSUME Typed
  PROVE  /\ Tick => /\ loop'.wake = loop.now + Timeout(AnimLeft(loop.dt))
                    /\ loop'.now = loop.now /\ loop'.last = loop.last /\ loop'.dt = loop.dt
                    /\ loop'.woken = loop.woken /\ loop'.stirs = loop.stirs
         /\ FlipDone => /\ loop'.wake = loop.wake
                        /\ loop'.now = loop.now /\ loop'.last = loop.last /\ loop'.dt = loop.dt
                        /\ loop'.woken /\ loop'.stirs = loop.stirs
         /\ Stir => /\ loop'.wake = loop.wake
                    /\ loop'.now = loop.now /\ loop'.last = loop.last /\ loop'.dt = loop.dt
                    /\ loop'.woken /\ loop'.stirs = loop.stirs + 1
         /\ Clock => /\ loop'.now = loop.now + 1 /\ loop'.wake = loop.wake
                     /\ loop'.last = loop.last /\ loop'.dt = loop.dt
                     /\ loop'.woken = loop.woken /\ loop'.stirs = loop.stirs
<1>0. loop \in Loops
  BY DEF Typed
<1>1. ASSUME Tick
      PROVE  /\ loop'.wake = loop.now + Timeout(AnimLeft(loop.dt))
             /\ loop'.now = loop.now /\ loop'.last = loop.last /\ loop'.dt = loop.dt
             /\ loop'.woken = loop.woken /\ loop'.stirs = loop.stirs
  <2> DEFINE w == loop.now + Timeout(AnimLeft(loop.dt))
  <2>1. loop' = [loop EXCEPT !.pc = "sleep", !.wake = w]
    BY <1>1 DEF Tick, AnimLeft
  <2> HIDE DEF w
  <2>2. /\ loop'.wake = w
        /\ loop'.now = loop.now /\ loop'.last = loop.last /\ loop'.dt = loop.dt
        /\ loop'.woken = loop.woken /\ loop'.stirs = loop.stirs
    BY <1>0, <2>1 DEF Loops
  <2> QED
    BY <2>2 DEF w
<1> QED
  BY <1>0, <1>1 DEF FlipDone, Stir, Clock, Loops

LEMMA MovedNext ==
  ASSUME Typed, Typed', Played, Captured, Settling, Moved, [Next]_vars
  PROVE  Moved'
<1>0. ui \in Screens /\ Current /\ files \in SUBSET Artifacts /\ loop \in Loops
  BY CapturedIs DEF Typed
<1>1. CASE Edit
  <2>1. ~Finished
    BY <1>1 DEF Edit, Ripe, Finished
  <2>2. ending.frames = NotYet
    BY <2>1 DEF Captured
  <2>3. ui'.request = ui.request /\ files' = files /\ ending' = ending /\ job' = job
    BY <1>0, <1>1 DEF Edit, Screens
  <2> QED
    BY <2>2, <2>3 DEF Moved
<1>2. CASE \/ Quit \/ AwaitSettle \/ Advance \/ Fail \/ Pause \/ Playing
           \/ SettleEnd \/ Wake \/ Clock \/ UNCHANGED vars
  <2>1. UNCHANGED <<job, ui, files, surface>>
    BY <1>2 DEF Quit, AwaitSettle, Advance, Fail, Pause, Playing, SettleEnd, Wake, Clock,
                vars, driver, screen
  <2>2. ending'.frames = ending.frames
    BY <1>2 DEF Quit, AwaitSettle, Advance, Fail, Pause, Playing, SettleEnd, Wake, Clock, vars, Typed
  <2>3. loop'.stirs = loop.stirs
    BY <1>0, <1>2 DEF Quit, AwaitSettle, Advance, Fail, Pause, Playing, SettleEnd, Wake, Clock,
                      vars, Goto, Loops
  <2>4. Takes(ui, files)
    BY <1>0, <2>1 DEF Takes, Current
  <2>5. SettlesInTime' => SettlesInTime
    BY <2>3 DEF SettlesInTime, WithinBudget
  <2> QED
    BY <1>0, <2>1, <2>2, <2>4, <2>5, MovedTakes
<1>3. CASE Unblock
  <2>1. UNCHANGED <<job, loop>> /\ ending'.frames = ending.frames
    BY <1>3 DEF Unblock, Typed
  <2>2. SettlesInTime' => SettlesInTime
    BY <2>1 DEF SettlesInTime, WithinBudget
  <2>3. CASE Takes(ui, files)
    BY <1>0, <2>1, <2>2, <2>3, MovedTakes
  <2>4. ASSUME blocked[1] \in {"shot", "tree"}, blocked \in Names
        PROVE  blocked # All
    <3>1. All[1] = "end shot"
      BY DEF All
    <3> QED
      BY <2>4, <3>1
  <2>5. CASE blocked[1] = "tree" /\ blocked \in Names /\ Takes(ui, files \cup {Shown(blocked, Now(ui))})
    <3> DEFINE w == files \cup {Shown(blocked, Now(ui))}
    <3>1. w \in SUBSET Artifacts /\ Shown(blocked, Now(ui)).name # All
      BY <1>0, <2>4, <2>5, PathsTyped, NowIs
    <3>2. \A f \in w : f \in files \/ f.name # All
      BY <3>1
    <3>3. Takes(ui, w)
      BY <2>5
    <3> HIDE DEF w
    <3> QED
      BY <1>0, <2>1, <2>2, <3>1, <3>2, <3>3, MovedTakes
  <2>6. CASE blocked[1] = "shot" /\ blocked \in Names /\ Takes(Asking(blocked), files)
    <3>1. /\ Asking(blocked) \in Screens /\ Asking(blocked).request # All
          /\ Asking(blocked).anim = ui.anim
      BY <2>4, <2>6, AskingIs
    <3> QED
      BY <1>0, <2>1, <2>2, <2>6, <3>1, MovedTakes
  <2> QED
    BY <1>0, <1>3, <2>3, <2>5, <2>6, PlayTakes
<1>4. CASE Report
  <2> DEFINE u == Asking(<<"fail shot", 0>>)
             w == files \cup {Shown(<<"fail tree", 0>>, Now(ui))}
  <2>1. Takes(u, w) /\ loop' = loop /\ ending'.frames = ending.frames
    BY <1>0, <1>4, PlayTakes DEF Report, Typed
  <2>2. <<"fail shot", 0>> # All /\ <<"fail tree", 0>> # All
    BY DEF All
  <2>3. u \in Screens /\ u.request # All /\ u.anim = ui.anim
    BY <2>2, AskingIs, PathsTyped
  <2>4. w \in SUBSET Artifacts /\ Shown(<<"fail tree", 0>>, Now(ui)).name # All
    BY <1>0, <2>2, PathsTyped, NowIs
  <2>5. \A f \in w : f \in files \/ f.name # All
    BY <2>4
  <2>6. job'.flow = job.flow /\ job'.shot = job.shot
    BY <1>4 DEF Report, Typed
  <2>7. SettlesInTime' => SettlesInTime
    BY <2>1 DEF SettlesInTime, WithinBudget
  <2> HIDE DEF u, w
  <2> QED
    BY <2>1, <2>3, <2>4, <2>5, <2>6, <2>7, MovedTakes
<1>5. CASE Capture
  <2>1. /\ UNCHANGED job /\ ending.frames = NotYet /\ ~MustSettle
        /\ ui' = IF job.shot THEN [ui EXCEPT !.request = <<"end shot", 0>>] ELSE ui
        /\ files' = files \cup (IF job.tree THEN {Shown(<<"end tree", 0>>, Now(ui))} ELSE {})
    BY <1>5 DEF Capture
  <2>2. ui.request # All /\ \A f \in files : f.name # All
    BY <2>1 DEF Moved
  <2>3. \A f \in files' : f.name # All
    <3>1. Shown(<<"end tree", 0>>, Now(ui)).name = <<"end tree", 0>> /\ <<"end tree", 0>> # All
      BY <1>0, NowIs DEF All
    <3> QED
      BY <2>1, <2>2, <3>1
  <2>4. ui'.anim = ui.anim /\ (~job.shot => ui'.request # All)
    BY <1>0, <2>1, <2>2 DEF Screens
  <2>5. ending'.frames # NotYet
    <3>1. ending'.frames = 2
      BY <1>5 DEF Capture, Typed
    <3> QED
      BY <3>1 DEF NotYet
  <2>6. ASSUME ~job.flow, job.shot, SettlesInTime', Moving
        PROVE  FALSE
    <3>1. Afforded
      BY <2>1, <2>6 DEF Settling
    <3>2. PICK l \in Lengths \ {Forever} : ui.anim <= l /\ Cost <= 2 * l + 2
      BY <3>1 DEF Afforded
    <3>3. ui.anim \in Nat /\ l \in Nat /\ loop.stirs \in Nat /\ ending.settle \in Nat
      BY <1>0, ConstantsAre DEF Screens, Loops, Typed
    <3>4. Slack \in Int /\ Slack >= 0
      <4>1. loop.pc = "ending"
        BY <1>5 DEF Capture, AtEnd, At
      <4> QED
        BY <4>1, CostIs
    <3>5. ui.anim >= 1 /\ ending.settle >= REPLAY_MAX_SETTLE_FRAMES
      <4>1. ui.anim > 0
        BY <2>6, <3>3 DEF Moving
      <4>2. ~(ending.settle < REPLAY_MAX_SETTLE_FRAMES)
        BY <2>1, <2>6, <4>1 DEF MustSettle
      <4>3. REPLAY_MAX_SETTLE_FRAMES \in Nat
        BY ConstantsAre
      <4> QED
        BY <3>3, <4>1, <4>2, <4>3
    <3>6. 2 * l + loop.stirs < REPLAY_MAX_SETTLE_FRAMES
      <4>1. loop'.stirs = loop.stirs
        BY <1>0, <1>5 DEF Capture, Goto, Loops
      <4> QED
        BY <2>6, <4>1 DEF SettlesInTime, WithinBudget
    <3>7. ending.settle + 2 * ui.anim + Slack - loop.stirs <= 2 * l + 2
      BY <3>2 DEF Cost
    <3>8. REPLAY_MAX_SETTLE_FRAMES \in Nat
      BY ConstantsAre
    <3> QED
      BY <3>3, <3>4, <3>5, <3>6, <3>7, <3>8
  <2> QED
    BY <2>1, <2>3, <2>4, <2>5, <2>6 DEF Moved, Moving
<1>6. CASE CountDown \/ End
  <2>1. Takes(ui, files) /\ job' = job
    BY <1>0, <1>6, PlayTakes DEF CountDown, End, driver
  <2>2. ending.frames # NotYet /\ ending'.frames # NotYet
    <3>1. /\ ending.frames \in 0..2
          /\ ending' = ending \/ ending' = [ending EXCEPT !.frames = ending.frames - 1]
      BY <1>6 DEF CountDown, End
    <3>2. ending'.frames \in {ending.frames, ending.frames - 1}
      BY <3>1 DEF Typed
    <3> QED
      BY <3>1, <3>2 DEF NotYet
  <2>3. SettlesInTime' => SettlesInTime
    <3>1. loop'.stirs = loop.stirs
      BY <1>0, <1>6 DEF CountDown, End, Goto, Loops
    <3> QED
      BY <3>1 DEF SettlesInTime, WithinBudget
  <2> QED
    BY <1>0, <2>1, <2>2, <2>3, MovedTakes
<1>7. CASE Tick \/ FlipDone \/ Stir
  <2>1. UNCHANGED <<job, ending>>
    BY <1>7 DEF Tick, FlipDone, Stir
  <2>2. PICK u \in {ui, Ticked, Stirred} : Takes(u, files)
    BY <1>0, <1>7, FrameTakes
  <2>3. u \in Screens /\ u.request = ui.request /\ (~Moving => u.anim = ui.anim)
    BY <1>0, TickedIs, StirredIs DEF Moving
  <2>4. loop'.stirs >= loop.stirs
    BY <1>0, <1>7, LoopIs DEF Loops
  <2>5. SettlesInTime' => SettlesInTime
    BY <2>4, BudgetKept
  <2> QED
    BY <1>0, <2>1, <2>2, <2>3, <2>5, MovedTakes
<1> QED
  BY <1>1, <1>2, <1>3, <1>4, <1>5, <1>6, <1>7 DEF Next, Terminated



-----------------------------------------------------------------------------
(* What a settle costs.                                                    *)

LEMMA SettlingInit ==
  ASSUME Init
  PROVE  Settling
<1>1. /\ loop = [pc |-> "serve", now |-> 0, last |-> 0, dt |-> 0, wake |-> 0, woken |-> FALSE,
                 stirs |-> 0]
      /\ ending.settle = 0 /\ ui.anim = 0
  BY DEF Init
<1>2. ~Moving /\ loop.last <= loop.now /\ loop.now = loop.last /\ ~loop.woken /\ ~At("sleep")
  BY <1>1 DEF Moving, At
<1> QED
  BY <1>1, <1>2 DEF Settling

LEMMA SlackAfter ==
         /\ loop'.pc \in {"serve", "ending"} => Slack' = (IF loop'.dt = 0 THEN 1 + Flips' ELSE 0)
         /\ loop'.pc = "tick" => Slack' = (IF loop'.dt = 0 THEN Flips' ELSE -1)
         /\ loop'.pc = "sleep" /\ loop'.now = loop'.last
              => Slack' = (IF loop'.woken THEN 1 ELSE 0) + Flips'
         /\ loop'.pc = "sleep" /\ loop'.now # loop'.last => Slack' = 0
         /\ loop'.pc = "over" => Slack' = 0
         /\ loop.pc \in {"serve", "ending"} => Slack = (IF loop.dt = 0 THEN 1 + Flips ELSE 0)
         /\ loop.pc = "tick" => Slack = (IF loop.dt = 0 THEN Flips ELSE -1)
         /\ loop.pc = "sleep" /\ loop.now = loop.last => Slack = (IF loop.woken THEN 1 ELSE 0) + Flips
         /\ loop.pc = "sleep" /\ loop.now # loop.last => Slack = 0
<1> DEFINE S(pc, now, last, dt, woken, f) ==
      CASE pc \in {"serve", "ending"} -> IF dt = 0 THEN 1 + f ELSE 0
        [] pc = "tick" -> IF dt = 0 THEN f ELSE -1
        [] pc = "sleep" -> IF now = last THEN (IF woken THEN 1 ELSE 0) + f ELSE 0
        [] OTHER -> 0
<1>1. Slack = S(loop.pc, loop.now, loop.last, loop.dt, loop.woken, Flips)
  BY DEF Slack, At
<1>2. Slack' = S(loop'.pc, loop'.now, loop'.last, loop'.dt, loop'.woken, Flips')
  BY DEF Slack, At
<1>3. \A pc, now, last, dt, woken, f :
        /\ pc \in {"serve", "ending"} => S(pc, now, last, dt, woken, f) = (IF dt = 0 THEN 1 + f ELSE 0)
        /\ pc = "tick" => S(pc, now, last, dt, woken, f) = (IF dt = 0 THEN f ELSE -1)
        /\ pc = "sleep" /\ now = last
             => S(pc, now, last, dt, woken, f) = (IF woken THEN 1 ELSE 0) + f
        /\ pc = "sleep" /\ now # last => S(pc, now, last, dt, woken, f) = 0
        /\ pc = "over" => S(pc, now, last, dt, woken, f) = 0
  OBVIOUS
<1> HIDE DEF S
<1> QED
  BY <1>1, <1>2, <1>3

LEMMA CostAfter ==
  ASSUME Typed'
  PROVE  Flips' \in {0, 1} /\ Slack' \in Int /\ Cost' \in Int
<1>1. /\ loop' \in Loops /\ ui'.anim \in Nat /\ ending'.settle \in Nat /\ loop'.stirs \in Nat
      /\ loop'.pc \in {"serve", "ending", "tick", "sleep", "over"}
  BY DEF Typed, Screens, Loops
<1>2. Flips' \in {0, 1}
  BY DEF Flips
<1>3. Slack' \in Int
  BY <1>1, <1>2, SlackAfter
<1>4. Cost' \in Int
  BY <1>1, <1>3 DEF Cost
<1> QED
  BY <1>2, <1>3, <1>4

LEMMA CostFalls ==
  ASSUME Typed, Typed',
         \/ /\ ending'.settle <= ending.settle + 1 /\ ui'.anim = ui.anim
            /\ Slack' = Slack - 1 /\ loop'.stirs = loop.stirs
         \/ /\ ending'.settle = ending.settle /\ loop'.stirs = loop.stirs
            /\ 2 * ui'.anim + Slack' <= 2 * ui.anim + Slack
         \/ /\ ending'.settle = ending.settle /\ ui'.anim = ui.anim
            /\ Slack' - loop'.stirs <= Slack - loop.stirs
  PROVE  Cost' <= Cost
<1> DEFINE s == ending.settle  s1 == ending'.settle  a == ui.anim  a1 == ui'.anim
           k == Slack  k1 == Slack'  t == loop.stirs  t1 == loop'.stirs
<1>1. s \in Int /\ a \in Int /\ k \in Int /\ t \in Int
  <2>1. s \in Int /\ a \in Int /\ t \in Int
    <3>1. ui \in Screens /\ loop \in Loops /\ s \in Nat
      BY DEF Typed
    <3> QED
      BY <3>1 DEF Screens, Loops
  <2> QED
    BY <2>1, CostIs
<1>2. s1 \in Int /\ a1 \in Int /\ k1 \in Int /\ t1 \in Int
  <2>1. s1 \in Int /\ a1 \in Int /\ t1 \in Int
    <3>1. ui' \in Screens /\ loop' \in Loops /\ s1 \in Nat
      BY DEF Typed
    <3> QED
      BY <3>1 DEF Screens, Loops
  <2> QED
    BY <2>1, CostAfter
<1>3. \/ s1 <= s + 1 /\ a1 = a /\ k1 = k - 1 /\ t1 = t
      \/ s1 = s /\ t1 = t /\ 2 * a1 + k1 <= 2 * a + k
      \/ s1 = s /\ a1 = a /\ k1 - t1 <= k - t
  OBVIOUS
<1>4. Cost = s + 2 * a + k - t /\ Cost' = s1 + 2 * a1 + k1 - t1
  BY DEF Cost
<1> HIDE DEF s, s1, a, a1, k, k1, t, t1
<1>5. s1 + 2 * a1 + k1 - t1 <= s + 2 * a + k - t
  BY <1>1, <1>2, <1>3
<1> QED
  BY <1>4, <1>5

LEMMA Spends ==
  ASSUME Typed, Typed', Settling, ~job.flow, Moving' => Moving /\ ui'.anim <= ui.anim,
         Moving' => Cost' <= Cost, ending'.frames = NotYet => ending.frames = NotYet
  PROVE  ending'.frames = NotYet /\ Moving' => Afforded'
<1>1. SUFFICES ASSUME ending'.frames = NotYet, Moving'
               PROVE  Afforded'
  OBVIOUS
<1>2. Afforded
  BY <1>1 DEF Settling
<1>3. PICK l \in Lengths \ {Forever} : ui.anim <= l /\ Cost <= 2 * l + 2
  BY <1>2 DEF Afforded
<1>4. ui.anim \in Nat /\ ui'.anim \in Nat /\ l \in Nat
  BY ConstantsAre DEF Typed, Screens
<1>5. Cost \in Int
  BY CostIs
<1>6. Cost' \in Int
  BY CostAfter
<1>7. ui'.anim <= l /\ Cost' <= 2 * l + 2
  BY <1>1, <1>3, <1>4, <1>5, <1>6
<1> QED
  BY <1>7 DEF Afforded


LEMMA SettlingNext ==
  ASSUME Typed, Typed', Played, Captured, Settling, [Next]_vars
  PROVE  Settling'
<1>0. /\ ui \in Screens /\ Current /\ loop \in Loops /\ queue \in Seq(Items) /\ flip \in Nat
      /\ ui'.anim \in Nat /\ ui.anim \in Nat /\ ending.settle \in Nat /\ ending'.settle \in Nat
  BY CapturedIs DEF Typed, Screens
<1>c. /\ Flips \in {0, 1} /\ Flips' \in {0, 1} /\ Slack \in Int /\ Slack' \in Int
      /\ loop.now \in Nat /\ loop.last \in Nat /\ loop.dt \in Nat /\ loop.wake \in Int
      /\ loop.woken \in BOOLEAN /\ loop.stirs \in Nat
  BY <1>0, CostIs, CostAfter DEF Loops
<1>j. job'.flow = job.flow
  BY DEF Next, vars, Edit, Quit, AwaitSettle, Unblock, Advance, Fail, Pause, Playing, Report,
         SettleEnd, Capture, CountDown, End, Tick, FlipDone, Stir, Wake, Clock, Terminated, Typed
<1>1. CASE Edit
  <2>1. queue # <<>> /\ At("serve") /\ UNCHANGED <<job, ending, flip, loop>>
    BY <1>1 DEF Edit, Ripe, screen
  <2>2. PICK a \in Lengths \cup {ui.anim} :
           ui' = [ui EXCEPT !.content = @ + 1, !.anim = a, !.dirty = TRUE]
    BY <1>1 DEF Edit
  <2>3. ui'.anim = a
    BY <1>0, <2>2 DEF Screens
  <2>4. ~job.flow => ending.settle = 0
    BY <2>1 DEF Settling
  <2>5. Slack' = Slack /\ Slack <= 2
    <3>1. Slack' = Slack
      BY <2>1 DEF Slack, Flips, At
    <3>2. loop.pc = "serve"
      BY <2>1 DEF At
    <3> QED
      BY <3>1, <3>2, CostIs
  <2>6. ASSUME ~job.flow, ending.frames = NotYet, Moving'
        PROVE  Afforded'
    <3>1. CASE a \in Lengths
      <4>1. a \in Lengths \ {Forever} /\ a \in Nat
        BY <2>3, <2>6, <3>1, ConstantsAre DEF Moving
      <4>2. Cost' <= 2 * a + 2
        BY <1>c, <2>1, <2>3, <2>4, <2>5, <2>6, <4>1 DEF Cost
      <4> QED
        BY <2>3, <4>1, <4>2 DEF Afforded
    <3>2. CASE a = ui.anim
      <4>1. Cost' = Cost /\ Moving
        BY <2>1, <2>3, <2>5, <2>6, <3>2 DEF Cost, Moving
      <4>2. Afforded
        BY <2>6, <4>1 DEF Settling
      <4> QED
        BY <2>3, <3>2, <4>1, <4>2 DEF Afforded
    <3> QED
      BY <3>1, <3>2
  <2> QED
    BY <2>1, <2>4, <2>6 DEF Settling, At
<1>2. CASE Quit
  <2>1. queue # <<>> /\ At("serve") /\ UNCHANGED <<job, ending, ui, flip>>
    BY <1>2 DEF Quit, Ripe, screen
  <2>2. /\ loop'.now = loop.now /\ loop'.last = loop.last /\ loop'.dt = loop.dt
        /\ loop'.woken = loop.woken /\ loop'.stirs = loop.stirs /\ loop'.pc \in {"serve", "over"}
    BY <1>0, <1>2 DEF Quit, Goto, Loops, At
  <2>3. Slack' <= Slack
    <3>1. Flips' = Flips
      BY <2>1, <2>2 DEF Flips
    <3>2. loop.pc = "serve"
      BY <2>1 DEF At
    <3> QED
      BY <1>c, <2>2, <3>1, <3>2, SlackAfter
  <2>4. Cost' <= Cost
    BY <1>0, <1>c, <2>1, <2>2, <2>3 DEF Cost
  <2>5. ~job.flow /\ ending'.frames = NotYet /\ Moving' => Afforded'
    <3>1. Moving' => Moving /\ ui'.anim <= ui.anim
      BY <1>0, <2>1 DEF Moving
    <3> QED
      BY <2>1, <2>4, <3>1, Spends
  <2>6. ~At("sleep") /\ ~At("sleep")'
    BY <2>1, <2>2 DEF At
  <2> QED
    BY <2>1, <2>2, <2>5, <2>6 DEF Settling
<1>3. CASE AwaitSettle \/ Unblock \/ Advance \/ Fail \/ Report
  <2>1. job.flow
    BY <1>3 DEF AwaitSettle, Unblock, Advance, Fail, Idle, Report, ToReport, Played
  <2>2. ~At("sleep") /\ ~At("sleep")'
    BY <1>3, PcOthers DEF Advance, Fail, Idle, Serving, At
  <2>3. loop'.now = loop.now /\ loop'.last = loop.last /\ loop'.woken = loop.woken
    BY <1>0, <1>3 DEF AwaitSettle, Unblock, Advance, Fail, Report, Goto, Loops
  <2> QED
    BY <1>j, <2>1, <2>2, <2>3 DEF Settling
<1>4. CASE Pause \/ Playing \/ SettleEnd \/ Capture \/ CountDown \/ End
  <2>1. /\ loop'.now = loop.now /\ loop'.last = loop.last /\ loop'.dt = loop.dt
        /\ loop'.woken = loop.woken /\ loop'.stirs = loop.stirs
    BY <1>0, <1>4 DEF Pause, Playing, SettleEnd, Capture, CountDown, End, Goto, Loops
  <2>2. UNCHANGED <<queue, flip>>
    BY <1>4 DEF Pause, Playing, SettleEnd, Capture, CountDown, End, driver, screen
  <2>3. ~At("sleep") /\ ~At("sleep")'
    BY <1>4, PcOthers DEF At
  <2>4. Flips' = Flips
    BY <2>1, <2>2 DEF Flips
  <2>5. Capture \/ CountDown \/ End => ending'.frames # NotYet
    <3>1. Capture => ending'.frames = 2
      BY DEF Capture, Typed
    <3>2. CountDown => ending.frames \in 1..2 /\ ending'.frames = ending.frames - 1
      BY DEF CountDown, Typed
    <3>3. End => ending'.frames = 0
      BY DEF End
    <3> QED
      BY <3>1, <3>2, <3>3 DEF NotYet
  <2>6. ASSUME Pause \/ Playing \/ SettleEnd
        PROVE  Cost' <= Cost /\ ui' = ui /\ ending'.frames = ending.frames
    <3>1. ui' = ui /\ ending'.frames = ending.frames
      BY <2>6 DEF Pause, Playing, SettleEnd, Typed
    <3>2. CASE Pause
      <4>1. loop.pc = "serve" /\ loop'.pc = "ending" /\ ending' = ending
        BY <3>2, PcOthers DEF Pause
      <4>2. Slack' = Slack
        BY <2>1, <2>4, <4>1, SlackAfter
      <4> QED
        BY <1>0, <1>c, <2>1, <3>1, <4>1, <4>2 DEF Cost
    <3>3. CASE Playing \/ SettleEnd
      <4>1. loop.pc = "ending" /\ loop'.pc = "tick" /\ ending'.settle \in {ending.settle, ending.settle + 1}
        BY <3>3, PcOthers DEF Playing, SettleEnd, Typed
      <4>2. Slack' = Slack - 1
        BY <1>c, <2>1, <2>4, <4>1, SlackAfter
      <4>3. ending'.settle <= ending.settle + 1
        BY <1>0, <4>1
      <4> QED
        BY <2>1, <3>1, <4>2, <4>3, CostFalls
    <3> QED
      BY <2>6, <3>1, <3>2, <3>3
  <2>7. ~job.flow /\ ending'.frames = NotYet /\ Moving' => Afforded'
    <3>1. SUFFICES ASSUME ~job.flow, ending'.frames = NotYet, Moving'
                   PROVE  Afforded'
      OBVIOUS
    <3>2. Pause \/ Playing \/ SettleEnd
      BY <1>4, <2>5, <3>1
    <3>3. Moving' => Moving /\ ui'.anim <= ui.anim
      BY <1>0, <2>6, <3>2 DEF Moving
    <3> QED
      BY <2>6, <3>1, <3>2, <3>3, Spends
  <2>8. ~job.flow /\ queue # <<>> => ending'.settle = 0
    <3>1. Finished => queue = <<>>
      BY DEF Finished
    <3>2. queue # <<>> => ending' = ending
      BY <1>4, <3>1 DEF Pause, Playing, SettleEnd, Capture, CountDown, End, AtEnd
    <3> QED
      BY <3>2 DEF Settling
  <2> QED
    BY <1>j, <2>1, <2>2, <2>3, <2>7, <2>8 DEF Settling

<1>5. CASE Tick \/ FlipDone \/ Stir
  <2>1. UNCHANGED <<job, queue, ending>>
    BY <1>5 DEF Tick, FlipDone, Stir, driver
  <2>2. loop'.now = loop.now /\ loop'.last = loop.last /\ loop'.dt = loop.dt /\ At("sleep")'
    BY <1>5, LoopIs, PcOthers DEF At
  <2>3. Tick \/ Stir => Flips' = Flips
    <3>1. Tick \/ Stir => flip' = flip \/ (flip = 0 /\ flip' \in {0, loop.now + 1})
      BY <1>0, FrameTakes
    <3> QED
      BY <1>0, <1>c, <2>2, <3>1 DEF Flips
  <2>4. FlipDone => Flips = 1 /\ Flips' = 0
    <3>1. FlipDone => flip' \in {0, loop.now + 1} /\ flip # 0 /\ flip <= loop.now
      BY <1>0, FrameTakes DEF FlipDone
    <3> QED
      BY <1>0, <1>c, <2>2, <3>1 DEF Flips
  <2>5. /\ Tick => ui'.anim = AnimLeft(loop.dt)
        /\ FlipDone \/ Stir => ui'.anim = ui.anim
    BY <1>0, <1>5, FrameTakes, TickedIs, StirredIs DEF Takes
  <2>6. ASSUME ~job.flow, Moving'
        PROVE  Moving /\ ui'.anim <= ui.anim /\ Cost' <= Cost
    <3>1. CASE Tick
      <4>1. Moving /\ ui'.anim # 0 /\ AnimLeft(loop.dt) # 0
        BY <1>0, <2>5, <2>6, <3>1, TickedIs DEF Moving
      <4>2. ui'.anim = ui.anim - loop.dt
        BY <1>0, <2>5, <3>1, <4>1, TickedIs DEF Moving
      <4>3. /\ loop.pc = "tick" /\ loop'.pc = "sleep" /\ loop.now = loop.last /\ ~loop.woken
            /\ loop'.woken = loop.woken /\ loop'.stirs = loop.stirs
        BY <2>6, <3>1, PcOthers, LoopIs DEF Settling, At
      <4>4. Slack' = Flips
        BY <1>c, <2>2, <2>3, <3>1, <4>3, SlackAfter
      <4>5. Slack = (IF loop.dt = 0 THEN Flips ELSE -1)
        BY <4>3, SlackAfter
      <4>6. 2 * ui'.anim + Slack' <= 2 * ui.anim + Slack
        <5> DEFINE a == ui.anim  a1 == ui'.anim  k == Slack  k1 == Slack'  d == loop.dt  f == Flips
        <5>1. a \in Nat /\ d \in Nat /\ k1 = f /\ a1 = a - d /\ k = (IF d = 0 THEN f ELSE -1)
              /\ f \in {0, 1}
          BY <1>0, <1>c, <4>2, <4>4, <4>5
        <5> HIDE DEF a, a1, k, k1, d, f
        <5>2. 2 * a1 + k1 <= 2 * a + k
          BY <5>1
        <5> QED
          BY <5>2 DEF a, a1, k, k1
      <4>7. Cost' <= Cost
        BY <2>1, <4>3, <4>6, CostFalls
      <4> QED
        BY <1>0, <1>c, <4>1, <4>2, <4>7
    <3>2. CASE FlipDone \/ Stir
      <4>1. Moving /\ ui'.anim = ui.anim
        BY <2>5, <2>6, <3>2 DEF Moving
      <4>2. loop.pc = "sleep" /\ loop'.pc = "sleep" /\ loop'.woken
        BY <3>2, PcOthers, LoopIs
      <4>3. Slack' - loop'.stirs <= Slack - loop.stirs
        <5>1. CASE loop.now = loop.last
          <6>1. Slack' = 1 + Flips' /\ Slack = (IF loop.woken THEN 1 ELSE 0) + Flips
            BY <2>2, <4>2, <5>1, SlackAfter
          <6>2. CASE FlipDone
            BY <1>c, <2>4, <6>1, <6>2, LoopIs
          <6>3. CASE Stir
            BY <1>c, <2>3, <6>1, <6>3, LoopIs
          <6> QED
            BY <3>2, <6>2, <6>3
        <5>2. CASE loop.now # loop.last
          <6>1. Slack' = 0 /\ Slack = 0
            BY <2>2, <4>2, <5>2, SlackAfter
          <6>2. loop'.stirs >= loop.stirs
            BY <1>c, <3>2, LoopIs
          <6>3. loop'.stirs \in Nat
            BY DEF Typed, Loops
          <6> QED
            BY <1>c, <6>1, <6>2, <6>3
        <5> QED
          BY <5>1, <5>2
      <4>4. Cost' <= Cost
        BY <2>1, <4>1, <4>3, CostFalls
      <4> QED
        BY <1>0, <4>1, <4>4
    <3> QED
      BY <1>5, <3>1, <3>2
  <2>7. ~job.flow /\ ending'.frames = NotYet /\ Moving' => Afforded'
    <3>1. SUFFICES ASSUME ~job.flow, ending'.frames = NotYet, Moving'
                   PROVE  Afforded'
      OBVIOUS
    <3>2. Moving' => Moving /\ ui'.anim <= ui.anim /\ Cost' <= Cost
      BY <2>6, <3>1
    <3> QED
      BY <2>1, <3>1, <3>2, Spends
  <2>8. ~job.flow /\ queue = <<>> => loop'.wake > loop'.last
    <3>1. SUFFICES ASSUME ~job.flow, queue = <<>>
                   PROVE  loop'.wake > loop'.last
      OBVIOUS
    <3>2. CASE Tick
      <4> DEFINE t == Timeout(AnimLeft(loop.dt))
      <4>1. t \in Int /\ t > 0
        BY <1>0, <3>1, TickedIs, TimeoutIs
      <4>2. loop'.wake = loop.now + t
        BY <3>2, LoopIs
      <4>3. loop.last <= loop.now
        BY DEF Settling
      <4> HIDE DEF t
      <4> QED
        BY <1>c, <2>2, <4>1, <4>2, <4>3
    <3>3. CASE FlipDone \/ Stir
      <4>1. At("sleep") /\ loop'.wake = loop.wake
        BY <3>3, LoopIs DEF FlipDone, Stir
      <4> QED
        BY <2>2, <3>1, <4>1 DEF Settling
    <3> QED
      BY <1>5, <3>2, <3>3
  <2> QED
    BY <2>1, <2>2, <2>7, <2>8 DEF Settling
<1>6. CASE Wake
  <2>1. UNCHANGED <<job, queue, ending, ui, flip>> /\ At("sleep")
        /\ (loop.woken \/ loop.wake <= loop.now)
    BY <1>6 DEF Wake, driver, screen
  <2>2. /\ (loop'.dt = 0 <=> loop.now - loop.last = 0)
        /\ loop'.pc = "serve" /\ ~loop'.woken /\ loop'.now = loop.now
        /\ loop'.last = loop.now /\ loop'.stirs = loop.stirs
    BY <1>6, WakeIs
  <2>3. Flips' = Flips
    BY <2>1, <2>2 DEF Flips
  <2>4. ASSUME ~job.flow, ending.frames = NotYet, Moving'
        PROVE  Afforded'
    <3>1. Moving /\ Afforded
      BY <2>1, <2>4 DEF Moving, Settling
    <3>2. CASE Cost' <= Cost
      <4>1. ui'.anim <= ui.anim
        BY <1>0, <2>1
      <4> QED
        BY <2>1, <2>4, <3>1, <3>2, <4>1, Spends
    <3>3. CASE ~(Cost' <= Cost)
      <4>1. loop.now = loop.last /\ ~loop.woken
        <5>1. CASE loop.now # loop.last
          <6>1. Slack' = 0 /\ Slack = 0
            <7>1. loop.now - loop.last # 0
              BY <1>c, <5>1
            <7>2. loop'.dt # 0 /\ loop'.pc = "serve" /\ loop.pc = "sleep"
              BY <2>1, <2>2, <7>1 DEF At
            <7> QED
              BY <5>1, <7>2, SlackAfter
          <6> QED
            BY <1>0, <1>c, <2>1, <2>2, <3>3, <6>1 DEF Cost
        <5>2. CASE loop.now = loop.last /\ loop.woken
          <6>1. Slack' = 1 + Flips /\ Slack = 1 + Flips
            BY <1>c, <2>1, <2>2, <2>3, <5>2, SlackAfter DEF At
          <6> QED
            BY <1>0, <1>c, <2>1, <2>2, <3>3, <6>1 DEF Cost
        <5> QED
          BY <1>c, <5>1, <5>2
      <4>2. queue # <<>>
        BY <1>c, <2>1, <2>4, <4>1 DEF Settling
      <4>3. ending.settle = 0
        BY <2>4, <4>2 DEF Settling
      <4>4. PICK l \in Lengths \ {Forever} : ui.anim <= l /\ Cost <= 2 * l + 2
        BY <3>1 DEF Afforded
      <4>5. Slack' <= 2
        <5>1. Slack' = (IF loop'.dt = 0 THEN 1 + Flips' ELSE 0)
          BY <2>2, SlackAfter
        <5> DEFINE f == Flips'  k == Slack'  d == loop'.dt
        <5>2. f \in {0, 1} /\ k = (IF d = 0 THEN 1 + f ELSE 0)
          BY <1>c, <5>1
        <5> HIDE DEF f, k, d
        <5>3. k <= 2
          BY <5>2
        <5> QED
          BY <5>3 DEF k
      <4>6. l \in Nat
        BY ConstantsAre
      <4>7. Cost' <= 2 * l + 2
        BY <1>0, <1>c, <2>1, <2>2, <4>3, <4>4, <4>5, <4>6 DEF Cost
      <4> QED
        BY <2>1, <4>4, <4>7 DEF Afforded
    <3> QED
      BY <3>2, <3>3
  <2>5. ~At("sleep")'
    BY <2>2 DEF At
  <2> QED
    BY <1>c, <2>1, <2>2, <2>4, <2>5 DEF Settling
<1>7. CASE Clock
  <2>1. UNCHANGED <<job, queue, ending, ui, flip, blocked>>
    BY <1>7 DEF Clock, driver, screen
  <2>2. /\ loop'.now = loop.now + 1 /\ loop'.wake = loop.wake /\ loop'.last = loop.last
        /\ loop'.woken = loop.woken /\ loop'.stirs = loop.stirs /\ loop'.pc = loop.pc
    BY <1>7, LoopIs, PcOthers
  <2>3. loop.last <= loop.now
    BY DEF Settling
  <2>4. At("sleep") \/ (job.flow /\ ~At("sleep"))
    BY <1>7 DEF Clock, Spinning, Serving, At
  <2>5. ~job.flow /\ ending'.frames = NotYet /\ Moving' => Afforded'
    <3>1. SUFFICES ASSUME ~job.flow, ending'.frames = NotYet, Moving'
                   PROVE  Afforded'
      OBVIOUS
    <3>2. Slack' = 0 /\ Slack >= 0
      <4>1. loop.pc = "sleep" /\ loop'.now # loop'.last
        BY <1>c, <2>2, <2>3, <2>4, <3>1 DEF At
      <4> QED
        BY <2>2, <4>1, SlackAfter, CostIs
    <3>3. Cost' <= Cost
      BY <1>0, <1>c, <2>1, <2>2, <3>2 DEF Cost
    <3>4. Moving' => Moving /\ ui'.anim <= ui.anim
      BY <1>0, <2>1 DEF Moving
    <3> QED
      BY <2>1, <3>1, <3>3, <3>4, Spends
  <2> QED
    BY <1>c, <2>1, <2>2, <2>3, <2>4, <2>5 DEF Settling, At
<1>8. CASE UNCHANGED vars
  <2>1. UNCHANGED <<job, queue, ending, ui, flip, loop>>
    BY <1>8 DEF vars
  <2>2. Cost' = Cost /\ Moving' = Moving
    BY <2>1 DEF Cost, Slack, Flips, At, Moving
  <2> QED
    BY <2>1, <2>2 DEF Settling, Afforded, At
<1> QED
  BY <1>1, <1>2, <1>3, <1>4, <1>5, <1>6, <1>7, <1>8 DEF Next, Terminated


-----------------------------------------------------------------------------
(* The invariant holds, and the artifacts are whole.                       *)

LEMMA IInvNext ==
  ASSUME IInv, [Next]_vars
  PROVE  IInv'
<1>1. Typed /\ Played /\ Accounted /\ Captured /\ Ended /\ Settling /\ Moved /\ Current
  BY CapturedIs DEF IInv
<1>2. Typed'
  BY <1>1, TypedNext
<1>3. Played' /\ Accounted'
  BY <1>1, PlayedNext, AccountedNext
<1>4. Captured'
  BY <1>1, CapturedPlay, CapturedOthers
<1>5. Ended'
  BY <1>1, EndedPlay, EndedOthers
<1>6. Settling' /\ Moved'
  BY <1>1, <1>2, SettlingNext, MovedNext
<1> QED
  BY <1>2, <1>3, <1>4, <1>5, <1>6 DEF IInv

\* Types, the account of every edit (none is lost and none is played twice),
\* what is captured, what the ending leaves and what a settle costs hold of
\* every playback: Runner::service_replay and FlowDriver.
THEOREM Invariance == Spec => []IInv
<1>1. Init => IInv
  BY TypedInit, PlayedInit, AccountedInit, CapturedInit, EndedInit, SettlingInit, MovedInit DEF IInv
<1> QED
  BY <1>1, IInvNext, PTL DEF Spec

\* ArtifactsAreWhole: no shot or tree that service_replay leaves, of a step,
\* of a failure or of the end, misses an edit that was played before it; what
\* an ended playback owes it has left, or reports that it could not; and the
\* end shot of a recording is of a settled screen if the budget allows it.
THEOREM ArtifactsWhole == Spec => []ArtifactsAreWhole
<1>1. ASSUME IInv PROVE ArtifactsAreWhole
  <2>1. Typed /\ Played /\ Captured /\ Ended /\ Moved
    BY <1>1 DEF IInv
  <2>2. \A f \in files : f.content >= Owed(f.name)
    BY <2>1 DEF Captured
  <2>3. ASSUME Over
        PROVE  /\ job.tree => Written("end tree")
               /\ stopped => Written("fail tree")
               /\ stopped /\ ~job.shot => Left("fail shot")
               /\ job.shot /\ ~LastIs("shot") => Left("end shot")
    <3>1. CASE ending.frames = 0
      <4>1. ending.frames # NotYet
        BY <3>1 DEF NotYet
      <4>2. stopped => ending.reported
        BY <2>1, <4>1 DEF Ended, ToReport
      <4> QED
        BY <2>1, <4>1, <4>2 DEF Ended
    <3>2. CASE job.end = "as recorded"
      <4>1. ~job.flow /\ ~job.shot /\ ~job.tree
        BY <2>1, <3>2 DEF Ended
      <4>2. ~stopped
        BY <2>1, <4>1 DEF Played
      <4> QED
        BY <4>1, <4>2
    <3> QED
      BY <2>1, <2>3, <3>1, <3>2 DEF Ended
  <2>4. ASSUME SettlesInTime, NEW f \in files, ~job.flow, f.name[1] = "end shot", f.moving
        PROVE  ui.anim = Forever
    <3>1. f.name \in Names
      BY <2>1 DEF Typed, Artifacts
    <3>2. f.name \notin {"shot", "tree"} \X Nat
      BY <2>4
    <3>3. f.name = All
      BY <2>4, <3>1, <3>2, EndNamesAre DEF Names
    <3> QED
      BY <2>1, <2>4, <3>3 DEF Moved
  <2> QED
    BY <2>2, <2>3, <2>4 DEF ArtifactsAreWhole
<1> QED
  BY <1>1, Invariance, PTL

=============================================================================
