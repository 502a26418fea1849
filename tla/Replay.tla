-------------------------------- MODULE Replay --------------------------------
(* Playback of a recording or of a flow, after Runner::service_replay in        *)
(* fbui/src/run.rs, FlowDriver in flow.rs, Replayer in record.rs and Executor   *)
(* in fbui-widgets/src/script.rs: input on the replay's own clock, steps that   *)
(* wait for the screen to settle, the artifacts, and the ending. One unit of    *)
(* time is a frame; a turn of the loop takes none, or one.                      *)
EXTENDS Integers, Sequences, FiniteSetsExt

CONSTANTS Recordings,  \* v1: sequences of [at, event]
          Flows,       \* v2: sequences of steps
          Lengths,     \* how long an animation may run that an input starts
          Forever,     \* ... and the length of one that never stops
          StepGap,     \* FBUI_REPLAY_STEP
          TapHold,     \* TAP_MS
          WaitTime,    \* what a "wait <n>ms" says
          Backstop,    \* how long the loop sleeps at most
          LongestStep, \* how far one tick moves an animation at most (50 ms)
          REPLAY_MAX_SETTLE_FRAMES,
          MaxStirs     \* bound: live events that wake the loop

Inputs == {"tap", "key", "escape"}
Waits == {"settle", "shot", "tree"}
Kinds == Inputs \cup Waits \cup {"wait", "expect"}

ASSUME ReplayAssumption ==
  /\ {StepGap, TapHold, WaitTime, Backstop, LongestStep, REPLAY_MAX_SETTLE_FRAMES} \subseteq Nat \ {0}
  /\ Lengths \subseteq Nat /\ {Forever, MaxStirs} \subseteq Nat
  /\ \A r \in Recordings : r \in Seq([at : Nat, event : {"edit", "esc"}])
  /\ \A f \in Flows : f \in Seq(Kinds)

VARIABLES job,     \* what is asked for: [flow, script, fast, end, shot, tree]
          done,    \* steps of the flow taken
          stopped, \* the flow failed
          queue,   \* input to deliver: [at, event]
          nextMs,  \* when the next step is due
          blocked, \* what the flow waits for, or Nothing
          ending,  \* [settle, frames, reported]
          ui,      \* [content, anim, dirty, request]
          surface, \* what was painted last: [content, moving]
          flip,    \* when the flip in flight ends, 0 for none
          files,   \* artifacts written
          loop     \* [pc, now, last, dt, wake, woken, stirs]

vars == <<job, done, stopped, queue, nextMs, blocked, ending, ui, surface, flip, files, loop>>
driver == <<done, stopped, queue, nextMs, blocked>>
screen == <<surface, flip>>

Nothing == <<"none", 0>>
NotYet == 3
Over == loop.pc = "over"
At(pc) == loop.pc = pc
Goto(pc) == loop' = [loop EXCEPT !.pc = pc]

\* FBUI_REPLAY_EXIT, and what it means when it is not set.
EndOf(exit, flow, artifact) ==
  CASE exit = "0" -> "stay"
    [] exit = "1" \/ flow \/ artifact -> "exit"
    [] OTHER -> "as recorded"

Init ==
  /\ \E shot, tree, flow, fast \in BOOLEAN, exit \in {"unset", "0", "1"} :
       \E s \in IF flow THEN Flows ELSE Recordings :
         /\ job = [flow |-> flow, script |-> s, fast |-> fast, shot |-> shot, tree |-> tree,
                   end |-> EndOf(exit, flow, shot \/ tree)]
         /\ queue = IF flow THEN <<>> ELSE s
  /\ done = 0 /\ stopped = FALSE /\ nextMs = 0 /\ blocked = Nothing
  /\ ending = [settle |-> 0, frames |-> NotYet, reported |-> FALSE]
  /\ ui = [content |-> 0, anim |-> 0, dirty |-> FALSE, request |-> Nothing]
  /\ surface = [content |-> 0, moving |-> FALSE] /\ flip = 1 /\ files = {}
  /\ loop = [pc |-> "serve", now |-> 0, last |-> 0, dt |-> 0, wake |-> 0, woken |-> FALSE,
             stirs |-> 0]

--------------------------------------------------------------------------------
\* What an artifact shows: a shot is of the surface, a tree dump of the widgets.
Shown(name, picture) == [name |-> name, content |-> picture.content, moving |-> picture.moving]
Now(u) == [content |-> u.content, moving |-> u.anim > 0]

FulfillStale(u, written) ==
  /\ ui' = [u EXCEPT !.request = Nothing]
  /\ files' = written \cup {Shown(n, surface) : n \in {u.request} \ {Nothing}}

\* fulfill_screenshot: only off a surface that is current.
Fulfill(u, written) ==
  IF u.dirty THEN ui' = u /\ files' = written
  ELSE /\ ui' = [u EXCEPT !.request = Nothing]
       /\ files' = written \cup {Shown(n, surface) : n \in {u.request} \ {Nothing}}

\* try_render, and the capture that follows the paint.
Render(u, free) ==
  IF u.dirty /\ free
  THEN /\ surface' = Now(u) /\ flip' = loop.now + 1
       /\ ui' = [u EXCEPT !.dirty = FALSE, !.request = Nothing]
       /\ files' = files \cup {Shown(n, Now(u)) : n \in {u.request} \ {Nothing}}
  ELSE ui' = u /\ flip' = (IF free THEN 0 ELSE flip) /\ UNCHANGED <<surface, files>>

Due(ms) == job.fast \/ ms <= loop.now
Ripe == queue # <<>> /\ Due(Head(queue).at)
IsDone == stopped \/ done = Len(job.script)

\* deliver_replayed: an edit changes the screen and may set something moving.
Edit == /\ At("serve") /\ Ripe /\ Head(queue).event = "edit"
        /\ queue' = Tail(queue)
        /\ \E a \in Lengths \cup {ui.anim} :
             ui' = [ui EXCEPT !.content = @ + 1, !.anim = a, !.dirty = TRUE]
        /\ UNCHANGED <<job, done, stopped, nextMs, blocked, ending, screen, files, loop>>

\* ... and the recording's own quit counts only when the end is as recorded.
Quit == /\ At("serve") /\ Ripe /\ Head(queue).event = "esc"
        /\ queue' = Tail(queue)
        /\ IF job.end = "as recorded" THEN Goto("over") ELSE UNCHANGED loop
        /\ UNCHANGED <<job, done, stopped, nextMs, blocked, ending, ui, screen, files>>

--------------------------------------------------------------------------------
Serving == At("serve") /\ ~Ripe

\* settled: the wait is bounded.
Settled == ui.anim = 0 \/ ending.settle >= REPLAY_MAX_SETTLE_FRAMES

AwaitSettleUncounted == /\ Serving /\ blocked # Nothing /\ ~Settled
                        /\ Goto("ending")
                        /\ UNCHANGED <<job, driver, ending, ui, screen, files>>

AwaitSettle == /\ Serving /\ blocked # Nothing /\ ~Settled
               /\ ending' = [ending EXCEPT !.settle = @ + 1]
               /\ Goto("ending")
               /\ UNCHANGED <<job, driver, ui, screen, files>>

Unblock == /\ Serving /\ blocked # Nothing /\ Settled
           /\ ending' = [ending EXCEPT !.settle = 0]
           /\ blocked' = Nothing /\ nextMs' = nextMs + StepGap
           /\ CASE blocked[1] = "shot" -> Fulfill([ui EXCEPT !.request = blocked], files)
                [] blocked[1] = "tree" -> files' = files \cup {Shown(blocked, Now(ui))} /\ UNCHANGED ui
                [] OTHER -> UNCHANGED <<ui, files>>
           /\ UNCHANGED <<job, done, stopped, queue, screen, loop>>

\* Executor::advance and FlowDriver::queue, one step at a time.
Input(event, last) == [k \in 1..(last + 1) |-> [at |-> nextMs + (k - 1) * TapHold, event |-> event]]

Step(kind) ==
  CASE kind = "tap" -> /\ queue' = Input("edit", 1) /\ nextMs' = nextMs + TapHold + StepGap
                       /\ UNCHANGED blocked
    [] kind = "key" -> /\ queue' = Input("edit", 0) /\ nextMs' = nextMs + StepGap
                       /\ UNCHANGED blocked
    [] kind = "escape" -> /\ queue' = Input("esc", 0) /\ nextMs' = nextMs + StepGap
                          /\ UNCHANGED blocked
    [] kind = "wait" -> nextMs' = nextMs + WaitTime /\ UNCHANGED <<queue, blocked>>
    [] kind = "expect" -> UNCHANGED <<queue, nextMs, blocked>>
    [] OTHER -> blocked' = <<kind, done + 1>> /\ UNCHANGED <<queue, nextMs>>

Idle == Serving /\ job.flow /\ blocked = Nothing /\ queue = <<>>

Advance == /\ Idle /\ ~IsDone /\ Due(nextMs)
           /\ done' = done + 1
           /\ Step(job.script[done + 1])
           /\ UNCHANGED <<job, stopped, ending, ui, screen, files, loop>>

\* An expectation that does not hold, a widget that is not there or not on screen.
Fail == /\ Idle /\ ~IsDone /\ Due(nextMs)
        /\ job.script[done + 1] \in {"expect", "tap"}
        /\ done' = done + 1 /\ stopped' = TRUE
        /\ UNCHANGED <<job, queue, nextMs, blocked, ending, ui, screen, files, loop>>

Pause == /\ \/ Idle /\ (IsDone \/ ~Due(nextMs))
            \/ Serving /\ ~job.flow
         /\ Goto("ending")
         /\ UNCHANGED <<job, driver, ending, ui, screen, files>>

--------------------------------------------------------------------------------
\* ReplaySource::finished.
Finished == queue = <<>> /\ (job.flow => IsDone)

Playing == At("ending") /\ ~Finished /\ Goto("tick")
           /\ UNCHANGED <<job, driver, ending, ui, screen, files>>

ToReport == stopped /\ ~ending.reported

\* report_flow_failure.
Report == /\ At("ending") /\ Finished /\ ToReport
          /\ ending' = [ending EXCEPT !.reported = TRUE]
          /\ job' = [job EXCEPT !.end = "exit"]
          /\ Fulfill([ui EXCEPT !.request = <<"fail shot", 0>>],
                     files \cup {Shown(<<"fail tree", 0>>, Now(ui))})
          /\ UNCHANGED <<driver, screen, loop>>

AtEnd == At("ending") /\ Finished /\ ~ToReport

\* should_wait_for_replay_settle.
MustSettle == job.shot /\ ui.anim > 0 /\ ending.settle < REPLAY_MAX_SETTLE_FRAMES

SettleEnd == /\ AtEnd /\ ending.frames = NotYet /\ MustSettle
             /\ ending' = [ending EXCEPT !.settle = @ + 1]
             /\ Goto("tick")
             /\ UNCHANGED <<job, driver, ui, screen, files>>

Capture == /\ AtEnd /\ ending.frames = NotYet /\ ~MustSettle
           /\ ending' = [ending EXCEPT !.frames = 2]
           /\ ui' = IF job.shot THEN [ui EXCEPT !.request = <<"end shot", 0>>] ELSE ui
           /\ files' = files \cup (IF job.tree THEN {Shown(<<"end tree", 0>>, Now(ui))} ELSE {})
           /\ Goto("tick")
           /\ UNCHANGED <<job, driver, screen>>

CountDown == /\ AtEnd /\ ending.frames \in 1..2
             /\ ending' = [ending EXCEPT !.frames = @ - 1]
             /\ Fulfill(ui, files) /\ Goto("tick")
             /\ UNCHANGED <<job, driver, screen>>

End == /\ AtEnd /\ ending.frames = 0
       /\ Fulfill(ui, files) /\ Goto("over")
       /\ UNCHANGED <<job, driver, ending, screen>>

--------------------------------------------------------------------------------
\* next_timeout.
NextDue == IF ~job.flow /\ queue = <<>> THEN {}
           ELSE IF job.fast \/ blocked # Nothing THEN {0}
           ELSE {Max({0, (IF queue = <<>> THEN nextMs ELSE Head(queue).at) - loop.now})}

Timeout(anim) == Min({Backstop} \cup (IF anim > 0 THEN {1} ELSE {})
                       \cup (IF ending.frames # NotYet THEN {1} ELSE NextDue))

\* The rest of tick, try_render, and the loop goes to sleep.
Tick ==
  /\ At("tick")
  /\ LET left == IF ui.anim = Forever THEN Forever ELSE Max({0, ui.anim - loop.dt})
     IN  /\ Render([ui EXCEPT !.anim = left, !.dirty = @ \/ ui.anim > 0], flip = 0)
         /\ loop' = [loop EXCEPT !.pc = "sleep", !.wake = loop.now + Timeout(left)]
  /\ UNCHANGED <<job, driver, ending>>

\* on_display_ready: the flip is over, and the next frame goes out.
FlipDone == /\ At("sleep") /\ flip # 0 /\ flip <= loop.now
            /\ Render(ui, TRUE)
            /\ loop' = [loop EXCEPT !.woken = TRUE]
            /\ UNCHANGED <<job, driver, ending>>

\* on_input, on_wake: live input works during playback, and redraws.
Stir == /\ At("sleep") /\ loop.stirs < MaxStirs
        /\ Render([ui EXCEPT !.dirty = TRUE], flip = 0)
        /\ loop' = [loop EXCEPT !.woken = TRUE, !.stirs = @ + 1]
        /\ UNCHANGED <<job, driver, ending>>

Wake == /\ At("sleep") /\ (loop.woken \/ loop.wake <= loop.now)
        /\ loop' = [loop EXCEPT !.pc = "serve", !.woken = FALSE, !.last = loop.now,
                                !.dt = Min({loop.now - loop.last, LongestStep})]
        /\ UNCHANGED <<job, driver, ending, ui, screen, files>>

\* Time passes while the loop sleeps, at most a frame late, and while the flow
\* spins on input that is queued and not due.
Spinning == Serving /\ job.flow /\ blocked = Nothing /\ queue # <<>>
Clock == /\ \/ At("sleep") /\ ~loop.woken /\ loop.now <= loop.wake /\ ~(flip # 0 /\ flip <= loop.now)
            \/ Spinning
         /\ loop' = [loop EXCEPT !.now = @ + 1]
         /\ UNCHANGED <<job, driver, ending, ui, screen, files>>

Terminated == Over /\ UNCHANGED vars

\* The playback is over; what the loop does then is not this module's.
Next == \/ Edit \/ Quit \/ AwaitSettle \/ Unblock \/ Advance \/ Fail \/ Pause
        \/ Playing \/ Report \/ SettleEnd \/ Capture \/ CountDown \/ End
        \/ Tick \/ FlipDone \/ Stir \/ Wake \/ Clock \/ Terminated

Spec == Init /\ [][Next]_vars
\* The loop's thread runs, time passes, and the display completes its flips.
FairSpec == Spec /\ WF_vars(Next)

--------------------------------------------------------------------------------
(* Properties.                                                                *)

\* A key is one edit, a tap a press and a release.
EditsBefore(i) == Cardinality({k \in 1..(i - 1) : job.script[k] \in {"tap", "key"}})
                    + Cardinality({k \in 1..(i - 1) : job.script[k] = "tap"})

\* The edits an artifact owes: those of the steps before its own, or all of them.
Owed(name) ==
  IF name[1] \in {"shot", "tree"} THEN EditsBefore(name[2])
  ELSE IF job.flow THEN EditsBefore(IF stopped THEN done ELSE done + 1)
  ELSE Cardinality({k \in DOMAIN job.script : job.script[k].event = "edit"})

Written(kind) == \E f \in files : f.name[1] = kind
LastIs(kind) == job.flow /\ job.script # <<>> /\ job.script[Len(job.script)] = kind

\* The ending takes what is still asked for and says it was never painted.
Left(kind) == Written(kind) \/ ui.request[1] = kind

\* The budget counts turns, so live input spends it too, and a flip every other.
WithinBudget(l) == 2 * l + loop.stirs < REPLAY_MAX_SETTLE_FRAMES
SettlesInTime == \A l \in Lengths \ {Forever} : WithinBudget(l)

(* No artifact misses an effect of what was played before it, however late    *)
(* the shot is painted: a shot is of a current surface only. And a playback   *)
(* that plays to its end leaves what it owes, or says that it could not: the  *)
(* tree of a failure and of the end, the shot of a failure where no other is  *)
(* asked for, the end shot where no flow's own shot comes last (there is one  *)
(* slot for all requests), and, of a recording, one that is settled if the    *)
(* screen settles within the budget.                                          *)
ArtifactsAreWhole ==
  /\ \A f \in files : f.content >= Owed(f.name)
  /\ Over /\ queue = <<>> =>
       /\ job.tree => Written("end tree")
       /\ stopped => Written("fail tree")
       /\ stopped /\ ~job.shot => Left("fail shot")
       /\ job.shot /\ ~LastIs("shot") => Left("end shot")
       /\ SettlesInTime => \A f \in files :
            ~job.flow /\ f.name[1] = "end shot" /\ f.moving => ui.anim = Forever

(* Every playback ends, also over an animation that never does: each wait for *)
(* the screen to settle is bounded (REPLAY_MAX_SETTLE_FRAMES, "a perpetual    *)
(* animation cannot stall a flow forever"), and so is the ending.             *)
PlaybackEnds == <>Over
================================================================================
