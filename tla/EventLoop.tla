------------------------------- MODULE EventLoop -------------------------------
(***************************************************************************)
(* The event loop of fbui-platform (src/fbui-platform/src/event_loop.rs)   *)
(* driving a DRM display, with the frame state of the runner's handler     *)
(* (src/fbui/src/run.rs, src/fbui-render/src/damage.rs) and the kernel     *)
(* that switches virtual terminals.                                        *)
(*                                                                         *)
(* The loop is one thread. Between two callbacks the kernel, the user and  *)
(* the connector may move; a callback is one action, its calls composed in *)
(* the order of the source, the trailing try_render included.              *)
(***************************************************************************)
EXTENDS DrmDisplay, Sequences

CONSTANTS FlipFaults,    \* TRUE: page_flip may fail although a flip is legal
          RemotePointer  \* TRUE: a remote console may move the pointer

ASSUME LoopAssumption == /\ FlipFaults \in BOOLEAN
                         /\ RemotePointer \in BOOLEAN

VARIABLES
  drm,           \* LoopState::display
  active,        \* LoopState::active: the session is ours
  needs_redraw,  \* LoopState::needs_redraw: a repaint is owed
  exit,          \* LoopState::exit
  stopped,       \* has run_loop returned: "no", "returned" or "failed"
  app,           \* the handler: see App
  console,       \* the kernel's view of who owns the screen
  sessions,      \* session events written and not yet read
  mode_changed,  \* the connector's preferred mode differs from drm's
  retried        \* history: a failed present was swallowed since Modeset

vars == <<drm, active, needs_redraw, exit, stopped, app, console, sessions,
          mode_changed, retried>>

(***************************************************************************)
(* The handler as far as a frame depends on it: the regions the widget     *)
(* tree must repaint, the damage tracker's ring of past frames, and the    *)
(* cursor, which lives in the frames only. One position of the cursor      *)
(* covers one region.                                                      *)
(***************************************************************************)
App == [ dirty        : SUBSET Regions,           \* Ui::damage
         history      : Seq(SUBSET Regions),      \* DamageTracker::history
         cursor       : Regions,                  \* Runner::cursor
         last_rect    : Regions \cup {None},      \* SoftwareCursor::last_rect
         cursor_dirty : BOOLEAN ]                 \* Runner::cursor_dirty

TypeOK ==
  /\ drm \in DrmDisplay
  /\ active \in BOOLEAN
  /\ needs_redraw \in BOOLEAN
  /\ exit \in BOOLEAN
  /\ stopped \in {"no", "returned", "failed"}
  /\ app \in App
  /\ Len(app.history) <= HISTORY
  /\ console \in {"ours", "leaving", "theirs", "returning"}
  /\ sessions \in Seq({"release", "acquire"})
  /\ mode_changed \in BOOLEAN
  /\ retried \in BOOLEAN

Running == stopped = "no"

(***************************************************************************)
(* Rendering.                                                              *)
(***************************************************************************)

\* The last n frames of damage.
Past(history, n) ==
  UNION { history[i] : i \in { j \in 1 .. Len(history) : j > Len(history) - n } }

\* DamageTracker::flush: what must be copied out to bring a buffer of that age
\* up to date, given what this frame damaged.
Flush(history, damage, age) ==
  IF age = 0 \/ age > HISTORY THEN Regions
  ELSE damage \cup Past(history, age - 1)

\* DamageTracker::push_history.
PushHistory(history, damage) ==
  LET h == Append(history, damage)
  IN  IF Len(h) > HISTORY THEN Tail(h) ELSE h

\* Mutant of FrameDamage: the place the cursor leaves is forgotten.
FrameDamageNoTrail(a) == a.dirty \cup {a.cursor}

\* What one frame damages: the widgets repainted into the shadow, the place the
\* cursor leaves and the place it enters.
FrameDamage(a) == a.dirty \cup {a.cursor} \cup ({a.last_rect} \ {None})

\* Runner::render: the handler after the frame.
RenderedApp(a) ==
  [a EXCEPT !.dirty = {}, !.history = PushHistory(a.history, FrameDamage(a)),
            !.last_rect = a.cursor, !.cursor_dirty = FALSE]

\* Runner::render: the pixels after the frame. The widgets repaint the shadow,
\* the flushed regions are copied into the back buffer, the arrow composited.
RenderedPixels(d, a) ==
  LET copied == Flush(a.history, FrameDamage(a), Age(d))
  IN  [d EXCEPT
         !.stale = [b \in Buffers |-> IF b = d.back
                                        THEN (d.stale[b] \cup a.dirty) \ copied
                                        ELSE d.stale[b] \cup a.dirty],
         !.arrow = [d.arrow EXCEPT ![d.back] = (@ \ copied) \cup {a.cursor}]]

\* Outcomes of page_flip. With a flip in flight it is EBUSY, unless the flip
\* completes just before the call.
FlipMay(d) == IF d.queued # None \/ FlipFaults THEN BOOLEAN ELSE {TRUE}

Accepted(d) == IF d.queued # None THEN Presented(FlipDone(d)) ELSE Presented(d)

(***************************************************************************)
(* The part of the state a callback works on: it takes LoopState's record, *)
(* updates it call by call, and hands it to TryRender.                     *)
(***************************************************************************)
LoopState == [ drm |-> drm, active |-> active, needs_redraw |-> needs_redraw,
               app |-> app, console |-> console, retried |-> retried ]

(***************************************************************************)
(* LoopState::try_render, the last call of every callback, from the state  *)
(* s the callback got to. Runner::render always reports damage, since the  *)
(* cursor is part of it, so a rendered frame is always presented. An error *)
(* leaves the repaint owed. The loop is then `ok` or, after an error,      *)
(* `err`: "failed" where the source propagates it, "no" where it is        *)
(* swallowed and the loop goes on.                                         *)
(***************************************************************************)
TryRender(s, ok, err) ==
  /\ active' = s.active
  /\ console' = s.console
  /\ IF s.active /\ s.needs_redraw /\ BufferFree(s.drm)
       THEN LET painted == RenderedPixels(s.drm, s.app)
            IN \E flipped \in FlipMay(s.drm) :
                 /\ app' = RenderedApp(s.app)
                 /\ drm' = IF flipped THEN Accepted(painted) ELSE painted
                 /\ needs_redraw' = ~flipped
                 /\ retried' = (s.retried \/ ~flipped)
                 /\ stopped' = IF flipped THEN ok ELSE err
       ELSE /\ app' = s.app
            /\ drm' = s.drm
            /\ needs_redraw' = s.needs_redraw
            /\ retried' = s.retried
            /\ stopped' = ok

(***************************************************************************)
(* The handler's callbacks.                                                *)
(***************************************************************************)

\* App::update and the widgets may invalidate anything.
Invalidated(a, regions) == [a EXCEPT !.dirty = @ \cup regions]

\* The cursor moves to a place, or None: the batch does not move it.
Pointed(a, place) ==
  IF place = None THEN a ELSE [a EXCEPT !.cursor = place, !.cursor_dirty = TRUE]

\* Runner::on_session(true): cursor and the whole tree repaint.
SessionBack(a) == [a EXCEPT !.dirty = Regions, !.cursor_dirty = TRUE]

\* Runner::on_display_changed: a new surface (and damage tracker), a new sprite.
DisplayChanged(a) ==
  [a EXCEPT !.dirty = Regions, !.cursor_dirty = TRUE, !.history = <<>>,
            !.last_rect = None]

(***************************************************************************)
(* The loop's sources. Every callback ends in TryRender.                   *)
(***************************************************************************)

Init ==
  /\ drm = NewDisplay
  /\ active = TRUE
  /\ needs_redraw = TRUE
  /\ exit = FALSE
  /\ stopped = "no"
  /\ \E place \in Regions :
       app = [dirty |-> Regions, history |-> <<>>, cursor |-> place,
              last_rect |-> None, cursor_dirty |-> TRUE]
  /\ console = "ours"
  /\ sessions = <<>>
  /\ mode_changed = FALSE
  /\ retried = FALSE

\* on_input_ready: a batch that may move the cursor and invalidate widgets, and
\* does not contain Escape. handle_input answers Redraw when either shows.
OnInputReady ==
  /\ Running
  /\ \E regions \in SUBSET Regions, place \in Regions \cup {None} :
       LET a == Invalidated(Pointed(app, place), regions)
       IN  TryRender([LoopState EXCEPT
                        !.app = a,
                        !.needs_redraw = @ \/ a.dirty # {} \/ a.cursor_dirty],
                     "no", "failed")
  /\ UNCHANGED <<exit, sessions, mode_changed>>

\* on_input_ready on an Escape press.
OnEscape ==
  /\ Running
  /\ exit' = TRUE
  /\ TryRender(LoopState, "no", "failed")
  /\ UNCHANGED <<sessions, mode_changed>>

\* on_wake_ready: Runner::on_wake applies the remote console's commands and the
\* proxy's messages, and answers Redraw only if the widget tree must repaint.
OnWakeReady ==
  /\ Running
  /\ \E regions \in SUBSET Regions,
        place \in IF RemotePointer THEN Regions \cup {None} ELSE {None} :
       LET a == Invalidated(Pointed(app, place), regions)
       IN  TryRender([LoopState EXCEPT !.app = a,
                                       !.needs_redraw = @ \/ a.dirty # {}],
                     "no", "no")
  /\ UNCHANGED <<exit, sessions, mode_changed>>

\* on_display_ready.
OnDisplayReady ==
  /\ Running
  /\ drm.readable
  /\ TryRender([LoopState EXCEPT !.drm = Dispatched(@)], "no", "failed")
  /\ UNCHANGED <<exit, sessions, mode_changed>>

\* Mutants of HandleSession: the release is acknowledged with master still held,
\* or master is dropped and the release never acknowledged.
HandleSessionNoSuspend(s, event) ==
  IF event = "release"
    THEN [s EXCEPT !.active = FALSE, !.console = "theirs"]
    ELSE [s EXCEPT !.console = IF @ = "returning" THEN "ours" ELSE @,
                   !.drm = Resumed(@), !.active = TRUE, !.needs_redraw = TRUE,
                   !.app = SessionBack(@), !.retried = FALSE]

HandleSessionNoAck(s, event) ==
  IF event = "release"
    THEN [s EXCEPT !.active = FALSE, !.drm = Suspended(@)]
    ELSE [s EXCEPT !.console = IF @ = "returning" THEN "ours" ELSE @,
                   !.drm = Resumed(@), !.active = TRUE, !.needs_redraw = TRUE,
                   !.app = SessionBack(@), !.retried = FALSE]

\* One session event, as on_vt_ready handles it: the console is handed over by
\* the acknowledgement that follows suspend.
HandleSession(s, event) ==
  IF event = "release"
    THEN [s EXCEPT !.active = FALSE,
                   !.drm = Suspended(@),
                   !.console = "theirs"]
    ELSE [s EXCEPT !.console = IF @ = "returning" THEN "ours" ELSE @,
                   !.drm = Resumed(@),
                   !.active = TRUE,
                   !.needs_redraw = TRUE,
                   !.app = SessionBack(@),
                   !.retried = FALSE]

\* on_vt_ready: drain every event, handle them in order.
OnSessionReady ==
  /\ Running
  /\ sessions # <<>>
  /\ sessions' = <<>>
  /\ LET s == HandleSession(LoopState, sessions[1])
     IN  TryRender(IF Len(sessions) = 1 THEN s ELSE HandleSession(s, sessions[2]),
                   "no", "failed")
  /\ UNCHANGED <<exit, mode_changed>>

\* reconfigure finds a changed mode: only while the session is ours.
ModeMoved == active /\ drm.master /\ mode_changed

\* poll_display_change on a changed mode: new buffers, a new surface, a repaint.
HandleModeChange(s) ==
  [s EXCEPT !.drm = Reconfigured(@), !.app = DisplayChanged(@),
            !.needs_redraw = TRUE, !.retried = FALSE]

\* on_uevent_ready for a DRM event that changed the mode.
OnUeventReady ==
  /\ Running
  /\ ModeMoved
  /\ mode_changed' = FALSE
  /\ TryRender(HandleModeChange(LoopState), "no", "failed")
  /\ UNCHANGED <<exit, sessions>>

\* One turn of run_loop down to its poll: tick (which may ask to exit), a power
\* request, the hotplug backstop, try_render, the second look at exit. After a
\* reconfiguration the first try_render leaves nothing owed to the second, so
\* one TryRender stands for both.
Turn ==
  /\ Running
  /\ ~exit
  /\ \E regions \in SUBSET Regions, power \in BOOLEAN \cup {None},
        quit \in BOOLEAN, poll \in BOOLEAN :
       LET a == Invalidated(app, regions)
           applied == power # None /\ active
           s == [LoopState EXCEPT
                   !.app = a,
                   !.drm = IF applied THEN Powered(@, power) ELSE @,
                   !.needs_redraw = \/ @
                                    \/ ~quit /\ a.dirty # {}
                                    \/ applied /\ power = TRUE]
       IN  /\ TryRender(IF poll /\ ModeMoved THEN HandleModeChange(s) ELSE s,
                        IF quit THEN "returned" ELSE "no", "failed")
           /\ mode_changed' = (mode_changed /\ ~(poll /\ ModeMoved))
           /\ exit' = quit
  /\ UNCHANGED sessions

\* run_loop sees, at the top of a turn, that a callback asked to exit.
Return ==
  /\ Running
  /\ exit
  /\ stopped' = "returned"
  /\ UNCHANGED <<drm, active, needs_redraw, exit, app, console, sessions,
                 mode_changed, retried>>

(***************************************************************************)
(* The world outside (external): vblank, the user's VT keys, the cable.    *)
(***************************************************************************)

Vblank ==
  /\ Running
  /\ drm.queued # None
  /\ drm' = FlipDone(drm)
  /\ UNCHANGED <<active, needs_redraw, exit, stopped, app, console, sessions,
                 mode_changed, retried>>

\* The console is taken away: a signal asks us to release it.
SwitchAway ==
  /\ Running
  /\ console \in {"ours", "returning"}
  /\ console' = "leaving"
  /\ sessions' = Append(sessions, "release")
  /\ UNCHANGED <<drm, active, needs_redraw, exit, stopped, app, mode_changed, retried>>

SwitchBack ==
  /\ Running
  /\ console = "theirs"
  /\ console' = "returning"
  /\ sessions' = Append(sessions, "acquire")
  /\ UNCHANGED <<drm, active, needs_redraw, exit, stopped, app, mode_changed, retried>>

Replugged ==
  /\ Running
  /\ ~mode_changed
  /\ mode_changed' = TRUE
  /\ UNCHANGED <<drm, active, needs_redraw, exit, stopped, app, console, sessions,
                 retried>>

Next ==
  \/ OnInputReady \/ OnEscape \/ OnWakeReady \/ OnDisplayReady
  \/ OnSessionReady \/ OnUeventReady \/ Turn \/ Return
  \/ Vblank \/ SwitchAway \/ SwitchBack \/ Replugged

(***************************************************************************)
(* Fairness: poll is level triggered and its timeout bounded, so a ready   *)
(* source is served and a turn with work to do is taken; a queued flip     *)
(* reaches its vblank. Nothing is assumed of the user, the app, the cable: *)
(* in particular no turn is forced that only an app or a user would cause. *)
(***************************************************************************)
TurnDue ==
  \/ ~needs_redraw /\ app.dirty # {}
  \/ active /\ needs_redraw /\ BufferFree(drm)

Fairness ==
  /\ WF_vars(TurnDue /\ Turn) /\ WF_vars(Return)
  /\ WF_vars(OnDisplayReady) /\ WF_vars(OnSessionReady)
  /\ WF_vars(Vblank)

Spec == Init /\ [][Next]_vars

FairSpec == Spec /\ Fairness

(***************************************************************************)
(* Properties.                                                             *)
(***************************************************************************)

\* Master is held exactly while the loop renders, and never while the console
\* is another session's: on_vt_ready suspends before it acknowledges, and
\* renders only after resume.
SessionSafety ==
  /\ active <=> drm.master
  /\ console = "theirs" => ~drm.master

\* flip_pending is the truth about the card: set exactly while the kernel owes
\* the completion of a flip, or it waits unread, so that a frame is never
\* skipped for ever nor offered twice. (Not while the display is orphaned.)
FlipAccounting ==
  drm.master /\ ~drm.orphan =>
    (drm.flip_pending <=> drm.queued # None \/ drm.readable)

\* begin_frame never hands out the buffer on screen, nor one about to be: no
\* frame is drawn in view. (Not while the display is orphaned.)
BackIsFree ==
  BufferFree(drm) /\ ~drm.orphan => drm.queued = None /\ drm.back # drm.scanout

\* Damage, buffer age and the cursor's last_rect together suffice: once nothing
\* is owed and the flip is through, the screen shows the last frame, every
\* region equal to the shadow and the one arrow where it was last drawn, however
\* many frames, switches and mode changes went before. (Not while the display is
\* orphaned, nor after a failed present was swallowed.)
QuietScreen ==
  drm.master /\ ~needs_redraw /\ ~drm.flip_pending /\ ~drm.orphan /\ ~retried =>
    /\ drm.shown = drm.scanout
    /\ drm.stale[drm.scanout] = {}
    /\ drm.arrow[drm.scanout] = {app.last_rect}

\* Whatever the tree invalidates is painted, unless the session goes or the
\* program ends: tick notices it, and a flip in flight only delays it.
DirtyIsPainted ==
  (app.dirty # {} /\ active) ~> (app.dirty = {} \/ ~active \/ ~Running)

\* The loop keeps the promise made to the other sessions of the console.
Session == INSTANCE ScreenSession
             WITH console <- console, drawing <- drm.master, over <- ~Running

SessionKept == Session!Spec
===============================================================================
