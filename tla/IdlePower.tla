------------------------------- MODULE IdlePower -------------------------------
(***************************************************************************)
(* Idle power management: the idle clock (src/fbui/src/power.rs), the      *)
(* runner's effects and its swallowing of the gesture that wakes a blanked *)
(* screen (src/fbui/src/run.rs), the backlight's percentages               *)
(* (src/fbui-platform/src/backlight.rs) and the loop's handling of power   *)
(* requests across session switches.                                       *)
(*                                                                         *)
(* Time is the time since the last activity, in ticks.                     *)
(***************************************************************************)
EXTENDS Integers, FiniteSets

CONSTANTS Policies,       \* pairs [dim, blank] of delays, or None for no such stage
          DimPercent,     \* IdlePolicy::dim_percent
          HasBacklight,   \* is there a backlight to dim
          MaxBrightness,  \* Backlight::max
          UserLevels,     \* brightness levels the user may have set
          Contacts,       \* fingers, buttons and keys
          HasWheel,       \* is there a wheel to turn while a contact is down
          MaxIdle,        \* bound: the clock stops here
          None            \* no duration, no level, no request

ASSUME PolicyAssumption ==
  /\ Policies \subseteq [dim : Nat \cup {None}, blank : Nat \cup {None}]
  /\ DimPercent \in 0 .. 100
  /\ HasBacklight \in BOOLEAN /\ HasWheel \in BOOLEAN
  /\ MaxBrightness \in Nat \ {0}
  /\ UserLevels \subseteq 0 .. MaxBrightness
  /\ MaxIdle \in Nat
  /\ None \notin Int \cup BOOLEAN

VARIABLES
  policy,      \* IdleState::policy, as far as its delays
  stage,       \* IdleTracker::stage
  idle,        \* now - IdleTracker::last_activity
  saved,       \* IdleState::saved_percent
  pending,     \* IdleState::pending_power
  swallowing,  \* IdleState::swallowing
  brightness,  \* the backlight's brightness file
  panel,       \* is the panel powered
  active,      \* LoopState::active
  at,          \* the loop: about to tick, or asleep in poll
  down,        \* contacts that are down
  pressed,     \* contacts the widgets saw go down, and not up
  told,        \* the last the application heard: on_wake or on_idle
  user,        \* the brightness the user set
  stray,       \* history: the widgets got a release without its press
  cut,         \* history: a swallowing ended while another contact was down
  lapsed,      \* history: a stage was left unnoticed under a swallowed gesture
  relit        \* history: the panel may be lit although a blank was asked for

vars == <<policy, stage, idle, saved, pending, swallowing, brightness, panel, active, at,
          down, pressed, told, user, stray, cut, lapsed, relit>>

power == <<stage, idle, saved, pending, swallowing, brightness, told, lapsed, relit>>

\* IdlePolicy::dim_after and blank_after.
DimAfter == policy.dim
BlankAfter == policy.blank

TypeOK ==
  /\ policy \in Policies
  /\ stage \in {"Active", "Dimmed", "Blanked"}
  /\ idle \in 0 .. MaxIdle
  /\ saved \in 0 .. 100 \cup {None}
  /\ pending \in {TRUE, None}     \* a blank is taken in the turn it is asked in
  /\ swallowing \in BOOLEAN /\ panel \in BOOLEAN /\ active \in BOOLEAN
  /\ brightness \in 0 .. MaxBrightness /\ user \in UserLevels
  /\ at \in {"tick", "asleep"}
  /\ down \subseteq Contacts /\ pressed \subseteq Contacts
  /\ told \in {"awake", "idle"}
  /\ stray \in BOOLEAN /\ cut \in BOOLEAN /\ lapsed \in BOOLEAN /\ relit \in BOOLEAN

Init ==
  /\ policy \in Policies
  /\ stage = "Active" /\ idle = 0
  /\ saved = None /\ pending = None /\ swallowing = FALSE
  /\ user \in UserLevels /\ brightness = user
  /\ panel = TRUE /\ active = TRUE
  /\ at = "tick"
  /\ down = {} /\ pressed = {}
  /\ told = "awake"
  /\ stray = FALSE /\ cut = FALSE /\ lapsed = FALSE /\ relit = FALSE

(***************************************************************************)
(* The backlight, in percent.                                              *)
(***************************************************************************)

\* Mutant of Percent: rounding down.
PercentDown(raw) == (raw * 100) \div MaxBrightness

\* Backlight::percent, rounding up.
Percent(raw) == (raw * 100 + MaxBrightness - 1) \div MaxBrightness

\* Backlight::set_percent, rounding down.
Raw(percent) == (MaxBrightness * percent) \div 100

(***************************************************************************)
(* The idle clock.                                                         *)
(***************************************************************************)

Reached(limit, t) == limit # None /\ t >= limit

\* IdleTracker::poll once, at idle time t: the stage after it.
Polled(s, t) ==
  IF s = "Active" /\ Reached(DimAfter, t) THEN "Dimmed"
  ELSE IF s # "Blanked" /\ Reached(BlankAfter, t) THEN "Blanked"
  ELSE s

Until(limit) == IF limit > idle THEN limit - idle ELSE 0

\* Mutant of NextDeadline: with both stages armed the dim is the next.
NextDeadlineDims ==
  LET armed == IF stage = "Active" /\ DimAfter # None THEN {DimAfter}
               ELSE IF stage # "Blanked" THEN {BlankAfter} \ {None} ELSE {}
  IN  IF armed = {} THEN None ELSE Until(CHOOSE a \in armed : TRUE)

\* IdleTracker::next_deadline.
NextDeadline ==
  LET armed == CASE stage = "Active" -> {DimAfter, BlankAfter} \ {None}
                 [] stage = "Dimmed" -> {BlankAfter} \ {None}
                 [] stage = "Blanked" -> {}
  IN  IF armed = {} THEN None
      ELSE Until(CHOOSE a \in armed : \A b \in armed : a <= b)

(***************************************************************************)
(* Input.                                                                  *)
(***************************************************************************)

\* Mutant of OnWake: only a blanked screen's wake is told.
OnWakeBlanked(s) == IF s = "Blanked" THEN "awake" ELSE told

\* What the application last heard when a stage is woken from.
OnWake(s) == "awake"

\* begins_held_gesture: a wake by a contact swallows until a release.
KeepsSwallowing(swallows, begins) == swallows /\ begins

\* Mutant of NoteActivity: a wake by a held contact swallows nothing more.
NoteActivityOnce(ends, begins, swallows) ==
  /\ stage' = "Active" /\ idle' = 0
  /\ IF stage = "Active"
       THEN /\ ~swallows
            /\ UNCHANGED <<saved, pending, swallowing, brightness, told, lapsed,
                           relit>>
       ELSE /\ swallows <=> stage = "Blanked"
            /\ brightness' = IF saved # None THEN Raw(saved) ELSE brightness
            /\ saved' = None
            /\ pending' = IF swallows THEN TRUE ELSE pending
            /\ told' = "awake"
            /\ UNCHANGED <<swallowing, lapsed, relit>>
\* Runner::idle_note_activity for an event that ends a swallowed gesture, or
\* begins one that is held. It leaves in `swallows` whether the event is kept
\* from the widgets.
NoteActivity(ends, begins, swallows) ==
  /\ stage' = "Active" /\ idle' = 0
  /\ IF swallowing
       THEN /\ swallows
            /\ swallowing' = ~ends
            /\ lapsed' = (lapsed \/ stage # "Active")
            /\ UNCHANGED <<saved, pending, brightness, told, relit>>
     ELSE IF stage = "Active"
       THEN /\ ~swallows
            /\ UNCHANGED <<saved, pending, swallowing, brightness, told, lapsed,
                           relit>>
     ELSE   /\ swallows <=> stage = "Blanked"
            /\ brightness' = IF saved # None THEN Raw(saved) ELSE brightness
            /\ saved' = None
            /\ pending' = IF swallows THEN TRUE ELSE pending
            /\ swallowing' = KeepsSwallowing(swallows, begins)
            /\ told' = OnWake(stage)
            /\ lapsed' = (lapsed /\ ~swallows)
            /\ relit' = (relit /\ ~swallows)


session == <<panel, active, user, policy>>

\* History: did the event that ends the swallowing leave a contact down?
Cut == cut' = (cut \/ (swallowing /\ ~swallowing' /\ down' # {}))

\* LoopState::on_input_ready calls the handler for each event of a batch, and
\* the next turn ticks.
Press(c) ==
  /\ c \notin down /\ down' = down \cup {c}
  /\ \E swallowed \in BOOLEAN :
       /\ NoteActivity(FALSE, TRUE, swallowed)
       /\ pressed' = IF swallowed THEN pressed ELSE pressed \cup {c}
  /\ Cut
  /\ at' = "tick"
  /\ UNCHANGED <<session, stray>>

Release(c) ==
  /\ c \in down /\ down' = down \ {c}
  /\ \E swallowed \in BOOLEAN :
       /\ NoteActivity(TRUE, FALSE, swallowed)
       /\ pressed' = IF swallowed THEN pressed ELSE pressed \ {c}
       /\ stray' = (stray \/ (~swallowed /\ c \notin pressed))
  /\ Cut
  /\ at' = "tick"
  /\ UNCHANGED session

\* A motion neither begins nor ends a gesture; a wheel's notch ends one.
Motion(ends) ==
  /\ \E swallowed \in BOOLEAN : NoteActivity(ends, FALSE, swallowed)
  /\ UNCHANGED <<session, down, pressed, stray>>
  /\ Cut
  /\ at' = "tick"

(***************************************************************************)
(* The loop.                                                               *)
(***************************************************************************)

\* Mutant of SavedWhenDimmed: what was saved is overwritten.
SavedAfresh == Percent(brightness)

\* Runner::service_idle on a dim: the level to restore, if none is owed yet.
SavedWhenDimmed == IF saved # None THEN saved ELSE Percent(brightness)

\* Mutant of PowerRequest: a wake overrides a blank.
PowerRequestWakeFirst(blanks) ==
  IF pending # None THEN pending ELSE IF blanks THEN FALSE ELSE None

\* What take_power_request finds after the tick: a blank overrides a wake.
PowerRequest(blanks) == IF blanks THEN FALSE ELSE pending

\* A turn of run_loop: the tick's service_idle polls the clock until no stage
\* is left to cross, then the loop takes the power request and, its session
\* permitting, applies it.
Turn ==
  LET once   == Polled(stage, idle)
      final  == Polled(once, idle)
      dims   == stage = "Active" /\ once = "Dimmed" /\ HasBacklight
      blanks == stage # "Blanked" /\ final = "Blanked"
      request == PowerRequest(blanks)
  IN  /\ at = "tick" /\ at' = "asleep"
      /\ stage' = final
      /\ saved' = IF dims THEN SavedWhenDimmed ELSE saved
      /\ brightness' = IF dims THEN Raw(DimPercent) ELSE brightness
      /\ told' = IF stage = "Active" /\ final # "Active" THEN "idle" ELSE told
      /\ pending' = None
      /\ panel' = IF request # None /\ active THEN request ELSE panel
      /\ UNCHANGED <<policy, idle, swallowing, active, down, pressed, user,
                     stray, cut, lapsed, relit>>

\* poll returns for the deadline, or the hotplug backstop.
Wakeup ==
  /\ at = "asleep" /\ at' = "tick"
  /\ UNCHANGED <<power, session, down, pressed, stray, cut>>

\* The session leaves.
Leave ==
  /\ active /\ active' = FALSE
  /\ at' = "tick"
  /\ UNCHANGED <<power, panel, user, policy, down, pressed, stray, cut>>

\* The session comes back: the display's modeset lights the panel, and the
\* handler's on_session leaves the idle clock alone.
Return ==
  /\ ~active /\ active' = TRUE
  /\ panel' = TRUE
  /\ relit' = (relit \/ stage = "Blanked")
  /\ at' = "tick"
  /\ UNCHANGED <<policy, stage, idle, saved, pending, swallowing, brightness,
                 told, lapsed, user, down, pressed, stray, cut>>

Elapse ==
  /\ idle < MaxIdle /\ idle' = idle + 1
  /\ UNCHANGED <<stage, saved, pending, swallowing, brightness, told, lapsed,
                 relit, session, at, down, pressed, stray, cut>>

Next ==
  \/ \E c \in Contacts : Press(c) \/ Release(c)
  \/ \E ends \in {FALSE, HasWheel} : Motion(ends)
  \/ Turn \/ Wakeup \/ Leave \/ Return \/ Elapse

Spec == Init /\ [][Next]_vars

(***************************************************************************)
(* Properties.                                                             *)
(***************************************************************************)

\* On a screen that is not blanked the panel is on, or about to be, through
\* any order of dims, blanks, wakes and session switches, unless a stage was
\* left under a swallowed gesture.
AwakeIsPowered ==
  active /\ stage # "Blanked" /\ ~lapsed => panel \/ pending = TRUE

\* A blanked screen is dark, or is about to be, unless the session came back
\* to it.
BlankedIsOff == active /\ stage = "Blanked" /\ ~relit => ~panel

\* The panel is on when the screen is awake and off when it is blanked.
PanelFollowsStage == AwakeIsPowered /\ BlankedIsOff

\* The brightness the user set survives any number of dims and wakes: it is
\* on the backlight or saved, and a screen that woke shows it.
UserLevelKept ==
  /\ IF saved = None THEN brightness = user ELSE Raw(saved) = user
  /\ stage = "Active" /\ ~lapsed => saved = None

\* The application is told in turn that the screen went idle and woke, so that
\* on_idle fires once for each time the screen leaves the active state.
ApplicationKnows == ~lapsed => (told = "idle" <=> stage # "Active")

\* The loop's sleep ends exactly when the clock has a stage to cross: it is
\* not woken before for nothing, nor left asleep past a boundary.
SleepIsExact ==
  \A k \in 0 .. MaxIdle - idle :
    Polled(stage, idle + k) # stage <=> NextDeadline # None /\ k >= NextDeadline

\* The tap that wakes the screen reaches the widgets neither as a press nor as
\* a release without one, unless the wheel or another contact cut it short.
NoStrayRelease == stray => cut

==============================================================================
