--------------------------- MODULE IdlePower_proofs ---------------------------
(***************************************************************************)
(* Proofs about IdlePower, for every policy, every set of contacts and any *)
(* number of ticks: the panel's power and what the application was told    *)
(* follow the stage, and the loop's sleep ends where the clock has a stage *)
(* to cross.                                                               *)
(***************************************************************************)
EXTENDS IdlePower, TLAPS

Stages == {"Active", "Dimmed", "Blanked"}

Inv ==
  /\ policy \in Policies
  /\ stage \in Stages /\ idle \in Nat
  /\ pending \in {TRUE, None}
  /\ panel \in BOOLEAN /\ active \in BOOLEAN /\ swallowing \in BOOLEAN
  /\ lapsed \in BOOLEAN /\ relit \in BOOLEAN
  /\ told \in {"awake", "idle"}
  /\ stage = "Blanked" => pending = None
  /\ AwakeIsPowered
  /\ BlankedIsOff
  /\ ApplicationKnows

\* Polling the clock moves a stage forward or leaves it.
LEMMA PolledForward ==
  ASSUME NEW s \in Stages, NEW t
  PROVE  /\ Polled(s, t) \in Stages
         /\ Polled(s, t) = "Active" => s = "Active"
         /\ s = "Blanked" => Polled(s, t) = "Blanked"
BY DEF Stages, Polled

\* An input leaves the screen active, and a wake from a blank asks for power.
LEMMA ActivityKeeps ==
  ASSUME Inv, NEW ends \in BOOLEAN, NEW begins \in BOOLEAN,
         NEW swallows \in BOOLEAN, NoteActivity(ends, begins, swallows),
         UNCHANGED session
  PROVE  Inv'
<1> USE PolicyAssumption DEF Inv, Stages, AwakeIsPowered, BlankedIsOff,
                             ApplicationKnows, session
<1>1. stage' = "Active" /\ idle' = 0
  BY DEF NoteActivity
<1>2. CASE swallowing
  <2>1. /\ swallowing' = ~ends
        /\ lapsed' = (lapsed \/ stage # "Active")
        /\ UNCHANGED <<pending, told, relit, panel, active>>
    BY <1>2 DEF NoteActivity
  <2>2. swallowing' \in BOOLEAN /\ lapsed' \in BOOLEAN
    BY <2>1
  <2>3. AwakeIsPowered' /\ BlankedIsOff' /\ ApplicationKnows'
    <3>1. CASE lapsed \/ stage # "Active"
      <4>1. lapsed' = TRUE
        BY <2>1, <3>1
      <4> QED
        BY <1>1, <4>1
    <3>2. CASE ~lapsed /\ stage = "Active"
      BY <1>1, <2>1, <3>2
    <3> QED
      BY <3>1, <3>2
  <2>4. pending' \in {TRUE, None} /\ told' \in {"awake", "idle"}
    BY <2>1
  <2>5. panel' \in BOOLEAN /\ active' \in BOOLEAN /\ relit' \in BOOLEAN
    BY <2>1
  <2> QED
    BY <1>1, <2>2, <2>3, <2>4, <2>5
<1>3. CASE ~swallowing /\ stage = "Active"
  <2>1. UNCHANGED <<pending, swallowing, told, lapsed, relit, panel, active>>
    BY <1>3 DEF NoteActivity
  <2>2. AwakeIsPowered' /\ BlankedIsOff' /\ ApplicationKnows'
    BY <1>1, <1>3, <2>1
  <2>3. pending' \in {TRUE, None} /\ told' \in {"awake", "idle"}
    BY <2>1
  <2>4. /\ panel' \in BOOLEAN /\ active' \in BOOLEAN /\ relit' \in BOOLEAN
        /\ swallowing' \in BOOLEAN /\ lapsed' \in BOOLEAN
    BY <2>1
  <2> QED
    BY <1>1, <2>2, <2>3, <2>4
<1>4. CASE ~swallowing /\ stage # "Active"
  <2>1. /\ swallows <=> stage = "Blanked"
        /\ pending' = IF swallows THEN TRUE ELSE pending
        /\ swallowing' = (swallows /\ begins)
        /\ told' = "awake"
        /\ lapsed' = (lapsed /\ ~swallows)
        /\ relit' = (relit /\ ~swallows)
    BY <1>4 DEF NoteActivity, KeepsSwallowing, OnWake
  <2> QED
    BY <1>1, <1>4, <2>1
<1> QED
  BY <1>2, <1>3, <1>4

LEMMA TurnKeeps ==
  ASSUME Inv, Turn
  PROVE  Inv'
<1> USE PolicyAssumption DEF Inv, AwakeIsPowered, BlankedIsOff, ApplicationKnows
<1> DEFINE once == Polled(stage, idle)
           final == Polled(once, idle)
           blanks == stage # "Blanked" /\ final = "Blanked"
           request == IF blanks THEN FALSE ELSE pending
<1>1. /\ final \in Stages
      /\ final = "Active" => stage = "Active"
      /\ stage = "Blanked" => final = "Blanked"
  BY PolledForward
<1>2. /\ stage' = final /\ pending' = None
      /\ panel' = IF request # None /\ active THEN request ELSE panel
      /\ told' = IF stage = "Active" /\ final # "Active" THEN "idle" ELSE told
      /\ UNCHANGED <<policy, idle, active, swallowing, lapsed, relit>>
  BY DEF Turn, PowerRequest
<1> HIDE DEF once, final
<1>3. panel' \in BOOLEAN
  BY <1>2
<1>4. AwakeIsPowered'
  BY <1>1, <1>2
<1>5. BlankedIsOff'
  BY <1>1, <1>2
<1>6. ApplicationKnows'
  BY <1>1, <1>2 DEF Stages
<1> QED
  BY <1>1, <1>2, <1>3, <1>4, <1>5, <1>6

\* Every step keeps the invariant.
LEMMA StepKeeps ==
  ASSUME Inv, [Next]_vars
  PROVE  Inv'
<1>1. ASSUME NEW c \in Contacts, Press(c) PROVE Inv'
  BY <1>1, ActivityKeeps DEF Press
<1>2. ASSUME NEW c \in Contacts, Release(c) PROVE Inv'
  BY <1>2, ActivityKeeps DEF Release
<1>3. ASSUME NEW ends \in {FALSE, HasWheel}, Motion(ends) PROVE Inv'
  BY <1>3, ActivityKeeps, PolicyAssumption DEF Motion
<1>4. CASE Turn
  BY <1>4, TurnKeeps
<1> USE DEF Inv, AwakeIsPowered, BlankedIsOff, ApplicationKnows, power, session
<1>5. CASE Wakeup
  BY <1>5 DEF Wakeup
<1>6. CASE Leave
  BY <1>6 DEF Leave
<1>7. CASE Return
  BY <1>7 DEF Return
<1>8. CASE Elapse
  <2>1. idle' \in Nat
    BY <1>8 DEF Elapse
  <2>2. UNCHANGED <<policy, stage, pending, swallowing, told, lapsed, relit, panel,
                  active>>
    BY <1>8 DEF Elapse
  <2> QED
    BY <2>1, <2>2
<1>9. CASE UNCHANGED vars
  BY <1>9 DEF vars
<1> QED
  BY <1>1, <1>2, <1>3, <1>4, <1>5, <1>6, <1>7, <1>8, <1>9 DEF Next

LEMMA InitEstablishes == Init => Inv
<1> SUFFICES ASSUME Init PROVE Inv
  OBVIOUS
<1>1. /\ stage = "Active" /\ idle = 0 /\ pending = None /\ told = "awake"
      /\ panel = TRUE /\ active = TRUE /\ swallowing = FALSE
      /\ lapsed = FALSE /\ relit = FALSE
  BY DEF Init
<1>2. policy \in Policies
  BY DEF Init
<1>3. AwakeIsPowered /\ BlankedIsOff /\ ApplicationKnows
  BY <1>1 DEF AwakeIsPowered, BlankedIsOff, ApplicationKnows
<1> QED
  BY <1>1, <1>2, <1>3 DEF Inv, Stages

\* The invariant holds of every run.
THEOREM Invariance == Spec => []Inv
<1>1. Inv /\ [Next]_vars => Inv'
  BY StepKeeps
<1> QED
  BY InitEstablishes, <1>1, PTL DEF Spec

\* Whatever the policy and the order of dims, blanks, wakes and session
\* switches, a screen that is not blanked has its panel on, unless a stage was
\* left under a swallowed gesture, and one that is blanked has it off, unless
\* the session came back to it.
THEOREM PanelIsRight == Spec => []PanelFollowsStage
<1>1. Inv => PanelFollowsStage
  BY DEF Inv, PanelFollowsStage
<1> QED
  BY <1>1, Invariance, PTL

\* on_idle and on_wake reach the application in turn.
THEOREM ApplicationIsTold == Spec => []ApplicationKnows
<1>1. Inv => ApplicationKnows
  BY DEF Inv
<1> QED
  BY <1>1, Invariance, PTL

\* next_deadline is the first time at which poll would cross a stage, for every
\* pair of delays, dimming before blanking or after it.
THEOREM DeadlineIsExact == Spec => []SleepIsExact
<1>1. Inv => SleepIsExact
  <2> SUFFICES ASSUME Inv, NEW k \in 0 .. MaxIdle - idle
               PROVE  Polled(stage, idle + k) # stage
                        <=> NextDeadline # None /\ k >= NextDeadline
    BY DEF SleepIsExact
  <2>0. DimAfter \in Nat \cup {None} /\ BlankAfter \in Nat \cup {None}
    BY PolicyAssumption DEF Inv, DimAfter, BlankAfter
  <2> USE PolicyAssumption DEF Inv, Stages
  <2>1. k \in Nat /\ idle \in Nat
    OBVIOUS
  <2>2. \A limit \in Nat : /\ Until(limit) \in Nat
                           /\ k >= Until(limit) <=> idle + k >= limit
    BY <2>1 DEF Until
  <2>3. CASE stage = "Blanked"
    BY <2>3 DEF NextDeadline, Polled
  <2>4. CASE stage = "Dimmed"
    <3>1. CASE BlankAfter = None
      BY <2>4, <3>1 DEF NextDeadline, Polled, Reached
    <3>2. CASE BlankAfter \in Nat
      <4>1. NextDeadline = Until(BlankAfter)
        BY <2>4, <3>2 DEF NextDeadline
      <4> QED
        BY <2>2, <2>4, <3>2, <4>1 DEF Polled, Reached
    <3> QED
      BY <2>0, <3>1, <3>2
  <2>5. CASE stage = "Active"
    <3> DEFINE armed == {DimAfter, BlankAfter} \ {None}
               first == CHOOSE a \in armed : \A b \in armed : a <= b
    <3>1. NextDeadline = IF armed = {} THEN None ELSE Until(first)
      BY <2>5 DEF NextDeadline
    <3>2. armed # {} => first \in armed /\ \A b \in armed : first <= b
      <4>1. armed # {} => \E a \in armed : \A b \in armed : a <= b
        BY <2>0
      <4> QED
        BY <4>1
    <3>3. Polled("Active", idle + k) # "Active" <=> \E a \in armed : idle + k >= a
      BY DEF Polled, Reached
    <3> HIDE DEF first
    <3>4. CASE armed = {}
      BY <2>5, <3>1, <3>3, <3>4
    <3>5. CASE armed # {}
      <4>1. first \in Nat /\ armed \subseteq Nat
        BY <2>0, <3>2, <3>5
      <4> HIDE DEF armed
      <4>2. (\E a \in armed : idle + k >= a) <=> idle + k >= first
        BY <2>1, <3>2, <3>5, <4>1
      <4>3. NextDeadline # None
        <5>1. Until(first) \in Nat
          BY <2>2, <4>1
        <5> QED
          BY <3>1, <3>5, <5>1
      <4>4. NextDeadline = Until(first)
        BY <3>1, <3>5
      <4>5. Polled(stage, idle + k) # stage <=> idle + k >= first
        BY <2>5, <3>3, <4>2
      <4>6. k >= Until(first) <=> idle + k >= first
        BY <2>2, <4>1
      <4> QED
        BY <4>3, <4>4, <4>5, <4>6
    <3> QED
      BY <3>4, <3>5
  <2> QED
    BY <2>3, <2>4, <2>5
<1> QED
  BY <1>1, Invariance, PTL

-----------------------------------------------------------------------------
(* The swallowing. A contact the widgets did not see go down is up, or is  *)
(* swallowed until it is, unless the swallowing was cut.                   *)

Swallowed ==
  /\ swallowing \in BOOLEAN
  /\ stray => cut
  /\ ~cut /\ ~swallowing => down \subseteq pressed

\* A contact goes down: the widgets see it, or the swallowing has begun.
LEMMA PressSwallowed ==
  ASSUME Swallowed, NEW c \in Contacts, Press(c)
  PROVE  Swallowed'
<1> USE DEF Swallowed
<1>1. PICK swallowed \in BOOLEAN :
        /\ NoteActivity(FALSE, TRUE, swallowed)
        /\ pressed' = IF swallowed THEN pressed ELSE pressed \cup {c}
  BY DEF Press
<1>2. /\ down' = down \cup {c} /\ stray' = stray
      /\ cut' = (cut \/ (swallowing /\ ~swallowing' /\ down' # {}))
  BY DEF Press, Cut
<1>3. CASE swallowing
  <2>1. swallowing' = TRUE
    BY <1>1, <1>3 DEF NoteActivity
  <2> QED
    BY <1>2, <2>1
<1>4. CASE ~swallowing
  <2>1. /\ swallowing' \in BOOLEAN
        /\ swallowed => swallowing'
    BY <1>1, <1>4 DEF NoteActivity, KeepsSwallowing
  <2> QED
    BY <1>1, <1>2, <1>4, <2>1
<1> QED
  BY <1>3, <1>4

\* A release reaches the widgets when nothing is swallowed, and then they saw
\* the contact go down.
LEMMA ReleaseSwallowed ==
  ASSUME Swallowed, NEW c \in Contacts, Release(c)
  PROVE  Swallowed'
<1> USE DEF Swallowed
<1>1. PICK swallowed \in BOOLEAN :
        /\ NoteActivity(TRUE, FALSE, swallowed)
        /\ pressed' = IF swallowed THEN pressed ELSE pressed \ {c}
        /\ stray' = (stray \/ (~swallowed /\ c \notin pressed))
  BY DEF Release
<1>2. /\ c \in down /\ down' = down \ {c}
      /\ cut' = (cut \/ (swallowing /\ ~swallowing' /\ down' # {}))
  BY DEF Release, Cut
<1>3. CASE swallowing
  <2>1. swallowed /\ swallowing' = FALSE
    BY <1>1, <1>3 DEF NoteActivity
  <2>2. (stray' <=> stray) /\ (cut' <=> cut \/ down' # {})
    BY <1>1, <1>2, <1>3, <2>1
  <2> QED
    BY <2>1, <2>2
<1>4. CASE ~swallowing
  <2>1. swallowing' = FALSE
    BY <1>1, <1>4 DEF NoteActivity, KeepsSwallowing
  <2>2. (cut' <=> cut) /\ (stray' => stray \/ c \notin pressed)
    BY <1>1, <1>2, <1>4
  <2>3. pressed \ {c} \subseteq pressed'
    BY <1>1
  <2> QED
    BY <1>2, <1>4, <2>1, <2>2, <2>3
<1> QED
  BY <1>3, <1>4

LEMMA MotionSwallowed ==
  ASSUME Swallowed, NEW ends \in BOOLEAN, Motion(ends)
  PROVE  Swallowed'
<1> USE DEF Swallowed
<1>1. PICK swallowed \in BOOLEAN : NoteActivity(ends, FALSE, swallowed)
  BY DEF Motion
<1>2. /\ UNCHANGED <<down, pressed, stray>>
      /\ cut' = (cut \/ (swallowing /\ ~swallowing' /\ down' # {}))
  BY DEF Motion, Cut
<1>3. CASE swallowing
  <2>1. swallowing' = ~ends
    BY <1>1, <1>3 DEF NoteActivity
  <2> QED
    BY <1>2, <1>3, <2>1
<1>4. CASE ~swallowing
  <2>1. swallowing' = FALSE
    BY <1>1, <1>4 DEF NoteActivity, KeepsSwallowing
  <2> QED
    BY <1>2, <1>4, <2>1
<1> QED
  BY <1>3, <1>4

\* The tap that wakes the screen reaches the widgets neither as a press nor as
\* a release without one, for any number of contacts, unless it was cut short.
THEOREM ReleaseIsWhole == Spec => []NoStrayRelease
<1>1. Init => Swallowed
  BY DEF Init, Swallowed
<1>2. Swallowed /\ [Next]_vars => Swallowed'
  <2> SUFFICES ASSUME Swallowed, [Next]_vars PROVE Swallowed'
    OBVIOUS
  <2>1. ASSUME NEW c \in Contacts, Press(c) PROVE Swallowed'
    BY <2>1, PressSwallowed
  <2>2. ASSUME NEW c \in Contacts, Release(c) PROVE Swallowed'
    BY <2>2, ReleaseSwallowed
  <2>3. ASSUME NEW ends \in {FALSE, HasWheel}, Motion(ends) PROVE Swallowed'
    BY <2>3, MotionSwallowed, PolicyAssumption
  <2>4. CASE Turn \/ Wakeup \/ Leave \/ Return \/ Elapse \/ UNCHANGED vars
    <3>1. UNCHANGED <<swallowing, stray, cut, down, pressed>>
      BY <2>4 DEF Turn, Wakeup, Leave, Return, Elapse, vars, power
    <3> QED
      BY <3>1 DEF Swallowed
  <2> QED
    BY <2>1, <2>2, <2>3, <2>4 DEF Next
<1>3. Swallowed => NoStrayRelease
  BY DEF Swallowed, NoStrayRelease
<1> QED
  BY <1>1, <1>2, <1>3, PTL DEF Spec
-----------------------------------------------------------------------------
(* The brightness. Percentages are rounded up and levels down, so a dim and *)
(* a wake give back the percentage of the user's level, and the level       *)
(* itself where there are no more levels than percents.                     *)

M == MaxBrightness

\* Between two multiples of M there is none.
LEMMA Multiples ==
  ASSUME NEW a \in Int, NEW b \in Int, M * a < M * b + M
  PROVE  a <= b
<1> M \in Int /\ M > 0
  BY PolicyAssumption DEF M
<1> SUFFICES ASSUME a >= b + 1 PROVE FALSE
  OBVIOUS
<1>1. PICK d \in Nat : a = b + 1 + d
  <2>1. a - (b + 1) \in Nat /\ a = b + 1 + (a - (b + 1))
    OBVIOUS
  <2> QED
    BY <2>1
<1>2. M * d >= 0
  OBVIOUS
<1>3. M * a = M * b + M + M * d
  BY <1>1
<1> QED
  BY <1>2, <1>3

LEMMA PercentRounds ==
  ASSUME NEW u \in 0 .. M
  PROVE  /\ Percent(u) \in 0 .. 100
         /\ 100 * u <= M * Percent(u) /\ M * Percent(u) < 100 * u + M
<1> M \in Int /\ M > 0
  BY PolicyAssumption DEF M
<1> DEFINE x == u * 100 + M - 1
           p == Percent(u)
<1>1. p = x \div M /\ x \in Int
  BY DEF Percent, M
<1>2. p \in Int /\ M * p <= x /\ x < M * p + M
  BY <1>1, Z3
<1>3. 100 * u <= M * p /\ M * p < 100 * u + M
  BY <1>2
<1>4. M * p < M * 100 + M /\ M * 0 < M * (p + 1)
  BY <1>3, <1>2
<1> HIDE DEF p
<1>5. p <= 100
  BY <1>2, <1>4, Multiples
<1>6. 0 <= p
  BY <1>2, <1>3, <1>4, Multiples
<1>7. p \in 0 .. 100
  BY <1>2, <1>5, <1>6
<1> QED
  BY <1>3, <1>7 DEF p

LEMMA RawRounds ==
  ASSUME NEW p \in 0 .. 100
  PROVE  /\ Raw(p) \in 0 .. M
         /\ 100 * Raw(p) <= M * p /\ M * p < 100 * Raw(p) + 100
<1> M \in Int /\ M > 0
  BY PolicyAssumption DEF M
<1>1. Raw(p) = (M * p) \div 100 /\ M * p \in Int
  BY DEF Raw, M
<1>2. Raw(p) \in Int /\ 100 * Raw(p) <= M * p /\ M * p < 100 * Raw(p) + 100
  BY <1>1
<1>3. 0 <= M * p /\ M * p <= M * 100
  OBVIOUS
<1> QED
  BY <1>2, <1>3

\* A level that is saved and restored shows the same percentage.
LEMMA PercentReturns ==
  ASSUME NEW u \in 0 .. M
  PROVE  Percent(Raw(Percent(u))) = Percent(u)
<1> M \in Int /\ M > 0
  BY PolicyAssumption DEF M
<1> DEFINE p == Percent(u)
           r == Raw(p)
           q == Percent(r)
<1>1. p \in 0 .. 100 /\ 100 * u <= M * p /\ M * p < 100 * u + M
  BY PercentRounds
<1>2. r \in 0 .. M /\ 100 * r <= M * p /\ M * p < 100 * r + 100
  BY <1>1, RawRounds
<1>3. q \in 0 .. 100 /\ 100 * r <= M * q /\ M * q < 100 * r + M
  BY <1>2, PercentRounds
<1> HIDE DEF p, r, q
<1>4. CASE M <= 100
  <2>1. r = u
    BY <1>1, <1>2, <1>4
  <2> QED
    BY <2>1 DEF p, q, r
<1>5. CASE M > 100
  <2>1. M * p < M * q + M /\ M * q < M * p + M
    BY <1>1, <1>2, <1>3, <1>5
  <2>2. p <= q /\ q <= p
    BY <1>1, <1>3, <2>1, Multiples
  <2>3. p = q
    BY <1>1, <1>3, <2>2
  <2> QED
    BY <2>3 DEF p, q, r
<1> QED
  BY <1>4, <1>5

\* With at most a hundred levels the level itself comes back.
LEMMA LevelReturns ==
  ASSUME NEW u \in 0 .. M, M <= 100
  PROVE  Raw(Percent(u)) = u
<1> M \in Int /\ M > 0
  BY PolicyAssumption DEF M
<1>1. Percent(u) \in 0 .. 100 /\ 100 * u <= M * Percent(u) /\ M * Percent(u) < 100 * u + M
  BY PercentRounds
<1>2. /\ Raw(Percent(u)) \in 0 .. M
      /\ 100 * Raw(Percent(u)) <= M * Percent(u)
      /\ M * Percent(u) < 100 * Raw(Percent(u)) + 100
  BY <1>1, RawRounds
<1> QED
  BY <1>1, <1>2

\* What is on the backlight or saved is the user's level, to the percent.
PercentKept ==
  IF saved = None THEN Percent(brightness) = Percent(user) ELSE saved = Percent(user)

Level ==
  /\ brightness \in 0 .. M /\ user \in UserLevels /\ idle \in 0 .. MaxIdle
  /\ saved \in 0 .. 100 \cup {None}
  /\ PercentKept
  /\ saved = None /\ M <= 100 => brightness = user
  /\ stage = "Active" /\ ~lapsed => saved = None

LEMMA LevelInit == Init => Level
<1>1. \A u \in UserLevels : u \in 0 .. M
  BY PolicyAssumption DEF M
<1> QED
  BY <1>1, PolicyAssumption DEF Init, Level, PercentKept

\* A wake restores what was saved; a dim saves what was there.
LEMMA LevelStep ==
  ASSUME Inv, Level, [Next]_vars
  PROVE  Level'
<1> USE DEF Level, PercentKept
<1>0. /\ user \in 0 .. M /\ None \notin Int /\ DimPercent \in 0 .. 100
      /\ Percent(user) \in 0 .. 100
  BY PolicyAssumption, PercentRounds DEF M
<1>1. ASSUME NEW ends, NEW begins, NEW swallows, NoteActivity(ends, begins, swallows),
             UNCHANGED user
      PROVE  Level'
  <2>1. stage' = "Active" /\ idle' = 0 /\ 0 \in 0 .. MaxIdle
    BY <1>1, PolicyAssumption DEF NoteActivity
  <2>2. CASE swallowing
    <3>1. UNCHANGED <<saved, brightness>> /\ lapsed' = (lapsed \/ stage # "Active")
      BY <1>1, <2>2 DEF NoteActivity
    <3> QED
      BY <1>1, <2>1, <3>1
  <2>3. CASE ~swallowing /\ stage = "Active"
    <3>1. UNCHANGED <<saved, brightness, lapsed>>
      BY <1>1, <2>3 DEF NoteActivity
    <3> QED
      BY <1>1, <2>1, <2>3, <3>1
  <2>4. CASE ~swallowing /\ stage # "Active"
    <3>1. saved' = None /\ brightness' = IF saved # None THEN Raw(saved) ELSE brightness
      BY <1>1, <2>4 DEF NoteActivity
    <3>2. CASE saved = None
      BY <1>1, <2>1, <3>1, <3>2
    <3>3. CASE saved # None
      <4>1. brightness' = Raw(Percent(user)) /\ user' = user
        BY <1>1, <3>1, <3>3
      <4>2. Raw(Percent(user)) \in 0 .. M
        BY <1>0, RawRounds
      <4>3. Percent(Raw(Percent(user))) = Percent(user)
        BY <1>0, PercentReturns
      <4>4. M <= 100 => Raw(Percent(user)) = user
        BY <1>0, LevelReturns
      <4>5. Percent(brightness') = Percent(user')
        BY <4>1, <4>3
      <4> QED
        BY <2>1, <3>1, <4>1, <4>2, <4>4, <4>5
    <3> QED
      BY <3>2, <3>3
  <2> QED
    BY <2>2, <2>3, <2>4
<1>2. ASSUME NEW c \in Contacts, Press(c) PROVE Level'
  BY <1>1, <1>2 DEF Press, session
<1>3. ASSUME NEW c \in Contacts, Release(c) PROVE Level'
  BY <1>1, <1>3 DEF Release, session
<1>4. ASSUME NEW ends \in {FALSE, HasWheel}, Motion(ends) PROVE Level'
  BY <1>1, <1>4 DEF Motion, session
<1>5. CASE Turn
  <2> DEFINE once == Polled(stage, idle)
             final == Polled(once, idle)
             dims == stage = "Active" /\ once = "Dimmed" /\ HasBacklight
  <2>1. /\ stage' = final /\ UNCHANGED <<idle, user, lapsed>>
        /\ saved' = IF dims THEN SavedWhenDimmed ELSE saved
        /\ brightness' = IF dims THEN Raw(DimPercent) ELSE brightness
    BY <1>5 DEF Turn
  <2>2. /\ final = "Active" => stage = "Active" /\ once = "Active"
    BY PolledForward DEF Inv
  <2> HIDE DEF once, final
  <2>3. CASE dims
    <3>1. saved' = Percent(user)
      BY <2>1, <2>3 DEF SavedWhenDimmed
    <3>2. brightness' \in 0 .. M
      BY <1>0, <2>1, <2>3, RawRounds
    <3> QED
      BY <1>0, <2>1, <2>2, <2>3, <3>1, <3>2
  <2>4. CASE ~dims
    <3>1. UNCHANGED <<saved, brightness, user, idle, lapsed>>
      BY <2>1, <2>4
    <3>2. final = "Active" => stage = "Active"
      BY <2>2
    <3> QED
      BY <2>1, <3>1, <3>2
  <2> QED
    BY <2>3, <2>4
<1>6. CASE Elapse
  <2>1. idle' \in 0 .. MaxIdle /\ UNCHANGED <<stage, saved, brightness, user, lapsed>>
    BY <1>6, PolicyAssumption DEF Elapse, session
  <2> QED
    BY <2>1
<1>7. CASE Wakeup \/ Leave \/ Return \/ UNCHANGED vars
  <2>1. UNCHANGED <<stage, idle, saved, brightness, user, lapsed>>
    BY <1>7 DEF Wakeup, Leave, Return, vars, power, session
  <2> QED
    BY <2>1
<1> QED
  BY <1>2, <1>3, <1>4, <1>5, <1>6, <1>7 DEF Next

LEMMA LevelHolds == Spec => [](Inv /\ Level)
<1>1. Inv /\ Level /\ [Next]_vars => (Inv /\ Level)'
  BY StepKeeps, LevelStep
<1>2. Init => Inv /\ Level
  BY InitEstablishes, LevelInit
<1> QED
  BY <1>1, <1>2, PTL DEF Spec

\* The percentage the user set survives any number of dims and wakes on every
\* backlight, however its levels divide: the rounding is lost once at most, and
\* never adds up (backlight.rs: percent, set_percent).
THEOREM PercentSurvives == Spec => []PercentKept
<1>1. Inv /\ Level => PercentKept
  BY DEF Level
<1> QED
  BY <1>1, LevelHolds, PTL

\* The level itself survives where there are no more levels than percents; with
\* more, a level between two percents is restored to one that shows the same.
THEOREM LevelSurvives ==
  ASSUME MaxBrightness <= 100
  PROVE  Spec => []UserLevelKept
<1>1. Inv /\ Level => UserLevelKept
  <2> SUFFICES ASSUME Level PROVE UserLevelKept
    OBVIOUS
  <2>1. user \in 0 .. M
    BY PolicyAssumption DEF Level, M
  <2>2. Raw(Percent(user)) = user
    BY <2>1, LevelReturns DEF M
  <2> QED
    BY <2>2 DEF Level, PercentKept, UserLevelKept, M
<1> QED
  BY <1>1, LevelHolds, PTL

==============================================================================
