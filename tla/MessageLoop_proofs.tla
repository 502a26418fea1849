-------------------------- MODULE MessageLoop_proofs --------------------------
(***************************************************************************)
(* Proofs about MessageLoop, for any number of workers, of messages and of *)
(* ticks: the loop never sleeps on work. The invariant says where a widget *)
(* message may be found, and that a message in the channel always has the  *)
(* attention of someone: a raised ping, a worker about to raise one, a     *)
(* dispatch that read it, or on_wake's loop itself.                        *)
(***************************************************************************)
EXTENDS MessageLoop, SequenceTheorems, WellFoundedInduction, TLAPS

\* Places the loop thread reaches only after draining the widgets' messages.
Drained == {"tick", "input", "take", "dispatch", "asleep"}

Inv ==
  /\ TypeOK
  /\ at \in Drained => emitted = <<>>
  /\ channel # <<>> => Roused \/ at = "recv"
  /\ at = "asleep" => ticking
  /\ at = "asleep" =>
       \A e \in timers : (until = None \/ e.due < until) => Roused

(***************************************************************************)
(* What App::update may do.                                                *)
(***************************************************************************)

\* The deadlines an application asks for make entries.
LEMMA DeadlinesAreStamps ==
  ASSUME clock \in Nat, NEW due \in Deadlines(clock),
         NEW period \in {Once, due - clock}
  PROVE  [due |-> due, period |-> period] \in Stamps
<1>1. PICK p \in Periods : due = clock + p /\ due \in 0 .. MaxTime
  BY DEF Deadlines
<1>2. p \in Nat \ {0} /\ due - clock = p
  BY <1>1, MessageAssumption
<1> QED
  BY <1>1, <1>2, MessageAssumption DEF Stamps, Once

\* An update keeps the queues' types, and pings for what it adds.
LEMMA UpdateKeeps ==
  ASSUME TypeOK, NEW ch \in Seq(Ids), NEW em \in Seq(Ids), Update(ch, em)
  PROVE  /\ channel' \in Seq(Ids) /\ emitted' \in Seq(Ids)
         /\ ping' \in BOOLEAN
         /\ timers' \subseteq Entries
         /\ next' \in 1 .. MaxIds + 1
         /\ cancelled' \subseteq Ids
         /\ channel' # ch => ping'
         /\ ping => ping'
<1> USE MessageAssumption DEF TypeOK
<1>0. next <= MaxIds => next \in Ids /\ next + 1 \in 1 .. MaxIds + 1
  BY DEF Ids
<1>1. \A s \in Seq(Ids) : next <= MaxIds => Append(s, next) \in Seq(Ids)
  BY <1>0
<1>2. \A i \in IdsOf(timers \cup batch) : i \in Ids
  BY DEF IdsOf, Entries
<1>3. ASSUME next <= MaxIds, NEW due \in Deadlines(clock),
             NEW period \in {Once, due - clock}
      PROVE  [id |-> next, due |-> due, period |-> period] \in Entries
  BY <1>0, <1>3, DeadlinesAreStamps DEF Stamps, Entries
<1>4. CASE channel' = ch /\ emitted' = em /\ UNCHANGED <<ping, timers, next, cancelled>>
  BY <1>4
<1>5. CASE /\ next <= MaxIds /\ next' = next + 1
           /\ channel' = Append(ch, next) /\ emitted' = em /\ ping' = TRUE
           /\ UNCHANGED <<timers, cancelled>>
  BY <1>0, <1>1, <1>5
<1>6. CASE /\ next <= MaxIds /\ next' = next + 1
           /\ channel' = ch /\ emitted' = Append(em, next)
           /\ UNCHANGED <<ping, timers, cancelled>>
  BY <1>0, <1>1, <1>6
<1>7. CASE /\ next <= MaxIds /\ next' = next + 1
           /\ \E due \in Deadlines(clock) :
                \E period \in {Once, due - clock} :
                  timers' = timers \cup
                    {[id |-> next, due |-> due, period |-> period]}
           /\ channel' = ch /\ emitted' = em /\ ping' = TRUE
           /\ UNCHANGED cancelled
  <2>1. timers' \subseteq Entries
    BY <1>3, <1>7
  <2> QED
    BY <1>0, <1>7, <2>1
<1>8. CASE /\ \E i \in IdsOf(timers \cup batch) :
                /\ timers' = { e \in timers : e.id # i }
                /\ cancelled' = cancelled \cup {i}
           /\ channel' = ch /\ emitted' = em
           /\ UNCHANGED <<ping, next>>
  BY <1>2, <1>8
<1> QED
  BY <1>4, <1>5, <1>6, <1>7, <1>8 DEF Update

(***************************************************************************)
(* The invariant is inductive.                                             *)
(***************************************************************************)

LEMMA InitEstablishes == Init => Inv
<1> SUFFICES ASSUME Init PROVE Inv
  OBVIOUS
<1>1. <<>> \in Seq(Ids)
  OBVIOUS
<1>2. next \in 1 .. MaxIds + 1
  BY MessageAssumption DEF Init
<1>3. /\ stamped \in [Workers -> Stamps \cup {None}]
      /\ taken \in [Ids -> Nat \cup {None}]
  BY DEF Init
<1>4. TypeOK
  BY <1>1, <1>2, <1>3 DEF Init, TypeOK, Places
<1> QED
  BY <1>4 DEF Init, Inv, Drained

LEMMA PeriodIsNat ==
  ASSUME NEW period \in Periods \cup {Once}
  PROVE  period \in Nat
BY MessageAssumption DEF Once

LEMMA EntryFields ==
  ASSUME NEW e \in Entries
  PROVE  e.id \in Ids /\ e.due \in Nat /\ e.period \in Nat
<1>1. e.id \in Ids /\ e.due \in Nat /\ e.period \in Periods \cup {Once}
  BY DEF Entries
<1> QED
  BY <1>1, PeriodIsNat

\* An entry with another deadline is an entry.
LEMMA DueMoved ==
  ASSUME NEW e \in Entries, NEW due \in Nat
  PROVE  [e EXCEPT !.due = due] \in Entries
BY DEF Entries

\* What take_due leaves of an entry is an entry.
LEMMA KeptMade ==
  ASSUME clock \in Nat, NEW e \in Entries
  PROVE  Kept(e) \subseteq Entries
<1>1. clock + e.period \in Nat
  <2>1. e.period \in Periods \cup {Once}
    BY DEF Entries
  <2>2. e.period \in Nat
    BY <2>1, PeriodIsNat
  <2> QED
    BY <2>2
<1>2. [e EXCEPT !.due = clock + e.period] \in Entries
  BY <1>1, DueMoved
<1> QED
  BY <1>2 DEF Kept

\* What schedule makes of a stamp is an entry.
LEMMA ScheduleMade ==
  ASSUME NEW i \in Ids, NEW s \in Stamps
  PROVE  [id |-> i, due |-> s.due, period |-> s.period] \in Entries
BY DEF Stamps, Entries

\* The workers' steps.
LEMMA WorkersKeep ==
  ASSUME Inv, NEW w \in Workers, Worker(w)
  PROVE  Inv'
<1>0. next <= MaxIds => next \in Ids /\ next + 1 \in 1 .. MaxIds + 1
  BY MessageAssumption DEF Ids, Inv, TypeOK
<1> USE DEF Inv, TypeOK, Drained, Roused, thread, queues, workers
<1>1. CASE Send(w)
  <2>1. next <= MaxIds /\ channel' = Append(channel, next)
    BY <1>1 DEF Send
  <2>2. channel' \in Seq(Ids)
    BY <1>0, <2>1
  <2> QED
    BY <1>0, <1>1, <2>2 DEF Send
<1>2. CASE Stamp(w)
  <2>1. stamped' \in [Workers -> Stamps \cup {None}]
    <3>1. PICK s \in Stamps : stamped' = [stamped EXCEPT ![w] = s]
      <4>1. PICK due \in Deadlines(clock) :
              \E period \in {Once, due - clock} :
                stamped' = [stamped EXCEPT ![w] = [due |-> due, period |-> period]]
        BY <1>2 DEF Stamp
      <4>2. PICK period \in {Once, due - clock} :
              stamped' = [stamped EXCEPT ![w] = [due |-> due, period |-> period]]
        BY <4>1
      <4>3. [due |-> due, period |-> period] \in Stamps
        BY DeadlinesAreStamps
      <4> QED
        BY <4>2, <4>3
    <3> QED
      BY <3>1
  <2>2. UNCHANGED <<channel, emitted, ping, timers, batch, clock, waking, at,
                    ticking, ready, until, next, heard, cancelled, taken>>
    BY <1>2 DEF Stamp
  <2> QED
    BY <2>1, <2>2
<1>3. CASE Schedule(w)
  <2>1. timers' \subseteq Entries
    <3>1. stamped[w] \in Stamps /\ next \in Ids
      BY <1>0, <1>3 DEF Schedule
    <3>2. [id |-> next, due |-> stamped[w].due, period |-> stamped[w].period]
            \in Entries
      BY <3>1, ScheduleMade
    <3> QED
      BY <1>3, <3>2 DEF Schedule
  <2>2. w \in waking'
    BY <1>3 DEF Schedule
  <2> QED
    BY <1>0, <1>3, <2>1, <2>2 DEF Schedule
<1>4. CASE Wake(w)
  BY <1>4 DEF Wake
<1>5. CASE Cancel(w)
  <2>1. \A i \in IdsOf(timers \cup batch) : i \in Ids
    BY DEF IdsOf, Entries
  <2> QED
    BY <1>5, <2>1 DEF Cancel
<1> QED
  BY <1>1, <1>2, <1>3, <1>4, <1>5 DEF Worker

LEMMA ElapseKeeps == Inv /\ Elapse => Inv'
BY DEF Elapse, Inv, TypeOK, Drained, Roused, thread, queues, workers

\* The earliest deadline is one of them, and bounds the others.
LEMMA NextDueBounds ==
  ASSUME timers \subseteq Entries, timers # {}
  PROVE  NextDue \in Nat /\ \A e \in timers : NextDue <= e.due
<1> DEFINE D == { e.due : e \in timers }
<1>1. D \subseteq Nat /\ D # {}
  BY DEF Entries
<1> DEFINE R == OpToRel(<, Nat)
<1>2. IsWellFoundedOn(R, Nat)
  BY NatLessThanWellFounded
<1>3. \A x, y \in Nat : <<x, y>> \in R <=> x < y
  BY DEF OpToRel
<1> HIDE DEF R
<1>4. PICK d \in D : \A e \in timers : d <= e.due
  <2>1. PICK d \in D : \A x \in D : ~ (<<x, d>> \in R)
    BY <1>1, <1>2, WFMin
  <2>2. \A e \in timers : ~ (e.due < d)
    BY <1>1, <1>3, <2>1
  <2>3. \A e \in timers : d <= e.due
    BY <1>1, <2>2
  <2> QED
    BY <2>3
<1>5. NextDue = CHOOSE x \in D : \A e \in timers : x <= e.due
  BY DEF NextDue
<1>6. NextDue \in D /\ \A e \in timers : NextDue <= e.due
  BY <1>4, <1>5
<1> QED
  BY <1>1, <1>6

\* The loop thread's steps that deliver a message.
LEMMA DeliveriesKeep ==
  ASSUME Inv, Receive \/ Drain \/ Deliver
  PROVE  Inv'
<1> USE MessageAssumption DEF Inv, TypeOK, Drained, Roused, Places, queues, workers
<1>1. CASE Receive
  <2>1. CASE channel = <<>>
    BY <1>1, <2>1 DEF Receive
  <2>2. CASE channel # <<>>
    <3>1. Head(channel) \in Ids /\ Tail(channel) \in Seq(Ids)
      BY <2>2, HeadTailProperties
    <3>2. /\ Update(Tail(channel), emitted) /\ at = "recv" /\ at' = "recv"
          /\ heard' = heard \cup {Head(channel)}
          /\ UNCHANGED <<clock, stamped, waking, ready, ticking, batch, until, taken>>
      BY <1>1, <2>2 DEF Receive
    <3> QED
      BY <3>1, <3>2, UpdateKeeps
  <2> QED
    BY <2>1, <2>2
<1>2. CASE Drain
  <2>1. CASE emitted = <<>>
    BY <1>2, <2>1 DEF Drain
  <2>2. CASE emitted # <<>>
    <3>1. Head(emitted) \in Ids /\ Tail(emitted) \in Seq(Ids)
      BY <2>2, HeadTailProperties
    <3>2. /\ Update(channel, Tail(emitted)) /\ at \in {"drain", "settle"} /\ at' = at
          /\ heard' = heard \cup {Head(emitted)}
          /\ UNCHANGED <<clock, stamped, waking, ready, ticking, batch, until, taken>>
      BY <1>2, <2>2 DEF Drain
    <3>3. channel' # <<>> => Roused'
      BY <3>1, <3>2, UpdateKeeps
    <3> QED
      BY <3>1, <3>2, <3>3, UpdateKeeps
  <2> QED
    BY <2>1, <2>2
<1>3. CASE Deliver
  <2>1. CASE batch = {}
    BY <1>3, <2>1 DEF Deliver
  <2>2. CASE batch # {}
    <3>1. PICK e \in batch : /\ Update(channel, emitted)
                             /\ batch' = batch \ {e}
                             /\ heard' = heard \cup {e.id}
      BY <1>3, <2>2 DEF Deliver
    <3>2. /\ at = "deliver" /\ at' = "deliver"
          /\ UNCHANGED <<clock, stamped, waking, ready, ticking, until, taken>>
      BY <1>3, <2>2 DEF Deliver
    <3>3. e.id \in Ids
      BY DEF Entries
    <3>4. channel' # <<>> => Roused'
      BY <3>1, <3>2, UpdateKeeps
    <3> QED
      BY <3>1, <3>2, <3>3, <3>4, UpdateKeeps
  <2> QED
    BY <2>1, <2>2
<1> QED
  BY <1>1, <1>2, <1>3

\* Its other steps.
LEMMA ThreadKeeps ==
  ASSUME Inv, \/ Tick \/ Input \/ Take \/ Sleep \/ Poll
              \/ OnWake \/ OnInput \/ Turn
  PROVE  Inv'
<1> USE MessageAssumption DEF Inv, TypeOK, Drained, Roused, Places, queues, workers
<1>0. next <= MaxIds => next \in Ids /\ next + 1 \in 1 .. MaxIds + 1
  BY DEF Ids
<1>1. ASSUME Tick \/ Input PROVE Inv'
  <2>1. next <= MaxIds => Append(emitted, next) \in Seq(Ids)
    BY <1>0
  <2> QED
    BY <1>0, <1>1, <2>1 DEF Tick, Input, Emit
<1>2. CASE Take
  <2>1. /\ at = "take" /\ at' \in {"dispatch", "deliver"}
        /\ at' = "dispatch" => batch' = {}
        /\ batch' \subseteq timers
        /\ timers' = UNION { Kept(e) : e \in timers }
        /\ UNCHANGED <<channel, ping, emitted, clock, stamped, waking, ready,
                       ticking, until, next, heard, cancelled>>
    BY <1>2 DEF Take
  <2>2. taken' \in [Ids -> Nat \cup {None}]
    BY <1>2 DEF Take
  <2>3. timers' \subseteq Entries
    <3>1. \A e \in timers : Kept(e) \subseteq Entries
      BY KeptMade
    <3> QED
      BY <2>1, <3>1
  <2> QED
    BY <2>1, <2>2, <2>3
<1>3. CASE Sleep
  <2>1. timers = {} => NextDue = None
    BY DEF NextDue
  <2>2. /\ NextDue \in Nat \cup {None}
        /\ NextDue # None => \A e \in timers : NextDue <= e.due
        /\ NextDue = None => timers = {}
    BY <2>1, NextDueBounds
  <2>3. \A e \in timers : ~(until' = None \/ e.due < until')
    BY <1>3, <2>2 DEF Sleep, Entries
  <2> QED
    BY <1>3, <2>2, <2>3 DEF Sleep
<1>4. CASE Poll
  <2>1. ready' \subseteq {"ping", "input"} /\ (ping => "ping" \in ready')
    BY <1>4 DEF Poll
  <2>2. ready = {}
    BY <1>4 DEF Poll
  <2> QED
    BY <1>4, <2>1, <2>2 DEF Poll
<1>5. CASE OnWake
  BY <1>5 DEF OnWake
<1>6. CASE OnInput
  BY <1>6 DEF OnInput
<1>7. CASE Turn
  BY <1>7 DEF Turn
<1> QED
  BY <1>1, <1>2, <1>3, <1>4, <1>5, <1>6, <1>7

LEMMA StutterKeeps == Inv /\ UNCHANGED vars => Inv'
BY DEF Inv, TypeOK, Drained, Roused, vars

\* Every step keeps the invariant.
LEMMA StepKeeps == Inv /\ [Next]_vars => Inv'
<1> SUFFICES ASSUME Inv, [Next]_vars PROVE Inv'
  OBVIOUS
<1>1. ASSUME NEW w \in Workers, Worker(w) PROVE Inv'
  BY <1>1, WorkersKeep
<1>2. CASE Elapse
  BY <1>2, ElapseKeeps
<1>3. CASE Loop
  BY <1>3, DeliveriesKeep, ThreadKeeps DEF Loop
<1>4. CASE UNCHANGED vars
  BY <1>4, StutterKeeps
<1> QED
  BY <1>1, <1>2, <1>3, <1>4 DEF Next

(***************************************************************************)
(* The theorems.                                                           *)
(***************************************************************************)

\* The invariant holds of every run of the message loop.
THEOREM Invariance == Spec => []Inv
BY InitEstablishes, StepKeeps, PTL DEF Spec

\* The loop, its queues and the threads keep to their types.
THEOREM TypeCorrect == Spec => []TypeOK
<1>1. Inv => TypeOK
  BY DEF Inv
<1> QED
  BY <1>1, Invariance, PTL

\* The loop of run_loop blocks in poll only when next_timeout and the Waker
\* between them account for every message and every deadline.
THEOREM LoopIsRoused == Spec => []NeverSleepsOnWork
<1>1. Inv => NeverSleepsOnWork
  BY DEF Inv, NeverSleepsOnWork, Drained
<1> QED
  BY <1>1, Invariance, PTL

(***************************************************************************)
(* Once, and no burst. A message waits in one place, and everything that   *)
(* waits or was heard is older than the next fresh message. A timer has    *)
(* one entry in the queue, beside the one in the batch if it repeats.      *)
(***************************************************************************)

Elements(s) == { s[k] : k \in 1 .. Len(s) }
Distinct(s) == \A j, k \in 1 .. Len(s) : s[j] = s[k] => j = k

OneEntry(entries) == \A e, f \in entries : e.id = f.id => e = f

Apart(ch, em, ti, ba, he, ne) ==
  /\ Distinct(ch) /\ Distinct(em)
  /\ Elements(ch) \cap Elements(em) = {}
  /\ \A e \in ti \cup ba : e.id \notin Elements(ch) \cup Elements(em)
  /\ OneEntry(ti) /\ OneEntry(ba)
  /\ \A e \in ti, f \in ba : e.id = f.id => e.period # Once /\ f.period # Once
  /\ \A i \in Elements(ch) \cup Elements(em) \cup he : i < ne
  /\ \A e \in ti \cup ba : e.id < ne
  /\ \A i \in he : i \notin Elements(ch) \cup Elements(em)
  /\ \A e \in ti \cup ba : e.period = Once => e.id \notin he

\* A repeat is due a period after it was last taken.
Spaced ==
  /\ \A i \in Ids : taken[i] # None => i < next
  /\ \A e \in timers : taken[e.id] # None => e.due >= taken[e.id] + e.period

Waiting == Apart(channel, emitted, timers, batch, heard, next)

\* What a message at the end of a queue adds to it.
LEMMA Appended ==
  ASSUME NEW s \in Seq(Ids), NEW x \in Ids, x \notin Elements(s), Distinct(s)
  PROVE  /\ Elements(Append(s, x)) = Elements(s) \cup {x}
         /\ Distinct(Append(s, x))
<1> DEFINE t == Append(s, x)
<1>1. /\ Len(t) = Len(s) + 1 /\ Len(s) \in Nat /\ t[Len(s) + 1] = x
      /\ \A k \in 1 .. Len(s) : t[k] = s[k]
  OBVIOUS
<1> HIDE DEF t
<1>2. \A k \in 1 .. Len(t) : k \in 1 .. Len(s) \/ k = Len(s) + 1
  BY <1>1
<1>3. Elements(t) = Elements(s) \cup {x}
  <2>1. Elements(t) \subseteq Elements(s) \cup {x}
    BY <1>1, <1>2 DEF Elements
  <2>2. \A k \in 1 .. Len(s) : k \in 1 .. Len(t)
    BY <1>1
  <2>3. Elements(s) \subseteq Elements(t)
    BY <1>1, <2>2 DEF Elements
  <2>4. x \in Elements(t)
    BY <1>1 DEF Elements
  <2> QED
    BY <2>1, <2>3, <2>4
<1>4. Distinct(t)
  <2> SUFFICES ASSUME NEW j \in 1 .. Len(t), NEW k \in 1 .. Len(t), t[j] = t[k]
               PROVE  j = k
    BY DEF Distinct
  <2>1. \A i \in 1 .. Len(s) : s[i] # x
    BY DEF Elements
  <2> QED
    BY <1>1, <1>2, <2>1 DEF Distinct
<1> QED
  BY <1>3, <1>4 DEF t

\* What the receipt of its first message takes from a queue.
LEMMA Received ==
  ASSUME NEW s \in Seq(Ids), s # <<>>, Distinct(s)
  PROVE  /\ Head(s) \in Elements(s)
         /\ Elements(Tail(s)) = Elements(s) \ {Head(s)}
         /\ Distinct(Tail(s))
<1> DEFINE t == Tail(s)
<1>1. /\ Len(s) \in Nat \ {0} /\ Len(t) = Len(s) - 1 /\ Head(s) = s[1]
      /\ \A k \in 1 .. Len(t) : t[k] = s[k + 1] /\ k + 1 \in 1 .. Len(s)
      /\ \A k \in 1 .. Len(s) : k # 1 => k - 1 \in 1 .. Len(t) /\ t[k - 1] = s[k]
  BY HeadTailProperties
<1> HIDE DEF t
<1>2. 1 \in 1 .. Len(s)
  BY <1>1
<1>3. Head(s) \in Elements(s)
  BY <1>1, <1>2 DEF Elements
<1>4. Elements(t) \subseteq Elements(s) \ {Head(s)}
  <2> SUFFICES ASSUME NEW k \in 1 .. Len(t) PROVE t[k] \in Elements(s) /\ t[k] # s[1]
    BY <1>1 DEF Elements
  <2>1. t[k] = s[k + 1] /\ k + 1 \in 1 .. Len(s) /\ k + 1 # 1
    BY <1>1
  <2> QED
    BY <1>2, <2>1 DEF Elements, Distinct
<1>5. Elements(s) \ {Head(s)} \subseteq Elements(t)
  BY <1>1 DEF Elements
<1>6. Distinct(t)
  <2> SUFFICES ASSUME NEW j \in 1 .. Len(t), NEW k \in 1 .. Len(t), t[j] = t[k]
               PROVE  j = k
    BY DEF Distinct
  <2>1. j + 1 = k + 1
    BY <1>1 DEF Distinct
  <2> QED
    BY <2>1
<1> QED
  BY <1>3, <1>4, <1>5, <1>6 DEF t

LEMMA ElementsAreIds ==
  ASSUME NEW s \in Seq(Ids)
  PROVE  Elements(s) \subseteq Ids
BY DEF Elements

LEMMA FreshIsId ==
  ASSUME TypeOK
  PROVE  next \in Nat /\ (next <= MaxIds => next \in Ids)
<1>1. next \in 1 .. MaxIds + 1
  BY DEF TypeOK
<1> QED
  BY <1>1, MessageAssumption DEF Ids

\* App::update adds a fresh message to one place at most, or takes a timer away.
LEMMA UpdateApart ==
  ASSUME TypeOK, NEW ch \in Seq(Ids), NEW em \in Seq(Ids), NEW he \in SUBSET Ids,
         NEW ba \in SUBSET batch, Apart(ch, em, timers, ba, he, next), Update(ch, em)
  PROVE  Apart(channel', emitted', timers', ba, he, next')
<1>0. /\ timers \subseteq Entries /\ ba \subseteq Entries /\ next \in Nat
      /\ next <= MaxIds => next \in Ids
      /\ \A e \in Entries : e.id \in Nat
      /\ \A i \in Ids : i \in Nat
      /\ Elements(ch) \subseteq Ids /\ Elements(em) \subseteq Ids
  <2>1. timers \subseteq Entries /\ ba \subseteq Entries
    BY DEF TypeOK
  <2> QED
    BY <2>1, FreshIsId, EntryFields, ElementsAreIds DEF Ids
<1>a. next \notin Elements(ch) \cup Elements(em) \cup he
  BY <1>0 DEF Apart
<1>b. \A e \in timers \cup ba : e.id # next
  BY <1>0 DEF Apart
<1>c. \A i \in Nat : i < next => i < next + 1
  BY <1>0
<1>1. CASE channel' = ch /\ emitted' = em /\ UNCHANGED <<ping, timers, next, cancelled>>
  BY <1>1
<1>2. CASE /\ next <= MaxIds /\ next' = next + 1
           /\ channel' = Append(ch, next) /\ emitted' = em /\ ping' = TRUE
           /\ UNCHANGED <<timers, cancelled>>
  <2>1. Elements(channel') = Elements(ch) \cup {next} /\ Distinct(channel')
    BY <1>0, <1>2, <1>a, Appended DEF Apart
  <2> QED
    BY <1>0, <1>2, <1>a, <1>b, <1>c, <2>1 DEF Apart
<1>3. CASE /\ next <= MaxIds /\ next' = next + 1
           /\ channel' = ch /\ emitted' = Append(em, next)
           /\ UNCHANGED <<ping, timers, cancelled>>
  <2>1. Elements(emitted') = Elements(em) \cup {next} /\ Distinct(emitted')
    BY <1>0, <1>3, <1>a, Appended DEF Apart
  <2> QED
    BY <1>0, <1>3, <1>a, <1>b, <1>c, <2>1 DEF Apart
<1>4. ASSUME next <= MaxIds, next' = next + 1, channel' = ch, emitted' = em,
             NEW d, d.id = next, timers' = timers \cup {d}
      PROVE  Apart(channel', emitted', timers', ba, he, next')
  BY <1>0, <1>4, <1>a, <1>b, <1>c DEF Apart, OneEntry
<1>5. CASE /\ next <= MaxIds /\ next' = next + 1
           /\ \E due \in Deadlines(clock) :
                \E period \in {Once, due - clock} :
                  timers' = timers \cup
                    {[id |-> next, due |-> due, period |-> period]}
           /\ channel' = ch /\ emitted' = em /\ ping' = TRUE
           /\ UNCHANGED cancelled
  <2>1. PICK due, period :
          timers' = timers \cup {[id |-> next, due |-> due, period |-> period]}
    BY <1>5
  <2> QED
    BY <1>4, <1>5, <2>1
<1>6. CASE /\ \E i \in IdsOf(timers \cup batch) :
                /\ timers' = { e \in timers : e.id # i }
                /\ cancelled' = cancelled \cup {i}
           /\ channel' = ch /\ emitted' = em
           /\ UNCHANGED <<ping, next>>
  BY <1>6 DEF Apart, OneEntry
<1> QED
  BY <1>1, <1>2, <1>3, <1>5, <1>6 DEF Update

\* The three places a message is delivered from.
LEMMA DeliveriesApart ==
  ASSUME Inv, Waiting, Receive \/ Drain \/ Deliver
  PROVE  Waiting'
<1>0. /\ TypeOK /\ channel \in Seq(Ids) /\ emitted \in Seq(Ids) /\ heard \in SUBSET Ids
      /\ batch \in SUBSET Entries
  BY DEF Inv, TypeOK
<1>1. CASE Receive
  <2>1. CASE channel = <<>>
    BY <1>1, <2>1 DEF Receive, Waiting, queues
  <2>2. CASE channel # <<>>
    <3> DEFINE he == heard \cup {Head(channel)}
    <3>1. /\ Update(Tail(channel), emitted) /\ heard' = he /\ batch' = batch
      BY <1>1, <2>2 DEF Receive
    <3>2. /\ Head(channel) \in Ids /\ Tail(channel) \in Seq(Ids)
      BY <1>0, <2>2, HeadTailProperties
    <3>3. /\ Head(channel) \in Elements(channel) /\ Distinct(Tail(channel))
          /\ Elements(Tail(channel)) = Elements(channel) \ {Head(channel)}
      BY <1>0, <2>2, Received DEF Waiting, Apart
    <3>4. Apart(Tail(channel), emitted, timers, batch, he, next)
      BY <3>3 DEF Waiting, Apart
    <3>5. Apart(channel', emitted', timers', batch, he, next')
      BY <1>0, <3>1, <3>2, <3>4, UpdateApart
    <3> QED
      BY <3>1, <3>5 DEF Waiting
  <2> QED
    BY <2>1, <2>2
<1>2. CASE Drain
  <2>1. CASE emitted = <<>>
    BY <1>2, <2>1 DEF Drain, Waiting, queues
  <2>2. CASE emitted # <<>>
    <3> DEFINE he == heard \cup {Head(emitted)}
    <3>1. /\ Update(channel, Tail(emitted)) /\ heard' = he /\ batch' = batch
      BY <1>2, <2>2 DEF Drain
    <3>2. /\ Head(emitted) \in Ids /\ Tail(emitted) \in Seq(Ids)
      BY <1>0, <2>2, HeadTailProperties
    <3>3. /\ Head(emitted) \in Elements(emitted) /\ Distinct(Tail(emitted))
          /\ Elements(Tail(emitted)) = Elements(emitted) \ {Head(emitted)}
      BY <1>0, <2>2, Received DEF Waiting, Apart
    <3>4. Apart(channel, Tail(emitted), timers, batch, he, next)
      BY <3>3 DEF Waiting, Apart
    <3>5. Apart(channel', emitted', timers', batch, he, next')
      BY <1>0, <3>1, <3>2, <3>4, UpdateApart
    <3> QED
      BY <3>1, <3>5 DEF Waiting
  <2> QED
    BY <2>1, <2>2
<1>3. CASE Deliver
  <2>1. CASE batch = {}
    BY <1>3, <2>1 DEF Deliver, Waiting, queues
  <2>2. CASE batch # {}
    <3>1. PICK e \in batch : /\ Update(channel, emitted)
                             /\ batch' = batch \ {e}
                             /\ heard' = heard \cup {e.id}
      BY <1>3, <2>2 DEF Deliver
    <3>2. e.id \in Ids
      BY <1>0 DEF Entries
    <3>3. Apart(channel, emitted, timers, batch \ {e}, heard \cup {e.id}, next)
      BY DEF Waiting, Apart, OneEntry
    <3>4. Apart(channel', emitted', timers', batch \ {e}, heard \cup {e.id}, next')
      BY <1>0, <3>1, <3>2, <3>3, UpdateApart
    <3> QED
      BY <3>1, <3>4 DEF Waiting
  <2> QED
    BY <2>1, <2>2
<1> QED
  BY <1>1, <1>2, <1>3
\* Every other step but Take leaves the batch, and adds at most a fresh message.
LEMMA OthersApart ==
  ASSUME Inv, Waiting,
         \/ Elapse \/ (\E w \in Workers : Worker(w)) \/ UNCHANGED vars
         \/ Tick \/ Input \/ Sleep \/ Poll \/ OnWake \/ OnInput \/ Turn
  PROVE  Waiting'
<1>0. /\ timers \subseteq Entries /\ batch \subseteq Entries /\ next \in Nat
      /\ channel \in Seq(Ids) /\ emitted \in Seq(Ids)
      /\ next <= MaxIds => next \in Ids
      /\ \A e \in Entries : e.id \in Nat
      /\ \A i \in Ids : i \in Nat
      /\ Elements(channel) \subseteq Ids /\ Elements(emitted) \subseteq Ids
      /\ heard \subseteq Ids
  <2>1. /\ timers \subseteq Entries /\ batch \subseteq Entries /\ heard \subseteq Ids
        /\ channel \in Seq(Ids) /\ emitted \in Seq(Ids) /\ TypeOK
    BY DEF Inv, TypeOK
  <2> QED
    BY <2>1, FreshIsId, EntryFields, ElementsAreIds DEF Ids
<1>a. next \notin Elements(channel) \cup Elements(emitted) \cup heard
  BY <1>0 DEF Waiting, Apart
<1>b. \A e \in timers \cup batch : e.id # next
  BY <1>0 DEF Waiting, Apart
<1>c. \A i \in Nat : i < next => i < next + 1
  BY <1>0
<1>1. ASSUME UNCHANGED <<channel, emitted, timers, batch, heard, next>>
      PROVE  Waiting'
  BY <1>1 DEF Waiting
<1>2. ASSUME NEW w \in Workers, Send(w) PROVE Waiting'
  <2>1. /\ next <= MaxIds /\ channel' = Append(channel, next) /\ next' = next + 1
        /\ UNCHANGED <<emitted, timers, batch, heard>>
    BY <1>2 DEF Send, thread
  <2>2. Elements(channel') = Elements(channel) \cup {next} /\ Distinct(channel')
    BY <1>0, <1>a, <2>1, Appended DEF Waiting, Apart
  <2> QED
    BY <1>0, <1>a, <1>b, <1>c, <2>1, <2>2 DEF Waiting, Apart
<1>3. ASSUME NEW w \in Workers, Schedule(w) PROVE Waiting'
  <2> DEFINE d == [id |-> next, due |-> stamped[w].due, period |-> stamped[w].period]
  <2>1. /\ next' = next + 1 /\ timers' = timers \cup {d}
        /\ UNCHANGED <<channel, emitted, batch, heard>>
    BY <1>3 DEF Schedule, thread
  <2>2. d.id = next
    OBVIOUS
  <2> HIDE DEF d
  <2> QED
    BY <1>0, <1>a, <1>b, <1>c, <2>1, <2>2 DEF Waiting, Apart, OneEntry
<1>4. ASSUME NEW w \in Workers, Cancel(w) PROVE Waiting'
  <2>1. /\ timers' \subseteq timers
        /\ UNCHANGED <<channel, emitted, batch, heard, next>>
    BY <1>4 DEF Cancel, thread
  <2> QED
    BY <2>1 DEF Waiting, Apart, OneEntry
<1>5. ASSUME NEW w \in Workers, Stamp(w) \/ Wake(w) PROVE Waiting'
  BY <1>1, <1>5 DEF Stamp, Wake, queues, thread
<1>6. ASSUME Tick \/ Input PROVE Waiting'
  <2>1. /\ UNCHANGED <<channel, timers, batch, heard>>
        /\ \/ UNCHANGED <<emitted, next>>
           \/ next <= MaxIds /\ next' = next + 1 /\ emitted' = Append(emitted, next)
    BY <1>6 DEF Tick, Input, Emit
  <2>2. CASE UNCHANGED <<emitted, next>>
    BY <1>1, <2>1, <2>2
  <2>3. CASE next <= MaxIds /\ next' = next + 1 /\ emitted' = Append(emitted, next)
    <3>1. Elements(emitted') = Elements(emitted) \cup {next} /\ Distinct(emitted')
      BY <1>0, <1>a, <2>3, Appended DEF Waiting, Apart
    <3> QED
      BY <1>0, <1>a, <1>b, <1>c, <2>1, <2>3, <3>1 DEF Waiting, Apart
  <2> QED
    BY <2>1, <2>2, <2>3
<1>7. ASSUME Elapse \/ Sleep \/ Poll \/ OnWake \/ OnInput \/ Turn \/ UNCHANGED vars
      PROVE  Waiting'
  BY <1>1, <1>7 DEF Elapse, Sleep, Poll, OnWake, OnInput, Turn, queues, thread, vars
<1> QED
  BY <1>2, <1>3, <1>4, <1>5, <1>6, <1>7 DEF Worker

\* take_due moves an entry to the batch, and a repeat leaves one behind.
LEMMA TakeApart ==
  ASSUME Inv, Waiting, Take
  PROVE  Waiting'
<1> DEFINE ripe == { e \in timers : e.due <= clock }
<1>0. /\ timers \subseteq Entries /\ clock \in Nat
      /\ \A e \in Entries : e.due \in Nat
  BY DEF Inv, TypeOK, Entries
<1>1. /\ batch' = ripe /\ timers' = UNION { Kept(e) : e \in timers }
      /\ UNCHANGED <<channel, emitted, next, heard>>
  BY DEF Take
<1>2. \A f \in timers' : \E e \in timers :
        f \in Kept(e) /\ f.id = e.id /\ f.period = e.period
  <2> SUFFICES ASSUME NEW e \in timers, NEW f \in Kept(e)
               PROVE  f.id = e.id /\ f.period = e.period
    BY <1>1
  <2>1. e \in Entries
    BY <1>0
  <2>2. \A d : [e EXCEPT !.due = d].id = e.id /\ [e EXCEPT !.due = d].period = e.period
    BY <2>1 DEF Entries
  <2> QED
    BY <2>2 DEF Kept
<1>3. \A e \in timers : \A f, g \in Kept(e) : f = g
  BY DEF Kept
<1>4. OneEntry(timers')
  BY <1>2, <1>3 DEF Waiting, Apart, OneEntry
<1>5. \A e \in ripe : e.period = Once => Kept(e) = {}
  BY <1>0 DEF Kept
<1>6. \A f \in timers', e \in ripe : f.id = e.id => f.period # Once /\ e.period # Once
  <2> SUFFICES ASSUME NEW f \in timers', NEW e \in ripe, f.id = e.id
               PROVE  f.period # Once /\ e.period # Once
    OBVIOUS
  <2>1. PICK g \in timers : f \in Kept(g) /\ f.id = g.id /\ f.period = g.period
    BY <1>2
  <2>2. g = e
    BY <2>1 DEF Waiting, Apart, OneEntry
  <2> QED
    BY <1>5, <2>1, <2>2
<1>7. batch' \subseteq timers /\ OneEntry(batch')
  BY <1>1 DEF Waiting, Apart, OneEntry
<1>8. \A f \in timers' \cup batch' : \E e \in timers : f.id = e.id /\ f.period = e.period
  BY <1>2, <1>7
<1> HIDE DEF ripe
<1> QED
  BY <1>1, <1>4, <1>6, <1>7, <1>8 DEF Waiting, Apart

\* Spacing: only Take sets when a timer was taken, and a fresh one never was.
LEMMA StepSpaced ==
  ASSUME Inv, Waiting, Spaced, [Next]_vars
  PROVE  Spaced'
<1>0. /\ timers \subseteq Entries /\ clock \in Nat /\ next \in Nat /\ None \notin Int
      /\ taken \in [Ids -> Nat \cup {None}] /\ (next <= MaxIds => next \in Ids)
      /\ \A e \in Entries : e.id \in Ids /\ e.due \in Nat /\ e.period \in Nat
      /\ \A i \in Ids : i \in Nat
  <2>1. \A e \in Entries : e.id \in Ids /\ e.due \in Nat /\ e.period \in Nat
    BY EntryFields
  <2>2. /\ timers \subseteq Entries /\ clock \in Nat /\ next \in 1 .. MaxIds + 1
        /\ taken \in [Ids -> Nat \cup {None}]
    BY DEF Inv, TypeOK
  <2> QED
    BY <2>1, <2>2, MessageAssumption DEF Ids
<1>1. CASE Take
  <2> DEFINE ripe == { e \in timers : e.due <= clock }
  <2>1. /\ timers' = UNION { Kept(e) : e \in timers } /\ next' = next
        /\ taken' = [i \in Ids |-> IF i \in IdsOf(ripe) THEN clock ELSE taken[i]]
    BY <1>1 DEF Take
  <2>2. \A i \in Ids : taken'[i] # None => i < next'
    BY <2>1 DEF Spaced, Waiting, Apart, IdsOf
  <2>3. ASSUME NEW e \in timers, NEW f \in Kept(e), taken'[f.id] # None
        PROVE  f.due >= taken'[f.id] + f.period
    <3>1. CASE e.due > clock
      <4>1. f = e
        BY <2>3, <3>1 DEF Kept
      <4>2. e.id \notin IdsOf(ripe)
        BY <1>0, <3>1 DEF IdsOf, Waiting, Apart, OneEntry
      <4>3. taken'[e.id] = taken[e.id]
        BY <1>0, <2>1, <4>2
      <4> QED
        BY <2>3, <4>1, <4>3 DEF Spaced
    <3>2. CASE ~(e.due > clock)
      <4>1. e \in ripe /\ e \in Entries
        BY <1>0, <3>2
      <4>2. f = [e EXCEPT !.due = clock + e.period]
        BY <2>3, <3>2 DEF Kept
      <4>3. f.due = clock + e.period /\ f.id = e.id /\ f.period = e.period
        BY <4>1, <4>2 DEF Entries
      <4>4. taken'[e.id] = clock
        BY <1>0, <2>1, <4>1 DEF IdsOf
      <4> QED
        BY <1>0, <4>1, <4>3, <4>4
    <3> QED
      BY <3>1, <3>2
  <2> QED
    BY <2>1, <2>2, <2>3 DEF Spaced
<1>2. ASSUME taken' = taken, next' \in {next, next + 1},
             \A e \in timers' \ timers : e.id = next /\ next <= MaxIds
      PROVE  Spaced'
  <2>1. next \in Ids => taken[next] = None
    BY <1>0 DEF Spaced
  <2>2. \A i \in Ids : taken'[i] # None => i < next'
    BY <1>0, <1>2 DEF Spaced
  <2>3. \A e \in timers' : e \notin timers => taken[e.id] = None
    BY <1>0, <1>2, <2>1
  <2> QED
    BY <1>2, <2>2, <2>3 DEF Spaced
<1>3. ASSUME NEW ch, NEW em, Update(ch, em), taken' = taken PROVE Spaced'
  <2>1. /\ next' \in {next, next + 1}
        /\ \A e \in timers' \ timers : e.id = next /\ next <= MaxIds
    BY <1>3 DEF Update
  <2> QED
    BY <1>2, <1>3, <2>1
<1>4. ASSUME Receive \/ Drain \/ Deliver PROVE Spaced'
  BY <1>2, <1>3, <1>4 DEF Receive, Drain, Deliver, queues
<1>5. ASSUME \E w \in Workers : Worker(w) PROVE Spaced'
  <2>1. PICK w \in Workers : Worker(w)
    BY <1>5
  <2>2. CASE Schedule(w)
    BY <1>2, <2>2 DEF Schedule
  <2>3. CASE Send(w) \/ Stamp(w) \/ Wake(w) \/ Cancel(w)
    BY <1>2, <2>3 DEF Send, Stamp, Wake, Cancel, queues
  <2> QED
    BY <2>1, <2>2, <2>3 DEF Worker
<1>6. ASSUME Tick \/ Input \/ Sleep \/ Poll \/ OnWake \/ OnInput \/ Turn
      PROVE  Spaced'
  BY <1>2, <1>6 DEF Tick, Input, Emit, Sleep, Poll, OnWake, OnInput, Turn, queues
<1>7. ASSUME Elapse \/ UNCHANGED vars PROVE Spaced'
  BY <1>2, <1>7 DEF Elapse, queues, vars
<1> QED
  BY <1>1, <1>4, <1>5, <1>6, <1>7 DEF Next, Loop

LEMMA InitApart == Init => Waiting /\ Spaced
<1> SUFFICES ASSUME Init PROVE Waiting /\ Spaced
  OBVIOUS
<1>1. Elements(<<>>) = {} /\ Distinct(<<>>)
  BY DEF Elements, Distinct
<1> QED
  BY <1>1 DEF Init, Waiting, Apart, OneEntry, Spaced

LEMMA StepApart == Inv /\ Waiting /\ Spaced /\ [Next]_vars => (Waiting /\ Spaced)'
BY DeliveriesApart, OthersApart, TakeApart, StepSpaced DEF Next, Loop

LEMMA InvarianceApart == Spec => [](Inv /\ Waiting /\ Spaced)
BY InitApart, StepApart, Invariance, PTL DEF Spec

\* No message is delivered a second time: nothing the loop, the queue of timers
\* or the channel holds was heard before, but for a repeating timer.
THEOREM HeardOnce == Spec => []DeliveredOnce
<1>1. Inv /\ Waiting => DeliveredOnce
  BY DEF Waiting, Apart, DeliveredOnce, InChannel, InEmitted, Elements, OneShots, IdsOf
<1> QED
  BY <1>1, InvarianceApart, PTL

\* However late the loop is, service_timers takes a repeating timer once a
\* period at most.
THEOREM OneAPeriod == Spec => NoBurst
<1> DEFINE Late(e) == (batch = {} /\ e.id \in IdsOf(batch')) /\ taken[e.id] # None
<1>1. Inv /\ Waiting /\ Spaced /\ [Next]_vars =>
        [\A e \in timers : Late(e) => clock >= taken[e.id] + e.period]_vars
  <2> SUFFICES ASSUME Inv, Waiting, Spaced, Next, NEW e \in timers, Late(e)
               PROVE  clock >= taken[e.id] + e.period
    OBVIOUS
  <2>1. Take
    <3>1. batch' # {}
      BY DEF IdsOf
    <3>2. batch' = batch \/ Take \/ (batch # {} /\ Deliver)
      BY DEF Next, Loop, Elapse, Worker, Send, Stamp, Schedule, Wake, Cancel, Tick, Input,
             Emit, Receive, Drain, Deliver, Sleep, Poll, OnWake, OnInput, Turn, thread
    <3> QED
      BY <3>1, <3>2
  <2>2. PICK f \in timers : f.due <= clock /\ f.id = e.id
    BY <2>1 DEF Take, IdsOf
  <2>3. f = e
    BY <2>2 DEF Waiting, Apart, OneEntry
  <2>4. e.due >= taken[e.id] + e.period
    BY DEF Spaced
  <2>5. /\ e.due \in Nat /\ e.period \in Nat /\ clock \in Nat /\ e.id \in Ids
        /\ taken[e.id] \in Nat
    BY EntryFields DEF Inv, TypeOK
  <2> QED
    BY <2>2, <2>3, <2>4, <2>5
<1>2. NoBurst <=> [][\A e \in timers : Late(e) => clock >= taken[e.id] + e.period]_vars
  BY DEF NoBurst
<1> QED
  BY <1>1, <1>2, InvarianceApart, PTL DEF Spec
==============================================================================
