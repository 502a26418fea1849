------------------------------ MODULE MessageLoop ------------------------------
(***************************************************************************)
(* How a message reaches App::update: the Proxy a worker thread holds, the *)
(* timer queue both threads lock, the ping that ends the loop's sleep, and *)
(* the messages widgets emit (src/fbui/src/run.rs, src/fbui/src/timer.rs,  *)
(* Waker in src/fbui-platform/src/event_loop.rs).                          *)
(*                                                                         *)
(* A step is what one thread does between two points where the other can   *)
(* get in: a channel operation, a critical section of the timer queue, a   *)
(* ping. Time is a count of ticks, which threads read.                     *)
(***************************************************************************)
EXTENDS Integers, Sequences, FiniteSets

CONSTANTS Workers,    \* background threads holding a Proxy
          MaxIds,     \* bound: messages ever sent, timers armed included
          MaxTime,    \* bound: the clock stops here
          Periods,    \* periods and delays an application asks for
          None        \* no instant

ASSUME MessageAssumption == /\ MaxIds \in Nat
                            /\ MaxTime \in Nat
                            /\ Periods \subseteq Nat \ {0}
                            /\ None \notin Int

VARIABLES
  channel,   \* the mpsc channel behind Proxy: messages not yet received
  ping,      \* the waker's ping: raised and not yet read
  timers,    \* TimerQueue: the entries; insertion order is the order of ids
  emitted,   \* Ui: messages widgets emitted and no one took
  clock,     \* Instant::now()
  stamped,   \* what a worker read the clock for, before it takes the lock
  waking,    \* workers that queued something and have yet to ping
  at,        \* where the loop thread is
  ticking,   \* the loop is in handler.tick, not in a callback of a dispatch
  ready,     \* what the current dispatch found ready and has yet to call
  batch,     \* ripe entries service_timers took and has yet to deliver
  until,     \* the deadline poll sleeps towards
  next,      \* the next fresh message
  heard,     \* history: messages delivered to App::update
  cancelled, \* history: timers cancelled before their message was delivered
  taken      \* history: when a timer was last taken

vars == <<channel, ping, timers, emitted, clock, stamped, waking, at, ticking,
          ready, batch, until, next, heard, cancelled, taken>>

queues == <<channel, timers, emitted, next, cancelled>>
workers == <<stamped, waking>>
thread == <<at, ready, ticking, batch, until>>

Ids == 1 .. MaxIds
Once == 0                      \* the period of a one-shot

Stamps == [due : Nat, period : Periods \cup {Once}]
Entries == [id : Ids, due : Nat, period : Periods \cup {Once}]

\* The loop thread's places: in tick; receiving in on_wake; handling input; in
\* drain_messages before and after the timers; in service_timers; between
\* callbacks of one dispatch; and blocked in poll.
Places == {"tick", "recv", "input", "drain", "take", "deliver", "settle",
           "dispatch", "asleep"}

TypeOK ==
  /\ channel \in Seq(Ids) /\ emitted \in Seq(Ids)
  /\ ping \in BOOLEAN
  /\ timers \subseteq Entries /\ batch \subseteq Entries
  /\ clock \in Nat
  /\ stamped \in [Workers -> Stamps \cup {None}]
  /\ waking \subseteq Workers
  /\ at \in Places /\ ticking \in BOOLEAN
  /\ ready \subseteq {"ping", "input"}
  /\ until \in Nat \cup {None}
  /\ next \in 1 .. MaxIds + 1
  /\ heard \subseteq Ids /\ cancelled \subseteq Ids
  /\ taken \in [Ids -> Nat \cup {None}]
  /\ at # "asleep" => until = None
  /\ at # "deliver" => batch = {}
  /\ ticking => ready = {}

Init ==
  /\ channel = <<>> /\ emitted = <<>>
  /\ ping = FALSE
  /\ timers = {} /\ batch = {}
  /\ clock = 0
  /\ stamped = [w \in Workers |-> None]
  /\ waking = {}
  /\ at = "tick" /\ ticking = TRUE
  /\ ready = {}
  /\ until = None
  /\ next = 1
  /\ heard = {} /\ cancelled = {}
  /\ taken = [i \in Ids |-> None]

IdsOf(entries) == { e.id : e \in entries }

\* Deadlines the application may ask for at a given instant.
Deadlines(now) == { now + p : p \in Periods } \cap 0 .. MaxTime

(***************************************************************************)
(* Worker threads.                                                         *)
(***************************************************************************)

Idle(w) == stamped[w] = None /\ w \notin waking

\* Proxy::send: the message is in the channel before the ping is raised.
Send(w) ==
  /\ Idle(w) /\ next <= MaxIds
  /\ channel' = Append(channel, next)
  /\ next' = next + 1
  /\ waking' = waking \cup {w}
  /\ UNCHANGED <<ping, timers, emitted, clock, stamped, heard, cancelled,
                  taken, thread>>

\* Proxy::send_after and send_every: the clock is read before the lock.
Stamp(w) ==
  /\ Idle(w)
  /\ \E due \in Deadlines(clock) :
       \E period \in {Once, due - clock} :
         stamped' = [stamped EXCEPT ![w] = [due |-> due, period |-> period]]
  /\ UNCHANGED <<queues, ping, clock, waking, heard, taken, thread>>

\* Mutant of Schedule: the loop is not told of the new deadline.
ScheduleUnannounced(w) ==
  /\ stamped[w] # None /\ next <= MaxIds
  /\ timers' = timers \cup
       {[id |-> next, due |-> stamped[w].due, period |-> stamped[w].period]}
  /\ next' = next + 1
  /\ stamped' = [stamped EXCEPT ![w] = None]
  /\ UNCHANGED <<channel, ping, emitted, clock, waking, heard, cancelled,
                  taken, thread>>

\* TimerQueue::schedule, under the lock.
Schedule(w) ==
  /\ stamped[w] # None /\ next <= MaxIds
  /\ timers' = timers \cup
       {[id |-> next, due |-> stamped[w].due, period |-> stamped[w].period]}
  /\ next' = next + 1
  /\ stamped' = [stamped EXCEPT ![w] = None]
  /\ waking' = waking \cup {w}
  /\ UNCHANGED <<channel, ping, emitted, clock, heard, cancelled, taken,
                  thread>>

\* Waker::wake.
Wake(w) ==
  /\ w \in waking
  /\ ping' = TRUE
  /\ waking' = waking \ {w}
  /\ UNCHANGED <<queues, clock, stamped, heard, taken, thread>>

\* Timer::cancel removes the entry if the queue still holds it. Cancelling a
\* one-shot that was delivered does nothing and is left out.
Cancel(w) ==
  /\ Idle(w)
  /\ \E i \in IdsOf(timers \cup batch) :
       /\ timers' = { e \in timers : e.id # i }
       /\ cancelled' = cancelled \cup {i}
  /\ UNCHANGED <<channel, ping, emitted, clock, workers, next, heard, taken,
                  thread>>

(***************************************************************************)
(* The loop thread.                                                        *)
(***************************************************************************)

\* App::update on one message, the channel and the widget messages being ch and
\* em once the message is out of them. It may use the Proxy, its timers, or
\* make a widget emit a message.
Update(ch, em) ==
  \/ /\ channel' = ch /\ emitted' = em
     /\ UNCHANGED <<ping, timers, next, cancelled>>
  \/ /\ next <= MaxIds /\ next' = next + 1
     /\ channel' = Append(ch, next) /\ emitted' = em /\ ping' = TRUE
     /\ UNCHANGED <<timers, cancelled>>
  \/ /\ next <= MaxIds /\ next' = next + 1
     /\ channel' = ch /\ emitted' = Append(em, next)
     /\ UNCHANGED <<ping, timers, cancelled>>
  \/ /\ next <= MaxIds /\ next' = next + 1
     /\ \E due \in Deadlines(clock) :
          \E period \in {Once, due - clock} :
            timers' = timers \cup
              {[id |-> next, due |-> due, period |-> period]}
     /\ channel' = ch /\ emitted' = em /\ ping' = TRUE
     /\ UNCHANGED cancelled
  \/ /\ \E i \in IdsOf(timers \cup batch) :
          /\ timers' = { e \in timers : e.id # i }
          /\ cancelled' = cancelled \cup {i}
     /\ channel' = ch /\ emitted' = em
     /\ UNCHANGED <<ping, next>>

\* Widgets emit at most one message here, in tick's animation or on an input.
Emit(place) ==
  /\ at = place
  /\ at' = IF place = "input" THEN "settle" ELSE "drain"
  /\ \/ UNCHANGED <<emitted, next>>
     \/ /\ next <= MaxIds /\ next' = next + 1
        /\ emitted' = Append(emitted, next)
  /\ UNCHANGED <<channel, ping, timers, clock, workers, ready, ticking, batch,
                  until, heard, cancelled, taken>>

\* Runner::tick, as far as its animations.
Tick == Emit("tick")

\* Runner::dispatch of an input event.
Input == Emit("input")

\* Mutant of Receive: one message a wake, though wakes coalesce.
ReceiveOne ==
  /\ at = "recv"
  /\ at' = "drain"
  /\ IF channel = <<>>
       THEN UNCHANGED <<queues, ping, heard>>
       ELSE /\ Update(Tail(channel), emitted)
            /\ heard' = heard \cup {Head(channel)}
  /\ UNCHANGED <<clock, workers, ready, ticking, batch, until, taken>>

\* One turn of on_wake's loop over try_recv.
Receive ==
  /\ at = "recv"
  /\ IF channel = <<>>
       THEN /\ at' = "drain"
            /\ UNCHANGED <<queues, ping, heard>>
       ELSE /\ Update(Tail(channel), emitted)
            /\ heard' = heard \cup {Head(channel)}
            /\ at' = at
  /\ UNCHANGED <<clock, workers, ready, ticking, batch, until, taken>>

\* One turn of drain_messages: with nothing left the caller goes on.
Drain ==
  /\ at \in {"drain", "settle"}
  /\ IF emitted = <<>>
       THEN /\ at' = IF at = "drain" THEN "take" ELSE "dispatch"
            /\ UNCHANGED <<queues, ping, heard>>
       ELSE /\ Update(channel, Tail(emitted))
            /\ heard' = heard \cup {Head(emitted)}
            /\ at' = at
  /\ UNCHANGED <<clock, workers, ready, ticking, batch, until, taken>>

\* Mutants of Kept: a one-shot is not removed; a repeat keeps its rate.
KeptOneShot(e) ==
  IF e.due > clock \/ e.period = Once THEN {e}
  ELSE {[e EXCEPT !.due = clock + e.period]}
KeptRate(e) ==
  IF e.due > clock THEN {e}
  ELSE IF e.period = Once THEN {} ELSE {[e EXCEPT !.due = e.due + e.period]}

\* TimerQueue::take_due: what an entry leaves in the queue. A repeat is due a
\* period from now, not from when it was due.
Kept(e) ==
  IF e.due > clock THEN {e}
  ELSE IF e.period = Once THEN {} ELSE {[e EXCEPT !.due = clock + e.period]}

\* Runner::service_timers: the ripe entries leave the queue under the lock.
Take ==
  /\ at = "take"
  /\ LET ripe == { e \in timers : e.due <= clock }
     IN  /\ batch' = ripe
         /\ timers' = UNION { Kept(e) : e \in timers }
         /\ at' = IF ripe = {} THEN "dispatch" ELSE "deliver"
         /\ taken' = [i \in Ids |->
                        IF i \in IdsOf(ripe) THEN clock ELSE taken[i]]
  /\ UNCHANGED <<channel, ping, emitted, clock, workers, ready, ticking, until,
                  next, heard, cancelled>>

\* The earliest deadline first; entries that tie go in insertion order.
Before(e, f) == e.due < f.due \/ (e.due = f.due /\ e.id <= f.id)

\* One turn of service_timers' loop; the batch ends in drain_messages.
Deliver ==
  /\ at = "deliver"
  /\ IF batch = {}
       THEN /\ at' = "settle"
            /\ UNCHANGED <<queues, ping, batch, heard>>
       ELSE \E e \in batch :
              /\ \A f \in batch : Before(e, f)
              /\ Update(channel, emitted)
              /\ batch' = batch \ {e}
              /\ heard' = heard \cup {e.id}
              /\ at' = at
  /\ UNCHANGED <<clock, workers, ready, ticking, until, taken>>

\* Runner::next_timeout, as far as the timers.
NextDue ==
  IF timers = {} THEN None
  ELSE CHOOSE d \in { e.due : e \in timers } : \A e \in timers : d <= e.due

\* The sleep starts with a tick's end: the loop has bounded it.
Sleep ==
  /\ at = "dispatch" /\ ready = {} /\ ticking
  /\ at' = "asleep"
  /\ until' = NextDue
  /\ UNCHANGED <<queues, ping, clock, workers, ready, ticking, batch, heard,
                  taken>>

\* poll returns: a source is ready, the deadline passed, or the hotplug
\* backstop did, which comes within a second whatever the handler asked for.
Poll ==
  /\ at = "asleep"
  /\ \E input \in BOOLEAN :
       ready' = { source \in {"ping", "input"} :
                    IF source = "ping" THEN ping ELSE input }
  /\ at' = "dispatch"
  /\ ticking' = FALSE
  /\ until' = None
  /\ UNCHANGED <<queues, ping, clock, workers, batch, heard, taken>>

\* The ping source is read, then LoopState::on_wake_ready called.
OnWake ==
  /\ at = "dispatch" /\ "ping" \in ready
  /\ ping' = FALSE
  /\ ready' = ready \ {"ping"}
  /\ at' = "recv"
  /\ UNCHANGED <<queues, clock, workers, ticking, batch, until, heard, taken>>

OnInput ==
  /\ at = "dispatch" /\ "input" \in ready
  /\ ready' = ready \ {"input"}
  /\ at' = "input"
  /\ UNCHANGED <<queues, ping, clock, workers, ticking, batch, until, heard,
                  taken>>

\* Every ready source was called: the next turn of the loop ticks.
Turn ==
  /\ at = "dispatch" /\ ready = {} /\ ~ticking
  /\ at' = "tick"
  /\ ticking' = TRUE
  /\ UNCHANGED <<queues, ping, clock, workers, ready, batch, until, heard,
                  taken>>

Elapse ==
  /\ clock < MaxTime
  /\ clock' = clock + 1
  /\ UNCHANGED <<queues, ping, workers, heard, taken, thread>>

Worker(w) == Send(w) \/ Stamp(w) \/ Schedule(w) \/ Wake(w) \/ Cancel(w)

Loop == \/ Tick \/ Input \/ Receive \/ Drain \/ Take \/ Deliver
        \/ Sleep \/ Poll \/ OnWake \/ OnInput \/ Turn

Next == Loop \/ Elapse \/ \E w \in Workers : Worker(w)

\* The loop thread runs, time passes, and a worker that queued something gets to
\* its ping: the next line of the same call.
Fairness == /\ WF_vars(Loop)
            /\ WF_vars(Elapse)
            /\ \A w \in Workers : WF_vars(Wake(w))

Spec == Init /\ [][Next]_vars

FairSpec == Spec /\ Fairness

(***************************************************************************)
(* Properties.                                                             *)
(***************************************************************************)

InChannel(i) == \E k \in 1 .. Len(channel) : channel[k] = i
InEmitted(i) == \E k \in 1 .. Len(emitted) : emitted[k] = i
OneShots(entries) == { e \in entries : e.period = Once }

\* Someone will end the sleep: the ping is up, or about to be.
Roused == ping \/ waking # {} \/ "ping" \in ready

\* The loop never sleeps on work: when it blocks in poll no widget message is
\* undelivered, and a message in the channel, or a deadline before the one the
\* sleep is bounded by, has a ping raised or coming. Neither the order of a
\* worker's two steps nor the moment they fall in may break this.
NeverSleepsOnWork ==
  at = "asleep" =>
    /\ emitted = <<>>
    /\ channel # <<>> => Roused
    /\ \A e \in timers : (until = None \/ e.due < until) => Roused

\* A message is delivered once: what was delivered waits nowhere, whether it
\* came through the channel, a widget or a one-shot timer.
DeliveredOnce ==
  \A i \in heard : /\ ~InChannel(i) /\ ~InEmitted(i)
                    /\ i \notin IdsOf(OneShots(timers \cup batch))

\* A repeating timer that the loop was late for catches up with one message: a
\* period at least separates the times it is taken.
NoBurst ==
  [][ \A e \in timers :
        (batch = {} /\ e.id \in IdsOf(batch')) /\ taken[e.id] # None
          => clock >= taken[e.id] + e.period ]_vars

\* What a worker sent is delivered, and a one-shot timer is delivered or
\* cancelled, with no further event to wake the loop.
EveryMessageArrives ==
  \A i \in Ids :
    /\ InChannel(i) ~> i \in heard
    /\ i \in IdsOf(OneShots(timers)) ~> (i \in heard \/ i \in cancelled)

==============================================================================
