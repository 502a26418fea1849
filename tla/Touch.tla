-------------------------------- MODULE Touch --------------------------------
(* From the finger to the widgets: a touch panel, a tablet or a mouse, the      *)
(* kernel that sends what changed, the packets evdev.rs makes of it, and the    *)
(* runner's handle_input, tick and next_timeout around the gesture recognizer   *)
(* (run.rs), against a clock whose unit is a frame.                             *)
EXTENDS Evdev, Gestures

CONSTANTS Devices,      \* the kinds of device there may be
          Places,       \* where a finger or a pointer may be, in device units
          Cancels,      \* TRUE: a contact may be taken away
          MaxReports,   \* bound: packets the device sends
          MaxClock      \* bound: the time it takes

ASSUME TouchAssumption ==
  /\ MaxReports \in Nat /\ MaxClock \in Nat /\ Cancels \in BOOLEAN
  /\ Places \subseteq [Axes -> Int]

VARIABLES device,    \* its kind
          hand,      \* where the user's hand is, or last was, and whether it presses
          wire,      \* the packet not yet read
          packet,    \* PacketState of the device
          cursor,    \* the runner's cursor, in pixels
          gestures,  \* its recognizer
          clock,
          alarm,     \* when the sleeping loop wakes by itself, or None
          awake,     \* the loop is in a turn: input first, then tick
          reports,   \* packets so far
          told       \* ghost: what the widgets and the recognizer were told

vars == <<device, hand, wire, packet, cursor, gestures, clock, alarm, awake, reports, told>>

\* What is known of a contact: whether it is on, since when, from where, when it
\* last moved, whether it stayed within the slop; and what came of it.
Nothing == [open |-> FALSE, since |-> 0, from |-> Origin, moved |-> 0, still |-> TRUE,
            out |-> <<>>]

Init == /\ device \in Devices
        /\ hand = [at |-> Origin, down |-> FALSE]
        /\ wire = <<>> /\ packet = NewPacket(device = "panel")
        /\ cursor = Origin /\ gestures = NewRecognizer
        /\ clock = 0 /\ alarm = None /\ awake = FALSE /\ reports = 0
        /\ told = Nothing

--------------------------------------------------------------------------------
\* The kernel drops what repeats the value an axis already has.
Changed(type, at) ==
  LET on(i) == IF at[i] = hand.at[i] THEN <<>>
               ELSE <<[type |-> type, axis |-> i,
                       value |-> IF type = "rel" THEN at[i] - hand.at[i] ELSE at[i]]>>
  IN  on(1) \o on(2)

\* One packet waits at most: the loop reads them one by one, and sleeps after all.
Sends(raws, h) ==
  /\ reports < MaxReports /\ reports' = reports + 1
  /\ wire = <<>> /\ wire' = <<raws>>
  /\ hand' = h
  /\ UNCHANGED <<device, packet, cursor, gestures, clock, alarm, awake, told>>

\* A finger lands, slides and lifts.
Finger ==
  /\ device = "panel"
  /\ \/ \E at \in Places :
          /\ ~hand.down \/ at # hand.at
          /\ Sends((IF hand.down THEN <<>> ELSE <<[type |-> "id", value |-> reports],
                                                  [type |-> "key", code |-> "touch", value |-> 1]>>)
                   \o Changed("pos", at), [at |-> at, down |-> TRUE])
     \/ /\ hand.down
        /\ Sends(<<[type |-> "id", value |-> -1], [type |-> "key", code |-> "touch", value |-> 0]>>,
                 [hand EXCEPT !.down = FALSE])

\* A pointer moves, its button changes, or both in one packet in either order.
Pointer ==
  /\ device \in {"tablet", "mouse"}
  /\ \E at \in Places \cup {hand.at}, down \in BOOLEAN :
       LET keys == IF down = hand.down THEN <<>>
                   ELSE <<[type |-> "key", code |-> "left", value |-> IF down THEN 1 ELSE 0]>>
           moves == Changed(IF device = "tablet" THEN "abs" ELSE "rel", at)
       IN  /\ keys \o moves # <<>>
           /\ \E raws \in {keys \o moves, moves \o keys} : Sends(raws, [at |-> at, down |-> down])

--------------------------------------------------------------------------------
Clamped(c) == [i \in Axes |-> CASE c[i] < 0 -> 0 [] c[i] > Extent[i] -> Extent[i] [] OTHER -> c[i]]

\* What handle_input makes of an event: where the cursor is then, and what the
\* recognizer is given.
CursorAfter(c, e) ==
  CASE e.kind = "relative" -> Clamped([i \in Axes |-> c[i] + e.by[i]])
    [] e.kind \in {"absolute", "down", "motion"} -> Clamped(e.pos)
    [] OTHER -> c

Presses(e) == e.kind = "down" \/ (e.kind = "button" /\ e.code = "left" /\ e.down)
Releases(e) == e.kind = "up" \/ (e.kind = "button" /\ e.code = "left" /\ ~e.down)
Moves(e) == e.kind \in {"relative", "absolute", "motion"}

Recognized(g, e, c) ==
  CASE Presses(e) -> PointerDown(g, clock, c)
    [] Releases(e) -> PointerUp(g, clock, c)
    [] Moves(e) -> PointerMove(g, clock, c)
    [] e.kind = "cancel" -> Cancel(g)
    [] OTHER -> Found(g, <<>>)

\* There is a contact, and this does not end it.
Continues(n, e) == n.open /\ ~Releases(e) /\ e.kind # "cancel"

\* The ghost of the contact: a press begins a new one. Updates, of which there may
\* be any number, come last and are not kept.
Noticed(n, e, c, out) ==
  LET seen == [n EXCEPT !.moved = IF Moves(e) THEN clock ELSE @,
                        !.still = @ /\ (Moves(e) => Square(n.from, c) <= TapSlop)]
      new == IF out # <<>> /\ Last(out).kind = "DragUpdate" THEN Front(out) ELSE out
      all == n.out \o [k \in DOMAIN new |->
               [kind |-> new[k].kind, on |-> n.open, still |-> seen.still,
                held |-> clock - n.since >= LongPressAt, moving |-> clock - seen.moved <= Window]]
  IN  IF Presses(e) THEN [Nothing EXCEPT !.open = TRUE, !.since = clock, !.from = c, !.moved = clock]
      ELSE IF Continues(n, e) THEN [seen EXCEPT !.out = all]
      ELSE [Nothing EXCEPT !.out = all]

\* handle_input, on [cursor, g, told].
Handled(s, e) ==
  LET c == CursorAfter(s.cursor, e)
      r == Recognized(s.g, e, c)
  IN  [cursor |-> c, g |-> r.g, told |-> Noticed(s.told, e, c, r.out)]

Here == [cursor |-> cursor, g |-> gestures, told |-> told]

Becomes(s) == cursor' = s.cursor /\ gestures' = s.g /\ told' = s.told

\* The events of a packet in turn.
After(events) ==
  LET done[k \in 0..Len(events)] == IF k = 0 THEN Here ELSE Handled(done[k - 1], events[k])
  IN  done[Len(events)]

\* EvdevInput::dispatch hands a packet's events to handle_input.
Dispatch ==
  /\ wire # <<>> /\ wire' = Tail(wire) /\ awake' = TRUE
  /\ packet' = Rest(packet, Head(wire))
  /\ Becomes(After(EventsOf(packet, Head(wire))))
  /\ UNCHANGED <<device, hand, clock, alarm, reports>>

\* A replay, a monkey or a compositor takes the contact away.
TouchCancel ==
  /\ Cancels /\ reports < MaxReports /\ reports' = reports + 1
  /\ IsActive(gestures) /\ awake' = TRUE
  /\ Becomes(Handled(Here, [kind |-> "cancel"]))
  /\ UNCHANGED <<device, hand, wire, packet, clock, alarm>>

\* Mutant of NextTimeout: only what animates keeps the clock running.
NextTimeoutAnimating(g) == None

\* next_timeout, with no timer armed and nothing animating.
NextTimeout(g) == IF IsActive(g) THEN clock + 1 ELSE None

\* The end of a turn that input or the alarm began: poll, and the sleep after it.
Tick ==
  /\ awake \/ alarm = clock
  /\ awake' = FALSE
  /\ LET r == Poll(gestures, clock)
     IN  /\ Becomes([cursor |-> cursor, g |-> r.g,
                     told |-> Noticed(told, [kind |-> "tick"], cursor, r.out)])
         /\ alarm' = NextTimeout(r.g)
  /\ UNCHANGED <<device, hand, wire, packet, clock, reports>>

\* Time passes while the loop sleeps and has no reason to wake; without a contact
\* nothing here looks at the clock.
Pass == /\ ~awake /\ wire = <<>> /\ alarm # clock
        /\ IsActive(gestures) /\ clock < MaxClock
        /\ clock' = clock + 1
        /\ UNCHANGED <<device, hand, wire, packet, cursor, gestures, alarm, awake, reports, told>>

Next == Finger \/ Pointer \/ Dispatch \/ TouchCancel \/ Tick \/ Pass

Spec == Init /\ [][Next]_vars
--------------------------------------------------------------------------------
Came == {told.out[k] : k \in DOMAIN told.out}

\* A press the program knows of is a press of the hand: whatever else packets
\* fail to say, a contact that is over is never held on to.
NoStuckPress == wire = <<>> /\ told.open => hand.down

\* A contact comes to one thing: a tap, a long press, or one drag that ends at
\* most once, with a fling at most then; one that was seen to wander is neither
\* a tap nor a long press, and a cancelled one comes to nothing more.
OneOutcome ==
  /\ [k \in DOMAIN told.out |-> told.out[k].kind] \in
       {<<>>, <<"Tap">>, <<"LongPress">>, <<"DragBegin">>, <<"DragBegin", "DragEnd">>,
        <<"DragBegin", "DragEnd", "Fling">>}
  /\ \A o \in Came : /\ o.on
                     /\ o.kind \in {"Tap", "LongPress"} <=> o.still
                     /\ o.kind = "LongPress" => o.held

\* A finger that rested before it was lifted does not fling.
FlingIsFresh == \A o \in Came : o.kind = "Fling" => o.moving

\* A contact that is held where it was put is a long press, within a frame of
\* its time, though nothing else happens.
HeldOnTime ==
  (told.open /\ told.still /\ ~awake /\ wire = <<>> /\ alarm # clock
   /\ clock >= told.since + LongPressAt) => \E o \in Came : o.kind = "LongPress"

\* A contact is announced where it is put down, and tracked by its slot.
ContactIsKnown == (wire = <<>> /\ device = "panel" /\ hand.down) => told.open
==============================================================================
