-------------------------------- MODULE Evdev --------------------------------
(* The packet accumulator of input/evdev.rs: raw events of one device, folded   *)
(* until the kernel closes the packet and turned into the events of the         *)
(* toolkit.  A position is a pair, read with an index for the axis.             *)
EXTENDS Integers, SequencesExt

CONSTANTS None,
          Highest,      \* what the device can report on each axis, from 0
          Extent        \* the surface, in pixels

ASSUME EvdevAssumption == \A i \in {1, 2} : Highest[i] \in Nat \ {0} /\ Extent[i] \in Nat \ {0}

Axes == {1, 2}

\* AbsRange::scale: to the nearest pixel, and never off the surface.
Scaled(v, i) ==
  LET px == (2 * v * (Extent[i] - 1) + Highest[i]) \div (2 * Highest[i])
  IN  CASE px < 0 -> 0
        [] px > Extent[i] - 1 -> Extent[i] - 1
        [] OTHER -> px

Pixel(at) == [i \in Axes |-> Scaled(at[i], i)]

Nowhere == [i \in Axes |-> None]

\* PacketState: the last slot named, and what this packet brought so far.
NewPacket(multitouch) ==
  [multitouch |-> multitouch, rel |-> [i \in Axes |-> 0], abs |-> Nowhere,
   slot |-> 0, pending |-> Nowhere, id |-> None]

\* handle_abs and the relative axes: the packet after a raw event.
Noted(p, e) ==
  CASE e.type = "rel"  -> [p EXCEPT !.rel[e.axis] = @ + e.value]
    [] e.type = "abs"  -> [p EXCEPT !.abs[e.axis] = e.value]
    [] e.type = "pos"  -> [p EXCEPT !.pending[e.axis] = e.value]
    [] e.type = "slot" -> [p EXCEPT !.slot = e.value]
    [] e.type = "id"   -> [p EXCEPT !.id = e.value]
    [] OTHER -> p

\* handle_button: at once, before the position of the same packet is known.
Buttons(p, e) ==
  IF e.code = "touch" /\ p.multitouch THEN <<>>
  ELSE <<[kind |-> "button", code |-> e.code, down |-> e.value # 0]>>

\* Mutant of TouchEvents: a contact is lifted only where both axes came, too.
TouchEventsPlaced(p) ==
  IF \A i \in Axes : p.pending[i] # None
  THEN <<[kind |-> CASE p.id = -1 -> "up" [] p.id = None -> "motion" [] OTHER -> "down",
          pos |-> Pixel(p.pending)]>>
  ELSE <<>>

\* flush_touch: a contact is put down or moved only where both axes came.
TouchEvents(p) ==
  LET whole == \A i \in Axes : p.pending[i] # None
      at(kind) == IF whole THEN <<[kind |-> kind, pos |-> Pixel(p.pending)]>> ELSE <<>>
  IN  CASE p.id = -1 -> <<[kind |-> "up"]>>
        [] p.id # None /\ p.id # -1 -> at("down")
        [] OTHER -> at("motion")

\* An axis the packet does not name counts as zero.
AbsEvents(p) ==
  IF p.abs = Nowhere THEN <<>>
  ELSE <<[kind |-> "absolute",
          pos |-> Pixel([i \in Axes |-> IF p.abs[i] = None THEN 0 ELSE p.abs[i]])]>>

RelEvents(p) == IF \A i \in Axes : p.rel[i] = 0 THEN <<>>
                ELSE <<[kind |-> "relative", by |-> p.rel]>>

\* flush_packet: what the packet comes to.
Flushed(p) == RelEvents(p) \o IF p.multitouch THEN TouchEvents(p) ELSE AbsEvents(p)

\* What is left of it for the next one: the slot, and nothing else.
Cleared(p) == [p EXCEPT !.rel = [i \in Axes |-> 0], !.abs = Nowhere, !.id = None,
                        !.pending = Nowhere]

\* feed_raw, over the raw events of a packet in turn: the packet so far, and the
\* events that do not wait for the rest of it.
Fed(p, raws) ==
  LET fed[k \in 0..Len(raws)] ==
        IF k = 0 THEN [packet |-> p, events |-> <<>>]
        ELSE [packet |-> Noted(fed[k - 1].packet, raws[k]),
              events |-> fed[k - 1].events \o (IF raws[k].type = "key" THEN Buttons(p, raws[k])
                                               ELSE <<>>)]
  IN  fed[Len(raws)]

\* A packet, which the kernel hands out whole, and what it leaves for the next one.
EventsOf(p, raws) == Fed(p, raws).events \o Flushed(Fed(p, raws).packet)
Rest(p, raws) == Cleared(Fed(p, raws).packet)
==============================================================================
