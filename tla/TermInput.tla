------------------------------- MODULE TermInput -------------------------------
(* The input of the terminal backend, after term/input.rs and the query of      *)
(* term/mod.rs: what the user does and what the terminal answers share one      *)
(* stream of bytes, which arrives cut anywhere and at any pace; a resumable     *)
(* parser makes events of it.  A byte is a symbol: "p0".."p64" are the digits   *)
(* of a parameter and "SEP" its separator, "LB", "RB", "LT" and "BS" brackets   *)
(* and the backslash, "L" and "C" the two bytes of a character beyond ASCII.    *)
EXTENDS Integers, Sequences, SequencesExt

CONSTANTS Acts,         \* what the user may do (see Bytes)
          MaxActs,      \* bound: how often
          MaxSequence,  \* MAX_ESCAPE_SEQUENCE (4096)
          CellWidth     \* pixels a cell is wide

\* What Bytes knows of, in sequences no longer than 9 bytes.
Known == {"a", "Escape", "AltA", "Up", "CtrlUp", "AppUp", "eacute", "click1", "move2",
          "wheel2", "status", "reply"}

ASSUME InputAssumption == /\ Acts \subseteq Known /\ MaxActs \in Nat
                          /\ MaxSequence \in Nat /\ MaxSequence >= 8
                          /\ CellWidth \in Nat \ {0}

VARIABLES phase,    \* "query" the size, "idle" in poll, "reading" in dispatch
          line,     \* bytes on their way: [b, first of its sequence]
          stash,    \* the query's bytes, then pending_input
          armed,    \* input_wake is readable
          asked,    \* the query was answered
          parser,   \* [buf, last]: unparsed bytes, last mouse position
          scale,    \* mouse reports count pixels, not cells
          typed,    \* acts so far
          owed,     \* ghost: the events of those acts, in order
          got       \* the events delivered

inputVars == <<phase, line, stash, armed, asked, parser, scale, typed, owed, got>>

None == -1          \* no mouse position yet

--------------------------------------------------------------------------------
\* The bytes the terminal sends for each act (external: the xterm encodings).
Bytes(a) ==
  CASE a = "a"        -> <<"a">>
    [] a = "Escape"   -> <<"ESC">>
    [] a = "AltA"     -> <<"ESC", "a">>
    [] a = "Up"       -> <<"ESC", "LB", "A">>
    [] a = "CtrlUp"   -> <<"ESC", "LB", "p1", "SEP", "p5", "A">>
    [] a = "AppUp"    -> <<"ESC", "O", "A">>
    [] a = "eacute"   -> <<"L", "C">>
    [] a = "click1"   -> <<"ESC", "LB", "LT", "p0", "SEP", "p1", "SEP", "p1", "M">>
    [] a = "move2"    -> <<"ESC", "LB", "LT", "p32", "SEP", "p2", "SEP", "p1", "M">>
    [] a = "wheel2"   -> <<"ESC", "LB", "LT", "p64", "SEP", "p2", "SEP", "p1", "M">>
    [] a = "status"   -> <<"ESC", "RB", "p4", "BEL">>
    [] a = "reply"    -> <<"ESC", "APC", "a", "ESC", "BS">>
    [] a = "size"     -> <<"ESC", "LB", "p4", "SEP", "p5", "SEP", "p5", "t">>

Sent(a) == [k \in DOMAIN Bytes(a) |-> [b |-> Bytes(a)[k], first |-> k = 1]]

Digits == {"p0", "p1", "p2", "p4", "p5", "p32", "p64"}
Value(b) == CASE b = "p0" -> 0 [] b = "p1" -> 1 [] b = "p2" -> 2 [] b = "p4" -> 4
              [] b = "p5" -> 5 [] b = "p32" -> 32 [] b = "p64" -> 64

\* Bytes 0x40 to 0x7E end a control sequence.
Finals == {"a", "A", "M", "t", "O", "LB", "RB", "BS", "APC"}

--------------------------------------------------------------------------------
\* MouseScale::to_pixels: the middle of the cell, or the pixel itself.
ToPixels(v, pixels) == IF pixels THEN v - 1 ELSE (v - 1) * CellWidth + CellWidth \div 2

Key(k) == [ev |-> "key", what |-> k]
Moved(p) == [ev |-> "motion", what |-> p]

\* sgr_mouse: the events of a report, after a motion if the place is new.
Pressed(b) == CASE b >= 64 -> <<[ev |-> "wheel", what |-> b % 4]>>
                [] b \in 32..63 -> <<>>
                [] OTHER -> <<[ev |-> "button", what |-> b % 4]>>
MouseEvents(b, p, last) == (IF p = last THEN <<>> ELSE <<Moved(p)>>) \o Pressed(b)

\* csi_key: navigation keys with their modifiers; answers are swallowed.
CsiEvents(ps, final) ==
  IF final # "A" THEN <<>>
  ELSE <<Key(IF Len(ps) >= 2 /\ ps[2] > 1 THEN "CtrlUp" ELSE "Up")>>

\* csi reads its parameters byte by byte: a number until its separator, which
\* stands for 0 without one, and other bytes are skipped.
ReadByte(r, b) ==
  CASE b \in Digits -> [r EXCEPT !.cur = <<Value(b)>>]
    [] b = "SEP"      -> [ps |-> r.ps \o (IF r.cur = <<>> THEN <<0>> ELSE r.cur), cur |-> <<>>]
    [] OTHER        -> r

Params(s) ==
  LET read[n \in 0..Len(s)] == IF n = 0 THEN [ps |-> <<>>, cur |-> <<>>]
                               ELSE ReadByte(read[n - 1], s[n])
  IN  read[Len(s)].ps \o read[Len(s)].cur

\* A step of the parser: the bytes it consumes (none: it needs more), and what
\* it reads in them.
Took(n, found) == [n |-> n, found |-> found]
NeedMore == Took(0, <<>>)

First(S) == CHOOSE i \in S : \A j \in S : i <= j

Csi(buf) ==
  LET mouse == Len(buf) > 2 /\ buf[3] = "LT"
      from == IF mouse THEN 4 ELSE 3
      ends == {i \in from..Len(buf) : buf[i] \in Finals}
  IN  IF ends = {} THEN NeedMore
      ELSE LET e == First(ends)
               ps == Params(SubSeq(buf, from, e - 1))
           IN  CASE mouse /\ Len(ps) >= 3 ->
                      Took(e, <<[ev |-> "mouse", what |-> <<ps[1], ps[2]>>]>>)
                 [] mouse /\ Len(ps) < 3 -> Took(e, <<>>)
                 [] OTHER -> Took(e, CsiEvents(ps, buf[e]))

\* string_sequence_end: swallowed up to BEL or ESC \.
StringSequence(buf) ==
  LET ends == {i \in 3..Len(buf) : \/ buf[i] = "BEL"
                                   \/ buf[i] = "BS" /\ i > 3 /\ buf[i - 1] = "ESC"}
  IN  IF ends = {} THEN NeedMore ELSE Took(First(ends), <<>>)

Plain(buf) ==
  CASE buf[1] = "C" -> Took(1, <<>>)
    [] buf[1] = "L" /\ Len(buf) < 2 -> NeedMore
    [] buf[1] = "L" /\ Len(buf) >= 2 -> IF buf[2] = "C" THEN Took(2, <<Key("eacute")>>) ELSE Took(1, <<>>)
    [] OTHER -> Took(1, <<Key(buf[1])>>)

\* Mutant of Step: an ESC that ends what was read is a key.
StepImpatient(buf) ==
  IF buf[1] # "ESC" THEN Plain(buf)
  ELSE IF Len(buf) < 2 THEN Took(1, <<Key("Escape")>>)
  ELSE IF buf[2] = "LB" THEN Csi(buf)
  ELSE Took(2, <<[ev |-> "alt", what |-> buf[2]]>>)

\* Parser::step: one sequence, key or character from the front of the buffer.
Step(buf) ==
  IF buf[1] # "ESC" THEN Plain(buf)
  ELSE IF Len(buf) < 2 THEN NeedMore
  ELSE CASE buf[2] = "LB" -> Csi(buf)
         [] buf[2] = "O" -> IF Len(buf) < 3 THEN NeedMore
                            ELSE Took(3, IF buf[3] = "A" THEN <<Key("Up")>> ELSE <<>>)
         [] buf[2] \in {"RB", "APC"} -> StringSequence(buf)
         [] buf[2] = "ESC" -> Took(1, <<Key("Escape")>>)
         [] OTHER -> Took(2, <<[ev |-> "alt", what |-> buf[2]]>>)

\* What a step found is told, a mouse report against the one before it.
Tell(c, step, pixels) ==
  LET rest == SubSeq(c.buf, step.n + 1, Len(c.buf))
  IN  IF step.found # <<>> /\ step.found[1].ev = "mouse"
      THEN LET report == step.found[1].what
               place == ToPixels(report[2], pixels)
           IN  [buf |-> rest, last |-> place,
                out |-> c.out \o MouseEvents(report[1], place, c.last)]
      ELSE [buf |-> rest, last |-> c.last, out |-> c.out \o step.found]

\* One turn of the loop of feed.
Turn(c, pixels) == Tell(c, IF c.buf = <<>> THEN NeedMore ELSE Step(c.buf), pixels)

\* feed: turns until nothing more can be read; a tail too long to be a sequence
\* is dropped.
Fed(p, bytes, pixels) ==
  LET buf == p.buf \o bytes
      turn[k \in 0..Len(buf)] == IF k = 0 THEN [buf |-> buf, last |-> p.last, out |-> <<>>]
                                 ELSE Turn(turn[k - 1], pixels)
      end == turn[Len(buf)]
  IN  [end EXCEPT !.buf = IF Len(@) > MaxSequence THEN <<>> ELSE @]

LoneEscape == parser.buf = <<"ESC">>

\* parse_pixel_report: where the answer stands in what was read, if it is whole.
IsReport(s) == Len(s) = 7 /\ SubSeq(s, 1, 4) = <<"ESC", "LB", "p4", "SEP">>
               /\ s[5] \in Digits /\ s[6] = "SEP" /\ s[7] \in Digits
Report(buf) == {i \in 1..(Len(buf) - 7) : IsReport(SubSeq(buf, i, i + 6)) /\ buf[i + 7] = "t"}

--------------------------------------------------------------------------------
InputInit == /\ phase = "query" /\ line = <<>> /\ stash = <<>>
             /\ armed = FALSE /\ asked = FALSE
             /\ parser = [buf |-> <<>>, last |-> None] /\ scale \in BOOLEAN
             /\ typed = 0 /\ owed = <<>> /\ got = <<>>

BytesOf(l, n) == [k \in 1..n |-> l[k].b]
Rest(l, n) == SubSeq(l, n + 1, Len(l))

\* Mutant of Opened: what is stashed waits for the next byte of the tty.
OpenedQuietly(s) == phase' = "idle" /\ stash' = s /\ armed' = FALSE

\* open_pair_on after the query: what is stashed wakes the loop.
Opened(s) == phase' = "idle" /\ stash' = s /\ armed' = (s # <<>>)

\* query_pixel_size reads what is there, in any piece; all but the answer is
\* input.
QueryRead ==
  /\ phase = "query" /\ line # <<>>
  /\ \E n \in 1..Len(line) :
       LET buf == stash \o BytesOf(line, n)
           at == Report(buf)
       IN  /\ line' = Rest(line, n)
           /\ IF at = {} THEN stash' = buf /\ UNCHANGED <<phase, armed>>
              ELSE Opened(SubSeq(buf, 1, First(at) - 1)
                          \o SubSeq(buf, First(at) + 8, Len(buf)))
  /\ UNCHANGED <<asked, parser, scale, typed, owed, got>>

\* 200 ms went by, or the wait failed.
QueryOver == /\ phase = "query" /\ Opened(stash)
             /\ UNCHANGED <<line, asked, parser, scale, typed, owed, got>>

Delivers(bytes) == LET p == Fed(parser, bytes, scale)
                   IN  parser' = [buf |-> p.buf, last |-> p.last] /\ got' = got \o p.out

Reads == \E n \in 1..Len(line) : Delivers(BytesOf(line, n)) /\ line' = Rest(line, n)

\* dispatch, called when the wake is readable (the stash comes first) or the
\* tty is.
Dispatch == /\ phase = "idle" /\ phase' = "reading"
            /\ \/ /\ armed /\ armed' = FALSE
                  /\ Delivers(stash) /\ stash' = <<>> /\ UNCHANGED line
               \/ ~armed /\ Reads /\ UNCHANGED <<armed, stash>>
            /\ UNCHANGED <<asked, scale, typed, owed>>

Read == /\ phase = "reading" /\ Reads
        /\ UNCHANGED <<phase, stash, armed, asked, scale, typed, owed>>

\* The rest of a sequence comes within the 50 ms a lone ESC is waited for.
MidSequence == line # <<>> /\ ~Head(line).first

\* Nothing more to read: the poll returns at once, or, after a lone ESC, late.
EndOfBatch == /\ phase = "reading"
              /\ LoneEscape => ~MidSequence
              /\ phase' = "idle"
              /\ IF LoneEscape
                 THEN /\ parser' = [parser EXCEPT !.buf = <<>>]
                      /\ got' = Append(got, Key("Escape"))
                 ELSE UNCHANGED <<parser, got>>
              /\ UNCHANGED <<line, stash, armed, asked, scale, typed, owed>>

--------------------------------------------------------------------------------
\* Where the mouse was last reported to be, in the terminal's own account.
LastSeen == LET at == {i \in DOMAIN owed : owed[i].ev = "motion"}
            IN  IF at = {} THEN None ELSE owed[CHOOSE i \in at : \A j \in at : j <= i].what

To(v) == LET p == ToPixels(v, scale) IN IF p = LastSeen THEN <<>> ELSE <<Moved(p)>>

\* What an act means, whatever its bytes go through.
Meaning(a) ==
  CASE a \in {"a", "Escape", "Up", "CtrlUp", "eacute"} -> <<Key(a)>>
    [] a = "AppUp"  -> <<Key("Up")>>
    [] a = "AltA"   -> <<[ev |-> "alt", what |-> "a"]>>
    [] a = "click1" -> To(1) \o <<[ev |-> "button", what |-> 0]>>
    [] a = "move2"  -> To(2)
    [] a = "wheel2" -> To(2) \o <<[ev |-> "wheel", what |-> 0]>>
    [] OTHER        -> <<>>

\* An Escape that was not read as one yet: what follows it within 50 ms is a
\* sequence by design, unless it starts with an escape of its own.
EscapePending == /\ owed # <<>> /\ Len(got) < Len(owed)
                 /\ owed[Len(owed)] = Key("Escape")

Act == /\ typed < MaxActs
       /\ \E a \in Acts :
            /\ EscapePending => Head(Bytes(a)) = "ESC"
            /\ line' = line \o Sent(a) /\ owed' = owed \o Meaning(a)
       /\ typed' = typed + 1
       /\ UNCHANGED <<phase, stash, armed, asked, parser, scale, got>>

\* The terminal answers the query, in time or late.
Answer == /\ ~asked /\ asked' = TRUE
          /\ ~EscapePending
          /\ line' = line \o Sent("size")
          /\ UNCHANGED <<phase, stash, armed, parser, scale, typed, owed, got>>

InputNext == \/ QueryRead \/ QueryOver \/ Dispatch \/ Read \/ EndOfBatch
             \/ Act \/ Answer

InputSpec == InputInit /\ [][InputNext]_inputVars

\* What the fairness is about, without the events a step delivers.
QueryEnds == phase = "query" /\ phase' = "idle"
TurnBegins == phase = "idle" /\ (armed \/ line # <<>>) /\ phase' = "reading"
TurnReads == phase = "reading" /\ \E n \in 1..Len(line) : line' = Rest(line, n)
TurnEnds == phase = "reading" /\ (LoneEscape => ~MidSequence) /\ phase' = "idle"

\* The query has a deadline, the loop dispatches what is readable, and a poll
\* with a timeout returns.
FairInputSpec == /\ InputSpec /\ WF_phase(QueryEnds) /\ WF_phase(TurnBegins)
                 /\ WF_line(TurnReads) /\ WF_phase(TurnEnds)
--------------------------------------------------------------------------------
InputTypeOK == /\ phase \in {"query", "idle", "reading"} /\ armed \in BOOLEAN
               /\ asked \in BOOLEAN /\ scale \in BOOLEAN /\ typed \in 0..MaxActs
               /\ parser.last \in Nat \cup {None} /\ Len(parser.buf) <= MaxSequence
               /\ stash # <<>> => phase = "query" \/ armed

\* However the stream was cut, read ahead by the query or delayed, the events
\* delivered are those of what the user did, in order: none is split, doubled,
\* lost or invented, and no answer of the terminal becomes input.
NothingGarbled == IsPrefix(got, owed)

\* Everything the user did is delivered without another keystroke to push it.
AllArrives == \A n \in 1..(2 * MaxActs) : Len(owed) >= n ~> Len(got) >= n
==============================================================================
