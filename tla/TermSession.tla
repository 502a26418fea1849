----------------------------- MODULE TermSession -----------------------------
(* A program that runs inside a terminal, from taking it to giving it back:     *)
(* the guard of term/mod.rs and the display of term/display.rs, with the        *)
(* terminal reading at its own pace and being resized at any moment, and the    *)
(* process dying between any two steps.                                         *)
EXTENDS TermDisplay

CONSTANTS Geometries,      \* sizes the window may have
          Colours,         \* what a frame may paint
          Rects,           \* damage a frame may report, past the edge too
          MaxDamage,       \* rectangles in one frame
          MaxResizes,      \* bound: how often the window is resized
          MaxWire          \* bound: sequences in the tty before a write blocks

ASSUME TermAssumption == /\ Black \in Colours
                         /\ Geometries \subseteq [rows : Nat, cell : Nat \ {0}]
                         /\ Rects \subseteq [y : Nat, b : Nat]
                         /\ MaxPatches \in Nat /\ FirstPatchId \in Nat /\ FirstPatchId > 2
                         /\ MaxDamage \in Nat /\ MaxResizes \in Nat /\ MaxWire \in Nat

VARIABLES pc,        \* where the process is in the life of the guard
          active,    \* TERM_ACTIVE: a restore is owed
          display,   \* the TermDisplay
          tty,       \* sequences written and not yet obeyed
          term,      \* the terminal
          pixels,    \* the terminal reports its size in pixels
          resizes    \* resizes so far

vars == <<pc, active, display, tty, term, pixels, resizes>>

Init == \E g \in Geometries, p \in {"kitty", "cells"} :
          /\ pc = "new" /\ active = FALSE
          /\ display = NewDisplay(p, [g EXCEPT !.cell = IF p = "cells" THEN 2 ELSE @])
          /\ tty = <<>> /\ term = NewTerminal(g)
          /\ pixels \in BOOLEAN /\ resizes = 0

--------------------------------------------------------------------------------
\* Mutant of Arm: the restore is not armed.
ArmLate == /\ pc = "new" /\ pc' = "armed"
           /\ UNCHANGED <<active, display, tty, term, pixels, resizes>>

\* TtyGuard::acquire arms the restore before it changes anything.
Arm == /\ pc = "new" /\ pc' = "armed" /\ active' = TRUE
       /\ UNCHANGED <<display, tty, term, pixels, resizes>>

SetRaw == /\ pc = "armed"
          /\ \/ pc' = "raw" /\ term' = [term EXCEPT !.raw = TRUE] /\ UNCHANGED active
             \/ pc' = "gone" /\ active' = FALSE /\ UNCHANGED term
          /\ UNCHANGED <<display, tty, pixels, resizes>>

WriteSetup == /\ pc = "raw" /\ pc' = "taken"
              /\ tty' = Append(tty, [op |-> "setup"])
              /\ UNCHANGED <<active, display, term, pixels, resizes>>

\* The size is read, or cannot be and the guard is dropped.
OpenPair == /\ pc = "taken"
            /\ \/ /\ pc' = "running"
                  /\ display' = NewDisplay(display.protocol, Derived(display, term.geo, TRUE))
               \/ pc' = "dropping" /\ UNCHANGED display
            /\ UNCHANGED <<active, tty, term, pixels, resizes>>

\* A write that finds the tty full waits for the terminal.
Room == Len(tty) <= MaxWire

\* A frame: a fresh buffer is painted whole, else some damage in one colour.
Frames(d) == IF d.presented
             THEN UNION {[1..n -> Rects] : n \in 0..MaxDamage}
             ELSE {<<Whole(d)>>}

Drawn(d, damage, c) ==
  [d EXCEPT !.shadow = [n \in DOMAIN @ |->
     IF \E k \in DOMAIN damage : damage[k].y < n /\ n <= damage[k].b THEN c ELSE @[n]]]

Frame == /\ pc = "running" /\ Room
         /\ \E damage \in Frames(display), c \in Colours :
              LET d == Drawn(display, damage, c)
              IN  display' = Presented(d, damage) /\ tty' = tty \o PresentOut(d, damage)
         /\ UNCHANGED <<pc, active, term, pixels, resizes>>

\* The loop polls the size of the window.
Reconfigure == /\ pc = "running" /\ Room
               /\ LET g == Derived(display, term.geo, pixels)
                  IN  display' = Reconfigured(display, g)
                      /\ tty' = tty \o ReconfigureOut(display, g)
               /\ UNCHANGED <<pc, active, term, pixels, resizes>>

\* The display goes with its process: nothing of it is left to tell apart.
Forgotten == NewDisplay(display.protocol, display.geo)

\* The program ends: the guard is dropped, and restores if that is still owed.
Quit == /\ pc = "running" /\ Room /\ pc' = "dropping"
        /\ UNCHANGED <<active, display, tty, term, pixels, resizes>>

Drop == /\ pc = "dropping" /\ active' = FALSE
        /\ pc' = IF active THEN "restoring" ELSE "left"
        /\ display' = Forgotten
        /\ UNCHANGED <<tty, term, pixels, resizes>>

WriteRestore == /\ pc = "restoring" /\ pc' = "cooking"
                /\ tty' = Append(tty, [op |-> "restore"])
                /\ UNCHANGED <<active, display, term, pixels, resizes>>

Cook == /\ pc = "cooking" /\ pc' = "gone"
        /\ term' = [term EXCEPT !.raw = FALSE]
        /\ UNCHANGED <<active, display, tty, pixels, resizes>>

\* restore_terminal from a hook: the whole restore, if nobody took it before.
Restored(t) == IF active THEN [t EXCEPT !.raw = FALSE] ELSE t
RestoreOut == IF active THEN <<[op |-> "restore"]>> ELSE <<>>

\* A write of the main thread can be cut where it stands; a hook's is over.
Uncut == {n \in 0..Len(tty) : \A k \in (n + 1)..Len(tty) : tty[k].op # "restore"}

\* A fatal signal or a panic of the main thread, except while the guard's own
\* restore runs: the hook would then find nothing owed and leave the rest undone.
Die == /\ pc \in {"armed", "raw", "taken", "running", "dropping"}
       /\ pc' = IF active THEN "gone" ELSE "left"
       /\ active' = FALSE
       /\ \E n \in Uncut : tty' = SubSeq(tty, 1, n) \o RestoreOut
       /\ term' = Restored(term) /\ display' = Forgotten
       /\ UNCHANGED <<pixels, resizes>>

\* The panic hook runs on any thread: the terminal is given back, the app goes on.
WorkerPanic == /\ pc = "running" /\ active /\ Room
               /\ active' = FALSE /\ tty' = tty \o RestoreOut /\ term' = Restored(term)
               /\ UNCHANGED <<pc, display, pixels, resizes>>

--------------------------------------------------------------------------------
\* The terminal obeys the next sequence.
Obey == /\ tty # <<>> /\ tty' = Tail(tty)
        /\ term' = Obeyed(term, Head(tty))
        /\ UNCHANGED <<pc, active, display, pixels, resizes>>

\* The window is resized.  A window back at the size the display knows before
\* the next poll is not looked at, and a cell only changes if that is reported.
Resize == /\ pc \notin {"gone", "left"} /\ resizes < MaxResizes
          /\ \E g \in Geometries :
               /\ g # term.geo
               /\ pc = "running" => Derived(display, g, TRUE) # display.geo
               /\ ~pixels => g.cell = term.geo.cell
               /\ term' = Resized(term, g)
          /\ resizes' = resizes + 1
          /\ UNCHANGED <<pc, active, display, tty, pixels>>

Next == \/ Arm \/ SetRaw \/ WriteSetup \/ OpenPair
        \/ Frame \/ Reconfigure \/ Quit
        \/ Drop \/ WriteRestore \/ Cook \/ Die \/ WorkerPanic
        \/ Obey \/ Resize

Spec == Init /\ [][Next]_vars
--------------------------------------------------------------------------------
TypeOK == /\ pc \in {"new", "armed", "raw", "taken", "running", "dropping",
                     "restoring", "cooking", "gone", "left"}
          /\ active \in BOOLEAN /\ pixels \in BOOLEAN /\ resizes \in 0..MaxResizes
          /\ display.geo.rows \in Nat /\ Len(display.shadow) = Heighten(display.geo)
          /\ Len(display.patches) <= MaxPatches

Seen == IF display.protocol = "kitty" THEN Composite(term) ELSE Halves(term)

\* Between frames the terminal shows the shadow buffer to the pixel, whatever
\* mixture of patches, consolidations and resizes came before: drawing only the
\* damage is as good as sending the whole frame.
ScreenShowsShadow ==
  (/\ pc = "running" /\ active /\ tty = <<>> /\ display.presented
   /\ Derived(display, term.geo, TRUE) = display.geo)
    => Seen = display.shadow

HasBase(t) == \E i \in t.images : i.id < FirstPatchId

\* A base on the screen stays until its successor is there: only a resize or
\* the end takes it away.
NeverBlank ==
  [][HasBase(term) /\ ~HasBase(term') => Head(tty).op \in {"deleteAll", "restore"}]_vars

Ended == pc \in {"gone", "left"} /\ tty = <<>>

\* Whichever way the process ended, once the tty is drained the terminal is
\* cooked, on its main screen and, unless a thread's panic gave it back while
\* the program went on drawing, without images.
TerminalRestored ==
  Ended => /\ ~term.raw /\ ~term.alt
           /\ pc = "gone" => term.images = {}
==============================================================================
