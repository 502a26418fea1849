---------------------------- MODULE ScreenSession ----------------------------
(***************************************************************************)
(* What the event loop promises to the console it shares with other        *)
(* sessions (src/fbui-platform/src/event_loop.rs, vt.rs): the screen is    *)
(* given up whenever it is asked for, never before drawing has stopped,    *)
(* and drawing starts again only after the console came back.              *)
(***************************************************************************)
VARIABLES console,   \* "ours", "leaving", "theirs" or "returning"
          drawing,   \* we may change what the screen shows
          over       \* the program has ended

vars == <<console, drawing, over>>

TypeOK == /\ console \in {"ours", "leaving", "theirs", "returning"}
          /\ drawing \in BOOLEAN
          /\ over \in BOOLEAN

Init == console = "ours" /\ drawing = TRUE /\ over = FALSE

\* Somebody asks for the screen.
Ask == /\ console \in {"ours", "returning"}
       /\ console' = "leaving"
       /\ UNCHANGED <<drawing, over>>

\* We stop drawing; until then the screen is not given up.
StopDrawing == /\ console = "leaving"
               /\ drawing' = FALSE
               /\ UNCHANGED <<console, over>>

Yield == /\ console = "leaving"
         /\ console' = "theirs"
         /\ drawing' = FALSE
         /\ UNCHANGED over

GiveBack == /\ console = "theirs"
            /\ console' = "returning"
            /\ UNCHANGED <<drawing, over>>

TakeBack == /\ console = "returning"
            /\ console' = "ours"
            /\ drawing' = TRUE
            /\ UNCHANGED over

\* The program may end at any time, and its last step may take the screen back.
End == /\ ~over
       /\ over' = TRUE
       /\ \/ UNCHANGED <<console, drawing>>
          \/ console = "leaving" /\ console' = "theirs" /\ drawing' = FALSE
          \/ console = "returning" /\ console' = "ours" /\ drawing' = TRUE

Next == ~over /\ (Ask \/ StopDrawing \/ Yield \/ GiveBack \/ TakeBack \/ End)

\* Whoever asks for the screen gets it, and we take it back when it returns.
Kept == /\ console = "leaving" ~> (console # "leaving" \/ over)
        /\ console = "returning" ~> (console # "returning" \/ over)

Spec == Init /\ [][Next]_vars /\ Kept
==============================================================================
