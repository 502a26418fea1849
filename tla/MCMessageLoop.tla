----------------------------- MODULE MCMessageLoop -----------------------------
(* TLC instances of MessageLoop. *)
EXTENDS MessageLoop, TLC

CONSTANTS w1, w2

MCWorkers == {w1, w2}
ShortPeriods == {1}
==============================================================================
