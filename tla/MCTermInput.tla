------------------------------ MODULE MCTermInput ------------------------------
(* TLC instance of TermInput: every kind of act, two of them in any order. *)
EXTENDS TermInput

AllActs == Known
==============================================================================
