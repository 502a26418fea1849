------------------------------- MODULE MCReplay -------------------------------
(* TLC instance of Replay: recordings with and without a quit, flows that press, *)
(* settle and capture, and flows with the other steps.                          *)
EXTENDS Replay

On(at, event) == [at |-> at, event |-> event]
MCRecordings == {<<>>, <<On(0, "edit"), On(2, "edit")>>, <<On(1, "edit"), On(1, "esc"), On(2, "edit")>>}

MCFlows == {<<>>, <<"tap", "shot">>, <<"shot", "tap">>, <<"tap", "settle">>, <<"shot", "shot">>,
             <<"key", "tree", "escape">>, <<"key", "wait", "expect">>, <<"key", "shot", "key">>}
==============================================================================
