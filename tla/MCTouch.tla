------------------------------- MODULE MCTouch -------------------------------
(* TLC instances of Touch: two device units to a pixel, places that share a     *)
(* row or a column, a step within the slop and steps beyond it.                 *)
EXTENDS Touch

MCHighest == <<6, 2>>
MCExtent == <<4, 2>>
MCPlaces == {<<0, 0>>, <<2, 2>>, <<6, 0>>, <<6, 2>>}
==============================================================================
