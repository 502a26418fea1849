---------------------------- MODULE MCTermSession ----------------------------
(* TLC instance of TermSession: two heights of window and two of a cell, frames *)
(* of one or two rectangles, one of them past the edge of the smaller window.   *)
EXTENDS TermSession

Geo(r, c) == [rows |-> r, cell |-> c]
MCGeometries == {Geo(2, 3), Geo(2, 2), Geo(1, 2)}
Span(y, b) == [y |-> y, b |-> b]
MCRects == {Span(1, 3), Span(2, 3), Span(5, 7)}
==============================================================================
