----------------------------- MODULE MCDiskVerify -----------------------------
(* TLC instance of DiskVerify: a disk of five sectors of two bytes and one of   *)
(* three, a pattern of three bytes, which no sector and no chunk is a multiple  *)
(* of, three buckets, and sectors that differ, cannot be read or may not.       *)
EXTENDS DiskVerify

Cycle(n) == [b \in 1..n |-> ((b - 1) % 3) + 1]
Whole(n, dead, flaky) == [data |-> Cycle(n), dead |-> dead, flaky |-> flaky]
MCMedia == {[Whole(10, {4}, {}) EXCEPT !.data[5] = 9, !.data[7] = 9], Whole(6, {}, {2})}

Hex(digits) == [prefix |-> FALSE, digits |-> digits]
MCPatterns == {Hex(<<0, 1, 0, 2, 0, 3>>), Hex(<<0>>)}

From(a) == [form |-> "on", a |-> a]
To(a, b) == [form |-> "to", a |-> a, b |-> b]
Plus(a, n) == [form |-> "plus", a |-> a, b |-> n]
MCSkips == {<<>>, <<Plus(2, 1), To(1, 3)>>, <<From(4), To(2, 3)>>}
==============================================================================
