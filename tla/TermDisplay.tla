----------------------------- MODULE TermDisplay -----------------------------
(* The display of the terminal backend, after term/display.rs: a shadow buffer, *)
(* and a present that turns its damage into the escape sequences that make the  *)
(* terminal show it.  In kitty mode the frame is a base image, and small damage *)
(* is placed over it as patches; in cells mode the damaged cells are written    *)
(* again.  Each operator returns the display and the sequences it writes.       *)
EXTENDS Terminal, SequencesExt

CONSTANTS MaxPatches,   \* patches that may live before a consolidation (48)
          FirstPatchId  \* above the two slots of the base

Base(slot) == IF slot THEN 1 ELSE 2

NewDisplay(protocol, g) ==
  [protocol |-> protocol, geo |-> g, shadow |-> [n \in 1..Heighten(g) |-> Black],
   presented |-> FALSE, slot |-> FALSE, nextId |-> FirstPatchId, patches |-> <<>>, nextZ |-> 1]

Image(d, id, z, r) ==
  [id |-> id, z |-> z, row |-> r.y \div d.geo.cell, off |-> r.y % d.geo.cell,
   pix |-> SubSeq(d.shadow, r.y + 1, r.b)]

Place(i) == [op |-> "place", image |-> i]
Delete(id) == [op |-> "delete", id |-> id]

Whole(d) == [y |-> 0, b |-> Len(d.shadow)]

\* Damage is clamped to the surface, and what is empty then is dropped.
Clamped(d, damage) ==
  LET cut(r) == [y |-> r.y, b |-> IF r.b > Len(d.shadow) THEN Len(d.shadow) ELSE r.b]
  IN  FlattenSeq([k \in DOMAIN damage |->
        LET r == cut(damage[k]) IN IF r.y < r.b THEN <<r>> ELSE <<>>])

Area(damage) == FoldSeq(LAMBDA r, a : a + (r.b - r.y), 0, damage)

GoesFull(d, damage) ==
  \/ ~d.presented
  \/ Area(damage) * 2 >= Len(d.shadow)
  \/ Len(d.patches) + Len(damage) > MaxPatches

\* Mutant of FullOut: the old base goes before the new one is there.
FullOutBare(d) ==
  (IF d.presented THEN <<Delete(Base(~d.slot))>> ELSE <<>>)
  \o <<Place(Image(d, Base(d.slot), 0, Whole(d)))>>
  \o [k \in DOMAIN d.patches |-> Delete(d.patches[k])]

\* A new base in the other slot, placed before the old one is deleted.
FullOut(d) ==
  <<Place(Image(d, Base(d.slot), 0, Whole(d)))>>
  \o (IF d.presented THEN <<Delete(Base(~d.slot))>> ELSE <<>>)
  \o [k \in DOMAIN d.patches |-> Delete(d.patches[k])]

Consolidated(d) ==
  [d EXCEPT !.slot = ~@, !.patches = <<>>, !.nextZ = 1, !.nextId = FirstPatchId,
            !.presented = TRUE]

PatchOut(d, damage) ==
  [k \in DOMAIN damage |-> Place(Image(d, d.nextId + k - 1, d.nextZ + k - 1, damage[k]))]

Patched(d, damage) ==
  [d EXCEPT !.patches = @ \o [k \in DOMAIN damage |-> d.nextId + k - 1],
            !.nextId = @ + Len(damage), !.nextZ = @ + Len(damage)]

Cell(d, row) ==
  [op |-> "cell", row |-> row, halves |-> SubSeq(d.shadow, 2 * row + 1, 2 * row + 2)]

\* Cell rows that damage touches: half a row touched is a row written.
CellRows(d, r) ==
  [k \in 1..(((r.b + 1) \div 2) - (r.y \div 2)) |-> Cell(d, (r.y \div 2) + k - 1)]

CellsOut(d, damage) == FlattenSeq([k \in DOMAIN damage |-> CellRows(d, damage[k])])

\* present: what is written, and the display after it.
PresentOut(d, damage) ==
  LET r == Clamped(d, damage)
  IN  IF r = <<>> /\ d.presented THEN <<>>
      ELSE IF d.protocol = "cells" THEN CellsOut(d, IF d.presented THEN r ELSE <<Whole(d)>>)
      ELSE IF GoesFull(d, r) THEN FullOut(d) ELSE PatchOut(d, r)

Presented(d, damage) ==
  LET r == Clamped(d, damage)
  IN  IF r = <<>> /\ d.presented THEN d
      ELSE IF d.protocol = "cells" THEN [d EXCEPT !.presented = TRUE]
      ELSE IF GoesFull(d, r) THEN Consolidated(d) ELSE Patched(d, r)

\* The geometry a poll derives; without pixel sizes the cell stays as it was.
Derived(d, g, pixels) ==
  [rows |-> g.rows,
   cell |-> CASE d.protocol = "cells" -> 2
              [] d.protocol = "kitty" /\ pixels -> g.cell
              [] OTHER -> d.geo.cell]

\* Mutant of ReconfigureOut: the images of the old geometry stay.
ReconfigureOutKeeps(d, g) == IF g = d.geo THEN <<>> ELSE <<[op |-> "clear"]>>

\* reconfigure: nothing, or a fresh surface and a cleared terminal.
ReconfigureOut(d, g) ==
  IF g = d.geo THEN <<>> ELSE <<[op |-> "deleteAll"], [op |-> "clear"]>>

Reconfigured(d, g) == IF g = d.geo THEN d ELSE NewDisplay(d.protocol, g)
==============================================================================
