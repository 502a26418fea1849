------------------------------- MODULE Terminal -------------------------------
(* The terminal at the other end of the tty, as the escape sequences of         *)
(* term/display.rs and term/mod.rs use it (external: a terminal emulator).      *)
(* A column of pixels stands for the screen: the arithmetic of the two axes is  *)
(* the same.  An image is placed at a cell and an offset inside the cell, so    *)
(* where it shows depends on the size the terminal gives a cell.                *)
EXTENDS Integers, Sequences

CONSTANT Black          \* the colour of what nothing was drawn on

\* A geometry: rows of cells, and the pixels a cell is high.
Heighten(g) == g.rows * g.cell

BlankGrid(g) == [r \in 0..(g.rows - 1) |-> <<Black, Black>>]

NewTerminal(g) == [geo |-> g, raw |-> FALSE, alt |-> FALSE, images |-> {},
                   grid |-> BlankGrid(g)]

Others(images, id) == {i \in images : i.id # id}

\* One complete escape sequence takes effect.
Obeyed(t, c) ==
  CASE c.op = "setup"     -> [t EXCEPT !.alt = TRUE, !.grid = BlankGrid(t.geo)]
    [] c.op = "restore"   -> [t EXCEPT !.alt = FALSE, !.images = {}]
    [] c.op = "place"     -> [t EXCEPT !.images = Others(@, c.image.id) \cup {c.image}]
    [] c.op = "delete"    -> [t EXCEPT !.images = Others(@, c.id)]
    [] c.op = "deleteAll" -> [t EXCEPT !.images = {}]
    [] c.op = "clear"     -> [t EXCEPT !.grid = BlankGrid(t.geo)]
    [] c.op = "cell"      -> [t EXCEPT !.grid = [r \in DOMAIN @ |->
                                                   IF r = c.row THEN c.halves ELSE @[r]]]

\* The window is resized: images keep their cell, the grid is cut or padded.
Resized(t, g) ==
  [t EXCEPT !.geo = g,
            !.grid = [r \in 0..(g.rows - 1) |->
                        IF r \in DOMAIN t.grid THEN t.grid[r] ELSE <<Black, Black>>]]

Top(t, i) == i.row * t.geo.cell + i.off

Covering(t, p) == {i \in t.images : /\ Top(t, i) <= p
                                    /\ p < Top(t, i) + Len(i.pix)}

\* The image a pixel belongs to: the highest, and of those the greatest id.
Upper(S) == CHOOSE i \in S : \A j \in S : j.z < i.z \/ (j.z = i.z /\ j.id <= i.id)

\* What the user sees, as pixels of images or as the halves of the cells.
Composite(t) ==
  [n \in 1..Heighten(t.geo) |->
     LET S == Covering(t, n - 1)
     IN  IF S = {} THEN Black ELSE LET i == Upper(S) IN i.pix[n - Top(t, i)]]

Halves(t) == [n \in 1..(2 * t.geo.rows) |-> t.grid[(n - 1) \div 2][((n - 1) % 2) + 1]]
==============================================================================
