-------------------------------- MODULE Layout --------------------------------
(***************************************************************************)
(* Where panes are drawn: crates/hom-tui/src/layout.rs.  The areas are a   *)
(* function of the pane order and the layout, computed anew for each frame *)
(* and for each event.  The solver of the terminal library, which divides  *)
(* a length into n equal parts, is external: it rounds the borders to the  *)
(* nearest cell.                                                           *)
(***************************************************************************)
EXTENDS Naturals, Sequences, SequencesExt

Layouts == {"single", "hsplit", "vsplit", "grid", "tabbed"}
Tiling == {"hsplit", "vsplit", "grid"}       \* the layouts that show every pane

Smaller(a, b) == IF a <= b THEN a ELSE b
CeilDiv(a, b) == (a + b - 1) \div b

(* The border after the first i of n parts of a length. *)
Border(length, n, i) == (2 * i * length + n) \div (2 * n)

SideBySide(area, n) ==
    [i \in 1 .. n |-> [area EXCEPT !.x = @ + Border(area.width, n, i - 1),
                                   !.width = Border(@, n, i) - Border(@, n, i - 1)]]

Stacked(area, n) ==
    [i \in 1 .. n |-> [area EXCEPT !.y = @ + Border(area.height, n, i - 1),
                                   !.height = Border(@, n, i) - Border(@, n, i - 1)]]

GridColumns(n) == CHOOSE c \in 1 .. n : c * c >= n /\ (c - 1) * (c - 1) < n

GridRows_RoundedDown(n) == n \div GridColumns(n)                     \* mutant

GridRows(n) == CeilDiv(n, GridColumns(n))

(* The last row may have fewer panes than the others: they are wider. *)
GridAreas(area, n) ==
    LET rows == GridRows(n)
        inRow(r) == Smaller(GridColumns(n), n - (r - 1) * GridColumns(n))
    IN [i \in 1 .. Smaller(n, rows * GridColumns(n)) |->
            LET r == CeilDiv(i, GridColumns(n))
            IN SideBySide(Stacked(area, rows)[r], inRow(r))[i - (r - 1) * GridColumns(n)]]

Areas(area, n, layout) ==
    CASE layout = "single" -> <<area>>
      [] layout = "hsplit" -> Stacked(area, n)
      [] layout = "vsplit" -> SideBySide(area, n)
      [] layout = "grid"   -> GridAreas(area, n)
      [] layout = "tabbed" -> [i \in 1 .. n |-> area]

(* compute_pane_areas: the panes in order, zipped with their areas. *)
PaneAreas(area, order, layout) ==
    IF order = <<>> THEN <<>>
    ELSE LET areas == IF Len(order) = 1 THEN <<area>> ELSE Areas(area, Len(order), layout)
         IN [i \in 1 .. Smaller(Len(order), Len(areas)) |-> [pane |-> order[i], area |-> areas[i]]]

Covers_Inclusive(area, cell) ==                                      \* mutant
    /\ cell.column >= area.x /\ cell.column <= area.x + area.width
    /\ cell.row >= area.y /\ cell.row < area.y + area.height

Covers(area, cell) ==
    /\ cell.column >= area.x /\ cell.column < area.x + area.width
    /\ cell.row >= area.y /\ cell.row < area.y + area.height

Cells(area) == [column : area.x .. area.x + area.width - 1, row : area.y .. area.y + area.height - 1]

(* The first pane drawn at a cell; default where there is none. *)
PaneAt(areas, cell, default) ==
    LET i == SelectInSeq(areas, LAMBDA drawn : Covers(drawn.area, cell))
    IN IF i = 0 THEN default ELSE areas[i].pane
===============================================================================
