-------------------------- MODULE MCSpatialGrouping -------------------------
(* Instances of SpatialGrouping for TLC: every list of a few widgets with    *)
(* boxes that are far apart, near in a row, near only at their corners,      *)
(* large enough to anchor, or without an area; and lists with a table.       *)
EXTENDS SpatialGrouping

Box(x, y, width, height) == [x |-> x, y |-> y, width |-> width, height |-> height]

\* In units of half the cluster gap.
InRow(k) == Box(3 * k, 0, 1, 1)
Shapes == {Box(0, 0, 1, 1), Box(3, 0, 1, 1), Box(5, 3, 1, 1),
           Box(0, 2, 3, 1), Box(6, 0, 0, 2)}

Note(k, box) ==
    [id |-> WidgetId(k), kind |-> "sticky note", parent |-> Root, box |-> box]
Table(k, holder) ==
    [id |-> WidgetId(k), kind |-> "table", parent |-> holder, box |-> Box(0, 0, 4, 4),
     rows |-> <<"r">>, columns |-> <<"c", "d">>]
Cell(k, table, c) ==
    [id |-> WidgetId(k), kind |-> "table cell", parent |-> table, box |-> Box(0, 0, 1, 1),
     row |-> "r", column |-> c]

Notes(n, boxes) == {[k \in 1..n |-> Note(k, f[k])] : f \in [1..n -> boxes]}

\* Rows of five notes, whole or with a break, in every order.
RowBoards ==
    UNION {{[k \in 1..5 |-> Note(k, InRow(f[k]))] : f \in Bijection(1..5, cells)}
             : cells \in {1..5, {1, 2, 4, 5, 6}}}
ShapeBoards == UNION {Notes(n, Shapes) : n \in 0..4}
TableBoards ==
    {<<Note(1, b), Note(2, c), Table(3, p), Cell(4, WidgetId(3), "c"), Cell(5, WidgetId(3), "d")>> :
        b \in Shapes, c \in Shapes, p \in {Root, WidgetId(1)}}

AllBoards == RowBoards \cup ShapeBoards \cup TableBoards
=============================================================================
