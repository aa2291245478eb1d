---------------------------- MODULE MCBoardViews ----------------------------
(* Instances of BoardViews for TLC: boards with an area and a note in it or  *)
(* next to it, then a table and a cell of it, with its parent_id or without, *)
(* or arrows, children before and after parents; and boards of two           *)
(* neighbours with texts.                                                    *)
EXTENDS BoardViews

Box(x, side) == [x |-> x, y |-> 0, width |-> side, height |-> side]

Silent(kind) == [name \in TextAttributes[kind] |-> {}]

Plain(k, kind, holder, box) ==
    [id |-> WidgetId(k), kind |-> kind, parent |-> holder, box |-> box,
     says |-> Silent(kind), font_size |-> 16]
Table(k, holder) ==
    [id |-> WidgetId(k), kind |-> "table", parent |-> holder, box |-> Box(0, 1),
     says |-> Silent("table"), rows |-> <<"r", "s">>, columns |-> <<"c">>]
Cell(k, table, row) ==
    [id |-> WidgetId(k), kind |-> "table cell", parent |-> table, box |-> Box(0, 1),
     says |-> Silent("table cell"), row |-> row, column |-> "c"]
Arrow(k, start, end) ==
    [id |-> WidgetId(k), kind |-> "arrow", parent |-> Root, box |-> Box(2, 1),
     says |-> Silent("arrow"), start |-> start, end |-> end]

\* Two neighbours of the same size, each of a kind of its own, with or without
\* each of its texts, at the size of a heading or just below it.
Talking(k, word) ==
    UNION {{[id |-> WidgetId(k), kind |-> kind, parent |-> Root, box |-> Box(k, 1),
             says |-> [name \in TextAttributes[kind] |-> IF name \in texts THEN {word} ELSE {}],
             font_size |-> size] :
               texts \in SUBSET TextAttributes[kind],
               size \in (IF kind \in {"image", "comment", "text"} THEN {NoFontSize} ELSE {})
                       \cup (IF kind \notin {"image", "comment"} THEN {79, 80} ELSE {})}
             : kind \in {"sticky note", "text", "area", "image", "comment"}}

TextBoards == {<<a, b>> : a \in Talking(1, "p"), b \in Talking(2, "q")}

\* An area, and a widget on its own or in it, near or far.
Pairs ==
    {<<Plain(1, "area", Root, Box(0, side)), Plain(2, kind, holder, Box(x, 1))>> :
        side \in {1, 3}, kind \in {"area", "sticky note"}, holder \in {Root, WidgetId(1)},
        x \in {2, 9}}

TableBoards ==
    UNION {{pair \o <<Table(3, holder), Cell(4, WidgetId(3), "s")>>,
            <<Cell(4, Root, "s"), Table(3, holder)>> \o Reverse(pair)}
             : pair \in Pairs, holder \in {Root, WidgetId(1), WidgetId(2)}}

Ends == {WidgetId(1), WidgetId(2), Unattached}
ArrowBoards ==
    {pair \o <<Arrow(3, start, end)>> :
        pair \in {p \in Pairs : p[2].parent = Root /\ p[2].kind = "sticky note"},
        start \in Ends, end \in Ends}

SomeBoards == TableBoards \cup ArrowBoards \cup TextBoards
=============================================================================
