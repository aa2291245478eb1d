----------------------------- MODULE WidgetTree -----------------------------
(* The tree made of a board's flat widget list: node ids, adjacency, the     *)
(* expansion of tables, and the grouping by parent_id.  Models               *)
(* parsing/tables.py, parsing/parent_id.py, parsing/models.py (WidgetTree)   *)
(* and build_tree.  A widget keeps its id, its kind, its parent, its box, a  *)
(* table's rows and columns, a cell's slot and an arrow's ends, and, where    *)
(* WidgetText needs them, its texts and font size.                           *)
EXTENDS Integers, Sequences, SequencesExt

-----------------------------------------------------------------------------
(* Node ids.  The code's ids are strings that do not collide: widget and row *)
(* ids are Mural's, the others are made from them or from a counter.         *)

Root == <<"root">>                              \* None, the parent of the top level
WidgetId(k) == <<"widget", k>>
RowId(r) == <<"row", r>>
GroupId(k) == <<"spatial_group", k>>

\* col_node_id: a column of one row.
SlotId(r, c) == <<"slot", r, c>>

-----------------------------------------------------------------------------
(* Widgets.                                                                  *)

IsTable(w) == w.kind = "table"
IsCell(w) == w.kind = "table cell"
IsArrow(w) == w.kind = "arrow"
IsPlain(w) == ~ IsTable(w) /\ ~ IsCell(w)

Tables(widgets) == {t \in ToSet(widgets) : IsTable(t)}

RowsOf(table) == [k \in DOMAIN table.rows |-> RowId(table.rows[k])]
SlotsOf(table, r) == [k \in DOMAIN table.columns |-> SlotId(r, table.columns[k])]

IdsOf(widgets) == {widgets[k].id : k \in DOMAIN widgets}
WidgetOf(widgets, id) == CHOOSE w \in ToSet(widgets) : w.id = id

-----------------------------------------------------------------------------
(* Parts of a list, in the order of the list.                                *)

\* The numbers of a set up to n.
InOrder(S, n) ==
    LET order[k \in 0..n] ==
            IF k = 0 THEN <<>>
            ELSE IF k \in S THEN Append(order[k - 1], k) ELSE order[k - 1]
    IN order[n]

WidgetsAt(widgets, places) == [k \in DOMAIN places |-> widgets[places[k]]]
Those(widgets, places) == WidgetsAt(widgets, InOrder(places, Len(widgets)))

IdList(widgets) == [k \in DOMAIN widgets |-> widgets[k].id]

-----------------------------------------------------------------------------
(* What the code takes for granted of the widgets that Mural sends: an id    *)
(* names one widget, and a row id one row, of one table; a parent is a       *)
(* widget; a table is not put into another one, but for its cells; what is   *)
(* laid out has a box.                                                       *)

IsBoard(widgets) ==
    /\ widgets \in Seq(ToSet(widgets))
    /\ \A k, l \in DOMAIN widgets : widgets[k].id = widgets[l].id => k = l
    /\ \A w \in ToSet(widgets) :
          /\ w.id[1] = "widget" /\ (w.parent = Root \/ w.parent[1] = "widget")
          /\ IsPlain(w) => w.box \in [x: Int, y: Int, width: Int, height: Int]
    /\ \A s, t \in Tables(widgets) :
          /\ t.rows \in Seq(ToSet(t.rows)) /\ IsInjective(t.rows)
          /\ t.columns \in Seq(ToSet(t.columns)) /\ IsInjective(t.columns)
          /\ t.parent # s.id
          /\ s # t => ToSet(s.rows) \cap ToSet(t.rows) = {}

\* A cell is in the table that has its row, whatever its parent_id; any other widget is
\* in its parent.
IsIn(w, holder) ==
    IF IsCell(w) THEN IsTable(holder) /\ w.row \in ToSet(holder.rows) ELSE w.parent = holder.id

\* No widget is in itself, on any way from holder to holder.
IsNested(widgets) ==
    \A S \in SUBSET DOMAIN widgets :
        S # {} => \E k \in S : \A l \in S : ~ IsIn(widgets[k], widgets[l])

-----------------------------------------------------------------------------
(* Adjacency: parent -> the ordered list of its children.                    *)

NoChildren == <<>>
Children(adjacency, n) ==
    IF n \in DOMAIN adjacency THEN adjacency[n] ELSE <<>>

\* adjacency[n].extend(children)
Extend(adjacency, n, children) ==
    [m \in DOMAIN adjacency \cup {n} |->
        IF m = n THEN Children(adjacency, n) \o children ELSE adjacency[m]]

\* adjacency.setdefault(parent, []).extend(children), for every parent of partial.
Merge(adjacency, partial) ==
    [n \in DOMAIN adjacency \cup DOMAIN partial |->
        Children(adjacency, n) \o Children(partial, n)]

-----------------------------------------------------------------------------
(* tables.expand, one table after the other: the lists of the table and of   *)
(* its rows are assigned, the parent's list is appended to.                  *)

ExpandTable(adjacency, table) ==
    LET rows == ToSet(RowsOf(table))
        extended == Extend(adjacency, table.parent, <<table.id>>)
    IN [n \in rows \cup {table.id} \cup DOMAIN extended |->
           IF n \in rows THEN SlotsOf(table, n[2])
           ELSE IF n = table.id THEN RowsOf(table) ELSE extended[n]]

TableAdjacency(widgets) ==
    LET expanded[k \in 0..Len(widgets)] ==
            IF k = 0 THEN NoChildren
            ELSE IF IsTable(widgets[k]) THEN ExpandTable(expanded[k - 1], widgets[k])
            ELSE expanded[k - 1]
    IN expanded[Len(widgets)]

RowNodes(widgets) == UNION {ToSet(RowsOf(t)) : t \in Tables(widgets)}
SlotNodes(widgets) ==
    UNION {UNION {ToSet(SlotsOf(t, r)) : r \in ToSet(t.rows)} : t \in Tables(widgets)}

-----------------------------------------------------------------------------
(* ParentIdStrategy.                                                         *)

\* adjacency[holder].append(w.id), for the widgets at some places, one after the other.
Appended(widgets, holder) ==
    [n \in {holder[k] : k \in DOMAIN holder} |->
        IdList(Those(widgets, {k \in DOMAIN holder : holder[k] = n}))]

ParentOf(w) == w.parent
SlotOf(cell) == SlotId(cell.row, cell.column)

CellAdjacency(widgets) ==
    Appended(widgets, [k \in {c \in DOMAIN widgets : IsCell(widgets[c])} |-> SlotOf(widgets[k])])

\* Mutation: cells are placed by their parent_id, too.
PlainAdjacencyWithCells(widgets) ==
    Appended(widgets, [k \in {p \in DOMAIN widgets : ~ IsTable(widgets[p])} |-> ParentOf(widgets[k])])

PlainAdjacency(widgets) ==
    Appended(widgets, [k \in {p \in DOMAIN widgets : IsPlain(widgets[p])} |-> ParentOf(widgets[k])])

ParentIdAdjacency(widgets) ==
    Merge(Merge(TableAdjacency(widgets), CellAdjacency(widgets)), PlainAdjacency(widgets))

-----------------------------------------------------------------------------
(* build_tree and WidgetTree.resolve.                                        *)

BuildTree(widgets, groups, adjacency) ==
    [nodes |-> IdsOf(widgets), row_nodes |-> RowNodes(widgets),
     col_nodes |-> SlotNodes(widgets), group_nodes |-> groups, adjacency |-> adjacency]

ParentIdTree(widgets) == BuildTree(widgets, {}, ParentIdAdjacency(widgets))

NodesOf(tree) == tree.nodes \cup tree.row_nodes \cup tree.col_nodes \cup tree.group_nodes

\* Mutation: synthetic nodes are forgotten.
ResolvesWidget(tree, id) == id \in tree.nodes

\* resolve(id) raises no KeyError.
Resolves(tree, id) == id \in NodesOf(tree)
=============================================================================
