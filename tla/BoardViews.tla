----------------------------- MODULE BoardViews -----------------------------
(* What the MCP tools return of a board: the summary of its regions, the     *)
(* rendering of a region or of found widgets as a depth-first walk of the    *)
(* tree, and the connections of a widget.  Models BoardSummary.build,        *)
(* rendering/msx.py and the four methods of BoardService after _load; a line *)
(* is the id of the node it is about.                                        *)
EXTENDS SpatialTree, WidgetText

CONSTANTS
    Boards,   \* the widget lists that are looked at
    Words     \* the words a search may ask for

\* What the code takes for granted of a board, and the texts that the schema of each
\* kind of widget allows.
ASSUME BoardsAssumption ==
    \A ws \in Boards :
        /\ IsBoard(ws) /\ IsNested(ws)
        /\ \A w \in ToSet(ws) :
              w.kind \in Kinds /\ w.says \in [TextAttributes[w.kind] -> SUBSET Words]

VARIABLES
    widgets,   \* the board's widget list
    tree,      \* the tree of the call in progress
    call,      \* the call in progress
    todo,      \* the walk: nodes still to render, in order
    lines,     \* the nodes rendered
    listed     \* what the last get_board_summary listed, and in which mode

vars == <<widgets, tree, call, todo, lines, listed>>

Idle == [tool |-> "none"]

-----------------------------------------------------------------------------
(* BoardSummary.build: areas on the top level and spatial groups.            *)

\* Mutation: only the children are counted.
CountChildren(t, id) == Len(Children(t.adjacency, id))

\* _count_descendants
CountDescendants(t, id) ==
    LET count[n \in NodesOf(t)] ==
            LET children == Children(t.adjacency, n)
                total[k \in 0..Len(children)] ==
                    IF k = 0 THEN Len(children) ELSE total[k - 1] + count[children[k]]
            IN total[Len(children)]
    IN count[id]

IsAreaNode(id) == id \in IdsOf(widgets) /\ WidgetOf(widgets, id).kind = "area"

WidgetsIn(t, id) ==
    LET ids == Children(t.adjacency, id)
    IN [k \in DOMAIN ids |-> WidgetOf(widgets, ids[k])]

\* The regions of a tree.  The children of a spatial group are widgets.
Regions(t) ==
    LET top == ToSet(Children(t.adjacency, Root)) IN
    {[id |-> id, label |-> Attribute(WidgetOf(widgets, id), "title"),
      count |-> CountDescendants(t, id)] : id \in {n \in top : IsAreaNode(n)}}
    \cup
    {[id |-> id, label |-> InferLabel(WidgetsIn(t, id)),
      count |-> Len(Children(t.adjacency, id))] : id \in top \cap t.group_nodes}

-----------------------------------------------------------------------------
(* render_connections: the arrows of a widget that have both ends, each from *)
(* the widget's side.                                                        *)

Unattached == <<"unattached">>   \* start_ref_id or end_ref_id is None

\* Mutation: the other end of an incoming arrow is read from the wrong field.
ConnectionOfEnd(w, id) ==
    IF w.start = id /\ w.end # Unattached THEN {<<w.id, "outgoing", w.end>>}
    ELSE IF w.end = id /\ w.start # Unattached THEN {<<w.id, "incoming", w.end>>}
    ELSE {}

ConnectionOf(w, id) ==
    IF w.start = id /\ w.end # Unattached THEN {<<w.id, "outgoing", w.end>>}
    ELSE IF w.end = id /\ w.start # Unattached THEN {<<w.id, "incoming", w.start>>}
    ELSE {}

Connections(id) ==
    UNION {ConnectionOf(w, id) : w \in {a \in ToSet(widgets) : IsArrow(a)}}

-----------------------------------------------------------------------------
(* Tool calls.  Each loads the board anew and builds its own tree.           *)

TreeFor(spatial) == IF spatial THEN SpatialTreeOf(widgets) ELSE ParentIdTree(widgets)

\* get_board_summary
FetchSummary(spatial) ==
    /\ call = Idle
    /\ listed' = [spatial |-> spatial, regions |-> Regions(TreeFor(spatial))]
    /\ UNCHANGED <<widgets, tree, call, todo, lines>>

\* The walk of the rendering begins at some nodes.
Walk(request, spatial, roots) ==
    /\ call' = request
    /\ tree' = TreeFor(spatial)
    /\ todo' = roots /\ lines' = <<>>
    /\ UNCHANGED <<widgets, listed>>

\* Mutation: the id is not looked up first.
FetchRegionUnchecked(id, spatial) ==
    /\ call = Idle
    /\ Walk([tool |-> "get_region", id |-> id, spatial |-> spatial], spatial, <<id>>)

\* get_region of an id that some call has shown.
FetchRegion(id, spatial) ==
    /\ call = Idle
    /\ LET request == [tool |-> "get_region", id |-> id, spatial |-> spatial] IN
       IF Resolves(TreeFor(spatial), id) THEN Walk(request, spatial, <<id>>)
       ELSE Walk([request EXCEPT !.tool = "BoardRegionNotFoundError"], spatial, <<>>)

\* find_widgets: the widgets that match, in board order.  Without a query and a
\* type the tool answers with a hint and loads no board.
SearchWidgets(query, kind) ==
    /\ call = Idle
    /\ query # Anything \/ kind # Anything
    /\ Walk([tool |-> "find_widgets", query |-> query, kind |-> kind], FALSE,
            IdList(Those(widgets, {k \in DOMAIN widgets : Matches(widgets[k], query, kind)})))

\* get_connections
FetchConnections(id) ==
    /\ call = Idle
    /\ Walk([tool |-> "get_connections", id |-> id, connections |-> Connections(id)],
            FALSE, <<>>)

\* _render_node: a node, then its children, each with its own.
RenderNode ==
    /\ todo # <<>>
    /\ lines' = Append(lines, Head(todo))
    /\ todo' = Children(tree.adjacency, Head(todo)) \o Tail(todo)
    /\ UNCHANGED <<widgets, tree, call, listed>>

\* The rendering is returned.
Return ==
    /\ call # Idle /\ todo = <<>>
    /\ call' = Idle /\ lines' = <<>>
    /\ tree' = ParentIdTree(<<>>)
    /\ UNCHANGED <<widgets, todo, listed>>

-----------------------------------------------------------------------------
Init ==
    /\ widgets \in Boards
    /\ tree = ParentIdTree(<<>>)
    /\ call = Idle
    /\ todo = <<>> /\ lines = <<>>
    /\ listed = [spatial |-> FALSE, regions |-> {}]

\* The ids a caller may have come across, of either mode.
KnownIds == NodesOf(ParentIdTree(widgets)) \cup NodesOf(SpatialTreeOf(widgets))

\* A tool is called.
ToolCall ==
    \/ \E spatial \in BOOLEAN :
          \/ FetchSummary(spatial)
          \/ \E id \in KnownIds : FetchRegion(id, spatial)
    \/ \E query \in Words \cup {Anything} :
          \E kind \in {w.kind : w \in ToSet(widgets)} \cup {Anything} : SearchWidgets(query, kind)
    \/ \E id \in IdsOf(widgets) : FetchConnections(id)

Next ==
    \/ call = Idle /\ ToolCall
    \/ RenderNode
    \/ Return

Spec == Init /\ [][Next]_vars

-----------------------------------------------------------------------------
(* Properties.                                                               *)

\* Only nodes of the tree are rendered or wait to be: resolve raises no KeyError in
\* the middle of a walk, in either mode.
TypeOK ==
    /\ call.tool \in {"none", "get_region", "BoardRegionNotFoundError", "find_widgets",
                      "get_connections"}
    /\ ToSet(lines) \cup ToSet(todo) \subseteq NodesOf(tree)
    /\ listed.regions \subseteq
          [id: NodesOf(TreeFor(listed.spatial)), label: SUBSET Words, count: Nat]

\* Reference: what holds a node, in either mode a slot's row and a row's table.  By
\* parent_id a cell has its slot and any other widget its parent; by proximity a
\* table has its parent, a widget the head of its cluster, a cell and a group nothing.
Holder(n, spatial) ==
    IF n[1] = "slot" THEN RowId(n[2])
    ELSE IF n[1] = "row"
    THEN (CHOOSE t \in Tables(widgets) : n \in ToSet(RowsOf(t))).id
    ELSE IF n \notin IdsOf(widgets) THEN Root
    ELSE LET w == WidgetOf(widgets, n)
         IN IF IsCell(w) THEN IF spatial THEN Root ELSE SlotId(w.row, w.column)
            ELSE IF IsPlain(w) /\ spatial THEN HolderNear(widgets, n) ELSE w.parent

\* The nodes that a region holds, itself or through others.
Within(region, spatial) ==
    LET nodes == NodesOf(TreeFor(spatial))
        holder == [n \in nodes |-> Holder(n, spatial)]
        held[n \in nodes] == n = region \/ (holder[n] \in nodes /\ held[holder[n]])
    IN {n \in nodes : held[n]}

Rendered(tool) == call.tool = tool /\ todo = <<>>

\* A rendered region has all that the mode of the call puts in it, and nothing else:
\* by parent_id every widget, row, slot and cell; by proximity the widgets of the
\* cluster that it heads, and the rows and slots of a table, whose cells hang nowhere
\* in that mode.  No node comes twice, at any time of the walk, which cannot go round
\* in circles then.
RegionIsWhole ==
    /\ call.tool = "get_region" => IsInjective(lines)
    /\ Rendered("get_region") => ToSet(lines) = Within(call.id, call.spatial)

\* The count a summary gives of an area, and of a spatial group on a board without
\* tables, is the number of nodes that get_region then renders inside it.
CountIsRendering ==
    Rendered("get_region") /\ call.spatial = listed.spatial =>
        \A region \in listed.regions :
            /\ region.id = call.id
            /\ IsAreaNode(call.id) \/ ~ \E w \in ToSet(widgets) : IsTable(w)
            => region.count = Len(lines) - 1

\* A region that a summary listed is found by get_region in the same mode, as
\* long as the board stays as it is.
ListedIsFound ==
    call.tool = "BoardRegionNotFoundError" /\ call.spatial = listed.spatial =>
        ~ \E region \in listed.regions : region.id = call.id

\* An arrow from one widget to another is outgoing for the one and incoming for
\* the other, with each named as the other's end.
ConnectionsAgree ==
    \A a, b \in IdsOf(widgets) : \A w \in IdsOf(widgets) :
        a # b => (<<w, "outgoing", b>> \in Connections(a)
                    <=> <<w, "incoming", a>> \in Connections(b))

\* What a caller reads in a summary or in the text of a sticky note, shape or
\* text, a search for it finds: a word of a label leads to the region or to a
\* widget in it, and a word of a rendered text to its widget.
WordsAreFound ==
    Rendered("find_widgets") /\ call.kind = Anything =>
        /\ \A region \in listed.regions :
              call.query \in region.label =>
                  \E id \in {region.id} \cup
                         ToSet(Children(TreeFor(listed.spatial).adjacency, region.id)) :
                      id \in ToSet(lines)
        /\ \A w \in ToSet(widgets) :
              /\ w.kind \in {"sticky note", "shape", "text"}
              /\ call.query \in ContentOf(w)
              => w.id \in ToSet(lines)

\* A spatial group that has a sticky note, shape or text in it that get_region
\* renders as a heading is labelled by the first of them, whatever the others
\* say: the summary and the renderer have the size of a heading each in a place
\* of its own.
LabelIsHeading ==
    listed.spatial =>
        \A region \in {g \in listed.regions : ~ IsAreaNode(g.id)} :
            LET children == WidgetsIn(TreeFor(TRUE), region.id)
                heading == SelectInSeq(children, LAMBDA w : w.kind # "area" /\ RoleOf(w) = "heading")
            IN heading # 0 => region.label = TextOrTitle(children[heading])

=============================================================================
