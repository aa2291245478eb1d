--------------------------- MODULE SpatialGrouping --------------------------
(* SpatialGroupingStrategy.group as it runs: union-find with path halving    *)
(* over every pair of widgets, the collection of the clusters, and their     *)
(* placement in the tree, one cluster after the other.  Places of the        *)
(* clustered widgets count from 1.                                           *)
EXTENDS SpatialTree

CONSTANT Boards   \* the widget lists that are grouped

ASSUME BoardsAssumption == \A ws \in Boards : IsBoard(ws)

VARIABLES
    widgets,   \* the widget list of this run
    pc,        \* what runs: "compare", a find ("find_j", "find_i", "find"), "place", "done"
    pair,      \* i and j of the loops; i also counts places collected, clusters placed
    node,      \* the i of find
    right,     \* what find(j) returned
    parent,    \* union-find's parent of each place
    groups,    \* the dict of clusters: <<root, places>> in insertion order
    tree       \* the groups and the adjacency placed so far

vars == <<widgets, pc, pair, node, right, parent, groups, tree>>

Free == Clustered(widgets)
Places == DOMAIN Free

\* Mutation: list(range(1, n + 1)).
InitialParentsShifted(ws) == [k \in DOMAIN Clustered(ws) |-> k + 1]

\* list(range(n))
InitialParents(ws) == [k \in DOMAIN Clustered(ws) |-> k]

FirstPair == [i |-> 1, j |-> 2]

\* for i in range(n): for j in range(i + 1, n)
NextPair(p) ==
    IF p.j < Len(Free) THEN [p EXCEPT !.j = @ + 1] ELSE [i |-> p.i + 1, j |-> p.i + 2]

-----------------------------------------------------------------------------
(* Union-find.                                                               *)

\* A pair that is not near is passed over; for one that is, find(j) begins.
Compare ==
    /\ pc = "compare" /\ pair.j <= Len(Free)
    /\ IF Near(Free[pair.i], Free[pair.j])
       THEN pc' = "find_j" /\ node' = pair.j /\ UNCHANGED pair
       ELSE pair' = NextPair(pair) /\ UNCHANGED <<pc, node>>
    /\ UNCHANGED <<widgets, right, parent, groups, tree>>

Finding == pc \in {"find_j", "find_i", "find"}

\* Mutation: find does not move on.
HalveInPlace ==
    /\ Finding /\ parent[node] # node
    /\ parent' = [parent EXCEPT ![node] = parent[parent[node]]]
    /\ UNCHANGED <<widgets, pc, pair, node, right, groups, tree>>

\* One turn of find's loop.
Halve ==
    /\ Finding /\ parent[node] # node
    /\ parent' = [parent EXCEPT ![node] = parent[parent[node]]]
    /\ node' = parent'[node]
    /\ UNCHANGED <<widgets, pc, pair, right, groups, tree>>

\* find(j) returns and find(i) begins: the right-hand side is evaluated first.
FoundRight ==
    /\ pc = "find_j" /\ parent[node] = node
    /\ right' = node /\ node' = pair.i
    /\ pc' = "find_i"
    /\ UNCHANGED <<widgets, pair, parent, groups, tree>>

\* Mutation: i itself is linked, not the root of its set.
LinkPlace ==
    /\ pc = "find_i" /\ parent[node] = node
    /\ parent' = [parent EXCEPT ![pair.i] = right]
    /\ pair' = NextPair(pair)
    /\ pc' = "compare"
    /\ UNCHANGED <<widgets, node, right, groups, tree>>

\* Mutation: the root is linked to j, not to the root of j's set.
LinkToPlace ==
    /\ pc = "find_i" /\ parent[node] = node
    /\ parent' = [parent EXCEPT ![node] = pair.j]
    /\ pair' = NextPair(pair)
    /\ pc' = "compare"
    /\ UNCHANGED <<widgets, node, right, groups, tree>>

\* parent[find(i)] = find(j)
Link ==
    /\ pc = "find_i" /\ parent[node] = node
    /\ parent' = [parent EXCEPT ![node] = right]
    /\ pair' = NextPair(pair)
    /\ pc' = "compare"
    /\ UNCHANGED <<widgets, node, right, groups, tree>>

\* The pairs are done; the find of the first place begins, if there is one.
StartCollecting ==
    /\ pc = "compare" /\ pair.j > Len(Free)
    /\ pair' = FirstPair /\ node' = 1
    /\ pc' = IF Free = <<>> THEN "place" ELSE "find"
    /\ UNCHANGED <<widgets, right, parent, groups, tree>>

\* groups[root].append(place)
AddTo(clusters, root, place) ==
    LET k == SelectInSeq(clusters, LAMBDA c : c[1] = root)
    IN IF k = 0 THEN Append(clusters, <<root, <<place>>>>)
       ELSE [clusters EXCEPT ![k] = <<root, Append(@[2], place)>>]

\* find returns for one place, which joins the cluster of its root.
Collect ==
    /\ pc = "find" /\ parent[node] = node
    /\ groups' = AddTo(groups, node, pair.i)
    /\ IF pair.i < Len(Free)
       THEN pair' = [pair EXCEPT !.i = @ + 1] /\ node' = pair.i + 1 /\ UNCHANGED pc
       ELSE pair' = FirstPair /\ pc' = "place" /\ UNCHANGED node
    /\ UNCHANGED <<widgets, right, parent, tree>>

-----------------------------------------------------------------------------
(* Placement: one cluster after the other, in the order of the dict.         *)

Cluster(k) == WidgetsAt(Free, groups[k][2])

Place ==
    /\ pc = "place" /\ pair.i \in DOMAIN groups
    /\ tree' = PlaceCluster(tree, Cluster(pair.i), pair.i - 1)
    /\ pair' = [pair EXCEPT !.i = @ + 1]
    /\ UNCHANGED <<widgets, pc, node, right, parent, groups>>

Finish ==
    /\ pc = "place" /\ pair.i > Len(groups)
    /\ pc' = "done"
    /\ UNCHANGED <<widgets, pair, node, right, parent, groups, tree>>

-----------------------------------------------------------------------------
Init ==
    /\ widgets \in Boards
    /\ pc = "compare" /\ pair = FirstPair
    /\ node = 1 /\ right = 1
    /\ parent = InitialParents(widgets)
    /\ groups = <<>>
    /\ tree = Unplaced(widgets)

Next ==
    Compare \/ Halve \/ FoundRight \/ Link \/ StartCollecting \/ Collect \/ Place \/ Finish

\* The code runs on: nothing in it waits.
Spec == Init /\ [][Next]_vars /\ WF_vars(Next)

-----------------------------------------------------------------------------
(* Properties.                                                               *)

\* union-find stays within the places there are, and the loops within bounds.
TypeOK ==
    /\ pc \in {"compare", "find_j", "find_i", "find", "place", "done"}
    /\ parent \in [Places -> Places]
    /\ Finding => {node, right, pair.i} \subseteq Places \cup {1}
    /\ pc \in {"find_j", "find_i"} => pair.j \in Places
    /\ \A k \in DOMAIN groups : groups[k][1] \in Places /\ ToSet(groups[k][2]) \subseteq Places

\* find ends wherever it starts: no set of places is a cycle of parents.
ChainsHaveRoots ==
    \A S \in SUBSET Places :
        S # {} /\ (\A k \in S : parent[k] \in S) => \E k \in S : parent[k] = k

\* The clusters are the connected components of the proximity graph, in board
\* order, and the tree is the one these make: the index in a group's id, the
\* choice of anchors and the order of children depend on nothing else.
GroupingIsExact ==
    pc = "done" =>
        /\ [k \in DOMAIN groups |-> groups[k][2]] = Components(Free)
        /\ BuildTree(widgets, tree.groups, tree.adjacency) = SpatialTreeOf(widgets)

\* Where an id is in the tree: the lists and positions that hold it.
PlacesOf(id) ==
    UNION {{<<n, k>> : k \in {m \in DOMAIN tree.adjacency[n] : tree.adjacency[n][m] = id}}
             : n \in DOMAIN tree.adjacency}

\* Of all the lists only n's has the id, once.
OnlyUnder(n, id) == \E k \in DOMAIN Children(tree.adjacency, n) : PlacesOf(id) = {<<n, k>>}

\* Everything but the cells of a table has one place in the tree: a table under its
\* parent; a group on the top level; of a cluster its only widget, or the one that
\* dwarfs the others, on the top level as well, and the others under that or under
\* the group.  A widget next to which no other has an area gets none of them under it.
PlacedOnce ==
    pc = "done" =>
        /\ \A w \in ToSet(widgets) :
              /\ IsTable(w) => OnlyUnder(w.parent, w.id)
              /\ IsPlain(w) => OnlyUnder(HolderNear(widgets, w.id), w.id)
        /\ \A g \in tree.groups : OnlyUnder(Root, g)

\* A board is always grouped in the end.
GroupingEnds == <>(pc = "done")

-----------------------------------------------------------------------------
(* A claim of a comment that the code does not keep.                         *)

\* "Tables and their cells are placed by tables.expand, not clustered."
CellsArePlaced ==
    pc = "done" =>
        \A k \in DOMAIN widgets :
            IsCell(widgets[k]) => PlacesOf(widgets[k].id) # {}

=============================================================================
