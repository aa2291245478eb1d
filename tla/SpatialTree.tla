---------------------------- MODULE SpatialTree -----------------------------
(* What the grouping by proximity means: which widgets are near each other,  *)
(* which of a cluster anchors it, where a cluster goes in the tree, and, as  *)
(* references, the clusters as the connected components of the proximity     *)
(* graph and what each widget hangs on.  Models parsing/spatial.py.          *)
(* Coordinates are integers.                                                 *)
EXTENDS WidgetTree, FiniteSets

CONSTANTS
    ClusterGap,   \* cluster_gap: how far apart two widgets of a cluster may be
    AnchorRatio   \* anchor_ratio: how many times larger an anchor is

ASSUME SpatialAssumption == ClusterGap \in Nat /\ AnchorRatio \in Nat \ {0}

-----------------------------------------------------------------------------
(* Geometry.                                                                 *)

Larger(a, b) == IF a > b THEN a ELSE b
Smaller(a, b) == IF a < b THEN a ELSE b
GapBetween(a, size_a, b, size_b) ==
    Larger(0, Larger(a, b) - Smaller(a + size_a, b + size_b))

Area(w) == w.box.width * w.box.height

\* _bbox_distance(v, w) <= gap, without the square root.
Near(v, w) ==
    LET dx == GapBetween(v.box.x, v.box.width, w.box.x, w.box.width)
        dy == GapBetween(v.box.y, v.box.height, w.box.y, w.box.height)
    IN dx * dx + dy * dy <= ClusterGap * ClusterGap

\* Widgets that take part in the clustering.
Clustered(widgets) == Those(widgets, {k \in DOMAIN widgets : IsPlain(widgets[k])})

-----------------------------------------------------------------------------
(* The place of a cluster, the index-th one.                                 *)

\* The place of the largest of some places of a cluster; the sort is stable.
LargestOf(cluster, places) ==
    CHOOSE k \in places :
        \A m \in places \ {k} :
            \/ Area(cluster[m]) < Area(cluster[k])
            \/ Area(cluster[m]) = Area(cluster[k]) /\ k < m

AnchorPlace(cluster) == LargestOf(cluster, DOMAIN cluster)
SecondPlace(cluster) == LargestOf(cluster, DOMAIN cluster \ {AnchorPlace(cluster)})

\* Mutation: a second widget without an area is passed, too.
HasAnchorOfNothing(cluster) ==
    Area(cluster[AnchorPlace(cluster)]) >= AnchorRatio * Area(cluster[SecondPlace(cluster)])

\* _anchor returns a widget.
HasAnchor(cluster) ==
    LET second == Area(cluster[SecondPlace(cluster)])
    IN second > 0 /\ Area(cluster[AnchorPlace(cluster)]) >= AnchorRatio * second

PlaceSingle(adjacency, cluster) == Extend(adjacency, Root, IdList(cluster))

\* The anchor goes on the top level, the others under it.
PlaceAnchored(adjacency, cluster) ==
    LET place == AnchorPlace(cluster)
        anchor == cluster[place].id
    IN Extend(Extend(adjacency, Root, <<anchor>>),
              anchor, IdList(Those(cluster, DOMAIN cluster \ {place})))

PlaceGroup(adjacency, cluster, index) ==
    Extend(Extend(adjacency, Root, <<GroupId(index)>>), GroupId(index), IdList(cluster))

\* The loop body of group: a spatial tree in the making, [groups, adjacency].
PlaceCluster(partial, cluster, index) ==
    IF Len(cluster) = 1
    THEN [partial EXCEPT !.adjacency = PlaceSingle(@, cluster)]
    ELSE IF HasAnchor(cluster)
    THEN [partial EXCEPT !.adjacency = PlaceAnchored(@, cluster)]
    ELSE [groups |-> partial.groups \cup {GroupId(index)},
          adjacency |-> PlaceGroup(partial.adjacency, cluster, index)]

Unplaced(widgets) == [groups |-> {}, adjacency |-> TableAdjacency(widgets)]

-----------------------------------------------------------------------------
(* Reference: the clusters without union-find.                               *)

\* A chain of near widgets leads from place i to place j: every set of places
\* with i that is closed under nearness has j.
Connected(widgets, i, j) ==
    \A S \in SUBSET DOMAIN widgets :
        /\ i \in S
        /\ \A a \in S : \A b \in DOMAIN widgets : Near(widgets[a], widgets[b]) => b \in S
        => j \in S

Component(widgets, i) == {j \in DOMAIN widgets : Connected(widgets, i, j)}

\* The components in the order of their first widgets, each in board order.
Components(widgets) ==
    LET firsts == {i \in DOMAIN widgets : \A j \in Component(widgets, i) : i <= j}
        order == InOrder(firsts, Len(widgets))
    IN [k \in DOMAIN order |-> InOrder(Component(widgets, order[k]), Len(widgets))]

-----------------------------------------------------------------------------
(* Reference: what holds a widget, without the sort and the lists.           *)

\* Some widget besides the k-th has an area, and the k-th is AnchorRatio times as
\* large as each of them.
Dwarfs(cluster, k) ==
    LET others == DOMAIN cluster \ {k} IN
    /\ \E m \in others : Area(cluster[m]) > 0
    /\ \A m \in others : AnchorRatio * Area(cluster[m]) <= Area(cluster[k])

\* What the index-th cluster hangs on: its only widget, the first that dwarfs the
\* others, or a group.
HeadFor(cluster, index) ==
    LET anchors == {k \in DOMAIN cluster : Dwarfs(cluster, k)} IN
    IF Len(cluster) = 1 THEN cluster[1].id
    ELSE IF anchors = {} THEN GroupId(index)
    ELSE cluster[CHOOSE k \in anchors : \A m \in anchors : k <= m].id

\* The head of a cluster is on the top level and holds the other widgets of it.
HolderNear(widgets, id) ==
    LET free == Clustered(widgets)
        clusters == Components(free)
        k == CHOOSE c \in DOMAIN clusters : id \in ToSet(IdList(WidgetsAt(free, clusters[c])))
        head == HeadFor(WidgetsAt(free, clusters[k]), k - 1)
    IN IF head = id THEN Root ELSE head

-----------------------------------------------------------------------------
(* The tree of a whole board.                                                *)

\* The loop of group.
Placed(widgets) ==
    LET free == Clustered(widgets)
        clusters == Components(free)
        placed[k \in 0..Len(clusters)] ==
            IF k = 0 THEN Unplaced(widgets)
            ELSE PlaceCluster(placed[k - 1], WidgetsAt(free, clusters[k]), k - 1)
    IN placed[Len(clusters)]

SpatialTreeOf(widgets) ==
    LET placed == Placed(widgets) IN BuildTree(widgets, placed.groups, placed.adjacency)
=============================================================================
