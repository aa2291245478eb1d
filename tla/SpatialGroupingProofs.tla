------------------------ MODULE SpatialGroupingProofs -----------------------
(* Proofs about SpatialGrouping for widget lists of every length: the loops  *)
(* stay within the list, find ends, and the clusters that union-find makes   *)
(* are the connected components of the proximity graph.                      *)
(*                                                                           *)
(* Where a chain of parents leads is a recursive matter.  The proofs speak   *)
(* of sets of places instead: of those that no chain enters or leaves.  What *)
(* a find returns is in the same such sets as what it was asked for.         *)
EXTENDS SpatialGrouping, SpatialTreeProofs

-----------------------------------------------------------------------------
(* Sets of places.                                                           *)

\* No chain of parents enters S or leaves it.
IsUnion(S) == \A k \in Places : k \in S <=> parent[k] \in S

\* No widget of S is near one that is not in S.
IsClosed(S) == \A a \in S : \A b \in Places : Near(Free[a], Free[b]) => b \in S

-----------------------------------------------------------------------------
(* The inductive invariant.                                                  *)

\* The places i and j have been compared, and linked if they are near.
Compared(i, j) ==
    /\ i < j
    /\ \/ pc \in {"find", "place", "done"}
       \/ i < pair.i
       \/ i = pair.i /\ j < pair.j

\* Place p has joined the cluster of its root.
Collected(p) == pc \in {"place", "done"} \/ (pc = "find" /\ p < pair.i)

\* The loops stay within the list, and what find works on is a place.
LoopsOK ==
    /\ widgets \in Boards
    /\ pc \in {"compare", "find_j", "find_i", "find", "place", "done"}
    /\ pair \in [i: Nat \ {0}, j: Nat]
    /\ pc = "compare" => pair.i < pair.j /\ (pair.j <= Len(Free) \/ pair.j = pair.i + 1)
    /\ pc \in {"find_j", "find_i"} =>
          /\ pair.i \in Places /\ pair.j \in Places /\ pair.i < pair.j
          /\ Near(Free[pair.i], Free[pair.j])
    /\ pc = "find" => pair.i \in Places
    /\ parent \in [Places -> Places]
    /\ Finding => node \in Places
    /\ right \in Places \cup {1}
    /\ pc = "find_i" => right \in Places /\ parent[right] = right

\* A find stays where it began.
FindStays ==
    \A S \in SUBSET Places : IsUnion(S) =>
        /\ pc = "find_j" => (node \in S <=> pair.j \in S)
        /\ pc = "find_i" => (node \in S <=> pair.i \in S) /\ (right \in S <=> pair.j \in S)
        /\ pc = "find" => (node \in S <=> pair.i \in S)

\* Union-find joins no places that no chain of near widgets joins.
SetsWithin == \A S \in SUBSET Places : IsClosed(S) => IsUnion(S)

\* Union-find has joined the near widgets compared so far.
SetsJoin ==
    \A S \in SUBSET Places : IsUnion(S) =>
        \A i, j \in Places : Compared(i, j) /\ Near(Free[i], Free[j]) => (i \in S <=> j \in S)

\* The k-th cluster has a root of its own, and places of its root's sets.
ClusterOK(k) ==
    LET root == groups[k][1]
        places == groups[k][2]
    IN /\ parent[root] = root
       /\ places # <<>>
       /\ \A m \in DOMAIN places : Collected(places[m])
       /\ \A m, n \in DOMAIN places : m < n => places[m] < places[n]
       /\ \A S \in SUBSET Places : IsUnion(S) =>
             \A m \in DOMAIN places : places[m] \in S <=> root \in S

\* The clusters are in the order of their first places, and have all the places
\* collected so far.
ClustersOK ==
    /\ groups \in Seq(Places \X Seq(Places))
    /\ pc \in {"compare", "find_j", "find_i"} => groups = <<>>
    /\ \A k \in DOMAIN groups : ClusterOK(k)
    /\ \A k, l \in DOMAIN groups :
          k < l => groups[k][1] # groups[l][1] /\ groups[k][2][1] < groups[l][2][1]
    /\ \A p \in Places : Collected(p) =>
          \E k \in DOMAIN groups : \E m \in DOMAIN groups[k][2] : groups[k][2][m] = p

IInv == LoopsOK /\ ChainsHaveRoots /\ FindStays /\ SetsWithin /\ SetsJoin /\ ClustersOK

-----------------------------------------------------------------------------
(* Lemmas on lists, nearness and roots.                                      *)

\* The widgets of a list that take part are a sequence.
LEMMA FreeIsSequence ==
    ASSUME widgets \in Boards
    PROVE  /\ Len(Free) \in Nat /\ Places = 1..Len(Free)
           /\ Free = <<>> <=> Len(Free) = 0
           /\ \A k \in Places : Free[k].box \in Boxes
<1>1. IsBoard(widgets)
  BY BoardsAssumption
<1>2. PICK W : W = ToSet(Free)
  OBVIOUS
<1>3. /\ Free \in Seq(W) /\ Len(Free) \in Nat /\ DOMAIN Free = 1..Len(Free)
      /\ \A k \in DOMAIN Free : Free[k].box \in Boxes
  BY <1>1, <1>2, ClusteredIs DEF Free
<1> QED
  BY <1>3 DEF Places

\* Nearness has no direction.
LEMMA NearIsSymmetric ==
    ASSUME widgets \in Boards, NEW a \in Places, NEW b \in Places, Near(Free[a], Free[b])
    PROVE  Near(Free[b], Free[a])
BY FreeIsSequence, NearIsMutual

\* A sequence stays one of its kind when an element is replaced.
LEMMA ReplaceKeepsType ==
    ASSUME NEW S, NEW seq \in Seq(S), NEW k \in DOMAIN seq, NEW e \in S
    PROVE  [seq EXCEPT ![k] = e] \in Seq(S)
OBVIOUS

\* Two roots are in different sets of union-find.
LEMMA RootsApart ==
    ASSUME parent \in [Places -> Places], NEW r \in Places, NEW q \in Places,
           parent[r] = r, parent[q] = q, r # q
    PROVE  \E S \in SUBSET Places : IsUnion(S) /\ r \in S /\ q \notin S
<1> DEFINE LeadsIn(B) == r \in B /\ \A m \in Places : parent[m] \in B => m \in B
           L == {k \in Places : \A B \in SUBSET Places : LeadsIn(B) => k \in B}
<1>1. r \in L
  OBVIOUS
<1>2. \A m \in Places : parent[m] \in L => m \in L
  OBVIOUS
<1>3. ASSUME NEW k \in L, parent[k] \notin L PROVE FALSE
  <2>1. k # r
    BY <1>1, <1>3
  <2>2. LeadsIn(L \ {k})
    BY <1>1, <1>2, <1>3, <2>1
  <2>3. L \ {k} \in SUBSET Places
    OBVIOUS
  <2> QED
    BY <1>3, <2>2, <2>3
<1>4. q \notin L
  <2>1. LeadsIn(Places \ {q})
    OBVIOUS
  <2> QED
    BY <2>1
<1>5. IsUnion(L)
  <2> HIDE DEF L
  <2>1. L \in SUBSET Places
    BY DEF L
  <2> QED
    BY <1>2, <1>3, <2>1 DEF IsUnion
<1> QED
  BY <1>1, <1>4, <1>5

\* groups[node].append(place): a new cluster, or one more place for that of the root.
LEMMA AddToOne ==
    ASSUME groups \in Seq(Places \X Seq(Places)), NEW place
    PROVE  \/ /\ \A k \in DOMAIN groups : groups[k][1] # node
              /\ AddTo(groups, node, place) = Append(groups, <<node, <<place>>>>)
           \/ \E k \in DOMAIN groups :
                 /\ groups[k][1] = node
                 /\ AddTo(groups, node, place)
                       = [groups EXCEPT ![k] = <<node, Append(groups[k][2], place)>>]
<1> DEFINE I == {m \in 1..Len(groups) : groups[m][1] = node}
           k == SelectInSeq(groups, LAMBDA c : c[1] = node)
<1>1. k = IF I # {} THEN Min(I) ELSE 0
  BY DEF SelectInSeq
<1>2. I \subseteq Nat /\ 0 \notin I
  OBVIOUS
<1>3. AddTo(groups, node, place) =
         IF k = 0 THEN Append(groups, <<node, <<place>>>>)
         ELSE [groups EXCEPT ![k] = <<node, Append(@[2], place)>>]
  BY DEF AddTo
<1> HIDE DEF k
<1>4. CASE I = {}
  <2>1. ASSUME NEW m \in DOMAIN groups, groups[m][1] = node PROVE FALSE
    <3>1. m \in 1..Len(groups)
      OBVIOUS
    <3>2. m \in I
      BY <2>1, <3>1
    <3> QED
      BY <1>4, <3>2
  <2>2. AddTo(groups, node, place) = Append(groups, <<node, <<place>>>>)
    BY <1>1, <1>3, <1>4
  <2> QED
    BY <2>1, <2>2
<1>5. CASE I # {}
  <2>1. k \in I
    BY <1>1, <1>2, <1>5, Smallest
  <2>2. k \in DOMAIN groups /\ groups[k][1] = node /\ k # 0
    BY <1>2, <2>1
  <2> QED
    BY <1>3, <2>2
<1> QED
  BY <1>4, <1>5

-----------------------------------------------------------------------------
(* The invariant is inductive.                                               *)

\* Every list starts with IInv.
LEMMA InitIInv == Init => IInv
<1> SUFFICES ASSUME Init PROVE IInv
  OBVIOUS
<1> USE DEF Init, FirstPair
<1>1. /\ Len(Free) \in Nat /\ Places = 1..Len(Free)
  BY FreeIsSequence
<1>2. parent = [k \in Places |-> k]
  BY DEF InitialParents, Places, Free
<1>3. LoopsOK
  BY <1>1, <1>2 DEF LoopsOK, Finding
<1>4. ChainsHaveRoots
  BY <1>2 DEF ChainsHaveRoots
<1>5. FindStays /\ SetsWithin
  BY <1>2 DEF FindStays, SetsWithin, IsUnion
<1>6. SetsJoin
  BY <1>1 DEF SetsJoin, Compared
<1>7. ClustersOK
  BY DEF ClustersOK, Collected
<1> QED
  BY <1>3, <1>4, <1>5, <1>6, <1>7 DEF IInv

\* A step leaves the list as it is.
LEMMA SameList ==
    ASSUME [Next]_vars
    PROVE  /\ widgets' = widgets /\ Free' = Free /\ Places' = Places
           /\ \A S : IsClosed(S)' <=> IsClosed(S)
<1>1. widgets' = widgets
  BY DEF Next, Compare, Halve, FoundRight, Link, StartCollecting, Collect, Place, Finish, vars
<1>2. Free' = Free
  BY <1>1 DEF Free
<1>3. Places' = Places
  BY <1>2 DEF Places
<1> QED
  BY <1>1, <1>2, <1>3 DEF IsClosed

\* Path halving neither splits nor joins sets of places.
LEMMA HalveKeepsUnions ==
    ASSUME LoopsOK, Halve, NEW S \in SUBSET Places
    PROVE  IsUnion(S)' <=> IsUnion(S)
<1> DEFINE p == parent[node]
<1>1. /\ node \in Places /\ p # node /\ parent \in [Places -> Places]
      /\ parent' = [parent EXCEPT ![node] = parent[p]]
  BY DEF LoopsOK, Halve
<1>2. p \in Places /\ parent[p] \in Places
  BY <1>1
<1>3. /\ \A k \in Places \ {node} : parent'[k] = parent[k]
      /\ parent'[node] = parent[p]
  BY <1>1
<1>4. Places' = Places
  BY SameList DEF Next
<1> HIDE DEF p
<1>5. ASSUME IsUnion(S) PROVE \A k \in Places : k \in S <=> parent'[k] \in S
  BY <1>1, <1>2, <1>3, <1>5 DEF IsUnion, p
<1>6. ASSUME \A k \in Places : k \in S <=> parent'[k] \in S PROVE IsUnion(S)
  <2>1. p \in S <=> parent[p] \in S
    BY <1>1, <1>2, <1>3, <1>6
  <2>2. node \in S <=> parent[p] \in S
    BY <1>1, <1>3, <1>6
  <2> QED
    BY <1>1, <1>3, <1>6, <2>1, <2>2 DEF IsUnion, p
<1> QED
  BY <1>4, <1>5, <1>6 DEF IsUnion

\* A link joins the sets of two roots, and splits none.
LEMMA LinkJoinsUnions ==
    ASSUME LoopsOK, Link, NEW S \in SUBSET Places
    PROVE  IsUnion(S)' <=> IsUnion(S) /\ (node \in S <=> right \in S)
<1>1. /\ node \in Places /\ parent[node] = node /\ parent \in [Places -> Places]
      /\ right \in Places /\ parent' = [parent EXCEPT ![node] = right]
  BY DEF LoopsOK, Link, Finding
<1>2. (\A k \in Places \ {node} : parent'[k] = parent[k]) /\ parent'[node] = right
  BY <1>1
<1>3. Places' = Places
  BY SameList DEF Next
<1> QED
  BY <1>1, <1>2, <1>3 DEF IsUnion

\* IInv survives a turn of find's loop.
LEMMA HalveStep ==
    ASSUME IInv, Halve
    PROVE  IInv'
<1> USE DEF IInv
<1>1. /\ widgets' = widgets /\ Free' = Free /\ Places' = Places
      /\ \A S : IsClosed(S)' <=> IsClosed(S)
  BY SameList DEF Next
<1>2. /\ Finding /\ node \in Places /\ parent[node] # node /\ parent \in [Places -> Places]
      /\ parent' = [parent EXCEPT ![node] = parent[parent[node]]]
      /\ node' = parent'[node]
      /\ UNCHANGED <<widgets, pc, pair, right, groups>>
  BY DEF Halve, LoopsOK
<1>3. /\ node' = parent[parent[node]] /\ node' \in Places /\ parent' \in [Places -> Places]
      /\ \A k \in Places \ {node} : parent'[k] = parent[k]
  BY <1>2
<1>4. \A S \in SUBSET Places : IsUnion(S)' <=> IsUnion(S)
  BY HalveKeepsUnions
<1>5. \A S \in SUBSET Places : IsUnion(S) => (node' \in S <=> node \in S)
  BY <1>2, <1>3 DEF IsUnion
<1>6. LoopsOK'
  BY <1>1, <1>2, <1>3 DEF LoopsOK, Finding
<1>7. ChainsHaveRoots'
  <2> SUFFICES ASSUME NEW S \in SUBSET Places, S # {}, \A k \in S : parent'[k] \in S
               PROVE  \E k \in S : parent'[k] = k
    BY <1>1 DEF ChainsHaveRoots
  <2> DEFINE T == IF node \in S THEN S \cup {parent[node]} ELSE S
  <2>1. T \in SUBSET Places /\ T # {}
    BY <1>2
  <2>2. \A k \in T : parent[k] \in T
    BY <1>2, <1>3
  <2>3. PICK k \in T : parent[k] = k
    BY <2>1, <2>2 DEF ChainsHaveRoots
  <2>4. k # node
    BY <1>2, <2>3
  <2>5. k \in S
    BY <1>2, <1>3, <2>3, <2>4
  <2> QED
    BY <1>3, <2>3, <2>4, <2>5
<1>8. FindStays'
  BY <1>1, <1>2, <1>4, <1>5 DEF FindStays
<1>9. SetsWithin'
  BY <1>1, <1>4 DEF SetsWithin
<1>10. SetsJoin'
  BY <1>1, <1>2, <1>4 DEF SetsJoin, Compared
<1>11. ClustersOK'
  <2>1. \A p : Collected(p)' <=> Collected(p)
    BY <1>2 DEF Collected
  <2>2. ASSUME NEW k \in DOMAIN groups PROVE ClusterOK(k)'
    <3>1. groups[k][1] \in Places
      BY DEF ClustersOK
    <3> QED
      BY <1>1, <1>2, <1>3, <1>4, <2>1, <3>1 DEF ClustersOK, ClusterOK
  <2> QED
    BY <1>1, <1>2, <2>1, <2>2 DEF ClustersOK
<1> QED
  BY <1>6, <1>7, <1>8, <1>9, <1>10, <1>11

\* The loops go through every pair: the next one leaves no pair out.
LEMMA NextPairFollows ==
    ASSUME LoopsOK, pair.i \in Places, pair.j \in Places, pair.i < pair.j,
           pc \in {"compare", "find_i"}, pc' = "compare", pair' = NextPair(pair), Places' = Places
    PROVE  /\ pair' \in [i: Nat \ {0}, j: Nat] /\ pair'.i < pair'.j
           /\ pair'.j <= Len(Free) \/ pair'.j = pair'.i + 1
           /\ \A i, j \in Places :
                 Compared(i, j)' => Compared(i, j) \/ (i = pair.i /\ j = pair.j)
<1>1. /\ Len(Free) \in Nat /\ Places = 1..Len(Free) /\ pair \in [i: Nat \ {0}, j: Nat]
  BY FreeIsSequence DEF LoopsOK
<1>2. CASE pair.j < Len(Free)
  <2>1. pair' = [pair EXCEPT !.j = @ + 1]
    BY <1>2 DEF NextPair
  <2>2. pair'.i = pair.i /\ pair'.j = pair.j + 1 /\ pair' \in [i: Nat \ {0}, j: Nat]
    BY <1>1, <2>1
  <2> QED
    BY <1>1, <1>2, <2>2 DEF Compared
<1>3. CASE ~ pair.j < Len(Free)
  <2>1. pair' = [i |-> pair.i + 1, j |-> pair.i + 2] /\ pair.j = Len(Free)
    BY <1>1, <1>3 DEF NextPair
  <2>2. pair'.i = pair.i + 1 /\ pair'.j = pair.i + 2 /\ pair' \in [i: Nat \ {0}, j: Nat]
    BY <1>1, <2>1
  <2> QED
    BY <1>1, <2>1, <2>2 DEF Compared
<1> QED
  BY <1>2, <1>3

\* IInv survives the comparison of a pair.
LEMMA CompareStep ==
    ASSUME IInv, Compare
    PROVE  IInv'
<1> USE DEF IInv
<1>1. /\ widgets' = widgets /\ Free' = Free /\ Places' = Places
      /\ \A S : IsClosed(S)' <=> IsClosed(S)
  BY SameList DEF Next
<1>2. /\ Len(Free) \in Nat /\ Places = 1..Len(Free)
      /\ pair \in [i: Nat \ {0}, j: Nat] /\ pair.i < pair.j
      /\ pc = "compare" /\ pair.j <= Len(Free) /\ groups = <<>>
      /\ UNCHANGED <<widgets, parent, right, groups>>
  BY FreeIsSequence DEF LoopsOK, Compare, ClustersOK
<1>3. pair.i \in Places /\ pair.j \in Places
  BY <1>2
<1>4. \A S : IsUnion(S)' <=> IsUnion(S)
  BY <1>1, <1>2 DEF IsUnion
<1>5. ChainsHaveRoots' /\ SetsWithin'
  BY <1>1, <1>2, <1>4 DEF ChainsHaveRoots, SetsWithin
<1>6. CASE Near(Free[pair.i], Free[pair.j])
  <2>1. pc' = "find_j" /\ node' = pair.j /\ pair' = pair
    BY <1>6 DEF Compare
  <2>2. LoopsOK'
    BY <1>1, <1>2, <1>3, <1>6, <2>1 DEF LoopsOK, Finding
  <2>3. FindStays'
    BY <2>1 DEF FindStays
  <2>4. SetsJoin'
    BY <1>1, <1>2, <1>4, <2>1 DEF SetsJoin, Compared
  <2>5. ClustersOK'
    BY <1>1, <1>2, <2>1 DEF ClustersOK, Collected
  <2> QED
    BY <1>5, <2>2, <2>3, <2>4, <2>5
<1>7. CASE ~ Near(Free[pair.i], Free[pair.j])
  <2>1. pc' = "compare" /\ node' = node /\ pair' = NextPair(pair)
    BY <1>2, <1>7 DEF Compare
  <2>2. LoopsOK'
    BY <1>1, <1>2, <1>3, <2>1, NextPairFollows DEF LoopsOK, Finding
  <2>3. FindStays'
    BY <2>1 DEF FindStays
  <2>4. SetsJoin'
    <3>1. \A i, j \in Places : Compared(i, j)' => Compared(i, j) \/ (i = pair.i /\ j = pair.j)
      BY <1>1, <1>2, <1>3, <2>1, NextPairFollows
    <3> QED
      BY <1>1, <1>4, <1>7, <3>1 DEF SetsJoin
  <2>5. ClustersOK'
    BY <1>1, <1>2, <2>1 DEF ClustersOK, Collected
  <2> QED
    BY <1>5, <2>2, <2>3, <2>4, <2>5
<1> QED
  BY <1>6, <1>7

\* IInv survives the root that find(j) returns.
LEMMA FoundRightStep ==
    ASSUME IInv, FoundRight
    PROVE  IInv'
<1> USE DEF IInv
<1>1. /\ widgets' = widgets /\ Free' = Free /\ Places' = Places
      /\ \A S : IsClosed(S)' <=> IsClosed(S)
  BY SameList DEF Next
<1>2. /\ pc = "find_j" /\ parent[node] = node /\ node \in Places
      /\ right' = node /\ node' = pair.i /\ pc' = "find_i"
      /\ UNCHANGED <<widgets, pair, parent, groups>>
  BY DEF FoundRight, LoopsOK, Finding
<1>3. \A S : IsUnion(S)' <=> IsUnion(S)
  BY <1>1, <1>2 DEF IsUnion
<1>4. LoopsOK'
  BY <1>1, <1>2 DEF LoopsOK, Finding
<1>5. ChainsHaveRoots' /\ SetsWithin'
  BY <1>1, <1>2, <1>3 DEF ChainsHaveRoots, SetsWithin
<1>6. FindStays'
  BY <1>1, <1>2, <1>3 DEF FindStays
<1>7. SetsJoin'
  BY <1>1, <1>2, <1>3 DEF SetsJoin, Compared
<1>8. ClustersOK'
  BY <1>1, <1>2 DEF ClustersOK, Collected
<1> QED
  BY <1>4, <1>5, <1>6, <1>7, <1>8

\* IInv survives a link between two roots.
LEMMA LinkStep ==
    ASSUME IInv, Link
    PROVE  IInv'
<1> USE DEF IInv
<1>1. /\ widgets' = widgets /\ Free' = Free /\ Places' = Places
      /\ \A S : IsClosed(S)' <=> IsClosed(S)
  BY SameList DEF Next
<1>2. /\ pc = "find_i" /\ pc' = "compare" /\ pair' = NextPair(pair)
      /\ node \in Places /\ parent[node] = node /\ parent \in [Places -> Places]
      /\ right \in Places /\ parent[right] = right
      /\ parent' = [parent EXCEPT ![node] = right]
      /\ pair.i \in Places /\ pair.j \in Places /\ pair.i < pair.j
      /\ Near(Free[pair.i], Free[pair.j]) /\ groups = <<>>
      /\ UNCHANGED <<widgets, node, right, groups>>
  BY DEF Link, LoopsOK, Finding, ClustersOK
<1>3. \A S \in SUBSET Places : IsUnion(S)' <=> IsUnion(S) /\ (node \in S <=> right \in S)
  BY LinkJoinsUnions
<1>4. LoopsOK'
  BY <1>1, <1>2, NextPairFollows DEF LoopsOK, Finding
<1>5. ChainsHaveRoots'
  <2> SUFFICES ASSUME NEW S \in SUBSET Places, S # {}, \A k \in S : parent'[k] \in S
               PROVE  \E k \in S : parent'[k] = k
    BY <1>1 DEF ChainsHaveRoots
  <2>1. \A k \in S : parent[k] \in S
    BY <1>2
  <2>2. PICK k \in S : parent[k] = k
    BY <2>1 DEF ChainsHaveRoots
  <2> QED
    BY <1>2, <2>2
<1>6. \A S \in SUBSET Places : IsUnion(S) =>
         (node \in S <=> pair.i \in S) /\ (right \in S <=> pair.j \in S)
  BY <1>2 DEF FindStays
<1>7. SetsWithin'
  <2> SUFFICES ASSUME NEW S \in SUBSET Places, IsClosed(S)
               PROVE  IsUnion(S)'
    BY <1>1 DEF SetsWithin
  <2>1. Near(Free[pair.j], Free[pair.i])
    BY <1>2, NearIsSymmetric DEF LoopsOK
  <2>2. pair.i \in S <=> pair.j \in S
    BY <1>2, <2>1 DEF IsClosed
  <2> QED
    BY <1>3, <1>6, <2>2 DEF SetsWithin
<1>8. FindStays'
  BY <1>2 DEF FindStays
<1>9. SetsJoin'
  <2>1. \A i, j \in Places : Compared(i, j)' => Compared(i, j) \/ (i = pair.i /\ j = pair.j)
    BY <1>1, <1>2, NextPairFollows
  <2> SUFFICES ASSUME NEW S \in SUBSET Places, IsUnion(S)', NEW i \in Places, NEW j \in Places,
                      Compared(i, j)', Near(Free[i], Free[j])
               PROVE  i \in S <=> j \in S
    BY <1>1 DEF SetsJoin
  <2> QED
    BY <1>3, <1>6, <2>1 DEF SetsJoin
<1>10. ClustersOK'
  BY <1>1, <1>2 DEF ClustersOK, Collected
<1> QED
  BY <1>4, <1>5, <1>7, <1>8, <1>9, <1>10

\* IInv survives the end of the comparisons.
LEMMA StartCollectingStep ==
    ASSUME IInv, StartCollecting
    PROVE  IInv'
<1> USE DEF IInv
<1>1. /\ widgets' = widgets /\ Free' = Free /\ Places' = Places
      /\ \A S : IsClosed(S)' <=> IsClosed(S)
  BY SameList DEF Next
<1>2. /\ Len(Free) \in Nat /\ Places = 1..Len(Free) /\ (Free = <<>> <=> Len(Free) = 0)
      /\ pair \in [i: Nat \ {0}, j: Nat]
      /\ pc = "compare" /\ pair.j > Len(Free) /\ pair.j = pair.i + 1 /\ groups = <<>>
      /\ pair' = FirstPair /\ node' = 1
      /\ pc' = IF Free = <<>> THEN "place" ELSE "find"
      /\ UNCHANGED <<widgets, right, parent, groups>>
  BY FreeIsSequence DEF LoopsOK, StartCollecting, ClustersOK
<1>3. \A S : IsUnion(S)' <=> IsUnion(S)
  BY <1>1, <1>2 DEF IsUnion
<1>4. pair'.i = 1 /\ pair' \in [i: Nat \ {0}, j: Nat]
  BY <1>2 DEF FirstPair
<1>5. LoopsOK'
  BY <1>1, <1>2, <1>4 DEF LoopsOK, Finding
<1>6. ChainsHaveRoots' /\ SetsWithin'
  BY <1>1, <1>2, <1>3 DEF ChainsHaveRoots, SetsWithin
<1>7. FindStays'
  BY <1>2, <1>4 DEF FindStays
<1>8. SetsJoin'
  <2>1. \A i, j \in Places : Compared(i, j)' => Compared(i, j)
    BY <1>2 DEF Compared
  <2> QED
    BY <1>1, <1>3, <2>1 DEF SetsJoin
<1>9. ClustersOK'
  BY <1>1, <1>2, <1>4 DEF ClustersOK, Collected
<1> QED
  BY <1>5, <1>6, <1>7, <1>8, <1>9

\* Placing the clusters in the tree changes none.
LEMMA PlaceStep ==
    ASSUME IInv, Place \/ Finish \/ UNCHANGED vars
    PROVE  IInv'
<1> USE DEF IInv
<1>1. /\ widgets' = widgets /\ Free' = Free /\ Places' = Places
      /\ \A S : IsClosed(S)' <=> IsClosed(S)
  BY SameList DEF Next
<1>2. UNCHANGED <<node, right, parent, groups>>
  BY DEF Place, Finish, vars
<1>3. \A S : IsUnion(S)' <=> IsUnion(S)
  BY <1>1, <1>2 DEF IsUnion
<1>4. ChainsHaveRoots' /\ SetsWithin'
  BY <1>1, <1>2, <1>3 DEF ChainsHaveRoots, SetsWithin
<1>5. pair' \in [i: Nat \ {0}, j: Nat]
  BY DEF Place, Finish, vars, LoopsOK
<1>6. \/ UNCHANGED <<pc, pair>>
      \/ pc = "place" /\ pc' \in {"place", "done"}
  BY DEF Place, Finish, vars
<1>7. LoopsOK'
  BY <1>1, <1>2, <1>5, <1>6 DEF LoopsOK, Finding
<1>8. FindStays'
  BY <1>1, <1>2, <1>3, <1>6 DEF FindStays
<1>9. \A i, j \in Places : Compared(i, j)' <=> Compared(i, j)
  BY <1>6 DEF Compared
<1>10. \A p : Collected(p)' <=> Collected(p)
  BY <1>6 DEF Collected
<1>11. SetsJoin'
  BY <1>1, <1>3, <1>9 DEF SetsJoin
<1>12. \A k \in DOMAIN groups : ClusterOK(k)'
  BY <1>1, <1>2, <1>3, <1>10 DEF ClustersOK, ClusterOK
<1>13. ClustersOK'
  BY <1>1, <1>2, <1>6, <1>10, <1>12 DEF ClustersOK
<1> QED
  BY <1>4, <1>7, <1>8, <1>11, <1>13

\* A place that its find has led to a root joins the cluster of that root.
LEMMA CollectKeepsClusters ==
    ASSUME IInv, Collect
    PROVE  ClustersOK'
<1>0. /\ LoopsOK /\ FindStays
      /\ groups \in Seq(Places \X Seq(Places))
      /\ \A k \in DOMAIN groups : ClusterOK(k)
      /\ \A k, l \in DOMAIN groups :
            k < l => groups[k][1] # groups[l][1] /\ groups[k][2][1] < groups[l][2][1]
      /\ \A p \in Places : Collected(p) =>
            \E k \in DOMAIN groups : \E m \in DOMAIN groups[k][2] : groups[k][2][m] = p
  BY DEF IInv, ClustersOK
<1>i. PICK i : i = pair.i
  OBVIOUS
<1>n. PICK n : n = Len(groups)
  OBVIOUS
<1>1. /\ widgets' = widgets /\ Free' = Free /\ Places' = Places
      /\ \A S : IsClosed(S)' <=> IsClosed(S)
  BY SameList DEF Next
<1>2. /\ Len(Free) \in Nat /\ Places = 1..Len(Free) /\ pair \in [i: Nat \ {0}, j: Nat]
      /\ pc = "find" /\ i \in Places /\ node \in Places /\ parent[node] = node
      /\ groups \in Seq(Places \X Seq(Places)) /\ groups' = AddTo(groups, node, i)
      /\ UNCHANGED parent
  BY <1>0, <1>i, FreeIsSequence DEF LoopsOK, Collect, Finding
<1>3. \A S : IsUnion(S)' <=> IsUnion(S)
  BY <1>1, <1>2 DEF IsUnion
<1>4. pc' \in {"find", "place"}
  BY <1>2 DEF Collect
<1>5. \A p \in Places : Collected(p)' <=> Collected(p) \/ p = i
  <2>1. CASE i < Len(Free)
    <3>1. pair'.i = i + 1 /\ pc' = "find"
      BY <1>2, <1>i, <2>1 DEF Collect
    <3> QED
      BY <1>2, <1>i, <3>1 DEF Collected
  <2>2. CASE ~ i < Len(Free)
    <3>1. pc' = "place" /\ i = Len(Free)
      BY <1>2, <1>i, <2>2 DEF Collect
    <3> QED
      BY <1>2, <1>i, <3>1 DEF Collected
  <2> QED
    BY <2>1, <2>2
<1>6. \A S \in SUBSET Places : IsUnion(S) => (i \in S <=> node \in S)
  BY <1>0, <1>2, <1>i DEF FindStays
<1>7. \A k \in DOMAIN groups :
         /\ groups[k] \in Places \X Seq(Places) /\ groups[k][2] \in Seq(Places)
         /\ Len(groups[k][2]) \in Nat \ {0}
         /\ \A m \in DOMAIN groups[k][2] : groups[k][2][m] \in Places /\ groups[k][2][m] < i
  <2> SUFFICES ASSUME NEW k \in DOMAIN groups
               PROVE  /\ groups[k] \in Places \X Seq(Places) /\ groups[k][2] \in Seq(Places)
                      /\ Len(groups[k][2]) \in Nat \ {0}
                      /\ \A m \in DOMAIN groups[k][2] :
                            groups[k][2][m] \in Places /\ groups[k][2][m] < i
    OBVIOUS
  <2>1. groups[k] \in Places \X Seq(Places) /\ groups[k][2] \in Seq(Places)
    BY <1>2
  <2>2. groups[k][2] # <<>> /\ \A m \in DOMAIN groups[k][2] : Collected(groups[k][2][m])
    BY <1>0 DEF ClusterOK
  <2>3. Len(groups[k][2]) \in Nat \ {0}
    BY <2>1, <2>2
  <2>4. \A m \in DOMAIN groups[k][2] : groups[k][2][m] \in Places
    BY <2>1
  <2>5. \A m \in DOMAIN groups[k][2] : groups[k][2][m] < i
    BY <1>2, <1>i, <2>2 DEF Collected
  <2> QED
    BY <2>1, <2>3, <2>4, <2>5
<1>8. CASE /\ \A k \in DOMAIN groups : groups[k][1] # node
           /\ groups' = Append(groups, <<node, <<i>>>>)
  <2>1. /\ n \in Nat /\ DOMAIN groups = 1..n /\ DOMAIN groups' = 1..(n + 1)
        /\ \A k \in 1..n : groups'[k] = groups[k]
        /\ groups'[n + 1] = <<node, <<i>>>>
    BY <1>2, <1>8, <1>n
  <2>2. groups' \in Seq(Places \X Seq(Places))
    <3>1. <<i>> \in Seq(Places)
      BY <1>2
    <3>2. <<node, <<i>>>> \in Places \X Seq(Places)
      BY <1>2, <3>1
    <3> QED
      BY <1>2, <1>8, <3>2
  <2>3. /\ groups'[n + 1][1] = node /\ groups'[n + 1][2] = <<i>>
        /\ DOMAIN groups'[n + 1][2] = {1} /\ groups'[n + 1][2][1] = i
    BY <2>1
  <2>4. ClusterOK(n + 1)'
    BY <1>1, <1>2, <1>3, <1>5, <1>6, <2>3 DEF ClusterOK
  <2>5. ASSUME NEW k \in 1..n PROVE ClusterOK(k)'
    <3>1. ClusterOK(k)
      BY <1>0, <2>1
    <3> QED
      BY <1>1, <1>2, <1>3, <1>5, <1>7, <2>1, <3>1 DEF ClusterOK
  <2>6. ASSUME NEW k \in 1..(n + 1), NEW l \in 1..(n + 1), k < l
        PROVE  groups'[k][1] # groups'[l][1] /\ groups'[k][2][1] < groups'[l][2][1]
    <3>1. k \in 1..n /\ groups'[k] = groups[k]
      BY <2>1, <2>6
    <3>2. CASE l \in 1..n
      <4>1. groups'[l] = groups[l]
        BY <2>1, <3>2
      <4> QED
        <5>1. k \in DOMAIN groups /\ l \in DOMAIN groups
          BY <2>1, <3>1, <3>2
        <5>2. groups[k][1] # groups[l][1] /\ groups[k][2][1] < groups[l][2][1]
          BY <1>0, <2>6, <5>1
        <5> QED
          BY <3>1, <4>1, <5>2
    <3>3. CASE l = n + 1
      <4>1. groups[k][1] # node
        BY <1>8, <2>1, <3>1
      <4>2. groups[k][2][1] < i
        BY <1>7, <2>1, <3>1
      <4> QED
        BY <2>3, <3>1, <3>3, <4>1, <4>2
    <3> QED
      BY <2>1, <3>2, <3>3
  <2>7. ASSUME NEW p \in Places, Collected(p)'
        PROVE  \E k \in 1..(n + 1) : \E m \in DOMAIN groups'[k][2] : groups'[k][2][m] = p
    <3>1. CASE p = i
      BY <2>1, <2>3, <3>1
    <3>2. CASE p # i
      <4>1. PICK k \in 1..n : \E m \in DOMAIN groups[k][2] : groups[k][2][m] = p
        BY <1>0, <1>5, <2>1, <2>7, <3>2
      <4> QED
        BY <2>1, <4>1
    <3> QED
      BY <3>1, <3>2
  <2> QED
    <3>1. \A k \in DOMAIN groups' : ClusterOK(k)'
      BY <1>2, <2>1, <2>4, <2>5
    <3>2. pc' \notin {"compare", "find_j", "find_i"}
      BY <1>4
    <3> QED
      BY <1>1, <2>1, <2>2, <2>6, <2>7, <3>1, <3>2 DEF ClustersOK
<1>9. ASSUME NEW c \in DOMAIN groups, groups[c][1] = node,
             groups' = [groups EXCEPT ![c] = <<node, Append(groups[c][2], i)>>]
      PROVE  ClustersOK'
  <2>p. PICK places : places = groups[c][2]
    OBVIOUS
  <2>m. PICK more : more = groups'[c][2]
    OBVIOUS
  <2>1. /\ n \in Nat /\ DOMAIN groups = 1..n /\ DOMAIN groups' = 1..n
        /\ \A k \in (1..n) \ {c} : groups'[k] = groups[k]
        /\ groups'[c] = <<node, Append(places, i)>>
    <3>1. n \in Nat /\ DOMAIN groups = 1..n
      BY <1>2, <1>n
    <3>2. groups' = [groups EXCEPT ![c] = <<node, Append(places, i)>>]
      BY <1>9, <2>p
    <3>3. groups = [k \in 1..n |-> groups[k]]
      BY <1>2, <1>n
    <3> QED
      BY <3>1, <3>2, <3>3
  <2>2. groups' \in Seq(Places \X Seq(Places))
    <3>1. Append(places, i) \in Seq(Places)
      BY <1>2, <1>7, <2>p
    <3>2. <<node, Append(places, i)>> \in Places \X Seq(Places)
      BY <1>2, <3>1
    <3> QED
      BY <1>2, <1>9, <2>p, <3>2, ReplaceKeepsType
  <2>3. /\ groups'[c][1] = node /\ more = Append(places, i)
        /\ places \in Seq(Places) /\ Len(places) \in Nat \ {0}
    BY <1>7, <2>1, <2>p, <2>m
  <2>4. /\ DOMAIN places = 1..Len(places) /\ DOMAIN more = 1..(Len(places) + 1)
        /\ \A m \in 1..Len(places) : more[m] = places[m]
        /\ more[Len(places) + 1] = i /\ more # <<>> /\ more[1] = places[1]
    <3>1. /\ DOMAIN places = 1..Len(places) /\ Len(more) = Len(places) + 1
          /\ DOMAIN more = 1..(Len(places) + 1)
      BY <1>2, <2>3
    <3>2. \A m \in 1..Len(places) : more[m] = places[m]
      BY <1>2, <2>3
    <3>3. more[Len(places) + 1] = i
      BY <1>2, <2>3
    <3>4. more # <<>>
      BY <2>3, <3>1
    <3> QED
      BY <2>3, <3>1, <3>2, <3>3, <3>4
  <2>5. ClusterOK(c)'
    <3>1. ClusterOK(c)
      BY <1>0
    <3>2. \A m \in 1..Len(places) : places[m] \in Places /\ places[m] < i /\ Collected(places[m])
      BY <1>7, <2>4, <3>1, <2>p DEF ClusterOK
    <3>3. ASSUME NEW m \in DOMAIN more PROVE Collected(more[m])'
      <4>1. more[m] = i \/ (more[m] \in Places /\ Collected(more[m]))
        BY <2>3, <2>4, <3>2
      <4> QED
        BY <1>2, <1>5, <4>1
    <3>4. \A l, m \in DOMAIN more : l < m => more[l] < more[m]
      BY <1>9, <2>3, <2>4, <2>p, <3>1, <3>2 DEF ClusterOK
    <3>5. ASSUME NEW S \in SUBSET Places, IsUnion(S), NEW m \in DOMAIN more
          PROVE  more[m] \in S <=> node \in S
      <4>1. \A l \in 1..Len(places) : places[l] \in S <=> node \in S
        BY <1>9, <2>4, <2>p, <3>1, <3>5 DEF ClusterOK
      <4>2. i \in S <=> node \in S
        BY <1>6, <3>5
      <4>3. m \in 1..Len(places) \/ m = Len(places) + 1
        BY <2>3, <2>4
      <4> QED
        BY <2>4, <4>1, <4>2, <4>3
    <3>6. groups'[c][1] = node /\ groups'[c][2] = more /\ parent'[node] = node
      BY <1>2, <2>3, <2>m
    <3>7. \A S \in SUBSET Places' : IsUnion(S)' =>
             \A m \in DOMAIN more : more[m] \in S <=> node \in S
      BY <1>1, <1>3, <3>5
    <3> QED
      BY <2>4, <3>3, <3>4, <3>6, <3>7 DEF ClusterOK
  <2>6. ASSUME NEW k \in (1..n) \ {c} PROVE ClusterOK(k)'
    <3>1. ClusterOK(k)
      BY <1>0, <2>1
    <3> QED
      BY <1>1, <1>2, <1>3, <1>5, <1>7, <2>1, <3>1 DEF ClusterOK
  <2>7. \A k \in 1..n : groups'[k][1] = groups[k][1] /\ groups'[k][2][1] = groups[k][2][1]
    BY <1>9, <2>1, <2>3, <2>4, <2>p, <2>m
  <2>8. ASSUME NEW p \in Places, Collected(p)'
        PROVE  \E k \in 1..n : \E m \in DOMAIN groups'[k][2] : groups'[k][2][m] = p
    <3>1. CASE p = i
      BY <2>1, <2>3, <2>4, <2>m, <3>1
    <3>2. CASE p # i
      <4>1. PICK k \in 1..n : \E m \in DOMAIN groups[k][2] : groups[k][2][m] = p
        BY <1>0, <1>5, <2>1, <2>8, <3>2
      <4>2. PICK m \in DOMAIN groups[k][2] : groups[k][2][m] = p
        BY <4>1
      <4>3. CASE k = c
        <5>1. m \in 1..Len(places) /\ places[m] = p
          BY <2>4, <2>p, <4>2, <4>3
        <5>2. m \in DOMAIN more /\ more[m] = p
          BY <2>3, <2>4, <5>1
        <5> QED
          BY <2>1, <2>m, <5>2
      <4>4. CASE k # c
        BY <2>1, <4>2, <4>4
      <4> QED
        BY <4>3, <4>4
    <3> QED
      BY <3>1, <3>2
  <2> QED
    <3>1. \A k \in DOMAIN groups' : ClusterOK(k)'
      BY <2>1, <2>5, <2>6
    <3>2. pc' \notin {"compare", "find_j", "find_i"}
      BY <1>4
    <3>3. \A k, l \in DOMAIN groups' :
             k < l => groups'[k][1] # groups'[l][1] /\ groups'[k][2][1] < groups'[l][2][1]
      BY <1>0, <2>1, <2>7
    <3> QED
      BY <1>1, <2>1, <2>2, <2>8, <3>1, <3>2, <3>3 DEF ClustersOK
<1> QED
  <2>1. \/ /\ \A k \in DOMAIN groups : groups[k][1] # node
           /\ groups' = Append(groups, <<node, <<i>>>>)
        \/ \E c \in DOMAIN groups :
              /\ groups[c][1] = node
              /\ groups' = [groups EXCEPT ![c] = <<node, Append(groups[c][2], i)>>]
    <3>1. \/ /\ \A k \in DOMAIN groups : groups[k][1] # node
             /\ AddTo(groups, node, i) = Append(groups, <<node, <<i>>>>)
          \/ \E k \in DOMAIN groups :
                /\ groups[k][1] = node
                /\ AddTo(groups, node, i)
                      = [groups EXCEPT ![k] = <<node, Append(groups[k][2], i)>>]
      <4>1. groups \in Seq(Places \X Seq(Places))
        BY <1>0
      <4> QED
        BY <4>1, AddToOne
    <3> QED
      BY <1>2, <3>1
  <2> QED
    BY <1>8, <1>9, <2>1

\* IInv survives the collection of a place.
LEMMA CollectStep ==
    ASSUME IInv, Collect
    PROVE  IInv'
<1>1. ClustersOK'
  BY CollectKeepsClusters
<1> USE DEF IInv
<1>2. /\ widgets' = widgets /\ Free' = Free /\ Places' = Places
      /\ \A S : IsClosed(S)' <=> IsClosed(S)
  BY SameList DEF Next
<1>3. /\ Len(Free) \in Nat /\ Places = 1..Len(Free) /\ pair \in [i: Nat \ {0}, j: Nat]
      /\ pc = "find" /\ pair.i \in Places /\ node \in Places
      /\ UNCHANGED <<widgets, right, parent>>
  BY FreeIsSequence DEF LoopsOK, Collect, Finding
<1>4. \A S : IsUnion(S)' <=> IsUnion(S)
  BY <1>2, <1>3 DEF IsUnion
<1>5. ChainsHaveRoots' /\ SetsWithin'
  BY <1>2, <1>3, <1>4 DEF ChainsHaveRoots, SetsWithin
<1>6. \/ /\ pc' = "find" /\ pair' = [pair EXCEPT !.i = @ + 1] /\ node' = pair.i + 1
         /\ pair.i < Len(Free)
      \/ pc' = "place" /\ pair' = FirstPair
  BY <1>3 DEF Collect
<1>7. /\ pair' \in [i: Nat \ {0}, j: Nat]
      /\ pc' = "find" => node' = pair'.i /\ node' \in Places
  BY <1>3, <1>6 DEF FirstPair
<1>8. LoopsOK'
  BY <1>2, <1>3, <1>6, <1>7 DEF LoopsOK, Finding
<1>9. FindStays'
  BY <1>6, <1>7 DEF FindStays
<1>10. SetsJoin'
  BY <1>2, <1>3, <1>4, <1>6 DEF SetsJoin, Compared
<1> QED
  BY <1>1, <1>5, <1>8, <1>9, <1>10

\* IInv holds in every reachable state.
THEOREM Invariant == Spec => []IInv
<1>1. IInv /\ [Next]_vars => IInv'
  BY CompareStep, HalveStep, FoundRightStep, LinkStep, StartCollectingStep, CollectStep, PlaceStep
     DEF Next
<1> QED
  BY <1>1, InitIInv, PTL DEF Spec

-----------------------------------------------------------------------------
(* What the run checks on small lists, and more, for every list.             *)

\* union-find and its loops stay within the places there are.
THEOREM TypeCorrect == Spec => []TypeOK
<1>1. IInv => TypeOK
  <2> SUFFICES ASSUME IInv PROVE TypeOK
    OBVIOUS
  <2>1. \A k \in DOMAIN groups :
           groups[k][1] \in Places /\ groups[k][2] \in Seq(Places)
    BY DEF IInv, ClustersOK
  <2>2. \A k \in DOMAIN groups : ToSet(groups[k][2]) \subseteq Places
    BY <2>1 DEF ToSet
  <2>3. /\ parent \in [Places -> Places]
        /\ Finding => node \in Places /\ pair.i \in Places
        /\ right \in Places \cup {1}
        /\ pc \in {"find_j", "find_i"} => pair.j \in Places
    BY DEF IInv, LoopsOK, Finding
  <2> QED
    BY <2>1, <2>2, <2>3 DEF IInv, LoopsOK, TypeOK
<1> QED
  BY <1>1, Invariant, PTL

\* Every chain of parents has a root: find ends wherever it starts.
THEOREM FindsEnd == Spec => []ChainsHaveRoots
<1>1. IInv => ChainsHaveRoots
  BY DEF IInv
<1> QED
  BY <1>1, Invariant, PTL

\* The clusters collected are components, and a place is in one of them.
LEMMA ClustersFound ==
    ASSUME IInv, pc \in {"place", "done"}
    PROVE  /\ \A k \in DOMAIN groups :
                 /\ groups[k][2] \in Seq(Places) /\ groups[k][2] # <<>>
                 /\ \A i \in ToSet(groups[k][2]) : ToSet(groups[k][2]) = Component(Free, i)
           /\ \A p \in Places : \E k \in DOMAIN groups : p \in ToSet(groups[k][2])
<1> USE DEF IInv
<1>1. Len(Free) \in Nat /\ Places = 1..Len(Free)
  BY FreeIsSequence DEF LoopsOK
<1>2. \A k \in DOMAIN groups :
         /\ groups[k][1] \in Places /\ parent[groups[k][1]] = groups[k][1]
         /\ groups[k][2] \in Seq(Places) /\ groups[k][2] # <<>>
         /\ \A S \in SUBSET Places : IsUnion(S) =>
               \A m \in DOMAIN groups[k][2] : groups[k][2][m] \in S <=> groups[k][1] \in S
  <2>1. \A k \in DOMAIN groups : groups[k][1] \in Places /\ groups[k][2] \in Seq(Places)
    BY DEF ClustersOK
  <2> QED
    BY <2>1 DEF ClustersOK, ClusterOK
<1>3. \A p \in Places : \E k \in DOMAIN groups : p \in ToSet(groups[k][2])
  BY DEF ClustersOK, Collected, ToSet
<1>4. ASSUME NEW S \in SUBSET Places, IsUnion(S)
      PROVE  IsClosed(S)
  <2> SUFFICES ASSUME NEW a \in S, NEW b \in Places, Near(Free[a], Free[b])
               PROVE  b \in S
    BY DEF IsClosed
  <2>1. a \in Places /\ Near(Free[b], Free[a])
    BY NearIsSymmetric DEF LoopsOK
  <2>2. a = b \/ Compared(a, b) \/ Compared(b, a)
    BY <1>1, <2>1 DEF Compared
  <2> QED
    BY <1>4, <2>1, <2>2 DEF SetsJoin
<1>5. ASSUME NEW k \in DOMAIN groups, NEW i \in ToSet(groups[k][2])
      PROVE  ToSet(groups[k][2]) = Component(Free, i)
  <2>1. ToSet(groups[k][2]) \subseteq Places /\ i \in Places
    BY <1>2 DEF ToSet
  <2>2. ASSUME NEW j \in ToSet(groups[k][2]) PROVE Connected(Free, i, j)
    <3> SUFFICES ASSUME NEW S \in SUBSET Places, i \in S, IsClosed(S)
                 PROVE  j \in S
      BY DEF Connected, IsClosed, Places
    <3>1. IsUnion(S)
      BY DEF SetsWithin
    <3> QED
      BY <1>2, <3>1 DEF ToSet
  <2>3. ASSUME NEW j \in Places, Connected(Free, i, j) PROVE j \in ToSet(groups[k][2])
    <3>1. PICK l \in DOMAIN groups : j \in ToSet(groups[l][2])
      BY <1>3
    <3>2. CASE l = k
      BY <3>1, <3>2
    <3>3. CASE l # k
      <4>1. groups[k][1] # groups[l][1]
        BY <3>3 DEF ClustersOK
      <4>2. PICK S \in SUBSET Places :
               IsUnion(S) /\ groups[k][1] \in S /\ groups[l][1] \notin S
        BY <1>2, <4>1, RootsApart DEF LoopsOK
      <4>3. i \in S /\ j \notin S
        BY <1>2, <3>1, <4>2 DEF ToSet
      <4>4. IsClosed(S)
        BY <1>4, <4>2
      <4> QED
        BY <2>3, <4>3, <4>4 DEF Connected, IsClosed, Places
    <3> QED
      BY <3>2, <3>3
  <2> QED
    BY <2>1, <2>2, <2>3 DEF Component, Places
<1> QED
  BY <1>2, <1>3, <1>5

\* The clusters that are placed: the connected components of the proximity graph,
\* each in board order, in the order of their first widgets.
ClustersAreComponents ==
    pc \in {"place", "done"} =>
        /\ {ToSet(groups[k][2]) : k \in DOMAIN groups} = {Component(Free, i) : i \in Places}
        /\ \A k \in DOMAIN groups : \A m, n \in DOMAIN groups[k][2] :
              m < n => groups[k][2][m] < groups[k][2][n]
        /\ \A k, l \in DOMAIN groups : k < l => groups[k][2][1] < groups[l][2][1]

\* Union-find and the collection of its sets yield exactly the components that
\* nearness makes of the widgets, whatever the order in which pairs are compared
\* has made of the chains of parents.
THEOREM ClustersAreExact == Spec => []ClustersAreComponents
<1>1. IInv => ClustersAreComponents
  <2> SUFFICES ASSUME IInv, pc \in {"place", "done"}
               PROVE  /\ {ToSet(groups[k][2]) : k \in DOMAIN groups}
                            = {Component(Free, i) : i \in Places}
                      /\ \A k \in DOMAIN groups : \A m, n \in DOMAIN groups[k][2] :
                            m < n => groups[k][2][m] < groups[k][2][n]
                      /\ \A k, l \in DOMAIN groups : k < l => groups[k][2][1] < groups[l][2][1]
    BY DEF ClustersAreComponents
  <2>1. /\ \A k \in DOMAIN groups :
              /\ groups[k][2] \in Seq(Places) /\ groups[k][2] # <<>>
              /\ \A i \in ToSet(groups[k][2]) : ToSet(groups[k][2]) = Component(Free, i)
        /\ \A p \in Places : \E k \in DOMAIN groups : p \in ToSet(groups[k][2])
    BY ClustersFound
  <2>2. \A k \in DOMAIN groups : \E i \in Places : ToSet(groups[k][2]) = Component(Free, i)
    <3> SUFFICES ASSUME NEW k \in DOMAIN groups
                 PROVE  \E i \in Places : ToSet(groups[k][2]) = Component(Free, i)
      OBVIOUS
    <3>1. groups[k][2][1] \in ToSet(groups[k][2]) /\ groups[k][2][1] \in Places
      BY <2>1 DEF ToSet
    <3> QED
      BY <2>1, <3>1
  <2>3. {ToSet(groups[k][2]) : k \in DOMAIN groups} = {Component(Free, i) : i \in Places}
    BY <2>1, <2>2
  <2> QED
    BY <2>3 DEF IInv, ClustersOK, ClusterOK
<1> QED
  BY <1>1, Invariant, PTL

-----------------------------------------------------------------------------
(* The tree.                                                                 *)

\* The lists of the clusters' places are the components, in their order.
LEMMA GroupsAreComponents ==
    ASSUME IInv, pc \in {"place", "done"}
    PROVE  /\ groups \in Seq(Places \X Seq(Places))
           /\ [k \in DOMAIN groups |-> groups[k][2]] = Components(Free)
<1>1. /\ groups \in Seq(Places \X Seq(Places))
      /\ \A k \in DOMAIN groups : Ascending(groups[k][2])
      /\ \A k, l \in DOMAIN groups : k < l => groups[k][2][1] < groups[l][2][1]
  BY DEF IInv, ClustersOK, ClusterOK, Ascending
<1>2. /\ Len(Free) \in Nat /\ Places = 1..Len(Free) /\ DOMAIN Free = 1..Len(Free)
      /\ \A k \in DOMAIN Free : Free[k].box \in Boxes
  BY FreeIsSequence DEF IInv, LoopsOK, Places
<1>3. /\ \A k \in DOMAIN groups :
            /\ groups[k][2] \in Seq(Places) /\ groups[k][2] # <<>>
            /\ \A i \in ToSet(groups[k][2]) : ToSet(groups[k][2]) = Component(Free, i)
      /\ \A p \in Places : \E k \in DOMAIN groups : p \in ToSet(groups[k][2])
  BY ClustersFound
<1>4. PICK n \in Nat : n = Len(groups) /\ DOMAIN groups = 1..n
  BY <1>1
<1>5. PICK order \in Seq(Places) :
              /\ Ascending(order) /\ ToSet(order) = Firsts(Free)
              /\ Components(Free) = [k \in 1..Len(order) |->
                                       InOrder(Component(Free, order[k]), Len(Free))]
              /\ \A k \in 1..Len(order) :
                    LET cluster == InOrder(Component(Free, order[k]), Len(Free))
                    IN /\ cluster \in Seq(Places) /\ Ascending(cluster)
                       /\ ToSet(cluster) = Component(Free, order[k])
  BY <1>2, ComponentsAre DEF Places
<1>6. \A k \in 1..n :
         /\ groups[k][2][1] \in Places /\ groups[k][2][1] \in ToSet(groups[k][2])
         /\ \A j \in ToSet(groups[k][2]) : groups[k][2][1] <= j
  <2> SUFFICES ASSUME NEW k \in 1..n, NEW places, places = groups[k][2]
               PROVE  /\ places[1] \in Places /\ places[1] \in ToSet(places)
                      /\ \A j \in ToSet(places) : places[1] <= j
    OBVIOUS
  <2>1. places \in Seq(Places) /\ places # <<>> /\ Ascending(places)
    BY <1>1, <1>3, <1>4
  <2>2. PICK m \in Nat \ {0} : DOMAIN places = 1..m
    BY <2>1
  <2>3. \A l \in 1..m : places[l] \in Nat /\ places[l] \in Places
    <3>1. \A i \in Places : i \in Nat
      BY <1>2
    <3>2. \A l \in 1..m : places[l] \in Places
      BY <2>1, <2>2
    <3> QED
      BY <3>1, <3>2
  <2>4. \A l \in 1..m : places[1] <= places[l]
    <3> SUFFICES ASSUME NEW l \in 1..m PROVE places[1] <= places[l]
      OBVIOUS
    <3>1. 1 \in DOMAIN places /\ l \in DOMAIN places /\ (l = 1 \/ 1 < l)
      BY <2>2
    <3>2. l = 1 \/ places[1] < places[l]
      BY <2>1, <3>1 DEF Ascending
    <3> QED
      BY <2>2, <2>3, <3>1, <3>2
  <2>5. ToSet(places) = {places[l] : l \in 1..m} /\ 1 \in 1..m
    BY <2>2 DEF ToSet
  <2> QED
    BY <2>3, <2>4, <2>5
<1> DEFINE q == [k \in 1..n |-> groups[k][2][1]]
<1>7. q \in Seq(Nat) /\ DOMAIN q = 1..n /\ Len(q) = n /\ Ascending(q)
  <2>1. \A k \in 1..n : groups[k][2][1] \in Nat
    BY <1>2, <1>6
  <2>2. q \in Seq(Nat) /\ DOMAIN q = 1..n /\ Len(q) = n
    BY <2>1
  <2>3. \A k \in 1..n : q[k] = groups[k][2][1]
    OBVIOUS
  <2> HIDE DEF q
  <2>4. Ascending(q)
    <3>1. \A k, l \in 1..n : k < l => groups[k][2][1] < groups[l][2][1]
      BY <1>1, <1>4
    <3> QED
      BY <2>2, <2>3, <3>1 DEF Ascending
  <2> QED
    BY <2>2, <2>4
<1>8. ToSet(q) = {groups[k][2][1] : k \in 1..n}
  BY DEF ToSet
<1> HIDE DEF q
<1>9. \A k \in 1..n : groups[k][2][1] \in Firsts(Free)
  <2> SUFFICES ASSUME NEW k \in 1..n, NEW i, i = groups[k][2][1] PROVE i \in Firsts(Free)
    OBVIOUS
  <2>1. /\ i \in Places /\ i \in ToSet(groups[k][2])
        /\ \A j \in ToSet(groups[k][2]) : i <= j
    BY <1>6
  <2>2. ToSet(groups[k][2]) = Component(Free, i)
    BY <1>3, <1>4, <2>1
  <2> QED
    BY <2>1, <2>2 DEF Firsts, Places
<1>10. ASSUME NEW i \in Firsts(Free) PROVE \E k \in 1..n : groups[k][2][1] = i
  <2>1. i \in Places /\ \A j \in Component(Free, i) : i <= j
    BY DEF Firsts, Places
  <2>2. PICK k \in 1..n : i \in ToSet(groups[k][2])
    BY <1>3, <1>4, <2>1
  <2>3. groups[k][2][1] \in Component(Free, i)
    <3>1. ToSet(groups[k][2]) = Component(Free, i)
      BY <1>3, <1>4, <2>2
    <3>2. groups[k][2][1] \in ToSet(groups[k][2])
      BY <1>6, <2>2
    <3> QED
      BY <3>1, <3>2
  <2>4. i <= groups[k][2][1] /\ groups[k][2][1] <= i
    BY <1>6, <2>1, <2>2, <2>3
  <2> QED
    BY <1>2, <1>6, <2>1, <2>4
<1>11. q = order
  <2>1. order \in Seq(Nat) /\ Ascending(order)
    BY <1>2, <1>5
  <2>2. ToSet(q) = ToSet(order)
    BY <1>5, <1>8, <1>9, <1>10
  <2> QED
    BY <1>7, <2>1, <2>2, AscendingUnique
<1>12. ASSUME NEW k \in 1..n PROVE groups[k][2] = Components(Free)[k]
  <2>1. order[k] = groups[k][2][1] /\ k \in 1..Len(order)
    BY <1>7, <1>11 DEF q
  <2>2. PICK cluster : cluster = InOrder(Component(Free, order[k]), Len(Free))
    OBVIOUS
  <2>3. /\ cluster \in Seq(Places) /\ Ascending(cluster) /\ Components(Free)[k] = cluster
        /\ ToSet(cluster) = Component(Free, order[k])
    BY <1>5, <2>1, <2>2
  <2>4. ToSet(groups[k][2]) = Component(Free, order[k])
    BY <1>3, <1>4, <1>6, <2>1
  <2>5. groups[k][2] \in Seq(Nat) /\ cluster \in Seq(Nat) /\ Ascending(groups[k][2])
    <3>1. groups[k][2] \in Seq(Places) /\ Ascending(groups[k][2])
      BY <1>1, <1>3, <1>4
    <3>2. \A r \in Seq(Places) : r \in Seq(Nat)
      BY <1>2
    <3> QED
      BY <2>3, <3>1, <3>2
  <2> QED
    BY <2>3, <2>4, <2>5, AscendingUnique
<1>13. Components(Free) = [k \in 1..n |-> Components(Free)[k]]
  BY <1>5, <1>7, <1>11
<1> QED
  BY <1>1, <1>4, <1>12, <1>13

\* The tables are in the tree from the beginning, then one cluster after the other.
TreeOK ==
    /\ pc \notin {"place", "done"} => tree = Unplaced(widgets)
    /\ pc = "place" => /\ pair.i - 1 \in 0..Len(Components(Free))
                       /\ tree = Placing(widgets)[pair.i - 1]
    /\ pc = "done" => tree = Placed(widgets)

\* TreeOK survives every step.
LEMMA TreeStep ==
    ASSUME IInv, TreeOK, [Next]_vars
    PROVE  TreeOK'
<1>1. widgets' = widgets /\ Free' = Free /\ Components(Free)' = Components(Free)
  BY SameList
<1>2. IsBoard(widgets)
  BY BoardsAssumption DEF IInv, LoopsOK
<1>3. PICK n \in Nat : n = Len(Components(Free))
  BY <1>2, ClustersAre DEF Free
<1>4. /\ \A k \in 0..n : Placing(widgets)[k] =
            IF k = 0 THEN Unplaced(widgets)
            ELSE PlaceCluster(Placing(widgets)[k - 1],
                              WidgetsAt(Free, Components(Free)[k]), k - 1)
      /\ Placed(widgets) = Placing(widgets)[n]
  <2>1. PICK f : f = Placing(widgets)
    OBVIOUS
  <2>2. IsPlacing(widgets, n, f) /\ Placed(widgets) = f[n]
    BY <1>3, <2>1, PlacingExists DEF Free
  <2>3. \A k \in 0..n : f[k] =
           IF k = 0 THEN Unplaced(widgets)
           ELSE PlaceCluster(f[k - 1], WidgetsAt(Free, Components(Free)[k]), k - 1)
    BY <2>2 DEF IsPlacing, Free
  <2> QED
    BY <2>1, <2>2, <2>3
<1>5. CASE tree' = tree /\ pc \notin {"place", "done"} /\ pc' \notin {"place", "done"}
  BY <1>1, <1>5 DEF TreeOK
<1>6. CASE tree' = tree /\ pc \notin {"place", "done"} /\ pc' = "place" /\ pair' = FirstPair
  <2>1. pair'.i - 1 = 0 /\ 0 \in 0..n
    BY <1>6 DEF FirstPair
  <2>2. tree' = Placing(widgets)[0]
    BY <1>4, <1>6, <2>1 DEF TreeOK
  <2> QED
    BY <1>1, <1>3, <1>6, <2>1, <2>2 DEF TreeOK
<1>7. CASE Place
  <2>1. /\ pc = "place" /\ pc' = "place" /\ pair.i \in DOMAIN groups
        /\ tree' = PlaceCluster(tree, WidgetsAt(Free, groups[pair.i][2]), pair.i - 1)
        /\ pair' = [pair EXCEPT !.i = @ + 1] /\ pair \in [i: Nat \ {0}, j: Nat]
    BY <1>7 DEF Place, Cluster, IInv, LoopsOK
  <2>2. PICK i \in Nat \ {0} : i = pair.i /\ pair'.i = i + 1
    BY <2>1
  <2>3. /\ groups \in Seq(Places \X Seq(Places))
        /\ [k \in DOMAIN groups |-> groups[k][2]] = Components(Free)
    BY <2>1, GroupsAreComponents
  <2>4. groups[i][2] = Components(Free)[i] /\ i \in 1..n /\ i \in 0..n
    <3>1. i \in DOMAIN groups /\ DOMAIN groups = 1..Len(groups) /\ Len(groups) \in Nat
      BY <2>1, <2>2, <2>3
    <3>2. PICK lists : lists = [k \in DOMAIN groups |-> groups[k][2]]
      OBVIOUS
    <3>3. lists = Components(Free) /\ Len(lists) = Len(groups)
      BY <2>3, <3>1, <3>2
    <3> QED
      BY <1>3, <3>1, <3>2, <3>3
  <2>5. tree = Placing(widgets)[i - 1]
    BY <2>1, <2>2 DEF TreeOK
  <2>6. tree' = Placing(widgets)[i]
    BY <1>4, <2>1, <2>2, <2>4, <2>5
  <2>7. pair'.i - 1 = i
    BY <2>2
  <2> QED
    BY <1>1, <1>3, <2>1, <2>4, <2>6, <2>7 DEF TreeOK
<1>8. CASE Finish
  <2>1. /\ pc = "place" /\ pc' = "done" /\ pair.i > Len(groups) /\ tree' = tree
        /\ pair \in [i: Nat \ {0}, j: Nat]
    BY <1>8 DEF Finish, IInv, LoopsOK
  <2>2. Len(groups) = n
    <3>1. /\ groups \in Seq(Places \X Seq(Places))
          /\ [k \in DOMAIN groups |-> groups[k][2]] = Components(Free)
      BY <2>1, GroupsAreComponents
    <3>2. DOMAIN groups = 1..Len(groups) /\ Len(groups) \in Nat
      BY <3>1
    <3>3. PICK lists : lists = [k \in DOMAIN groups |-> groups[k][2]]
      OBVIOUS
    <3>4. lists = Components(Free) /\ Len(lists) = Len(groups)
      BY <3>1, <3>2, <3>3
    <3> QED
      BY <1>3, <3>4
  <2>3. pair.i - 1 = n
    BY <1>3, <2>1, <2>2 DEF TreeOK
  <2> QED
    BY <1>1, <1>4, <2>1, <2>3 DEF TreeOK
<1>9. CASE UNCHANGED vars
  BY <1>1, <1>9 DEF TreeOK, vars
<1> QED
  <2>1. pc \in {"compare", "find_j", "find_i", "find", "place", "done"}
    BY DEF IInv, LoopsOK
  <2> QED
    BY <1>5, <1>6, <1>7, <1>8, <1>9, <2>1
       DEF Next, Compare, Halve, FoundRight, Link, StartCollecting, Collect, Finding

\* TreeOK holds in every reachable state.
LEMMA TreeInvariant == Spec => []TreeOK
<1>1. Init => TreeOK
  BY DEF Init, TreeOK
<1> QED
  BY <1>1, Invariant, TreeStep, PTL DEF Spec

\* The union-find, whatever chains of parents it makes, places what the reference
\* places: the clusters are the components in board order, and the groups, the
\* anchors and the lists of children are those of the tree that these make.
THEOREM GroupsAndTreeAreExact == Spec => []GroupingIsExact
<1>1. IInv /\ TreeOK => GroupingIsExact
  <2> SUFFICES ASSUME IInv, TreeOK, pc = "done"
               PROVE  /\ [k \in DOMAIN groups |-> groups[k][2]] = Components(Free)
                      /\ BuildTree(widgets, tree.groups, tree.adjacency) = SpatialTreeOf(widgets)
    BY DEF GroupingIsExact
  <2>1. [k \in DOMAIN groups |-> groups[k][2]] = Components(Free)
    BY GroupsAreComponents
  <2>2. tree = Placed(widgets)
    BY DEF TreeOK
  <2> QED
    BY <2>1, <2>2 DEF SpatialTreeOf
<1> QED
  BY <1>1, Invariant, TreeInvariant, PTL

\* Of all the lists, n's has c, at position k and nowhere else.
OnlyAt(adjacency, c, n, k) ==
    \A m, l : m \in DOMAIN adjacency /\ l \in DOMAIN adjacency[m] /\ adjacency[m][l] = c
                 <=> m = n /\ l = k

\* A node that something holds is in one list only, at one position.
LEMMA OnePosition ==
    ASSUME NEW adjacency, NEW N, NEW R, ListsAre(adjacency, N, R), OneHolder(R),
           NEW n, NEW c, <<n, c>> \in R
    PROVE  \E k : OnlyAt(adjacency, c, n, k)
<1>1. \A m : /\ Children(adjacency, m) \in Seq(N) /\ IsInjective(Children(adjacency, m))
             /\ m = n <=> c \in Kids(adjacency, m)
  BY DEF ListsAre, OneHolder
<1>2. n \in DOMAIN adjacency
  <2>1. n \notin DOMAIN adjacency => Kids(adjacency, n) = {}
    BY EmptyList DEF Kids, Children
  <2> QED
    BY <1>1, <2>1
<1>3. \A m \in DOMAIN adjacency : Children(adjacency, m) = adjacency[m]
  BY DEF Children
<1>4. PICK k \in DOMAIN adjacency[n] : adjacency[n][k] = c
  <2>1. c \in ToSet(adjacency[n])
    BY <1>1, <1>2, <1>3 DEF Kids
  <2> QED
    BY <2>1 DEF ToSet
<1>5. ASSUME NEW m \in DOMAIN adjacency, NEW l \in DOMAIN adjacency[m], adjacency[m][l] = c
      PROVE  m = n /\ l = k
  <2>1. c \in Kids(adjacency, m)
    BY <1>3, <1>5 DEF Kids, ToSet
  <2>2. m = n
    BY <1>1, <2>1
  <2>3. IsInjective(adjacency[n])
    BY <1>1, <1>2, <1>3
  <2> QED
    BY <1>4, <1>5, <2>2, <2>3 DEF IsInjective
<1> QED
  BY <1>2, <1>4, <1>5 DEF OnlyAt

\* The tree has everything but the cells at one place each: a table under its parent, the
\* head of a cluster and a group on the top level, the other widgets under that head.
THEOREM WidgetsArePlacedOnce == Spec => []PlacedOnce
<1>1. IInv /\ TreeOK => PlacedOnce
  <2> SUFFICES ASSUME IInv, TreeOK, pc = "done" PROVE PlacedOnce
    BY DEF PlacedOnce
  <2>1. IsBoard(widgets) /\ tree = Placed(widgets)
    BY BoardsAssumption DEF IInv, LoopsOK, TreeOK
  <2>2. PICK R : R = AllSpatialPairs(widgets)
    OBVIOUS
  <2>3. OneHolder(R) /\ ListsAre(tree.adjacency, SpatialNodes(widgets), R)
    BY <2>1, <2>2, SpatialHolders, SpatialTreeIsTree DEF SpatialTreeOf, BuildTree
  <2>4. ASSUME NEW n, NEW c, <<n, c>> \in R PROVE OnlyUnder(n, c)
    <3>1. PICK k : OnlyAt(tree.adjacency, c, n, k)
      BY <2>3, <2>4, OnePosition
    <3>2. PlacesOf(c) = {<<n, k>>}
      BY <3>1 DEF PlacesOf, OnlyAt
    <3>3. k \in DOMAIN Children(tree.adjacency, n)
      BY <3>1 DEF OnlyAt, Children
    <3> QED
      BY <3>2, <3>3 DEF OnlyUnder
  <2>5. \A w \in ToSet(widgets) : IsTable(w) => <<w.parent, w.id>> \in R
    BY <2>1, <2>2, SpatialHolders DEF Tables
  <2>6. \A w \in ToSet(widgets) : IsPlain(w) => <<HolderNear(widgets, w.id), w.id>> \in R
    BY <2>1, <2>2, HolderNearIs
  <2>7. \A g \in tree.groups : <<Root, g>> \in R
    <3>1. tree.groups = SpatialGroups(widgets, Len(Components(Clustered(widgets))))
      BY <2>1, SpatialTreeIsTree DEF SpatialTreeOf, BuildTree
    <3> QED
      BY <2>1, <2>2, <3>1, HolderNearIs
  <2> QED
    BY <2>4, <2>5, <2>6, <2>7 DEF PlacedOnce
<1> QED
  BY <1>1, Invariant, TreeInvariant, PTL
=============================================================================
