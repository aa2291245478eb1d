-------------------------- MODULE BoardViewsProofs ---------------------------
(* Proofs about BoardViews for boards of every size and depth: the walks of  *)
(* the renderer, the counts and the labels of the summary, what a search     *)
(* finds, and the connections.                                               *)
(*                                                                           *)
(* What is in a region is a recursive matter.  The proofs speak of Below,    *)
(* the least set that has a node and the children of each of its nodes: the  *)
(* walk of the renderer, the recursion of the count and the reference that   *)
(* goes from holder to holder are each shown to come to this set.            *)
EXTENDS BoardViews, SpatialTreeProofs

-----------------------------------------------------------------------------
(* What is below a node.                                                     *)

\* No list of a node of S has one outside of S.
Down(adjacency, S) == \A m \in S : Kids(adjacency, m) \subseteq S

\* The node n and all that it holds, in whatever depth: what every set has that has
\* n and the children of each of its nodes.
Below(adjacency, N, n) == {c \in N : \A S \in SUBSET N : n \in S /\ Down(adjacency, S) => c \in S}

\* The lists of N are those of a tree, or of several, in which R has holder and held.
Walkable(adjacency, N, R) == ListsAre(adjacency, N, R) /\ OneHolder(R) /\ Acyclic(R, N)

\* It is the least of these sets.
LEMMA BelowIsLeast ==
    ASSUME NEW adjacency, NEW N, NEW R, ListsAre(adjacency, N, R), NEW n \in N
    PROVE  /\ n \in Below(adjacency, N, n) /\ Below(adjacency, N, n) \in SUBSET N
           /\ Down(adjacency, Below(adjacency, N, n))
           /\ \A S \in SUBSET N : n \in S /\ Down(adjacency, S) => Below(adjacency, N, n) \subseteq S
<1>1. \A m : Kids(adjacency, m) \subseteq N
  BY DEF ListsAre, Kids, ToSet
<1>2. Down(adjacency, Below(adjacency, N, n))
  BY <1>1 DEF Down, Below
<1> QED
  BY <1>2 DEF Below

\* All but n itself are there because one of them holds them.
LEMMA BelowIsHeld ==
    ASSUME NEW adjacency, NEW N, NEW R, ListsAre(adjacency, N, R), NEW n \in N,
           NEW c \in Below(adjacency, N, n), c # n
    PROVE  \E m \in Below(adjacency, N, n) : <<m, c>> \in R
<1> SUFFICES ASSUME \A m \in Below(adjacency, N, n) : <<m, c>> \notin R PROVE FALSE
  OBVIOUS
<1> DEFINE S == Below(adjacency, N, n) \ {c}
<1>1. /\ n \in Below(adjacency, N, n) /\ Below(adjacency, N, n) \in SUBSET N
      /\ Down(adjacency, Below(adjacency, N, n))
      /\ \A T \in SUBSET N : n \in T /\ Down(adjacency, T) => Below(adjacency, N, n) \subseteq T
  BY BelowIsLeast
<1>2. \A m : \A d \in Kids(adjacency, m) : <<m, d>> \in R
  BY DEF ListsAre
<1>3. Down(adjacency, S)
  BY <1>1, <1>2 DEF Down
<1>4. n \in S /\ S \in SUBSET N
  BY <1>1
<1> QED
  BY <1>1, <1>3, <1>4

\* What is below a node is the node and what is below its children, which share
\* nothing.
LEMMA BelowIs ==
    ASSUME NEW adjacency, NEW N, NEW R, Walkable(adjacency, N, R), NEW n \in N
    PROVE  /\ Kids(adjacency, n) \in SUBSET N
           /\ \A c \in Kids(adjacency, n) : /\ n \notin Below(adjacency, N, c)
                                           /\ Below(adjacency, N, c) \subseteq Below(adjacency, N, n)
           /\ \A c, d \in Kids(adjacency, n) :
                 c # d => Below(adjacency, N, c) \cap Below(adjacency, N, d) = {}
           /\ \A x : x \in Below(adjacency, N, n)
                        <=> x = n \/ \E c \in Kids(adjacency, n) : x \in Below(adjacency, N, c)
<1> DEFINE B(m) == Below(adjacency, N, m)
<1>0. ListsAre(adjacency, N, R) /\ OneHolder(R) /\ Acyclic(R, N)
  BY DEF Walkable
<1>1. \A m : \A c : c \in Kids(adjacency, m) <=> <<m, c>> \in R
  BY <1>0 DEF ListsAre
<1>2. \A m : Kids(adjacency, m) \in SUBSET N
  BY <1>0 DEF ListsAre, Kids, ToSet
<1>3. \A m \in N : /\ m \in B(m) /\ B(m) \in SUBSET N
                   /\ Down(adjacency, B(m))
                   /\ \A S \in SUBSET N : m \in S /\ Down(adjacency, S) => B(m) \subseteq S
  BY <1>0, BelowIsLeast
<1>4. \A m \in N : \A c \in B(m) : c # m => \E d \in B(m) : <<d, c>> \in R
  BY <1>0, BelowIsHeld
<1> HIDE DEF B
<1>5. \A S \in SUBSET N : (\A c \in S : \E m \in S : <<m, c>> \in R) => S = {}
  BY <1>0 DEF Acyclic
<1>6. ASSUME NEW c \in Kids(adjacency, n), n \in B(c) PROVE FALSE
  <2>1. c \in N /\ <<n, c>> \in R
    BY <1>1, <1>2
  <2>2. \A d \in B(c) : \E m \in B(c) : <<m, d>> \in R
    BY <1>4, <1>6, <2>1
  <2> QED
    BY <1>3, <1>5, <2>1, <2>2
<1>7. ASSUME NEW c \in Kids(adjacency, n) PROVE B(c) \subseteq B(n)
  <2>1. c \in N /\ c \in B(n)
    BY <1>2, <1>3 DEF Down
  <2> QED
    BY <1>3, <2>1
<1>8. ASSUME NEW c \in Kids(adjacency, n), NEW d \in Kids(adjacency, n), c \in B(d), c # d PROVE FALSE
  <2>1. d \in N /\ <<n, c>> \in R
    BY <1>1, <1>2
  <2>2. PICK m \in B(d) : <<m, c>> \in R
    BY <1>4, <1>8, <2>1
  <2>3. m = n
    BY <1>0, <2>1, <2>2 DEF OneHolder
  <2> QED
    BY <1>6, <2>2, <2>3
<1>9. ASSUME NEW c \in Kids(adjacency, n), NEW d \in Kids(adjacency, n), c # d
      PROVE  B(c) \cap B(d) = {}
  <2>1. c \in N /\ d \in N /\ c \notin B(d) /\ d \notin B(c)
    BY <1>2, <1>8, <1>9
  <2>2. ASSUME NEW x \in B(c) \cap B(d) PROVE \E m \in B(c) \cap B(d) : <<m, x>> \in R
    <3>1. x # c /\ x # d
      BY <2>1
    <3>2. PICK m \in B(c) : <<m, x>> \in R
      BY <1>4, <2>1, <3>1
    <3>3. PICK k \in B(d) : <<k, x>> \in R
      BY <1>4, <2>1, <3>1
    <3> QED
      BY <1>0, <3>2, <3>3 DEF OneHolder
  <2>3. B(c) \cap B(d) \in SUBSET N
    BY <1>3, <2>1
  <2> QED
    BY <1>5, <2>2, <2>3
<1>10. ASSUME NEW x \in B(n), x # n PROVE \E c \in Kids(adjacency, n) : x \in B(c)
  <2> DEFINE S == {n} \cup UNION {B(c) : c \in Kids(adjacency, n)}
  <2>1. S \in SUBSET N
    BY <1>2, <1>3
  <2>2. Down(adjacency, S)
    BY <1>2, <1>3 DEF Down
  <2>3. x \in S
    BY <1>3, <2>1, <2>2
  <2> QED
    BY <1>10, <2>3
<1> QED
  BY <1>2, <1>3, <1>6, <1>7, <1>9, <1>10 DEF B

-----------------------------------------------------------------------------
(* The walk.                                                                 *)

\* A walk that began at root has rendered no node twice, and what it has rendered and
\* what is below the nodes still to render are, without overlap, what is below root.
Walking(adjacency, N, root, waiting, done) ==
    /\ waiting \in Seq(N) /\ done \in Seq(N) /\ IsInjective(done)
    /\ \A k, l \in DOMAIN waiting :
          k # l => Below(adjacency, N, waiting[k]) \cap Below(adjacency, N, waiting[l]) = {}
    /\ \A k \in DOMAIN waiting : Below(adjacency, N, waiting[k]) \cap ToSet(done) = {}
    /\ \A x : x \in Below(adjacency, N, root)
                 <=> x \in ToSet(done)
                     \/ \E k \in DOMAIN waiting : x \in Below(adjacency, N, waiting[k])

\* One more turn of the walk.
LEMMA WalkOn ==
    ASSUME NEW adjacency, NEW N, NEW R, Walkable(adjacency, N, R), NEW root,
           NEW waiting, NEW done, Walking(adjacency, N, root, waiting, done), waiting # <<>>
    PROVE  Walking(adjacency, N, root,
                   Children(adjacency, Head(waiting)) \o Tail(waiting), Append(done, Head(waiting)))
<1> DEFINE B(x) == Below(adjacency, N, x)
           next == Children(adjacency, Head(waiting)) \o Tail(waiting)
           after == Append(done, Head(waiting))
<1>1. /\ waiting \in Seq(N) /\ done \in Seq(N) /\ IsInjective(done)
      /\ \A k, l \in DOMAIN waiting : k # l => B(waiting[k]) \cap B(waiting[l]) = {}
      /\ \A k \in DOMAIN waiting : B(waiting[k]) \cap ToSet(done) = {}
      /\ \A x : x \in B(root)
                  <=> x \in ToSet(done) \/ \E k \in DOMAIN waiting : x \in B(waiting[k])
  BY DEF Walking
<1>2. PICK n \in N : n = Head(waiting)
  BY <1>1
<1>3. PICK tail \in Seq(N) : tail = Tail(waiting)
  <2>1. waiting \in Seq(N)
    BY <1>1
  <2>2. Tail(waiting) \in Seq(N)
    BY <2>1
  <2> QED
    BY <2>2
<1>4. PICK p : p = Children(adjacency, n)
  OBVIOUS
<1>5. p \in Seq(N) /\ IsInjective(p) /\ Kids(adjacency, n) = ToSet(p)
  BY <1>4 DEF Walkable, ListsAre, Kids
<1>6. /\ ToSet(p) \in SUBSET N
      /\ \A c \in ToSet(p) : n \notin B(c) /\ B(c) \subseteq B(n)
      /\ \A c, d \in ToSet(p) : c # d => B(c) \cap B(d) = {}
      /\ \A x : x \in B(n) <=> x = n \/ \E c \in ToSet(p) : x \in B(c)
  BY <1>5, BelowIs
<1> HIDE DEF B
<1>7. PICK h \in Nat : h = Len(p) /\ DOMAIN p = 1..h
  BY <1>5
<1>8. PICK m \in Nat : m = Len(tail) /\ DOMAIN tail = 1..m
  OBVIOUS
<1>9. /\ DOMAIN waiting = 1..(m + 1) /\ waiting[1] = n
      /\ \A k \in 1..m : tail[k] = waiting[k + 1]
  BY <1>1, <1>2, <1>3, <1>8
<1>10. /\ next \in Seq(N) /\ DOMAIN next = 1..(h + m)
       /\ \A k \in 1..h : next[k] = p[k]
       /\ \A k \in (h + 1)..(h + m) : next[k] = waiting[(k - h) + 1] /\ (k - h) + 1 \in 2..(m + 1)
  <2>1. next = p \o tail
    BY <1>2, <1>3, <1>4
  <2> HIDE DEF next
  <2>2. p \o tail \in Seq(N) /\ Len(p \o tail) = h + m /\ DOMAIN (p \o tail) = 1..(h + m)
    BY <1>5, <1>7, <1>8
  <2>3. \A k \in 1..h : (p \o tail)[k] = p[k]
    BY <1>5, <1>7, <1>8
  <2>4. \A k \in (h + 1)..(h + m) : (p \o tail)[k] = tail[k - h] /\ k - h \in 1..m
    BY <1>5, <1>7, <1>8
  <2>5. next \in Seq(N) /\ DOMAIN next = 1..(h + m)
    BY <2>1, <2>2
  <2>6. \A k \in (h + 1)..(h + m) : next[k] = tail[k - h] /\ k - h \in 1..m
    BY <2>1, <2>4
  <2> QED
    BY <1>9, <2>1, <2>3, <2>5, <2>6
<1>11. PICK d \in Nat : d = Len(done) /\ DOMAIN done = 1..d
  BY <1>1
<1>12. /\ after \in Seq(N) /\ DOMAIN after = 1..(d + 1)
       /\ \A k \in 1..d : after[k] = done[k]
       /\ after[d + 1] = n
  BY <1>1, <1>2, <1>11
<1> HIDE DEF next, after
<1>13. n \in B(n)
  BY <1>6
<1>14. n \notin ToSet(done) /\ ToSet(after) = ToSet(done) \cup {n}
  <2>1. n \notin ToSet(done)
    BY <1>1, <1>9, <1>13
  <2>2. ToSet(done) = {done[k] : k \in 1..d} /\ ToSet(after) = {after[k] : k \in 1..(d + 1)}
    BY <1>11, <1>12 DEF ToSet
  <2> QED
    BY <1>12, <2>1, <2>2
<1>15. IsInjective(after)
  <2>1. \A k \in 1..d : done[k] # n
    BY <1>11, <1>14 DEF ToSet
  <2>2. \A k, l \in 1..d : done[k] = done[l] => k = l
    BY <1>1, <1>11 DEF IsInjective
  <2>3. \A k \in 1..(d + 1) : k \in 1..d \/ k = d + 1
    OBVIOUS
  <2>4. \A k, l \in 1..(d + 1) : after[k] = after[l] => k = l
    BY <1>12, <2>1, <2>2, <2>3
  <2> QED
    BY <1>12, <2>4 DEF IsInjective
<1>16. \A k \in 1..(h + m) : k \in 1..h \/ k \in (h + 1)..(h + m)
  OBVIOUS
<1>17. \A k \in 1..h : p[k] \in ToSet(p)
  BY <1>7 DEF ToSet
<1>18. \A k \in 2..(m + 1) : B(waiting[k]) \cap B(n) = {}
  <2>1. \A k \in 2..(m + 1) : k \in DOMAIN waiting /\ 1 \in DOMAIN waiting /\ k # 1
    BY <1>9
  <2> QED
    BY <1>1, <1>9, <2>1
<1>19. ASSUME NEW k \in 1..(h + m), NEW l \in 1..(h + m), k # l
       PROVE  B(next[k]) \cap B(next[l]) = {}
  <2>1. CASE k \in 1..h /\ l \in 1..h
    <3>1. p[k] # p[l]
      BY <1>5, <1>7, <1>19, <2>1 DEF IsInjective
    <3> QED
      BY <1>6, <1>10, <1>17, <2>1, <3>1
  <2>2. \A i \in 1..h : \A j \in (h + 1)..(h + m) : B(next[i]) \cap B(next[j]) = {}
    BY <1>6, <1>10, <1>17, <1>18
  <2>3. CASE k \in (h + 1)..(h + m) /\ l \in (h + 1)..(h + m)
    <3>1. /\ (k - h) + 1 \in DOMAIN waiting /\ (l - h) + 1 \in DOMAIN waiting
          /\ (k - h) + 1 # (l - h) + 1
      BY <1>9, <1>19, <2>3
    <3> QED
      BY <1>1, <1>10, <2>3, <3>1
  <2> QED
    BY <1>16, <1>19, <2>1, <2>2, <2>3
<1>20. ASSUME NEW k \in 1..(h + m) PROVE B(next[k]) \cap ToSet(after) = {}
  <2>1. CASE k \in 1..h
    <3>1. B(p[k]) \subseteq B(n) /\ n \notin B(p[k])
      BY <1>6, <1>17, <2>1
    <3>2. B(n) \cap ToSet(done) = {}
      BY <1>1, <1>9
    <3> QED
      BY <1>10, <1>14, <2>1, <3>1, <3>2
  <2>2. CASE k \in (h + 1)..(h + m)
    <3>1. PICK l \in 2..(m + 1) : next[k] = waiting[l]
      BY <1>10, <2>2
    <3>2. l \in DOMAIN waiting
      BY <1>9, <3>1
    <3>3. B(waiting[l]) \cap ToSet(done) = {} /\ n \notin B(waiting[l])
      BY <1>1, <1>13, <1>18, <3>1, <3>2
    <3> QED
      BY <1>14, <3>1, <3>3
  <2> QED
    BY <1>16, <2>1, <2>2
<1>21. ASSUME NEW x
       PROVE  (x \in ToSet(done) \/ \E k \in 1..(m + 1) : x \in B(waiting[k]))
                 <=> (x \in ToSet(after) \/ \E k \in 1..(h + m) : x \in B(next[k]))
  <2>1. (\E k \in 1..(m + 1) : x \in B(waiting[k]))
           <=> x \in B(n) \/ \E k \in 2..(m + 1) : x \in B(waiting[k])
    <3>1. \A k \in 1..(m + 1) : k = 1 \/ k \in 2..(m + 1)
      OBVIOUS
    <3>2. 1 \in 1..(m + 1) /\ \A k \in 2..(m + 1) : k \in 1..(m + 1)
      OBVIOUS
    <3> QED
      BY <1>9, <3>1, <3>2
  <2>2. (\E c \in ToSet(p) : x \in B(c)) <=> \E k \in 1..h : x \in B(next[k])
    <3>1. \A c \in ToSet(p) : \E k \in 1..h : c = p[k]
      BY <1>7 DEF ToSet
    <3> QED
      BY <1>10, <1>17, <3>1
  <2>3. (\E k \in 2..(m + 1) : x \in B(waiting[k]))
           <=> \E k \in (h + 1)..(h + m) : x \in B(next[k])
    <3>1. \A k \in 2..(m + 1) : (k - 1) + h \in (h + 1)..(h + m) /\ (((k - 1) + h) - h) + 1 = k
      OBVIOUS
    <3> QED
      BY <1>10, <3>1
  <2>4. \A k : k \in 1..(h + m) <=> k \in 1..h \/ k \in (h + 1)..(h + m)
    OBVIOUS
  <2> QED
    BY <1>6, <1>14, <2>1, <2>2, <2>3, <2>4
<1>22. Walking(adjacency, N, root, next, after)
  BY <1>1, <1>9, <1>10, <1>12, <1>15, <1>19, <1>20, <1>21 DEF Walking, B
<1> QED
  BY <1>22 DEF next, after

-----------------------------------------------------------------------------
(* Counting.                                                                 *)

\* A list that has nothing twice is as long as what it has.
LEMMA ListLength ==
    ASSUME NEW N, NEW q \in Seq(N), IsInjective(q)
    PROVE  IsFiniteSet(ToSet(q)) /\ Cardinality(ToSet(q)) = Len(q)
<1>1. PICK n \in Nat : n = Len(q) /\ DOMAIN q = 1..n
  OBVIOUS
<1>2. PICK T : T = ToSet(q)
  OBVIOUS
<1>3. q \in [1..n -> T] /\ \A x \in T : \E k \in 1..n : q[k] = x
  BY <1>1, <1>2 DEF ToSet
<1>4. q \in Bijection(1..n, T)
  BY <1>1, <1>3 DEF Bijection, Injection, Surjection, IsInjective
<1>5. ExistsBijection(1..n, T)
  BY <1>4 DEF ExistsBijection
<1>6. IsFiniteSet(1..n) /\ Cardinality(1..n) = n
  BY FS_Interval
<1> QED
  BY <1>1, <1>2, <1>5, <1>6, FS_Bijection

\* The equation of the inner recursion of _count_descendants, and what it comes to.
IsTotal(f, children, n, g) ==
    g = [k \in 0..n |-> IF k = 0 THEN Len(children) ELSE g[k - 1] + f[children[k]]]
TotalOf(f, children) ==
    LET total[k \in 0..Len(children)] ==
            IF k = 0 THEN Len(children) ELSE total[k - 1] + f[children[k]]
    IN total[Len(children)]

LEMMA TotalExists ==
    ASSUME NEW f, NEW children, NEW n \in Nat, Len(children) = n
    PROVE  \E g : IsTotal(f, children, n, g) /\ TotalOf(f, children) = g[n]
<1> DEFINE T == {k \in 0..n : \E g : IsTotal(f, children, k, g)}
           After(before, k) == before + f[children[k]]
<1>1. 0 \in T
  <2> DEFINE g == [k \in 0..0 |-> Len(children)]
  <2>1. IsTotal(f, children, 0, g)
    BY DEF IsTotal
  <2> QED
    BY <2>1
<1>2. ASSUME NEW m \in 0..n, m \in T, m < n PROVE m + 1 \in T
  <2>1. PICK h : IsTotal(f, children, m, h)
    BY <1>2
  <2> DEFINE g == [k \in 0..(m + 1) |-> IF k <= m THEN h[k] ELSE After(h[m], k)]
  <2> HIDE DEF After
  <2>2. \A k \in 0..m : h[k] = IF k = 0 THEN Len(children) ELSE After(h[k - 1], k)
    BY <2>1 DEF IsTotal, After
  <2>3. ASSUME NEW k \in 0..(m + 1)
        PROVE  g[k] = IF k = 0 THEN Len(children) ELSE After(g[k - 1], k)
    <3>1. CASE k <= m
      <4>1. /\ k \in 0..m /\ g[k] = h[k]
            /\ k # 0 => k - 1 \in 0..(m + 1) /\ g[k - 1] = h[k - 1]
        BY <3>1
      <4> HIDE DEF g
      <4> QED
        BY <2>2, <4>1
    <3>2. CASE k = m + 1
      BY <3>2, <1>2
    <3> QED
      BY <3>1, <3>2, <1>2
  <2>4. g = [k \in 0..(m + 1) |-> IF k = 0 THEN Len(children) ELSE After(g[k - 1], k)]
    BY <2>3
  <2> HIDE DEF g
  <2>5. IsTotal(f, children, m + 1, g)
    BY <2>4 DEF IsTotal, After
  <2>6. m + 1 \in 0..n
    BY <1>2
  <2> QED
    BY <2>5, <2>6
<1> HIDE DEF T, After
<1>3. n \in T
  <2>1. \A k \in 0..n : k \in T /\ k < n => k + 1 \in T
    BY <1>2
  <2>2. \A k \in 0..n : k \in T
    BY <1>1, <2>1, UpTo
  <2> QED
    BY <2>2
<1>4. PICK g : IsTotal(f, children, n, g)
  BY <1>3 DEF T
<1> DEFINE total == CHOOSE h : h = [k \in 0..Len(children) |->
                       IF k = 0 THEN Len(children) ELSE h[k - 1] + f[children[k]]]
<1>5. IsTotal(f, children, n, total)
  BY <1>4 DEF IsTotal
<1>6. TotalOf(f, children) = total[n]
  BY DEF TotalOf
<1> HIDE DEF total
<1> QED
  BY <1>5, <1>6

\* How many nodes a node holds, in whatever depth.
Size(adjacency, N, n) == Cardinality(Below(adjacency, N, n)) - 1

\* If f has the sizes of the children, the total is the size of the node.
LEMMA TotalIs ==
    ASSUME NEW adjacency, NEW N, NEW R, Walkable(adjacency, N, R), IsFiniteSet(N), NEW n \in N,
           NEW f, \A c \in Kids(adjacency, n) : f[c] = Size(adjacency, N, c)
    PROVE  TotalOf(f, Children(adjacency, n)) = Size(adjacency, N, n)
<1> DEFINE B(x) == Below(adjacency, N, x)
<1>1. PICK q : q = Children(adjacency, n)
  OBVIOUS
<1>2. q \in Seq(N) /\ IsInjective(q) /\ Kids(adjacency, n) = ToSet(q)
  BY <1>1 DEF Walkable, ListsAre, Kids
<1>3. PICK m \in Nat : m = Len(q) /\ DOMAIN q = 1..m
  BY <1>2
<1>4. /\ \A c \in ToSet(q) : n \notin B(c)
      /\ \A c, d \in ToSet(q) : c # d => B(c) \cap B(d) = {}
      /\ \A x : x \in B(n) <=> x = n \/ \E c \in ToSet(q) : x \in B(c)
  BY <1>2, BelowIs
<1>5. \A x : B(x) \in SUBSET N /\ IsFiniteSet(B(x)) /\ Cardinality(B(x)) \in Nat
  <2>1. \A x : B(x) \in SUBSET N
    BY DEF Below
  <2> HIDE DEF B
  <2> QED
    BY <2>1, FS_Subset, FS_CardinalityType
<1>6. \A c \in ToSet(q) : f[c] = Cardinality(B(c)) - 1
  BY <1>2 DEF Size
<1>7. Size(adjacency, N, n) = Cardinality(B(n)) - 1
  BY DEF Size
<1> HIDE DEF B
<1>8. PICK g : IsTotal(f, q, m, g) /\ TotalOf(f, q) = g[m]
  BY <1>3, TotalExists
<1>9. g[0] = m /\ \A k \in 1..m : g[k] = g[k - 1] + f[q[k]]
  BY <1>3, <1>8 DEF IsTotal
<1> DEFINE U(k) == UNION {B(q[j]) : j \in 1..k}
           T == {k \in 0..m : IsFiniteSet(U(k)) /\ g[k] = (m + Cardinality(U(k))) - k}
<1>10. 0 \in T
  <2>1. U(0) = {}
    OBVIOUS
  <2> HIDE DEF U
  <2> QED
    BY <1>9, <2>1, FS_EmptySet
<1>11. ASSUME NEW k \in 0..m, k \in T, k < m PROVE k + 1 \in T
  <2>1. k + 1 \in 1..m /\ (k + 1) - 1 = k /\ k + 1 \in 0..m
    BY <1>11
  <2>2. PICK c : c = q[k + 1]
    OBVIOUS
  <2>3. c \in ToSet(q) /\ f[c] = Cardinality(B(c)) - 1
    BY <1>3, <1>6, <2>1, <2>2 DEF ToSet
  <2>4. U(k + 1) = U(k) \cup B(c)
    <3>1. \A j : j \in 1..(k + 1) <=> j \in 1..k \/ j = k + 1
      BY <2>1
    <3> QED
      BY <2>2, <3>1
  <2>5. U(k) \cap B(c) = {}
    <3>1. ASSUME NEW j \in 1..k PROVE B(q[j]) \cap B(c) = {}
      <4>1. j \in 1..m /\ j # k + 1
        BY <2>1
      <4>2. q[j] \in ToSet(q) /\ q[j] # c
        BY <1>2, <1>3, <2>1, <2>2, <4>1 DEF ToSet, IsInjective
      <4> QED
        BY <1>4, <2>3, <4>2
    <3> QED
      BY <3>1
  <2>6. IsFiniteSet(U(k)) /\ g[k] = (m + Cardinality(U(k))) - k
    BY <1>11
  <2> HIDE DEF U
  <2>7. PICK a \in Nat : a = Cardinality(U(k))
    BY <2>6, FS_CardinalityType
  <2>8. PICK b \in Nat : b = Cardinality(B(c))
    BY <1>5
  <2>9. IsFiniteSet(U(k + 1)) /\ Cardinality(U(k + 1)) = a + b
    <3>1. Cardinality(U(k) \cap B(c)) = 0
      BY <2>5, FS_EmptySet
    <3>2. /\ IsFiniteSet(U(k) \cup B(c))
          /\ Cardinality(U(k) \cup B(c)) = Cardinality(U(k)) + Cardinality(B(c)) - Cardinality(U(k) \cap B(c))
      BY <1>5, <2>6, FS_Union
    <3>3. Cardinality(U(k) \cup B(c)) = a + b
      BY <2>7, <2>8, <3>1, <3>2
    <3> QED
      BY <2>4, <3>2, <3>3
  <2>10. g[k + 1] = ((m + a) - k) + (b - 1)
    BY <1>9, <2>1, <2>2, <2>3, <2>6, <2>7, <2>8
  <2> QED
    BY <2>1, <2>9, <2>10
<1>12. m \in T
  <2> HIDE DEF T
  <2>1. \A k \in 0..m : k \in T /\ k < m => k + 1 \in T
    BY <1>11
  <2>2. \A k \in 0..m : k \in T
    BY <1>10, <2>1, UpTo
  <2> QED
    BY <2>2
<1>13. IsFiniteSet(U(m)) /\ g[m] = (m + Cardinality(U(m))) - m
  BY <1>12
<1>14. n \notin U(m) /\ B(n) = U(m) \cup {n}
  <2>1. \A x : x \in U(m) <=> \E c \in ToSet(q) : x \in B(c)
    BY <1>3 DEF ToSet
  <2> HIDE DEF U
  <2> QED
    BY <1>4, <2>1
<1> HIDE DEF U
<1>15. Cardinality(U(m)) \in Nat /\ Cardinality(B(n)) = Cardinality(U(m)) + 1
  BY <1>13, <1>14, FS_AddElement, FS_CardinalityType
<1> QED
  BY <1>1, <1>7, <1>8, <1>13, <1>15

\* The recursive function of _count_descendants.
Counting(t) == CHOOSE f : f = [n \in NodesOf(t) |-> TotalOf(f, Children(t.adjacency, n))]

\* What it counts is below a node, in any tree: the summary's recursion adds up to what
\* the renderer's recursion goes through.
THEOREM CountsAre ==
    ASSUME NEW t, NEW R, Walkable(t.adjacency, NodesOf(t), R), IsFiniteSet(NodesOf(t)),
           NEW n \in NodesOf(t)
    PROVE  CountDescendants(t, n) = Size(t.adjacency, NodesOf(t), n)
<1>1. PICK adjacency : adjacency = t.adjacency
  OBVIOUS
<1>2. PICK N : N = NodesOf(t)
  OBVIOUS
<1>3. Walkable(adjacency, N, R) /\ IsFiniteSet(N)
  BY <1>1, <1>2
<1>4. CountDescendants(t, n) = Counting(t)[n]
  BY DEF CountDescendants, Counting, TotalOf
<1> DEFINE size == [m \in N |-> Size(adjacency, N, m)]
           Goes(f) == f = [m \in N |-> TotalOf(f, Children(adjacency, m))]
<1>5. \A m \in N : Kids(adjacency, m) \in SUBSET N
  BY <1>3, BelowIs
<1>6. Goes(size)
  <2>1. ASSUME NEW m \in N PROVE TotalOf(size, Children(adjacency, m)) = Size(adjacency, N, m)
    <3>1. \A c \in Kids(adjacency, m) : size[c] = Size(adjacency, N, c)
      BY <1>5
    <3> HIDE DEF size
    <3> QED
      BY <1>3, <3>1, TotalIs
  <2> QED
    BY <2>1
<1> HIDE DEF size
<1>7. PICK f : f = Counting(t)
  OBVIOUS
<1>8. Goes(f)
  <2>1. \A g : Goes(g) <=> g = [m \in NodesOf(t) |-> TotalOf(g, Children(t.adjacency, m))]
    BY <1>1, <1>2
  <2> QED
    BY <1>6, <1>7, <2>1 DEF Counting
<1>9. \A m \in N : f[m] = TotalOf(f, Children(adjacency, m))
  BY <1>8
<1> HIDE DEF Goes
<1> DEFINE D == {m \in N : f[m] # Size(adjacency, N, m)}
           B(m) == Below(adjacency, N, m)
<1>10. \A m \in N : IsFiniteSet(B(m)) /\ Cardinality(B(m)) \in Nat /\ B(m) \in SUBSET N
  <2>1. \A m : B(m) \in SUBSET N
    BY DEF Below
  <2> HIDE DEF B
  <2> QED
    BY <1>3, <2>1, FS_Subset, FS_CardinalityType
<1>11. \A m \in N : \A c \in Kids(adjacency, m) : c \in N /\ m \notin B(c) /\ B(c) \subseteq B(m) /\ m \in B(m)
  <2>1. \A m \in N : m \in B(m)
    BY <1>3, BelowIsLeast DEF Walkable
  <2> QED
    BY <1>3, <1>5, <2>1, BelowIs
<1> HIDE DEF B
<1>12. D = {}
  <2> SUFFICES ASSUME D # {} PROVE FALSE
    OBVIOUS
  <2> DEFINE sizes == {Cardinality(B(m)) : m \in D}
  <2>1. sizes \subseteq Nat /\ sizes # {}
    BY <1>10
  <2>2. PICK m \in D : \A c \in D : Cardinality(B(m)) <= Cardinality(B(c))
    <3>1. Min(sizes) \in sizes /\ \A y \in sizes : Min(sizes) <= y
      BY <2>1, Smallest
    <3>2. PICK least : least \in sizes /\ \A y \in sizes : least <= y
      BY <3>1
    <3> QED
      BY <3>2
  <2>3. ASSUME NEW c \in Kids(adjacency, m) PROVE f[c] = Size(adjacency, N, c)
    <3>1. c \in N /\ m \in N /\ B(c) \in SUBSET B(m) /\ B(c) # B(m)
      BY <1>11, <2>2
    <3>2. Cardinality(B(c)) <= Cardinality(B(m)) /\ Cardinality(B(c)) # Cardinality(B(m))
      BY <1>10, <3>1, FS_Subset
    <3>3. c \notin D
      BY <1>10, <2>2, <3>1, <3>2
    <3> QED
      BY <3>1, <3>3
  <2>4. TotalOf(f, Children(adjacency, m)) = Size(adjacency, N, m)
    BY <1>3, <2>2, <2>3, TotalIs
  <2> QED
    BY <1>9, <2>2, <2>4
<1> QED
  BY <1>1, <1>2, <1>4, <1>7, <1>12

-----------------------------------------------------------------------------
(* The trees of a board.                                                     *)

\* Either tree can be walked, and its nodes are finitely many.
LEMMA TreesWalk ==
    ASSUME widgets \in Boards, NEW spatial
    PROVE  /\ \E R : Walkable(TreeFor(spatial).adjacency, NodesOf(TreeFor(spatial)), R)
           /\ IsFiniteSet(NodesOf(TreeFor(spatial))) /\ Root \notin NodesOf(TreeFor(spatial))
           /\ IdsOf(widgets) \subseteq NodesOf(TreeFor(spatial))
<1>1. IsBoard(widgets) /\ IsNested(widgets)
  BY BoardsAssumption
<1>2. IsTree(TreeFor(spatial))
  BY <1>1, ParentIdTreeIsTree, SpatialTreeIsTree DEF TreeFor
<1>3. TreeFor(spatial).nodes = IdsOf(widgets)
  BY DEF TreeFor, SpatialTreeOf, ParentIdTree, BuildTree
<1> QED
  BY <1>2, <1>3 DEF IsTree, Walkable, NodesOf

\* A widget of a board is the one of its id.
LEMMA WidgetIs ==
    ASSUME widgets \in Boards
    PROVE  /\ \A w \in ToSet(widgets) : WidgetOf(widgets, w.id) = w /\ w.id \in IdsOf(widgets)
           /\ \A n \in IdsOf(widgets) : /\ n[1] = "widget"
                                       /\ WidgetOf(widgets, n) \in ToSet(widgets)
                                       /\ WidgetOf(widgets, n).id = n
<1>1. IsBoard(widgets)
  BY BoardsAssumption
<1>2. /\ \A w \in ToSet(widgets) : w.id \in IdsOf(widgets) /\ w.id[1] = "widget"
      /\ \A v, w \in ToSet(widgets) : v.id = w.id => v = w
      /\ \A k \in DOMAIN widgets : widgets[k] \in ToSet(widgets)
  BY <1>1, BoardIs
<1>3. \A n \in IdsOf(widgets) : \E w \in ToSet(widgets) : w.id = n
  BY <1>2 DEF IdsOf
<1>4. \A n \in IdsOf(widgets) : WidgetOf(widgets, n) \in ToSet(widgets) /\ WidgetOf(widgets, n).id = n
  BY <1>3 DEF WidgetOf
<1> QED
  BY <1>2, <1>3, <1>4

\* What holds a node by parent_id.
LEMMA HolderByParent ==
    ASSUME widgets \in Boards, NEW spatial, ~ spatial, NEW n \in BoardNodes(widgets)
    PROVE  \A m : <<m, n>> \in ParentIdPairs(widgets) <=> m = Holder(n, spatial)
<1>1. IsBoard(widgets)
  BY BoardsAssumption
<1>2. OneHolder(ParentIdPairs(widgets))
  BY <1>1, ParentIdAdjacencyIs
<1>3. \A t \in Tables(widgets) : \A m, c : HeldBy(t, m, c) => <<m, c>> \in ParentIdPairs(widgets)
  BY PairsOfAre DEF ParentIdPairs
<1> SUFFICES <<Holder(n, spatial), n>> \in ParentIdPairs(widgets)
  BY <1>2 DEF OneHolder
<1>4. CASE n \in IdsOf(widgets)
  <2>1. PICK w \in ToSet(widgets) : w.id = n /\ w = WidgetOf(widgets, n) /\ n[1] = "widget"
    BY <1>4, WidgetIs
  <2>2. Holder(n, spatial) = IF IsCell(w) THEN SlotId(w.row, w.column) ELSE w.parent
    BY <1>4, <2>1 DEF Holder
  <2>3. PICK k \in DOMAIN widgets : w = widgets[k]
    BY <1>1, BoardIs
  <2>4. CASE IsCell(w)
    <3>1. k \in PlacesWith(widgets, "cell")
      BY <2>3, <2>4 DEF PlacesWith
    <3>2. Holder(n, spatial) = SlotOf(widgets[k]) /\ n = widgets[k].id
      BY <2>1, <2>2, <2>3, <2>4 DEF SlotOf
    <3>3. <<SlotOf(widgets[k]), widgets[k].id>> \in CellPairs(widgets)
      BY <3>1 DEF CellPairs
    <3> QED
      BY <3>2, <3>3 DEF ParentIdPairs
  <2>5. CASE IsPlain(w)
    <3>1. k \in PlacesWith(widgets, "plain")
      BY <2>3, <2>5 DEF PlacesWith
    <3>2. Holder(n, spatial) = widgets[k].parent /\ n = widgets[k].id
      BY <2>1, <2>2, <2>3, <2>5 DEF IsPlain
    <3>3. <<widgets[k].parent, widgets[k].id>> \in PlainPairs(widgets)
      BY <3>1 DEF PlainPairs
    <3> QED
      BY <3>2, <3>3 DEF ParentIdPairs
  <2>6. CASE IsTable(w)
    <3>1. w \in Tables(widgets) /\ Holder(n, spatial) = w.parent
      BY <2>2, <2>6 DEF Tables, IsTable, IsCell
    <3>2. HeldBy(w, w.parent, w.id)
      BY DEF HeldBy
    <3> QED
      BY <1>3, <2>1, <3>1, <3>2
  <2> QED
    BY <2>4, <2>5, <2>6 DEF IsPlain
<1>5. CASE n \in RowNodes(widgets)
  <2>1. PICK t : /\ t = CHOOSE s \in Tables(widgets) : n \in ToSet(RowsOf(s))
                 /\ t \in Tables(widgets) /\ n \in ToSet(RowsOf(t))
    BY <1>5 DEF RowNodes
  <2>2. n[1] = "row"
    BY <1>1, <2>1, TableNodes DEF RowId
  <2>3. Holder(n, spatial) = t.id
    BY <2>1, <2>2 DEF Holder
  <2>4. HeldBy(t, t.id, n)
    BY <2>1 DEF HeldBy
  <2> QED
    BY <1>3, <2>1, <2>3, <2>4
<1>6. CASE n \in SlotNodes(widgets)
  <2>1. PICK t \in Tables(widgets) : \E q \in ToSet(t.rows) : n \in ToSet(SlotsOf(t, q))
    BY <1>6 DEF SlotNodes
  <2>2. PICK r \in ToSet(t.rows) : n \in ToSet(SlotsOf(t, r))
    BY <2>1
  <2>3. n[1] = "slot" /\ n[2] = r
    BY <2>2, SlotsAre
  <2>4. Holder(n, spatial) = RowId(r)
    BY <2>3 DEF Holder
  <2>5. HeldBy(t, RowId(r), n)
    BY <2>2 DEF HeldBy
  <2> QED
    BY <1>3, <2>4, <2>5
<1> QED
  BY <1>4, <1>5, <1>6 DEF BoardNodes

\* What holds a node by proximity; nothing holds a cell.
LEMMA HolderBySpace ==
    ASSUME widgets \in Boards, NEW spatial, spatial, NEW n \in SpatialNodes(widgets)
    PROVE  \A m : m # Root => (<<m, n>> \in AllSpatialPairs(widgets) <=> m = Holder(n, spatial))
<1>1. IsBoard(widgets)
  BY BoardsAssumption
<1>2. PICK R : R = AllSpatialPairs(widgets)
  OBVIOUS
<1>3. OneHolder(R)
  BY <1>1, <1>2, SpatialHolders
<1>4. \A t \in Tables(widgets) : \A m, c : HeldBy(t, m, c) => <<m, c>> \in R
  BY <1>2, PairsOfAre, SpatialPairsAre DEF AllSpatialPairs
<1> SUFFICES \/ <<Holder(n, spatial), n>> \in R
             \/ Holder(n, spatial) = Root /\ \A m : <<m, n>> \notin R
  BY <1>2, <1>3 DEF OneHolder
<1>5. CASE n \in IdsOf(widgets)
  <2>1. PICK w \in ToSet(widgets) : w.id = n /\ w = WidgetOf(widgets, n) /\ n[1] = "widget"
    BY <1>5, WidgetIs
  <2>2. Holder(n, spatial) = IF IsCell(w) THEN Root
                             ELSE IF IsPlain(w) THEN HolderNear(widgets, n) ELSE w.parent
    BY <1>5, <2>1 DEF Holder
  <2>3. CASE IsCell(w)
    BY <1>1, <1>2, <2>1, <2>2, <2>3, SpatialHolders
  <2>4. CASE IsPlain(w)
    BY <1>1, <1>2, <2>1, <2>2, <2>4, HolderNearIs DEF IsPlain
  <2>5. CASE IsTable(w)
    <3>1. w \in Tables(widgets) /\ Holder(n, spatial) = w.parent
      BY <2>2, <2>5 DEF Tables, IsPlain, IsTable, IsCell
    <3> QED
      BY <1>1, <1>2, <2>1, <3>1, SpatialHolders
  <2> QED
    BY <2>3, <2>4, <2>5 DEF IsPlain
<1>6. CASE n \in RowNodes(widgets)
  <2>1. PICK t : /\ t = CHOOSE s \in Tables(widgets) : n \in ToSet(RowsOf(s))
                 /\ t \in Tables(widgets) /\ n \in ToSet(RowsOf(t))
    BY <1>6 DEF RowNodes
  <2>2. n[1] = "row"
    BY <1>1, <2>1, TableNodes DEF RowId
  <2>3. Holder(n, spatial) = t.id
    BY <2>1, <2>2 DEF Holder
  <2>4. HeldBy(t, t.id, n)
    BY <2>1 DEF HeldBy
  <2> QED
    BY <1>4, <2>1, <2>3, <2>4
<1>7. CASE n \in SlotNodes(widgets)
  <2>1. PICK t \in Tables(widgets) : \E q \in ToSet(t.rows) : n \in ToSet(SlotsOf(t, q))
    BY <1>7 DEF SlotNodes
  <2>2. PICK r \in ToSet(t.rows) : n \in ToSet(SlotsOf(t, r))
    BY <2>1
  <2>3. n[1] = "slot" /\ n[2] = r
    BY <2>2, SlotsAre
  <2>4. Holder(n, spatial) = RowId(r)
    BY <2>3 DEF Holder
  <2>5. HeldBy(t, RowId(r), n)
    BY <2>2 DEF HeldBy
  <2> QED
    BY <1>4, <2>4, <2>5
<1>8. CASE n \in SpatialGroups(widgets, Len(Components(Clustered(widgets))))
  <2>1. n[1] = "spatial_group"
    BY <1>8 DEF SpatialGroups, GroupId
  <2>2. n \notin IdsOf(widgets)
    BY <2>1, WidgetIs
  <2>3. Holder(n, spatial) = Root
    BY <2>1, <2>2 DEF Holder
  <2> QED
    BY <1>1, <1>2, <1>8, <2>3, HolderNearIs
<1> QED
  BY <1>5, <1>6, <1>7, <1>8 DEF SpatialNodes, BoardNodes

\* Holder is what holds a node in the tree of either mode.
LEMMA HolderIs ==
    ASSUME widgets \in Boards, NEW spatial
    PROVE  \E R : /\ ListsAre(TreeFor(spatial).adjacency, NodesOf(TreeFor(spatial)), R)
                  /\ Acyclic(R, NodesOf(TreeFor(spatial)))
                  /\ \A n, m \in NodesOf(TreeFor(spatial)) :
                        <<m, n>> \in R <=> m = Holder(n, spatial)
<1>1. IsBoard(widgets) /\ IsNested(widgets)
  BY BoardsAssumption
<1>2. CASE ~ spatial
  <2>1. PICK R : R = ParentIdPairs(widgets)
    OBVIOUS
  <2>2. NodesOf(TreeFor(spatial)) = BoardNodes(widgets)
    BY <1>1, <1>2, ParentIdTreeIsTree DEF TreeFor
  <2>3. TreeFor(spatial).adjacency = ParentIdAdjacency(widgets)
    BY <1>2 DEF TreeFor, ParentIdTree, BuildTree
  <2>4. ListsAre(ParentIdAdjacency(widgets), BoardNodes(widgets), R) /\ Acyclic(R, BoardNodes(widgets))
    BY <1>1, <2>1, ParentIdAdjacencyIs, ParentIdAcyclic
  <2>5. \A n \in BoardNodes(widgets) : \A m : <<m, n>> \in R <=> m = Holder(n, spatial)
    BY <1>2, <2>1, HolderByParent
  <2> QED
    BY <2>2, <2>3, <2>4, <2>5
<1>3. CASE spatial
  <2>1. PICK R : R = AllSpatialPairs(widgets)
    OBVIOUS
  <2>2. PICK N : N = SpatialNodes(widgets)
    OBVIOUS
  <2>3. NodesOf(TreeFor(spatial)) = N /\ ListsAre(TreeFor(spatial).adjacency, N, R)
    BY <1>1, <1>3, <2>1, <2>2, SpatialTreeIsTree DEF TreeFor
  <2>4. Acyclic(R, N) /\ Root \notin N
    BY <1>1, <2>1, <2>2, SpatialAcyclic
  <2>5. \A n \in N : \A m : m # Root => (<<m, n>> \in R <=> m = Holder(n, spatial))
    BY <1>3, <2>1, <2>2, HolderBySpace
  <2>6. \A n, m \in N : <<m, n>> \in R <=> m = Holder(n, spatial)
    BY <2>4, <2>5
  <2> QED
    BY <2>3, <2>4, <2>6
<1> QED
  BY <1>2, <1>3

\* What is in a region by the board is what is below it in the tree.
LEMMA WithinIs ==
    ASSUME widgets \in Boards, NEW spatial,
           NEW region \in NodesOf(TreeFor(spatial))
    PROVE  Within(region, spatial)
              = Below(TreeFor(spatial).adjacency, NodesOf(TreeFor(spatial)), region)
<1>1. PICK N : N = NodesOf(TreeFor(spatial))
  OBVIOUS
<1>2. PICK adjacency : adjacency = TreeFor(spatial).adjacency
  OBVIOUS
<1>3. PICK R : /\ ListsAre(adjacency, N, R) /\ Acyclic(R, N)
               /\ \A n, m \in N : <<m, n>> \in R <=> m = Holder(n, spatial)
  BY <1>1, <1>2, HolderIs
<1> DEFINE holder == [n \in N |-> Holder(n, spatial)]
<1>4. \A n, m \in N : <<m, n>> \in R <=> m = holder[n]
  BY <1>3
<1>5. PICK B : B = Below(adjacency, N, region)
  OBVIOUS
<1>6. region \in B /\ B \in SUBSET N /\ Down(adjacency, B)
  BY <1>1, <1>3, <1>5, BelowIsLeast
<1>7. \A n \in N : n \in B <=> n = region \/ (holder[n] \in N /\ holder[n] \in B)
  <2>1. ASSUME NEW n \in B, n # region PROVE holder[n] \in N /\ holder[n] \in B
    <3>1. PICK m \in B : <<m, n>> \in R
      BY <1>1, <1>3, <1>5, <2>1, BelowIsHeld
    <3> QED
      BY <1>4, <1>6, <3>1
  <2>2. ASSUME NEW n \in N, holder[n] \in B PROVE n \in B
    <3>1. <<holder[n], n>> \in R
      BY <1>4, <1>6, <2>2
    <3>2. n \in Kids(adjacency, holder[n])
      BY <1>3, <3>1 DEF ListsAre, Kids
    <3> QED
      BY <1>6, <2>2, <3>2 DEF Down
  <2> QED
    BY <1>6, <2>1, <2>2
<1> HIDE DEF holder
<1> DEFINE held == CHOOSE f : f = [n \in N |-> n = region \/ (holder[n] \in N /\ f[holder[n]])]
<1>8. Within(region, spatial) = {n \in N : held[n]}
  BY <1>1 DEF Within, holder
<1>9. held = [n \in N |-> n = region \/ (holder[n] \in N /\ held[holder[n]])]
  <2> DEFINE g == [n \in N |-> n \in B]
  <2>1. g = [n \in N |-> n = region \/ (holder[n] \in N /\ g[holder[n]])]
    <3>1. ASSUME NEW n \in N
          PROVE  (n \in B) = (n = region \/ (holder[n] \in N /\ g[holder[n]]))
      <4>1. holder[n] \in N => (g[holder[n]] <=> holder[n] \in B)
        OBVIOUS
      <4> HIDE DEF g
      <4>2. n \in B <=> n = region \/ (holder[n] \in N /\ g[holder[n]])
        BY <1>7, <4>1
      <4> QED
        BY <4>2
    <3>2. g = [n \in N |-> n \in B]
      OBVIOUS
    <3> HIDE DEF g
    <3> QED
      BY <3>1, <3>2
  <2> HIDE DEF g
  <2> QED
    BY <2>1
<1>10. \A n \in N : held[n] <=> n = region \/ (holder[n] \in N /\ held[holder[n]])
  <2> HIDE DEF held
  <2> QED
    BY <1>9
<1> HIDE DEF held
<1> DEFINE D == {n \in N : ~ (held[n] <=> n \in B)}
<1>11. D = {}
  <2> SUFFICES ASSUME D # {} PROVE FALSE
    OBVIOUS
  <2>1. D \in SUBSET N
    OBVIOUS
  <2>2. PICK n \in D : \A m \in D : <<m, n>> \notin R
    BY <1>3, <2>1 DEF Acyclic
  <2>3. holder[n] \notin D
    BY <1>4, <2>1, <2>2
  <2>4. holder[n] \in N => (held[holder[n]] <=> holder[n] \in B)
    BY <2>3
  <2>5. held[n] <=> n \in B
    BY <1>7, <1>10, <2>2, <2>4
  <2> QED
    BY <2>2, <2>5
<1> QED
  BY <1>1, <1>2, <1>5, <1>6, <1>8, <1>11

-----------------------------------------------------------------------------
(* Regions.                                                                  *)

\* What a summary says of a region that is an area, and of a spatial group.
IsAreaRegion(t, region) ==
    /\ IsAreaNode(region.id)
    /\ region.label = Attribute(WidgetOf(widgets, region.id), "title")
    /\ region.count = CountDescendants(t, region.id)
IsGroupRegion(t, region) ==
    /\ region.id \in t.group_nodes
    /\ region.label = InferLabel(WidgetsIn(t, region.id))
    /\ region.count = Len(Children(t.adjacency, region.id))

LEMMA RegionIs ==
    ASSUME NEW t, NEW region \in Regions(t)
    PROVE  /\ IsAreaRegion(t, region) \/ IsGroupRegion(t, region)
           /\ region = [id |-> region.id, label |-> region.label, count |-> region.count]
<1> DEFINE top == ToSet(Children(t.adjacency, Root))
<1>1. \/ \E id \in {n \in top : IsAreaNode(n)} :
            region = [id |-> id, label |-> Attribute(WidgetOf(widgets, id), "title"),
                      count |-> CountDescendants(t, id)]
      \/ \E id \in top \cap t.group_nodes :
            region = [id |-> id, label |-> InferLabel(WidgetsIn(t, id)),
                      count |-> Len(Children(t.adjacency, id))]
  BY DEF Regions
<1> HIDE DEF top
<1>2. ASSUME NEW id \in {n \in top : IsAreaNode(n)},
             region = [id |-> id, label |-> Attribute(WidgetOf(widgets, id), "title"),
                       count |-> CountDescendants(t, id)]
      PROVE  /\ IsAreaRegion(t, region)
             /\ region = [id |-> region.id, label |-> region.label, count |-> region.count]
  BY <1>2 DEF IsAreaRegion
<1>3. ASSUME NEW id \in top \cap t.group_nodes,
             region = [id |-> id, label |-> InferLabel(WidgetsIn(t, id)),
                       count |-> Len(Children(t.adjacency, id))]
      PROVE  /\ IsGroupRegion(t, region)
             /\ region = [id |-> region.id, label |-> region.label, count |-> region.count]
  BY <1>3 DEF IsGroupRegion
<1> QED
  BY <1>1, <1>2, <1>3

\* The regions of a tree are nodes of it.
LEMMA RegionsAreNodes ==
    ASSUME NEW spatial, NEW region \in Regions(TreeFor(spatial))
    PROVE  Resolves(TreeFor(spatial), region.id)
<1>1. TreeFor(spatial).nodes = IdsOf(widgets)
  BY DEF TreeFor, SpatialTreeOf, ParentIdTree, BuildTree
<1>2. region.id \in TreeFor(spatial).nodes \/ region.id \in TreeFor(spatial).group_nodes
  BY <1>1, RegionIs DEF IsAreaRegion, IsGroupRegion, IsAreaNode
<1> QED
  BY <1>2 DEF Resolves, NodesOf

\* Only the tree of the grouping by proximity has spatial groups.  What is in one are
\* widgets, and on a board without tables nothing is in these.
LEMMA GroupsHold ==
    ASSUME widgets \in Boards, NEW spatial, NEW g \in TreeFor(spatial).group_nodes
    PROVE  /\ g \notin IdsOf(widgets) /\ TreeFor(spatial) = TreeFor(TRUE)
           /\ \A c \in Kids(TreeFor(spatial).adjacency, g) :
                 /\ c \in IdsOf(widgets)
                 /\ Tables(widgets) = {} => Kids(TreeFor(spatial).adjacency, c) = {}
<1>1. IsBoard(widgets)
  BY BoardsAssumption
<1>2. TreeFor(spatial) = SpatialTreeOf(widgets) /\ TreeFor(TRUE) = SpatialTreeOf(widgets)
  BY DEF TreeFor, ParentIdTree, BuildTree
<1>3. PICK n \in Nat : /\ n = Len(Components(Clustered(widgets)))
                       /\ ClusterPlaces(widgets) = 1..n
  BY <1>1, ClustersAre
<1>4. PICK adjacency : adjacency = TreeFor(spatial).adjacency
  OBVIOUS
<1>5. \A m, c : c \in Kids(adjacency, m) <=> <<m, c>> \in SpatialPairs(widgets, n)
  BY <1>1, <1>2, <1>3, <1>4, SpatialTreeIsTree DEF ListsAre, AllSpatialPairs
<1>6. g[1] = "spatial_group"
  BY <1>1, <1>2, <1>3, SpatialTreeIsTree DEF SpatialGroups, GroupId
<1>7. g \notin IdsOf(widgets)
  BY <1>6, WidgetIs
<1>8. \A j \in 1..n :
         /\ IF IsGroup(ClusterOf(widgets, j)) THEN HeadOf(ClusterOf(widgets, j), j - 1) = GroupId(j - 1)
            ELSE HeadOf(ClusterOf(widgets, j), j - 1) \in ToSet(IdList(ClusterOf(widgets, j)))
         /\ \A m, c : <<m, c>> \in ClusterPairs(ClusterOf(widgets, j), j - 1)
               <=> \/ m = Root /\ c = HeadOf(ClusterOf(widgets, j), j - 1)
                   \/ /\ m = HeadOf(ClusterOf(widgets, j), j - 1)
                      /\ c # m /\ c \in ToSet(IdList(ClusterOf(widgets, j)))
         /\ \A c \in ToSet(IdList(ClusterOf(widgets, j))) : c[1] = "widget" /\ c \in IdsOf(widgets)
  <2> SUFFICES ASSUME NEW j \in 1..n, NEW cluster, cluster = ClusterOf(widgets, j)
               PROVE  /\ IF IsGroup(cluster) THEN HeadOf(cluster, j - 1) = GroupId(j - 1)
                         ELSE HeadOf(cluster, j - 1) \in ToSet(IdList(cluster))
                      /\ \A m, c : <<m, c>> \in ClusterPairs(cluster, j - 1)
                            <=> \/ m = Root /\ c = HeadOf(cluster, j - 1)
                                \/ m = HeadOf(cluster, j - 1) /\ c # m /\ c \in ToSet(IdList(cluster))
                      /\ \A c \in ToSet(IdList(cluster)) : c[1] = "widget" /\ c \in IdsOf(widgets)
    OBVIOUS
  <2>1. IsCluster(cluster) /\ \A c \in ToSet(IdList(cluster)) : c \in IdsOf(widgets)
    <3>1. IsCluster(cluster) /\ \A c \in ToSet(IdList(cluster)) :
                                   \E w \in ToSet(widgets) : IsPlain(w) /\ c = w.id
      BY <1>1, <1>3, ClustersAre
    <3> QED
      BY <3>1, WidgetIs
  <2> QED
    BY <2>1, HeadIs
<1>9. ASSUME NEW m, NEW c, <<m, c>> \in PairsOf(Tables(widgets))
      PROVE  Tables(widgets) # {} /\ (m = Root \/ m[1] \in {"widget", "row"})
  <2>1. PICK t \in Tables(widgets) : HeldBy(t, m, c)
    BY <1>9, PairsOfAre
  <2>2. t \in ToSet(widgets) /\ (t.parent = Root \/ t.parent[1] = "widget")
    BY <1>1, BoardIs DEF Tables
  <2> QED
    BY <1>1, <2>1, <2>2, HeldIs
<1>10. Root[1] = "root"
  BY DEF Root
<1>11. ASSUME NEW c \in Kids(adjacency, g)
       PROVE  \E j \in 1..n : IsGroup(ClusterOf(widgets, j)) /\ c \in ToSet(IdList(ClusterOf(widgets, j)))
  <2>1. <<g, c>> \notin PairsOf(Tables(widgets)) /\ g # Root
    BY <1>6, <1>9, <1>10
  <2>2. PICK j \in 1..n : <<g, c>> \in ClusterPairs(ClusterOf(widgets, j), j - 1)
    BY <1>5, <2>1, SpatialPairsAre
  <2> QED
    BY <1>6, <1>8, <2>1, <2>2
<1>12. ASSUME NEW c \in Kids(adjacency, g), Tables(widgets) = {}, NEW d \in Kids(adjacency, c)
       PROVE  FALSE
  <2>1. PICK j \in 1..n : IsGroup(ClusterOf(widgets, j)) /\ c \in ToSet(IdList(ClusterOf(widgets, j)))
    BY <1>11
  <2>2. c[1] = "widget" /\ c # Root
    BY <1>8, <1>10, <2>1
  <2>3. PICK k \in 1..n : <<c, d>> \in ClusterPairs(ClusterOf(widgets, k), k - 1)
    BY <1>5, <1>9, <1>12, SpatialPairsAre
  <2>4. c = HeadOf(ClusterOf(widgets, k), k - 1)
    BY <1>8, <2>2, <2>3
  <2>5. ~ IsGroup(ClusterOf(widgets, k)) /\ c \in ToSet(IdList(ClusterOf(widgets, k)))
    BY <1>8, <2>2, <2>4 DEF GroupId
  <2>6. k = j
    BY <1>1, <1>3, <2>1, <2>5, ClustersAre
  <2> QED
    BY <2>1, <2>5, <2>6
<1>13. \A c \in Kids(adjacency, g) : c \in IdsOf(widgets)
  BY <1>8, <1>11
<1> QED
  BY <1>2, <1>4, <1>7, <1>12, <1>13

-----------------------------------------------------------------------------
(* The invariant.                                                            *)

\* A region is walked in the tree of its mode, from its node.
RegionWalk ==
    call.tool = "get_region" =>
        /\ tree = TreeFor(call.spatial) /\ call.id \in NodesOf(tree)
        /\ Walking(tree.adjacency, NodesOf(tree), call.id, todo, lines)

\* What a search found is rendered or waits to be.
SearchWalk ==
    call.tool = "find_widgets" =>
        /\ tree = TreeFor(FALSE)
        /\ todo \in Seq(NodesOf(tree)) /\ lines \in Seq(NodesOf(tree))
        /\ \A w \in ToSet(widgets) :
              Matches(w, call.query, call.kind) => w.id \in ToSet(lines) \cup ToSet(todo)

\* What a summary listed is as it would be listed again.
ListedStays ==
    /\ listed.spatial \in BOOLEAN
    /\ listed.regions = Regions(TreeFor(listed.spatial)) \/ listed.regions = {}

\* An id that was answered with an error is no node of the tree of its mode.
NotFound ==
    call.tool = "BoardRegionNotFoundError" => ~ Resolves(TreeFor(call.spatial), call.id)

VInv ==
    /\ widgets \in Boards
    /\ call.tool \in {"none", "get_region", "BoardRegionNotFoundError", "find_widgets",
                      "get_connections"}
    /\ call.tool \notin {"get_region", "find_widgets"} => todo = <<>> /\ lines = <<>>
    /\ RegionWalk /\ SearchWalk /\ ListedStays /\ NotFound

\* A walk begins with one node to render.
LEMMA WalkStart ==
    ASSUME NEW adjacency, NEW N, NEW n \in N
    PROVE  Walking(adjacency, N, n, <<n>>, <<>>)
<1>1. <<n>> \in Seq(N) /\ DOMAIN <<n>> = {1} /\ <<n>>[1] = n
  OBVIOUS
<1>2. PICK one : one = <<n>>
  OBVIOUS
<1>3. PICK none : none = <<>> /\ none \in Seq(N) /\ IsInjective(none) /\ ToSet(none) = {}
  BY EmptyList
<1>4. one \in Seq(N) /\ DOMAIN one = {1} /\ one[1] = n
  BY <1>1, <1>2
<1>5. Walking(adjacency, N, n, one, none)
  BY <1>3, <1>4 DEF Walking
<1> QED
  BY <1>2, <1>3, <1>5

\* A turn of a walk forgets no node.
LEMMA WalkKeeps ==
    ASSUME NEW adjacency, NEW N, NEW R, ListsAre(adjacency, N, R),
           NEW waiting \in Seq(N), NEW done \in Seq(N), waiting # <<>>
    PROVE  /\ Children(adjacency, Head(waiting)) \o Tail(waiting) \in Seq(N)
           /\ Append(done, Head(waiting)) \in Seq(N)
           /\ ToSet(done) \cup ToSet(waiting)
                 \subseteq ToSet(Append(done, Head(waiting)))
                           \cup ToSet(Children(adjacency, Head(waiting)) \o Tail(waiting))
<1>1. PICK n \in N : n = Head(waiting)
  OBVIOUS
<1>2. PICK tail \in Seq(N) : tail = Tail(waiting)
  <2>1. Tail(waiting) \in Seq(N)
    OBVIOUS
  <2> QED
    BY <2>1
<1>3. PICK p \in Seq(N) : p = Children(adjacency, n)
  BY DEF ListsAre
<1>4. p \o tail \in Seq(N) /\ ToSet(p \o tail) = ToSet(p) \cup ToSet(tail)
  BY ConcatIs
<1>5. PICK after : after = Append(done, n)
  OBVIOUS
<1>6. PICK d \in Nat : DOMAIN done = 1..d /\ d = Len(done)
  OBVIOUS
<1>7. /\ after \in Seq(N) /\ DOMAIN after = 1..(d + 1) /\ after[d + 1] = n
      /\ \A k \in 1..d : after[k] = done[k]
  BY <1>5, <1>6
<1>8. ToSet(done) \cup {n} \subseteq ToSet(after)
  BY <1>6, <1>7 DEF ToSet
<1>9. PICK m \in Nat : DOMAIN tail = 1..m /\ m = Len(tail)
  OBVIOUS
<1>10. /\ DOMAIN waiting = 1..(m + 1) /\ waiting[1] = n
       /\ \A k \in 1..m : tail[k] = waiting[k + 1]
  BY <1>1, <1>2, <1>9
<1>11. ASSUME NEW k \in 1..(m + 1) PROVE waiting[k] = n \/ waiting[k] \in ToSet(tail)
  <2>1. k = 1 \/ (k - 1 \in 1..m /\ (k - 1) + 1 = k)
    OBVIOUS
  <2>2. k # 1 => waiting[k] = tail[k - 1] /\ k - 1 \in DOMAIN tail
    BY <1>9, <1>10, <2>1
  <2> QED
    BY <1>10, <2>2 DEF ToSet
<1>12. ToSet(waiting) \subseteq {n} \cup ToSet(tail)
  BY <1>10, <1>11 DEF ToSet
<1> QED
  BY <1>1, <1>2, <1>3, <1>4, <1>5, <1>7, <1>8, <1>12

LEMMA InitVInv == Init => VInv
<1> SUFFICES ASSUME Init PROVE VInv
  OBVIOUS
<1> QED
  BY DEF Init, Idle, VInv, RegionWalk, SearchWalk, ListedStays, NotFound

\* A step leaves the board as it is, and so all that depends on it alone.
LEMMA SameBoard ==
    ASSUME [Next]_vars
    PROVE  /\ widgets' = widgets
           /\ \A spatial : TreeFor(spatial)' = TreeFor(spatial)
           /\ \A t : Regions(t)' = Regions(t)
<1>1. widgets' = widgets
  BY DEF Next, ToolCall, vars, FetchSummary, FetchRegion, SearchWidgets, FetchConnections, Walk, RenderNode,
         Return
<1> QED
  BY <1>1 DEF TreeFor, Regions, IsAreaNode, WidgetsIn

\* What follows for the walk from a call that renders nothing.
LEMMA NothingRendered ==
    ASSUME VInv, [Next]_vars, todo' = <<>>, lines' = <<>>,
           listed' = listed,
           call'.tool \in {"none", "BoardRegionNotFoundError", "get_connections"},
           call'.tool = "BoardRegionNotFoundError"
              => ~ Resolves(TreeFor(call'.spatial), call'.id)
    PROVE  VInv'
<1>1. /\ widgets' = widgets /\ \A spatial : TreeFor(spatial)' = TreeFor(spatial)
      /\ \A t : Regions(t)' = Regions(t)
  BY SameBoard
<1>2. ListedStays' /\ NotFound'
  BY <1>1 DEF VInv, ListedStays, NotFound
<1> QED
  BY <1>1, <1>2 DEF VInv, RegionWalk, SearchWalk

\* VInv survives every step.
LEMMA StepVInv ==
    ASSUME VInv, [Next]_vars
    PROVE  VInv'
<1>1. /\ widgets' = widgets /\ \A spatial : TreeFor(spatial)' = TreeFor(spatial)
      /\ \A t : Regions(t)' = Regions(t)
  BY SameBoard
<1>2. widgets \in Boards /\ IsBoard(widgets)
  BY BoardsAssumption DEF VInv
<1>3. ASSUME NEW spatial \in BOOLEAN, FetchSummary(spatial) PROVE VInv'
  <2>1. /\ listed'.spatial = spatial /\ listed'.regions = Regions(TreeFor(spatial))
        /\ UNCHANGED <<widgets, tree, call, todo, lines>>
    BY <1>3 DEF FetchSummary
  <2>2. ListedStays'
    BY <1>1, <2>1 DEF ListedStays
  <2>3. RegionWalk' /\ SearchWalk' /\ NotFound'
    BY <1>1, <2>1 DEF VInv, RegionWalk, SearchWalk, NotFound
  <2> QED
    BY <2>1, <2>2, <2>3 DEF VInv
<1>4. ASSUME listed' = listed PROVE ListedStays'
  BY <1>1, <1>4 DEF VInv, ListedStays
<1>5. ASSUME NEW spatial \in BOOLEAN, NEW id, FetchRegion(id, spatial) PROVE VInv'
  <2>1. CASE Resolves(TreeFor(spatial), id)
    <3>1. /\ call' = [tool |-> "get_region", id |-> id, spatial |-> spatial]
          /\ tree' = TreeFor(spatial) /\ todo' = <<id>> /\ lines' = <<>>
          /\ UNCHANGED <<widgets, listed>>
      BY <1>5, <2>1 DEF FetchRegion, Walk
    <3>2. id \in NodesOf(tree')
      BY <2>1, <3>1 DEF Resolves
    <3>3. PICK t : t = tree'
      OBVIOUS
    <3>4. PICK N : N = NodesOf(t)
      OBVIOUS
    <3>5. PICK adjacency : adjacency = t.adjacency
      OBVIOUS
    <3>6. Walking(adjacency, N, id, <<id>>, <<>>)
      BY <3>2, <3>3, <3>4, WalkStart
    <3>7. /\ call'.tool = "get_region" /\ call'.id = id /\ call'.spatial = spatial
          /\ tree' = TreeFor(spatial)'
      BY <1>1, <3>1
    <3>8. RegionWalk'
      BY <1>1, <3>1, <3>2, <3>3, <3>4, <3>5, <3>6, <3>7 DEF RegionWalk
    <3>9. SearchWalk' /\ NotFound'
      BY <3>7 DEF SearchWalk, NotFound
    <3> QED
      BY <1>1, <1>4, <3>1, <3>7, <3>8, <3>9 DEF VInv
  <2>2. CASE ~ Resolves(TreeFor(spatial), id)
    <3>1. /\ call' = [[tool |-> "get_region", id |-> id, spatial |-> spatial]
                         EXCEPT !.tool = "BoardRegionNotFoundError"]
          /\ todo' = <<>> /\ lines' = <<>> /\ listed' = listed
      BY <1>5, <2>2 DEF FetchRegion, Walk
    <3>2. call'.tool = "BoardRegionNotFoundError" /\ call'.id = id /\ call'.spatial = spatial
      BY <3>1
    <3> QED
      BY <2>2, <3>1, <3>2, NothingRendered
  <2> QED
    BY <2>1, <2>2
<1>6. ASSUME NEW query, NEW kind, SearchWidgets(query, kind) PROVE VInv'
  <2>1. PICK places : places = {k \in DOMAIN widgets : Matches(widgets[k], query, kind)}
    OBVIOUS
  <2>2. PICK roots : roots = IdList(Those(widgets, places))
    OBVIOUS
  <2>3. /\ call' = [tool |-> "find_widgets", query |-> query, kind |-> kind]
        /\ tree' = TreeFor(FALSE) /\ todo' = roots /\ lines' = <<>>
        /\ UNCHANGED <<widgets, listed>>
    BY <1>6, <2>1, <2>2 DEF SearchWidgets, Walk
  <2>4. call'.tool = "find_widgets" /\ call'.query = query /\ call'.kind = kind
    BY <2>3
  <2>5. IdsOf(widgets) \subseteq NodesOf(tree')
    BY <1>2, <2>3, TreesWalk
  <2>6. /\ ToSet(roots) = {widgets[k].id : k \in places}
        /\ \A W : (\A k \in places : widgets[k].id \in W) => roots \in Seq(W)
    <3>1. widgets \in Seq(ToSet(widgets)) /\ places \subseteq DOMAIN widgets
      BY <1>2, <2>1, BoardIs
    <3>2. PICK list : list = widgets
      OBVIOUS
    <3>3. /\ ToSet(IdList(Those(list, places))) = {list[k].id : k \in places}
          /\ \A W : (\A k \in places : list[k].id \in W) => IdList(Those(list, places)) \in Seq(W)
      BY <3>1, <3>2, ThoseList
    <3> QED
      BY <2>2, <3>2, <3>3
  <2>7. \A k \in places : widgets[k].id \in NodesOf(tree')
    BY <2>1, <2>5 DEF IdsOf
  <2>8. roots \in Seq(NodesOf(tree'))
    BY <2>6, <2>7
  <2>9. ASSUME NEW w \in ToSet(widgets), Matches(w, query, kind) PROVE w.id \in ToSet(roots)
    <3>1. PICK k \in DOMAIN widgets : w = widgets[k]
      BY <1>2, BoardIs
    <3> QED
      BY <2>1, <2>6, <2>9, <3>1
  <2>10. SearchWalk'
    <3>1. todo' \in Seq(NodesOf(tree')) /\ lines' \in Seq(NodesOf(tree'))
      BY <2>3, <2>8, EmptyList
    <3>2. tree' = TreeFor(FALSE)'
      BY <1>1, <2>3
    <3> QED
      BY <2>3, <2>4, <2>9, <3>1, <3>2 DEF SearchWalk
  <2>11. RegionWalk' /\ NotFound'
    BY <2>4 DEF RegionWalk, NotFound
  <2> QED
    BY <1>4, <2>3, <2>4, <2>10, <2>11 DEF VInv
<1>7. ASSUME NEW id, FetchConnections(id) PROVE VInv'
  <2>1. /\ call'.tool = "get_connections" /\ todo' = <<>> /\ lines' = <<>> /\ listed' = listed
    BY <1>7 DEF FetchConnections, Walk
  <2> QED
    BY <2>1, NothingRendered
<1>8. CASE RenderNode
  <2>1. /\ todo # <<>> /\ lines' = Append(lines, Head(todo))
        /\ todo' = Children(tree.adjacency, Head(todo)) \o Tail(todo)
        /\ UNCHANGED <<widgets, tree, call, listed>>
    BY <1>8 DEF RenderNode
  <2>2. call.tool \in {"get_region", "find_widgets"} /\ NotFound'
    BY <2>1 DEF VInv, NotFound
  <2>3. PICK N : N = NodesOf(tree)
    OBVIOUS
  <2>4. PICK adjacency : adjacency = tree.adjacency
    OBVIOUS
  <2>5. PICK R : Walkable(adjacency, N, R)
    <3>1. tree = TreeFor(call.spatial) \/ tree = TreeFor(FALSE)
      BY <2>2 DEF VInv, RegionWalk, SearchWalk
    <3> QED
      BY <1>2, <2>3, <2>4, <3>1, TreesWalk
  <2>6. CASE call.tool = "get_region"
    <3>1. /\ tree = TreeFor(call.spatial) /\ call.id \in N
          /\ Walking(adjacency, N, call.id, todo, lines)
      BY <2>3, <2>4, <2>6 DEF VInv, RegionWalk
    <3>2. Walking(adjacency, N, call.id, todo', lines')
      BY <2>1, <2>4, <2>5, <3>1, WalkOn
    <3>3. RegionWalk'
      BY <1>1, <2>1, <2>3, <2>4, <3>1, <3>2 DEF RegionWalk
    <3> QED
      BY <1>4, <2>1, <2>2, <2>6, <3>3 DEF VInv, SearchWalk
  <2>7. CASE call.tool = "find_widgets"
    <3>1. /\ tree = TreeFor(FALSE) /\ todo \in Seq(N) /\ lines \in Seq(N)
          /\ \A w \in ToSet(widgets) :
                Matches(w, call.query, call.kind) => w.id \in ToSet(lines) \cup ToSet(todo)
      BY <2>3, <2>7 DEF VInv, SearchWalk
    <3>2. /\ todo' \in Seq(N) /\ lines' \in Seq(N)
          /\ ToSet(lines) \cup ToSet(todo) \subseteq ToSet(lines') \cup ToSet(todo')
      BY <2>1, <2>4, <2>5, <3>1, WalkKeeps DEF Walkable
    <3>3. SearchWalk'
      BY <1>1, <2>1, <2>3, <3>1, <3>2 DEF SearchWalk
    <3> QED
      BY <1>4, <2>1, <2>2, <2>7, <3>3 DEF VInv, RegionWalk
  <2> QED
    BY <2>2, <2>6, <2>7
<1>9. CASE Return
  <2>1. call'.tool = "none" /\ lines' = <<>> /\ todo' = <<>> /\ listed' = listed
    BY <1>9 DEF Return, Idle
  <2> QED
    BY <2>1, NothingRendered
<1>10. CASE UNCHANGED vars
  BY <1>1, <1>10 DEF VInv, RegionWalk, SearchWalk, ListedStays, NotFound, vars
<1> QED
  BY <1>3, <1>5, <1>6, <1>7, <1>8, <1>9, <1>10 DEF Next, ToolCall

\* VInv holds in every reachable state.
THEOREM Invariant == Spec => []VInv
BY InitVInv, StepVInv, PTL DEF Spec

-----------------------------------------------------------------------------
(* What the run checks on small boards, for every board.                     *)

\* An attribute that holds a text holds words.
LEMMA TextsAre ==
    ASSUME widgets \in Boards, NEW w \in ToSet(widgets)
    PROVE  /\ w.kind \in Kinds /\ DOMAIN w.says = TextAttributes[w.kind]
           /\ \A name : Attribute(w, name) \in SUBSET Words
<1>1. w.kind \in Kinds /\ w.says \in [TextAttributes[w.kind] -> SUBSET Words]
  BY BoardsAssumption
<1> QED
  BY <1>1 DEF Attribute

\* A child that InferLabel takes is one of the children.
LEMMA LabelIsOfChild ==
    ASSUME NEW children, Len(children) \in Nat
    PROVE  \/ InferLabel(children) = {}
           \/ \E k \in 1..Len(children) : InferLabel(children) = TextOrTitle(children[k])
<1> DEFINE H == {k \in 1..Len(children) : IsHeading(children[k])}
           T == {k \in 1..Len(children) : TextOrTitle(children[k]) # {}}
           heading == SelectInSeq(children, IsHeading)
           talking == SelectInSeq(children, LAMBDA w : TextOrTitle(w) # {})
<1>1. heading = IF H # {} THEN Min(H) ELSE 0
  BY DEF SelectInSeq
<1>2. talking = IF T # {} THEN Min(T) ELSE 0
  BY DEF SelectInSeq
<1>3. H \subseteq Nat /\ T \subseteq Nat
  OBVIOUS
<1>4. InferLabel(children) =
         IF heading # 0 THEN TextOrTitle(children[heading])
         ELSE IF talking # 0 THEN TextOrTitle(children[talking]) ELSE {}
  BY DEF InferLabel
<1> HIDE DEF heading, talking
<1>5. heading = 0 \/ heading \in H
  <2> HIDE DEF H
  <2> QED
    BY <1>1, <1>3, Smallest
<1>6. talking = 0 \/ talking \in T
  <2> HIDE DEF T
  <2> QED
    BY <1>2, <1>3, Smallest
<1> QED
  BY <1>4, <1>5, <1>6

\* What is shown of a spatial group is in it, and a word of its label is a word of a
\* text or a title of a widget in it.
LEMMA GroupLabel ==
    ASSUME widgets \in Boards, NEW spatial, NEW region, IsGroupRegion(TreeFor(spatial), region)
    PROVE  \/ region.label = {}
           \/ \E w \in ToSet(widgets) : /\ w.id \in Kids(TreeFor(spatial).adjacency, region.id)
                                        /\ region.label = TextOrTitle(w)
<1>1. PICK g : g = region.id /\ g \in TreeFor(spatial).group_nodes
  BY DEF IsGroupRegion
<1>2. PICK adjacency : adjacency = TreeFor(spatial).adjacency
  OBVIOUS
<1>3. \A c \in Kids(adjacency, g) : c \in IdsOf(widgets)
  BY <1>1, <1>2, GroupsHold
<1>4. PICK ids : ids = Children(adjacency, g)
  OBVIOUS
<1>5. PICK N, R : ListsAre(adjacency, N, R)
  BY <1>2, TreesWalk DEF Walkable
<1>6. PICK n \in Nat : n = Len(ids) /\ DOMAIN ids = 1..n
  <2>1. ids \in Seq(N)
    BY <1>4, <1>5 DEF ListsAre
  <2> QED
    BY <2>1
<1>7. PICK children : children = WidgetsIn(TreeFor(spatial), g)
  OBVIOUS
<1>8. children = [k \in 1..n |-> WidgetOf(widgets, ids[k])]
  BY <1>2, <1>4, <1>6, <1>7 DEF WidgetsIn
<1>9. Len(children) = n
  BY <1>8
<1>10. region.label = InferLabel(children)
  BY <1>1, <1>7 DEF IsGroupRegion
<1>11. CASE region.label = {}
  BY <1>11
<1>12. ASSUME NEW k \in 1..n, InferLabel(children) = TextOrTitle(children[k])
       PROVE  \E w \in ToSet(widgets) : w.id \in Kids(adjacency, g) /\ region.label = TextOrTitle(w)
  <2>1. ids[k] \in Kids(adjacency, g)
    BY <1>4, <1>6 DEF Kids, ToSet
  <2>2. children[k] \in ToSet(widgets) /\ children[k].id = ids[k]
    BY <1>3, <1>8, <2>1, WidgetIs
  <2> QED
    BY <1>10, <1>12, <2>1, <2>2
<1> QED
  BY <1>1, <1>2, <1>9, <1>10, <1>11, <1>12, LabelIsOfChild

\* A region of a summary is a node, its label has words, and its count is a number.
LEMMA RegionTyped ==
    ASSUME widgets \in Boards, NEW spatial, NEW region \in Regions(TreeFor(spatial))
    PROVE  region \in [id: NodesOf(TreeFor(spatial)), label: SUBSET Words, count: Nat]
<1>1. PICK t : t = TreeFor(spatial)
  OBVIOUS
<1>2. PICK R : Walkable(t.adjacency, NodesOf(t), R) /\ IsFiniteSet(NodesOf(t))
  BY <1>1, TreesWalk
<1>3. /\ IsAreaRegion(t, region) \/ IsGroupRegion(t, region)
      /\ region = [id |-> region.id, label |-> region.label, count |-> region.count]
  BY <1>1, RegionIs
<1>4. region.id \in NodesOf(t)
  BY <1>1, RegionsAreNodes DEF Resolves
<1>5. CASE IsAreaRegion(t, region)
  <2>1. WidgetOf(widgets, region.id) \in ToSet(widgets)
    BY <1>5, WidgetIs DEF IsAreaRegion, IsAreaNode
  <2>2. region.label \in SUBSET Words
    BY <1>5, <2>1, TextsAre DEF IsAreaRegion
  <2>3. region.count = Size(t.adjacency, NodesOf(t), region.id)
    BY <1>2, <1>4, <1>5, CountsAre DEF IsAreaRegion
  <2>4. PICK B : B = Below(t.adjacency, NodesOf(t), region.id)
    OBVIOUS
  <2>5. region.id \in B /\ B \in SUBSET NodesOf(t)
    BY <1>2, <1>4, <2>4, BelowIsLeast DEF Walkable
  <2>6. IsFiniteSet(B) /\ B # {} /\ Cardinality(B) \in Nat
    BY <1>2, <2>5, FS_Subset, FS_CardinalityType
  <2>7. Cardinality(B) # 0
    BY <2>6, FS_EmptySet
  <2>8. region.count \in Nat
    BY <2>3, <2>4, <2>6, <2>7 DEF Size
  <2> QED
    BY <1>1, <1>3, <1>4, <2>2, <2>8
<1>6. CASE IsGroupRegion(t, region)
  <2>1. region.label \in SUBSET Words
    <3>1. \A w \in ToSet(widgets) : TextOrTitle(w) \in SUBSET Words
      BY TextsAre DEF TextOrTitle, OrElse
    <3> QED
      BY <1>1, <1>6, <3>1, GroupLabel
  <2>2. Children(t.adjacency, region.id) \in Seq(NodesOf(t))
    BY <1>2 DEF Walkable, ListsAre
  <2>3. region.count \in Nat
    BY <1>6, <2>2 DEF IsGroupRegion
  <2> QED
    BY <1>1, <1>3, <1>4, <2>1, <2>3
<1> QED
  BY <1>3, <1>5, <1>6

\* A list of nodes has nodes.
LEMMA ListHas == \A N : \A q \in Seq(N) : ToSet(q) \subseteq N
BY DEF ToSet

\* Only nodes of the tree are rendered or wait to be, in either mode: no walk meets
\* an id that resolve raises a KeyError for, and a summary lists nodes, words, numbers.
THEOREM TypeCorrect == Spec => []TypeOK
<1>1. VInv => TypeOK
  <2> SUFFICES ASSUME VInv PROVE TypeOK
    OBVIOUS
  <2>1. ToSet(lines) \cup ToSet(todo) \subseteq NodesOf(tree)
    <3>1. CASE call.tool \in {"get_region", "find_widgets"}
      <4>1. todo \in Seq(NodesOf(tree)) /\ lines \in Seq(NodesOf(tree))
        BY <3>1 DEF VInv, RegionWalk, SearchWalk, Walking
      <4> QED
        BY <4>1, ListHas
    <3>2. CASE call.tool \notin {"get_region", "find_widgets"}
      BY <3>2, EmptyList DEF VInv
    <3> QED
      BY <3>1, <3>2
  <2>2. listed.regions \subseteq
          [id: NodesOf(TreeFor(listed.spatial)), label: SUBSET Words, count: Nat]
    BY RegionTyped DEF VInv, ListedStays
  <2> QED
    BY <2>1, <2>2 DEF VInv, TypeOK
<1> QED
  BY <1>1, Invariant, PTL

\* A rendered region has all that the mode of the call puts in it, once, and nothing
\* else, by parent_id every widget, row, slot and cell, by proximity all but the cells;
\* at no time of the walk has a node been rendered twice.
THEOREM RegionsAreWhole == Spec => []RegionIsWhole
<1>1. VInv => RegionIsWhole
  <2> SUFFICES ASSUME VInv, call.tool = "get_region"
               PROVE  /\ IsInjective(lines)
                      /\ todo = <<>> => ToSet(lines) = Within(call.id, call.spatial)
    BY DEF RegionIsWhole, Rendered
  <2>1. /\ widgets \in Boards /\ tree = TreeFor(call.spatial) /\ call.id \in NodesOf(tree)
        /\ Walking(tree.adjacency, NodesOf(tree), call.id, todo, lines)
    BY DEF VInv, RegionWalk
  <2>2. IsInjective(lines)
    BY <2>1 DEF Walking
  <2>3. ASSUME todo = <<>> PROVE ToSet(lines) = Within(call.id, call.spatial)
    <3>1. PICK B : B = Below(tree.adjacency, NodesOf(tree), call.id)
      OBVIOUS
    <3>2. Within(call.id, call.spatial) = B
      BY <2>1, <3>1, WithinIs
    <3>3. DOMAIN todo = {}
      BY <2>3
    <3>4. \A x : x \in B <=> x \in ToSet(lines)
                     \/ \E k \in DOMAIN todo : x \in Below(tree.adjacency, NodesOf(tree), todo[k])
      BY <2>1, <3>1 DEF Walking
    <3> QED
      BY <3>2, <3>3, <3>4
  <2> QED
    BY <2>2, <2>3
<1> QED
  BY <1>1, Invariant, PTL

\* On a board without tables a spatial group has its children below it, no more.
LEMMA GroupSize ==
    ASSUME widgets \in Boards, NEW spatial, NEW g \in TreeFor(spatial).group_nodes,
           Tables(widgets) = {}
    PROVE  Len(Children(TreeFor(spatial).adjacency, g))
              = Size(TreeFor(spatial).adjacency, NodesOf(TreeFor(spatial)), g)
<1>1. PICK adjacency : adjacency = TreeFor(spatial).adjacency
  OBVIOUS
<1>2. PICK N : N = NodesOf(TreeFor(spatial))
  OBVIOUS
<1>3. PICK R : Walkable(adjacency, N, R)
  BY <1>1, <1>2, TreesWalk
<1>4. g \in N
  BY <1>2 DEF NodesOf
<1>5. PICK q \in Seq(N) : q = Children(adjacency, g) /\ IsInjective(q) /\ ToSet(q) = Kids(adjacency, g)
  BY <1>3 DEF Walkable, ListsAre, Kids
<1>6. \A c \in ToSet(q) : c \in N /\ Kids(adjacency, c) = {}
  <2> TAKE c \in ToSet(q)
  <2>1. c \in N
    BY <1>5, ListHas
  <2>2. Kids(adjacency, c) = {}
    BY <1>1, <1>5, GroupsHold
  <2> QED
    BY <2>1, <2>2
<1>7. \A c \in ToSet(q) : \A x : x \in Below(adjacency, N, c) <=> x = c
  BY <1>3, <1>6, BelowIs
<1>8. g \notin ToSet(q) /\ \A x : x \in Below(adjacency, N, g) <=> x = g \/ x \in ToSet(q)
  BY <1>3, <1>4, <1>5, <1>7, BelowIs
<1>9. Below(adjacency, N, g) = ToSet(q) \cup {g}
  BY <1>8
<1>10. IsFiniteSet(ToSet(q)) /\ Cardinality(ToSet(q)) = Len(q) /\ Len(q) \in Nat
  BY <1>5, ListLength
<1>11. Cardinality(Below(adjacency, N, g)) = Len(q) + 1
  <2>1. PICK T : T = ToSet(q)
    OBVIOUS
  <2>2. IsFiniteSet(T) /\ g \notin T
    BY <1>8, <1>10, <2>1
  <2>3. Cardinality(T \cup {g}) = Cardinality(T) + 1
    BY <2>2, FS_AddElement
  <2> QED
    BY <1>9, <1>10, <2>1, <2>3
<1>12. Size(adjacency, N, g) = Len(q)
  BY <1>10, <1>11 DEF Size
<1> QED
  BY <1>1, <1>2, <1>5, <1>12

\* The count of a summary is the number of nodes that get_region renders in the
\* region, whatever the depth of the board; of a spatial group, if there are no tables.
THEOREM CountsAreRenderings == Spec => []CountIsRendering
<1>1. VInv => CountIsRendering
  <2> SUFFICES ASSUME VInv, call.tool = "get_region", todo = <<>>, call.spatial = listed.spatial,
                      NEW region \in listed.regions, region.id = call.id,
                      IsAreaNode(call.id) \/ ~ \E w \in ToSet(widgets) : IsTable(w)
               PROVE  region.count = Len(lines) - 1
    BY DEF CountIsRendering, Rendered
  <2>1. PICK t : t = tree
    OBVIOUS
  <2>2. PICK N : N = NodesOf(t)
    OBVIOUS
  <2>3. /\ widgets \in Boards /\ t = TreeFor(listed.spatial) /\ call.id \in N
        /\ Walking(t.adjacency, N, call.id, todo, lines)
    BY <2>1, <2>2 DEF VInv, RegionWalk
  <2>4. region \in Regions(t)
    BY <2>3 DEF VInv, ListedStays
  <2>5. PICK R : Walkable(t.adjacency, N, R) /\ IsFiniteSet(N)
    BY <2>2, <2>3, TreesWalk
  <2>6. Len(lines) = Cardinality(Below(t.adjacency, N, call.id))
    <3>1. lines \in Seq(N) /\ IsInjective(lines)
      BY <2>3 DEF Walking
    <3>2. DOMAIN todo = {}
      OBVIOUS
    <3>3. PICK B : B = Below(t.adjacency, N, call.id)
      OBVIOUS
    <3>4. \A x : x \in B <=> x \in ToSet(lines)
                     \/ \E k \in DOMAIN todo : x \in Below(t.adjacency, N, todo[k])
      BY <2>3, <3>3 DEF Walking
    <3>5. B = ToSet(lines)
      BY <3>2, <3>4
    <3> QED
      BY <3>1, <3>3, <3>5, ListLength
  <2>7. Size(t.adjacency, N, call.id) = Len(lines) - 1
    BY <2>6 DEF Size
  <2>8. CASE IsAreaRegion(t, region)
    BY <2>2, <2>3, <2>5, <2>7, <2>8, CountsAre DEF IsAreaRegion
  <2>9. CASE IsGroupRegion(t, region)
    <3>1. call.id \in t.group_nodes /\ region.count = Len(Children(t.adjacency, call.id))
      BY <2>9 DEF IsGroupRegion
    <3>2. call.id \notin IdsOf(widgets)
      BY <2>3, <3>1, GroupsHold
    <3>3. Tables(widgets) = {}
      BY <3>2 DEF IsAreaNode, Tables
    <3> QED
      BY <2>2, <2>3, <2>7, <3>1, <3>3, GroupSize
  <2> QED
    BY <2>4, <2>8, <2>9, RegionIs
<1> QED
  BY <1>1, Invariant, PTL

\* The word that a caller reads in the label of a region leads a search to the region or
\* to a widget in it; the word of a rendered text to its widget.
THEOREM ReadIsFound == Spec => []WordsAreFound
<1>1. VInv => WordsAreFound
  <2> SUFFICES ASSUME VInv, call.tool = "find_widgets", todo = <<>>, call.kind = Anything
               PROVE  /\ \A region \in listed.regions :
                            call.query \in region.label =>
                               \E id \in {region.id} \cup
                                    ToSet(Children(TreeFor(listed.spatial).adjacency, region.id)) :
                                  id \in ToSet(lines)
                      /\ \A w \in ToSet(widgets) :
                            w.kind \in {"sticky note", "shape", "text"} /\ call.query \in ContentOf(w)
                               => w.id \in ToSet(lines)
    BY DEF WordsAreFound, Rendered
  <2>1. widgets \in Boards
    BY DEF VInv
  <2>2. ASSUME NEW w \in ToSet(widgets), NEW name \in {"text", "html_text", "title"},
               call.query \in Attribute(w, name)
        PROVE  w.id \in ToSet(lines)
    <3>1. Matches(w, call.query, call.kind)
      BY <2>2 DEF Matches, TextFields
    <3>2. ToSet(todo) = {}
      BY EmptyList
    <3> QED
      BY <3>1, <3>2 DEF VInv, SearchWalk
  <2>3. \A w \in ToSet(widgets) : call.query \in TextOrTitle(w) => w.id \in ToSet(lines)
    BY <2>2 DEF TextOrTitle, OrElse
  <2>4. ASSUME NEW region \in listed.regions, call.query \in region.label
        PROVE  \E id \in {region.id} \cup
                    ToSet(Children(TreeFor(listed.spatial).adjacency, region.id)) : id \in ToSet(lines)
    <3>1. region \in Regions(TreeFor(listed.spatial))
      BY DEF VInv, ListedStays
    <3>2. CASE IsAreaRegion(TreeFor(listed.spatial), region)
      <4>1. PICK w \in ToSet(widgets) : w = WidgetOf(widgets, region.id) /\ w.id = region.id
        BY <2>1, <3>2, WidgetIs DEF IsAreaRegion, IsAreaNode
      <4> QED
        BY <2>2, <2>4, <3>2, <4>1 DEF IsAreaRegion
    <3>3. CASE IsGroupRegion(TreeFor(listed.spatial), region)
      <4>1. PICK w \in ToSet(widgets) :
               /\ w.id \in Kids(TreeFor(listed.spatial).adjacency, region.id)
               /\ region.label = TextOrTitle(w)
        BY <2>1, <2>4, <3>3, GroupLabel
      <4> QED
        BY <2>3, <2>4, <4>1 DEF Kids
    <3> QED
      BY <3>1, <3>2, <3>3, RegionIs
  <2>5. ASSUME NEW w \in ToSet(widgets), w.kind \in {"sticky note", "shape", "text"},
               call.query \in ContentOf(w)
        PROVE  w.id \in ToSet(lines)
    <3>1. DOMAIN w.says = TextAttributes[w.kind]
      BY <2>1, TextsAre
    <3>2. "caption" \notin DOMAIN w.says /\ "message" \notin DOMAIN w.says
      <4>1. CASE w.kind = "text"
        BY <3>1, <4>1 DEF TextAttributes
      <4>2. CASE w.kind = "sticky note"
        <5>1. TextAttributes["sticky note"] = {"title", "text", "html_text"}
          BY DEF TextAttributes
        <5>2. DOMAIN w.says = {"title", "text", "html_text"}
          BY <3>1, <4>2, <5>1, Zenon
        <5> QED
          BY <5>2
      <4>3. CASE w.kind = "shape"
        BY <3>1, <4>3 DEF TextAttributes
      <4> QED
        BY <2>5, <4>1, <4>2, <4>3
    <3>3. Attribute(w, "caption") = {} /\ Attribute(w, "message") = {}
      BY <3>2 DEF Attribute
    <3>4. call.query \in Attribute(w, "html_text") \/ call.query \in Attribute(w, "text")
      BY <2>5, <3>3 DEF ContentOf, OrElse
    <3> QED
      BY <2>2, <3>4
  <2> QED
    BY <2>4, <2>5
<1> QED
  BY <1>1, Invariant, PTL

\* The label of a spatial group is what its first heading says, whenever the renderer
\* has a heading in it: the two modules agree on the size of a heading.
THEOREM LabelsAreHeadings == Spec => []LabelIsHeading
<1>1. VInv => LabelIsHeading
  <2> DEFINE RendersHeading(w) == w.kind # "area" /\ RoleOf(w) = "heading"
  <2> SUFFICES ASSUME VInv, listed.spatial, NEW region \in listed.regions, ~ IsAreaNode(region.id),
                      NEW children, children = WidgetsIn(TreeFor(TRUE), region.id),
                      SelectInSeq(children, RendersHeading) # 0
               PROVE  region.label = TextOrTitle(children[SelectInSeq(children, RendersHeading)])
    BY DEF LabelIsHeading
  <2>1. \A w : RendersHeading(w) <=> IsHeading(w)
    BY DEF RoleOf, FontSizeToRole, IsHeading, HeadingFontSize
  <2> HIDE DEF RendersHeading
  <2>2. SelectInSeq(children, RendersHeading) = SelectInSeq(children, IsHeading)
    <3>1. {k \in 1..Len(children) : RendersHeading(children[k])}
             = {k \in 1..Len(children) : IsHeading(children[k])}
      BY <2>1
    <3> QED
      BY <3>1 DEF SelectInSeq
  <2>3. region \in Regions(TreeFor(listed.spatial)) /\ listed.spatial = TRUE
    BY DEF VInv, ListedStays
  <2>4. IsGroupRegion(TreeFor(TRUE), region)
    BY <2>3, RegionIs DEF IsAreaRegion
  <2>5. region.label = InferLabel(children)
    BY <2>4 DEF IsGroupRegion
  <2> QED
    BY <2>2, <2>5 DEF InferLabel
<1> QED
  BY <1>1, Invariant, PTL

\* A region that a summary listed is found by get_region in the same mode, as long
\* as the board stays as it is.
THEOREM ListedRegionsAreFound == Spec => []ListedIsFound
<1>1. VInv => ListedIsFound
  BY RegionsAreNodes DEF VInv, ListedStays, NotFound, ListedIsFound
<1> QED
  BY <1>1, Invariant, PTL

\* An arrow from one widget to another is outgoing for the one and incoming for the
\* other, on every board, loops and arrows with a missing end among the rest.
THEOREM EndsAgree == Spec => []ConnectionsAgree
<1>1. VInv => ConnectionsAgree
  <2> SUFFICES ASSUME VInv, NEW a \in IdsOf(widgets), NEW b \in IdsOf(widgets),
                      NEW w \in IdsOf(widgets), a # b
               PROVE  <<w, "outgoing", b>> \in Connections(a)
                         <=> <<w, "incoming", a>> \in Connections(b)
    BY DEF ConnectionsAgree
  <2>1. a # Unattached /\ b # Unattached
    <3>1. Unattached[1] # "widget"
      BY DEF Unattached
    <3> QED
      BY <3>1, WidgetIs DEF VInv
  <2> DEFINE arrows == {x \in ToSet(widgets) : IsArrow(x)}
  <2>2. \A id : Connections(id) = UNION {ConnectionOf(x, id) : x \in arrows}
    BY DEF Connections
  <2> HIDE DEF arrows
  <2>3. <<w, "outgoing", b>> \in Connections(a)
           <=> \E x \in arrows : x.id = w /\ x.start = a /\ x.end = b
    BY <2>1, <2>2 DEF ConnectionOf
  <2>4. <<w, "incoming", a>> \in Connections(b)
           <=> \E x \in arrows : x.id = w /\ x.start = a /\ x.end = b
    BY <2>1, <2>2 DEF ConnectionOf
  <2> QED
    BY <2>3, <2>4
<1> QED
  BY <1>1, Invariant, PTL
=============================================================================
