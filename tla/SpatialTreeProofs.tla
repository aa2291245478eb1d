-------------------------- MODULE SpatialTreeProofs -------------------------
(* Proofs about WidgetTree and SpatialTree for every board that IsBoard: the *)
(* tree of either strategy is a tree, and the connected components of the    *)
(* proximity graph are lists that share no place.                            *)
EXTENDS SpatialTree, FiniteSetTheorems, WellFoundedInduction, TLAPS

-----------------------------------------------------------------------------
(* Induction: a recursive function over 0..n has the values its equation     *)
(* gives it once some function has them, and one does: the first number for  *)
(* which none had would follow one for which one had.                        *)

\* The smallest of some natural numbers.
LEMMA Smallest ==
    ASSUME NEW T, T \subseteq Nat, T # {}
    PROVE  Min(T) \in T /\ \A y \in T : Min(T) <= y
<1>1. PICK x \in T : \A y \in T : ~ (<<y, x>> \in OpToRel(<, Nat))
  BY NatLessThanWellFounded, WFMin
<1>2. \A y \in T : ~ (y < x)
  BY <1>1 DEF OpToRel
<1>3. \A y \in T : x <= y
  BY <1>2
<1> QED
  BY <1>3 DEF Min

\* A set that has 0 and the successor of each of its numbers below n has all up to n.
LEMMA UpTo ==
    ASSUME NEW n \in Nat, NEW T, 0 \in T, \A k \in 0..n : k \in T /\ k < n => k + 1 \in T
    PROVE  \A k \in 0..n : k \in T
<1> SUFFICES ASSUME (0..n) \ T # {} PROVE FALSE
  OBVIOUS
<1>1. (0..n) \ T \subseteq Nat
  OBVIOUS
<1> DEFINE x == Min((0..n) \ T)
<1>2. x \in (0..n) \ T /\ \A y \in (0..n) \ T : x <= y
  BY <1>1, Smallest
<1> HIDE DEF x
<1>3. x # 0 /\ x - 1 \in 0..n /\ x - 1 < n
  BY <1>2
<1>4. x - 1 \in T
  BY <1>2, <1>3
<1> QED
  BY <1>2, <1>3, <1>4

-----------------------------------------------------------------------------
(* Parts of a list, in order.                                                *)

Ascending(q) == \A k, l \in DOMAIN q : k < l => q[k] < q[l]

\* Where two ascending lists first differ, the smaller of the two numbers is not
\* in the other list.
LEMMA AscendingDiffer ==
    ASSUME NEW q \in Seq(Nat), NEW r \in Seq(Nat), Ascending(q), Ascending(r),
           NEW k \in DOMAIN q, k \in DOMAIN r, q[k] < r[k],
           \A l \in DOMAIN q \cap DOMAIN r : l < k => q[l] = r[l]
    PROVE  \A l \in DOMAIN r : r[l] # q[k]
<1> SUFFICES ASSUME NEW l \in DOMAIN r, r[l] = q[k] PROVE FALSE
  OBVIOUS
<1>1. /\ k \in Nat /\ l \in Nat /\ q[k] \in Nat /\ r[k] \in Nat /\ r[l] \in Nat
  OBVIOUS
<1>2. ~ k < l
  BY <1>1 DEF Ascending
<1>3. k # l
  BY <1>1
<1>4. l < k /\ l \in DOMAIN q
  BY <1>1, <1>2, <1>3
<1>5. q[l] = r[l] /\ q[l] < q[k]
  BY <1>4 DEF Ascending
<1> QED
  BY <1>1, <1>5

\* Of two ascending lists with the same beginning, none ends before the other if it
\* has the numbers of the other.
LEMMA AscendingLength ==
    ASSUME NEW q \in Seq(Nat), NEW r \in Seq(Nat), Ascending(r), ToSet(r) \subseteq ToSet(q),
           \A l \in DOMAIN q \cap DOMAIN r : q[l] = r[l]
    PROVE  Len(r) <= Len(q)
<1> SUFFICES ASSUME Len(q) < Len(r) PROVE FALSE
  OBVIOUS
<1> DEFINE m == Len(q) + 1
<1>1. m \in DOMAIN r /\ m \in Nat /\ m \notin DOMAIN q /\ DOMAIN q \subseteq 1..Len(q)
  OBVIOUS
<1>2. PICK l \in DOMAIN q : q[l] = r[m]
  BY <1>1 DEF ToSet
<1>3. l \in DOMAIN r /\ l < m
  OBVIOUS
<1>4. r[l] = r[m]
  BY <1>2, <1>3
<1>5. r[l] < r[m] /\ r[m] \in Nat
  BY <1>1, <1>3 DEF Ascending
<1> QED
  BY <1>4, <1>5

\* Two ascending lists of the same numbers are the same.
LEMMA AscendingUnique ==
    ASSUME NEW q \in Seq(Nat), NEW r \in Seq(Nat), Ascending(q), Ascending(r), ToSet(q) = ToSet(r)
    PROVE  q = r
<1> DEFINE D == {k \in DOMAIN q \cap DOMAIN r : q[k] # r[k]}
<1>1. D = {}
  <2> SUFFICES ASSUME D # {} PROVE FALSE
    OBVIOUS
  <2>1. D \subseteq Nat
    OBVIOUS
  <2> DEFINE k == Min(D)
  <2>2. k \in D /\ \A l \in D : k <= l
    <3> HIDE DEF D
    <3> QED
      BY <2>1, Smallest
  <2> HIDE DEF k
  <2>3. k \in DOMAIN q /\ k \in DOMAIN r /\ q[k] # r[k] /\ q[k] \in Nat /\ r[k] \in Nat /\ k \in Nat
    BY <2>2
  <2>4. \A l \in DOMAIN q \cap DOMAIN r : l < k => q[l] = r[l]
    BY <2>2, <2>3
  <2>5. (\E l \in DOMAIN r : r[l] = q[k]) /\ (\E l \in DOMAIN q : q[l] = r[k])
    BY <2>3 DEF ToSet
  <2>6. ~ q[k] < r[k]
    BY <2>3, <2>4, <2>5, AscendingDiffer
  <2>7. ~ r[k] < q[k]
    <3>1. \A l \in DOMAIN r \cap DOMAIN q : l < k => r[l] = q[l]
      BY <2>4
    <3> QED
      BY <2>3, <2>5, <3>1, AscendingDiffer
  <2> QED
    BY <2>3, <2>6, <2>7
<1>2. \A k \in DOMAIN q \cap DOMAIN r : q[k] = r[k]
  BY <1>1
<1> HIDE DEF D
<1>3. Len(r) <= Len(q)
  BY <1>2, AscendingLength
<1>4. Len(q) <= Len(r)
  <2>1. \A k \in DOMAIN r \cap DOMAIN q : r[k] = q[k]
    BY <1>2
  <2> QED
    BY <2>1, AscendingLength
<1>5. Len(q) = Len(r)
  BY <1>3, <1>4
<1>6. DOMAIN q = 1..Len(q) /\ DOMAIN r = 1..Len(q)
  BY <1>5
<1>7. \A k \in 1..Len(q) : q[k] = r[k]
  BY <1>2, <1>6
<1> QED
  BY <1>5, <1>7

\* The equation of the recursive function of InOrder, and the function.
IsOrder(S, n, f) ==
    f = [k \in 0..n |-> IF k = 0 THEN <<>>
                        ELSE IF k \in S THEN Append(f[k - 1], k) ELSE f[k - 1]]
OrderOf(S, n) ==
    CHOOSE f : f = [k \in 0..n |-> IF k = 0 THEN <<>>
                                   ELSE IF k \in S THEN Append(f[k - 1], k) ELSE f[k - 1]]

LEMMA OrderExists ==
    ASSUME NEW S, NEW n \in Nat
    PROVE  IsOrder(S, n, OrderOf(S, n)) /\ InOrder(S, n) = OrderOf(S, n)[n]
<1> DEFINE T == {k \in 0..n : \E f : IsOrder(S, k, f)}
           Next(before, k) == IF k \in S THEN Append(before, k) ELSE before
<1>1. 0 \in T
  <2> DEFINE f == [k \in 0..0 |-> <<>>]
  <2>1. IsOrder(S, 0, f)
    BY DEF IsOrder
  <2> QED
    BY <2>1
<1>2. ASSUME NEW m \in 0..n, m \in T, m < n PROVE m + 1 \in T
  <2>1. PICK f : IsOrder(S, m, f)
    BY <1>2
  <2> DEFINE g == [k \in 0..(m + 1) |-> IF k <= m THEN f[k] ELSE Next(f[m], k)]
  <2>2. ASSUME NEW k \in 0..(m + 1)
        PROVE  g[k] = IF k = 0 THEN <<>> ELSE Next(g[k - 1], k)
    <3>1. CASE k <= m
      <4>1. /\ k \in 0..m /\ g[k] = f[k]
            /\ k # 0 => k - 1 \in 0..(m + 1) /\ g[k - 1] = f[k - 1]
        BY <3>1
      <4> HIDE DEF g
      <4> QED
        BY <2>1, <4>1 DEF IsOrder
    <3>2. CASE k = m + 1
      BY <3>2, <1>2
    <3> QED
      BY <3>1, <3>2, <1>2
  <2>3. g = [k \in 0..(m + 1) |-> IF k = 0 THEN <<>> ELSE Next(g[k - 1], k)]
    BY <2>2
  <2> HIDE DEF g
  <2>4. IsOrder(S, m + 1, g)
    BY <2>3 DEF IsOrder
  <2>5. m + 1 \in 0..n
    BY <1>2
  <2> QED
    BY <2>4, <2>5
<1> HIDE DEF T
<1>3. n \in T
  <2>1. \A k \in 0..n : k \in T /\ k < n => k + 1 \in T
    BY <1>2
  <2>2. \A k \in 0..n : k \in T
    BY <1>1, <2>1, UpTo
  <2> QED
    BY <2>2
<1>4. PICK f : IsOrder(S, n, f)
  BY <1>3 DEF T
<1>5. IsOrder(S, n, OrderOf(S, n))
  BY <1>4 DEF IsOrder, OrderOf
<1>6. InOrder(S, n) = OrderOf(S, n)[n]
  BY DEF InOrder, OrderOf
<1> QED
  BY <1>5, <1>6

\* InOrder lists the numbers of S up to n, in order.
LEMMA InOrderIs ==
    ASSUME NEW S, NEW n \in Nat
    PROVE  /\ InOrder(S, n) \in Seq(S \cap 1..n)
           /\ Ascending(InOrder(S, n))
           /\ ToSet(InOrder(S, n)) = S \cap 1..n
<1> DEFINE f == OrderOf(S, n)
           T == {k \in 0..n : /\ f[k] \in Seq(S \cap 1..k)
                              /\ Ascending(f[k])
                              /\ \A m \in S \cap 1..k : \E l \in DOMAIN f[k] : f[k][l] = m}
<1>0. /\ InOrder(S, n) = f[n]
      /\ \A k \in 0..n : f[k] = IF k = 0 THEN <<>>
                                ELSE IF k \in S THEN Append(f[k - 1], k) ELSE f[k - 1]
  <2>1. IsOrder(S, n, f) /\ InOrder(S, n) = f[n]
    BY OrderExists
  <2> HIDE DEF f
  <2> QED
    BY <2>1 DEF IsOrder
<1> HIDE DEF f
<1>1. 0 \in T
  <2>1. f[0] = <<>> /\ 0 \in 0..n /\ 1..0 = {}
    BY <1>0
  <2>2. <<>> \in Seq(S \cap 1..0) /\ Ascending(<<>>)
    BY DEF Ascending
  <2> QED
    BY <2>1, <2>2
<1>2. ASSUME NEW k \in 0..n, k \in T, k < n PROVE k + 1 \in T
  <2>1. /\ k + 1 \in 0..n /\ (k + 1) - 1 = k /\ k + 1 # 0 /\ k \in Nat
        /\ 1..(k + 1) = (1..k) \cup {k + 1}
    BY <1>2
  <2>2. PICK q : q = f[k]
    OBVIOUS
  <2>3. /\ q \in Seq(S \cap 1..k) /\ Ascending(q) 
        /\ \A m \in S \cap 1..k : \E l \in DOMAIN q : q[l] = m
    BY <1>2, <2>2
  <2>4. CASE k + 1 \in S
    <3>1. f[k + 1] = Append(q, k + 1)
      BY <1>0, <2>1, <2>2, <2>4
    <3>2. PICK r : r = f[k + 1]
      OBVIOUS
    <3>3. /\ Len(q) \in Nat /\ DOMAIN q = 1..Len(q) /\ DOMAIN r = 1..(Len(q) + 1)
          /\ \A l \in 1..Len(q) : r[l] = q[l] /\ q[l] \in S \cap 1..k
          /\ r[Len(q) + 1] = k + 1
      BY <2>1, <2>3, <3>1, <3>2
    <3>4. r \in Seq(S \cap 1..(k + 1))
      BY <2>1, <2>3, <2>4, <3>1, <3>2
    <3>5. Ascending(r)
      <4> SUFFICES ASSUME NEW a \in DOMAIN r, NEW b \in DOMAIN r, a < b PROVE r[a] < r[b]
        BY DEF Ascending
      <4>1. a \in 1..Len(q) /\ r[a] = q[a] /\ q[a] \in 1..k
        BY <3>3
      <4>2. CASE b \in 1..Len(q)
        BY <2>3, <3>3, <4>1, <4>2 DEF Ascending
      <4>3. CASE b = Len(q) + 1
        BY <2>1, <3>3, <4>1, <4>3
      <4> QED
        BY <3>3, <4>2, <4>3
    <3>6. ASSUME NEW m \in S \cap 1..(k + 1) PROVE \E l \in DOMAIN r : r[l] = m
      <4>1. CASE m = k + 1
        BY <3>3, <4>1
      <4>2. CASE m # k + 1
        <5>1. PICK l \in DOMAIN q : q[l] = m
          BY <2>1, <2>3, <4>2
        <5> QED
          BY <3>3, <5>1
      <4> QED
        BY <4>1, <4>2
    <3> QED
      BY <2>1, <3>2, <3>4, <3>5, <3>6
  <2>5. CASE k + 1 \notin S
    <3>1. f[k + 1] = q
      BY <1>0, <2>1, <2>2, <2>5
    <3>2. S \cap 1..(k + 1) = S \cap 1..k
      BY <2>1, <2>5
    <3> QED
      BY <2>1, <2>3, <3>1, <3>2
  <2> QED
    BY <2>4, <2>5
<1>3. n \in T
  <2> HIDE DEF T
  <2> QED
    BY <1>1, <1>2, UpTo
<1> QED
  BY <1>0, <1>3 DEF ToSet

\* The widgets at some places of a list are those at the places, one by one, in order.
LEMMA ThoseAre ==
    ASSUME NEW list, list \in Seq(ToSet(list)), NEW places, places \subseteq DOMAIN list
    PROVE  \E q \in Seq(places) :
              /\ Ascending(q) /\ ToSet(q) = places
              /\ Those(list, places) = [k \in 1..Len(q) |-> list[q[k]]]
<1> DEFINE q == InOrder(places, Len(list))
<1>1. Len(list) \in Nat /\ DOMAIN list = 1..Len(list)
  OBVIOUS
<1>2. q \in Seq(places \cap 1..Len(list)) /\ Ascending(q) /\ ToSet(q) = places \cap 1..Len(list)
  BY <1>1, InOrderIs
<1>3. places \cap 1..Len(list) = places
  BY <1>1
<1>4. Those(list, places) = [k \in DOMAIN q |-> list[q[k]]]
  BY DEF Those, WidgetsAt
<1> HIDE DEF q
<1>5. q \in Seq(places) /\ DOMAIN q = 1..Len(q)
  BY <1>2, <1>3
<1> QED
  BY <1>2, <1>3, <1>4, <1>5

\* They are all there, in the order of the list, and there is nothing else.
LEMMA ThoseList ==
    ASSUME NEW list, list \in Seq(ToSet(list)), NEW places, places \subseteq DOMAIN list
    PROVE  /\ Those(list, places) \in Seq(ToSet(Those(list, places)))
           /\ ToSet(Those(list, places)) = {list[k] : k \in places}
           /\ ToSet(IdList(Those(list, places))) = {list[k].id : k \in places}
           /\ DOMAIN IdList(Those(list, places)) = DOMAIN Those(list, places)
           /\ \A W : (\A k \in places : list[k].id \in W) => IdList(Those(list, places)) \in Seq(W)
           /\ (\A k, l \in places : list[k].id = list[l].id => k = l)
                 => IsInjective(IdList(Those(list, places)))
<1> DEFINE those == Those(list, places)
<1>1. PICK q \in Seq(places) : /\ Ascending(q) /\ ToSet(q) = places
                               /\ those = [k \in 1..Len(q) |-> list[q[k]]]
  BY ThoseAre
<1> HIDE DEF those
<1>2. PICK n \in Nat : n = Len(q) /\ DOMAIN q = 1..n
  OBVIOUS
<1>3. DOMAIN those = 1..n /\ \A k \in 1..n : those[k] = list[q[k]] /\ q[k] \in places
  BY <1>1, <1>2
<1>4. \A p \in places : \E k \in 1..n : q[k] = p
  BY <1>1, <1>2 DEF ToSet
<1>5. ToSet(those) = {list[k] : k \in places}
  <2>1. \A p \in places : list[p] \in {those[k] : k \in 1..n}
    BY <1>3, <1>4
  <2>2. {those[k] : k \in 1..n} = {list[k] : k \in places}
    BY <1>3, <2>1
  <2> QED
    BY <1>3, <2>2 DEF ToSet
<1>6. those = [k \in 1..n |-> those[k]] /\ \A k \in 1..n : those[k] \in ToSet(those)
  BY <1>1, <1>2, <1>3 DEF ToSet
<1>7. those \in Seq(ToSet(those))
  <2>1. PICK W : W = ToSet(those)
    OBVIOUS
  <2>2. those \in [1..n -> W]
    BY <1>6, <2>1
  <2>3. \A f \in [1..n -> W] : f \in Seq(W)
    OBVIOUS
  <2>4. those \in Seq(W)
    BY <2>2, <2>3
  <2> QED
    BY <2>1, <2>4
<1>8. /\ IdList(those) = [k \in 1..n |-> those[k].id]
      /\ \A k \in 1..n : IdList(those)[k] = list[q[k]].id
  BY <1>3 DEF IdList
<1>9. ToSet(IdList(those)) = {list[k].id : k \in places}
  <2>1. \A p \in places : list[p].id \in {IdList(those)[k] : k \in 1..n}
    <3> SUFFICES ASSUME NEW p \in places PROVE \E k \in 1..n : list[p].id = IdList(those)[k]
      OBVIOUS
    <3>1. PICK k \in 1..n : q[k] = p
      BY <1>4
    <3> QED
      BY <1>8, <3>1
  <2>2. \A k \in 1..n : IdList(those)[k] \in {list[p].id : p \in places}
    BY <1>3, <1>8
  <2>3. ToSet(IdList(those)) = {IdList(those)[k] : k \in 1..n}
    BY <1>8 DEF ToSet
  <2> QED
    BY <2>1, <2>2, <2>3
<1>10. ASSUME NEW W, \A k \in places : list[k].id \in W PROVE IdList(those) \in Seq(W)
  BY <1>3, <1>8, <1>10
<1>11. ASSUME \A k, l \in places : list[k].id = list[l].id => k = l
       PROVE  IsInjective(IdList(those))
  <2> SUFFICES ASSUME NEW k \in 1..n, NEW l \in 1..n, IdList(those)[k] = IdList(those)[l]
               PROVE  k = l
    BY <1>8 DEF IsInjective
  <2>1. q[k] = q[l]
    BY <1>3, <1>8, <1>11
  <2>2. k \in Nat /\ l \in Nat /\ q[k] \in Nat
    BY <1>3
  <2>3. (k < l => q[k] < q[l]) /\ (l < k => q[l] < q[k])
    BY <1>1, <1>2 DEF Ascending
  <2> QED
    BY <2>1, <2>2, <2>3
<1> QED
  BY <1>3, <1>5, <1>7, <1>8, <1>9, <1>10, <1>11 DEF those

-----------------------------------------------------------------------------
(* Lists of children.                                                        *)

Kids(adjacency, n) == ToSet(Children(adjacency, n))

LEMMA EmptyList == ToSet(<<>>) = {} /\ IsInjective(<<>>) /\ \A N : <<>> \in Seq(N)
<1>1. DOMAIN <<>> = {}
  OBVIOUS
<1>2. \A N : <<>> \in Seq(N)
  OBVIOUS
<1>3. PICK e : e = <<>>
  OBVIOUS
<1>4. ToSet(e) = {} /\ IsInjective(e)
  BY <1>1, <1>3 DEF ToSet, IsInjective
<1> QED
  BY <1>2, <1>3, <1>4

\* One list after the other has what both have, and nothing twice if they share nothing.
LEMMA ConcatIs ==
    ASSUME NEW N, NEW a \in Seq(N), NEW b \in Seq(N)
    PROVE  /\ a \o b \in Seq(N)
           /\ ToSet(a \o b) = ToSet(a) \cup ToSet(b)
           /\ IsInjective(a) /\ IsInjective(b) /\ ToSet(a) \cap ToSet(b) = {}
                 => IsInjective(a \o b)
<1> DEFINE c == a \o b
<1>1. PICK m \in Nat : m = Len(a) /\ DOMAIN a = 1..m
  OBVIOUS
<1>2. PICK n \in Nat : n = Len(b) /\ DOMAIN b = 1..n
  OBVIOUS
<1>3. /\ c \in Seq(N) /\ DOMAIN c = 1..(m + n)
      /\ \A k \in 1..m : c[k] = a[k]
      /\ \A k \in (m + 1)..(m + n) : c[k] = b[k - m]
  BY <1>1, <1>2
<1> HIDE DEF c
<1>4. \A k \in 1..(m + n) : k \in 1..m \/ (k \in (m + 1)..(m + n) /\ k - m \in 1..n)
  BY <1>1, <1>2
<1>5. \A k \in 1..n : c[k + m] = b[k] /\ k + m \in 1..(m + n)
  <2> SUFFICES ASSUME NEW k \in 1..n PROVE c[k + m] = b[k] /\ k + m \in 1..(m + n)
    OBVIOUS
  <2>1. k + m \in (m + 1)..(m + n) /\ (k + m) - m = k /\ k + m \in 1..(m + n)
    BY <1>1, <1>2
  <2> QED
    BY <1>3, <2>1
<1>6. ToSet(c) = ToSet(a) \cup ToSet(b)
  <2>1. \A k \in 1..(m + n) : c[k] \in ToSet(a) \cup ToSet(b)
    BY <1>1, <1>2, <1>3, <1>4 DEF ToSet
  <2>2. ToSet(c) \subseteq ToSet(a) \cup ToSet(b)
    BY <1>3, <2>1 DEF ToSet
  <2>3. \A k \in 1..m : k \in 1..(m + n)
    BY <1>1, <1>2
  <2>4. ToSet(a) \subseteq ToSet(c)
    BY <1>1, <1>3, <2>3 DEF ToSet
  <2>5. ToSet(b) \subseteq ToSet(c)
    <3>1. \A k \in 1..n : b[k] \in {c[l] : l \in 1..(m + n)}
      BY <1>5
    <3> QED
      BY <1>2, <1>3, <3>1 DEF ToSet
  <2> QED
    BY <2>2, <2>4, <2>5
<1>7. ASSUME IsInjective(a), IsInjective(b), ToSet(a) \cap ToSet(b) = {} PROVE IsInjective(c)
  <2> SUFFICES ASSUME NEW k \in 1..(m + n), NEW l \in 1..(m + n), c[k] = c[l] PROVE k = l
    BY <1>3 DEF IsInjective
  <2>1. CASE k \in 1..m /\ l \in 1..m
    BY <1>1, <1>3, <1>7, <2>1 DEF IsInjective
  <2>2. CASE k \in 1..m /\ l \notin 1..m
    <3>1. a[k] = b[l - m] /\ l - m \in 1..n
      BY <1>3, <1>4, <2>2
    <3> QED
      BY <1>1, <1>2, <1>7, <2>2, <3>1 DEF ToSet
  <2>3. CASE k \notin 1..m /\ l \in 1..m
    <3>1. a[l] = b[k - m] /\ k - m \in 1..n
      BY <1>3, <1>4, <2>3
    <3> QED
      BY <1>1, <1>2, <1>7, <2>3, <3>1 DEF ToSet
  <2>4. CASE k \notin 1..m /\ l \notin 1..m
    <3>1. b[k - m] = b[l - m] /\ k - m \in 1..n /\ l - m \in 1..n
      BY <1>3, <1>4, <2>4
    <3>2. k - m = l - m
      BY <1>2, <1>7, <3>1 DEF IsInjective
    <3> QED
      BY <1>1, <3>2
  <2> QED
    BY <2>1, <2>2, <2>3, <2>4
<1> QED
  BY <1>3, <1>6, <1>7 DEF c

\* adjacency[n].extend(children) changes the list of n only.
LEMMA ExtendIs ==
    ASSUME NEW adjacency, NEW n, NEW children
    PROVE  \A m : Children(Extend(adjacency, n, children), m) =
                     IF m = n THEN Children(adjacency, n) \o children ELSE Children(adjacency, m)
BY DEF Children, Extend

\* A merge appends to every list.
LEMMA MergeIs ==
    ASSUME NEW N, NEW a, NEW b,
           \A n : Children(a, n) \in Seq(N) /\ Children(b, n) \in Seq(N)
    PROVE  \A n : Children(Merge(a, b), n) = Children(a, n) \o Children(b, n)
<1> SUFFICES ASSUME NEW n PROVE Children(Merge(a, b), n) = Children(a, n) \o Children(b, n)
  OBVIOUS
<1>1. CASE n \in DOMAIN a \cup DOMAIN b
  BY <1>1 DEF Children, Merge
<1>2. CASE n \notin DOMAIN a \cup DOMAIN b
  <2>1. Children(a, n) = <<>> /\ Children(b, n) = <<>> /\ Children(Merge(a, b), n) = <<>>
    BY <1>2 DEF Children, Merge
  <2> QED
    BY <2>1
<1> QED
  BY <1>1, <1>2

\* What a table assigns, and what it appends to the list of its parent.
LEMMA ExpandIs ==
    ASSUME NEW adjacency, NEW table
    PROVE  \A n : Children(ExpandTable(adjacency, table), n) =
                     IF n \in ToSet(RowsOf(table)) THEN SlotsOf(table, n[2])
                     ELSE IF n = table.id THEN RowsOf(table)
                     ELSE IF n = table.parent THEN Children(adjacency, n) \o <<table.id>>
                     ELSE Children(adjacency, n)
<1> DEFINE rows == ToSet(RowsOf(table))
           extended == Extend(adjacency, table.parent, <<table.id>>)
<1> SUFFICES ASSUME NEW n
             PROVE  Children(ExpandTable(adjacency, table), n) =
                       IF n \in rows THEN SlotsOf(table, n[2])
                       ELSE IF n = table.id THEN RowsOf(table)
                       ELSE IF n = table.parent THEN Children(adjacency, n) \o <<table.id>>
                       ELSE Children(adjacency, n)
  OBVIOUS
<1>1. Children(extended, n) = IF n = table.parent THEN Children(adjacency, n) \o <<table.id>>
                              ELSE Children(adjacency, n)
  <2> DEFINE p == table.parent
             ids == <<table.id>>
  <2>1. extended = Extend(adjacency, p, ids)
    OBVIOUS
  <2> HIDE DEF p, ids, extended
  <2>2. \A m : Children(extended, m) = IF m = p THEN Children(adjacency, p) \o ids
                                       ELSE Children(adjacency, m)
    BY <2>1, ExtendIs
  <2> QED
    BY <2>2 DEF p, ids
<1>2. ExpandTable(adjacency, table) =
         [m \in rows \cup {table.id} \cup DOMAIN extended |->
            IF m \in rows THEN SlotsOf(table, m[2])
            ELSE IF m = table.id THEN RowsOf(table) ELSE extended[m]]
  BY DEF ExpandTable
<1> HIDE DEF rows, extended
<1>3. Children(ExpandTable(adjacency, table), n) =
         IF n \in rows THEN SlotsOf(table, n[2])
         ELSE IF n = table.id THEN RowsOf(table) ELSE Children(extended, n)
  BY <1>2 DEF Children
<1> QED
  BY <1>1, <1>3

-----------------------------------------------------------------------------
(* What holds what.                                                          *)

\* The lists are lists of nodes, none twice in a list, and R has the pairs of a
\* node and one in its list.
ListsAre(adjacency, N, R) ==
    \A n : /\ Children(adjacency, n) \in Seq(N)
           /\ IsInjective(Children(adjacency, n))
           /\ \A c : c \in Kids(adjacency, n) <=> <<n, c>> \in R

OneHolder(R) == \A m, n, c : <<m, c>> \in R /\ <<n, c>> \in R => m = n

\* Nodes that were in no list are put into one.
LEMMA ExtendLists ==
    ASSUME NEW adjacency, NEW N, NEW R, ListsAre(adjacency, N, R), OneHolder(R),
           NEW n, NEW children \in Seq(N), IsInjective(children),
           NEW S, \A m, c : <<m, c>> \in S
                               <=> <<m, c>> \in R \/ (m = n /\ c \in ToSet(children)),
           \A m : \A c \in ToSet(children) : <<m, c>> \notin R
    PROVE  ListsAre(Extend(adjacency, n, children), N, S) /\ OneHolder(S)
<1> DEFINE after == Extend(adjacency, n, children)
<1>1. /\ Children(adjacency, n) \in Seq(N) /\ IsInjective(Children(adjacency, n))
      /\ Children(after, n) = Children(adjacency, n) \o children
      /\ \A m : m # n => Children(after, m) = Children(adjacency, m)
  BY ExtendIs DEF ListsAre
<1>2. ToSet(Children(adjacency, n)) \cap ToSet(children) = {}
  BY DEF ListsAre, Kids
<1>3. PICK q : q = Children(adjacency, n)
  OBVIOUS
<1>4. /\ Children(after, n) \in Seq(N) /\ IsInjective(Children(after, n))
      /\ Kids(after, n) = Kids(adjacency, n) \cup ToSet(children)
  <2>1. /\ q \o children \in Seq(N) /\ IsInjective(q \o children)
        /\ ToSet(q \o children) = ToSet(q) \cup ToSet(children)
    BY <1>1, <1>2, <1>3, ConcatIs
  <2> QED
    BY <1>1, <1>3, <2>1 DEF Kids
<1> HIDE DEF after
<1>5. ListsAre(after, N, S)
  <2> SUFFICES ASSUME NEW m
               PROVE  /\ Children(after, m) \in Seq(N) /\ IsInjective(Children(after, m))
                      /\ \A c : c \in Kids(after, m) <=> <<m, c>> \in S
    BY DEF ListsAre
  <2>1. CASE m = n
    BY <1>4, <2>1 DEF ListsAre
  <2>2. CASE m # n
    BY <1>1, <2>2 DEF ListsAre, Kids
  <2> QED
    BY <2>1, <2>2
<1>6. OneHolder(S)
  BY DEF OneHolder
<1> QED
  BY <1>5, <1>6 DEF after

\* Lists of different nodes are merged.
LEMMA MergeLists ==
    ASSUME NEW N, NEW a, NEW R, ListsAre(a, N, R), OneHolder(R),
           NEW b, NEW S, ListsAre(b, N, S), OneHolder(S),
           \A m, n, c : <<m, c>> \in R => <<n, c>> \notin S
    PROVE  ListsAre(Merge(a, b), N, R \cup S) /\ OneHolder(R \cup S)
<1>1. \A n : Children(a, n) \in Seq(N) /\ Children(b, n) \in Seq(N)
  BY DEF ListsAre
<1>2. \A n : Children(Merge(a, b), n) = Children(a, n) \o Children(b, n)
  BY <1>1, MergeIs
<1>3. ASSUME NEW n
      PROVE  /\ Children(Merge(a, b), n) \in Seq(N) /\ IsInjective(Children(Merge(a, b), n))
             /\ \A c : c \in Kids(Merge(a, b), n) <=> <<n, c>> \in R \cup S
  <2>1. PICK p : p = Children(a, n)
    OBVIOUS
  <2>2. PICK q : q = Children(b, n)
    OBVIOUS
  <2>3. /\ p \in Seq(N) /\ q \in Seq(N) /\ IsInjective(p) /\ IsInjective(q)
        /\ \A c : (c \in ToSet(p) <=> <<n, c>> \in R) /\ (c \in ToSet(q) <=> <<n, c>> \in S)
    BY <2>1, <2>2 DEF ListsAre, Kids
  <2>4. ToSet(p) \cap ToSet(q) = {}
    BY <2>3
  <2>5. p \o q \in Seq(N) /\ ToSet(p \o q) = ToSet(p) \cup ToSet(q) /\ IsInjective(p \o q)
    BY <2>3, <2>4, ConcatIs
  <2>6. Children(Merge(a, b), n) = p \o q
    BY <1>2, <2>1, <2>2
  <2> QED
    BY <2>3, <2>5, <2>6 DEF Kids
<1>4. ListsAre(Merge(a, b), N, R \cup S)
  BY <1>3 DEF ListsAre
<1>5. OneHolder(R \cup S)
  BY DEF OneHolder
<1> QED
  BY <1>4, <1>5

-----------------------------------------------------------------------------
(* The nodes of a board, and its tables.                                     *)

BoardNodes(ws) == IdsOf(ws) \cup RowNodes(ws) \cup SlotNodes(ws)

\* Table t holds its rows and its slots, and its parent holds it.
HeldBy(t, n, c) ==
    \/ n = t.parent /\ c = t.id
    \/ n = t.id /\ c \in ToSet(RowsOf(t))
    \/ \E r \in ToSet(t.rows) : n = RowId(r) /\ c \in ToSet(SlotsOf(t, r))

TablePairs(t) ==
    {<<t.parent, t.id>>} \cup ({t.id} \X ToSet(RowsOf(t)))
        \cup UNION {{RowId(r)} \X ToSet(SlotsOf(t, r)) : r \in ToSet(t.rows)}

LEMMA TablePairsAre == \A t, n, c : <<n, c>> \in TablePairs(t) <=> HeldBy(t, n, c)
BY DEF TablePairs, HeldBy

PairsOf(tables) == UNION {TablePairs(t) : t \in tables}

LEMMA PairsOfAre ==
    \A T, n, c : <<n, c>> \in PairsOf(T) <=> \E t \in T : HeldBy(t, n, c)
BY TablePairsAre DEF PairsOf

LEMMA SlotsAre ==
    ASSUME NEW t, NEW r, NEW c \in ToSet(SlotsOf(t, r))
    PROVE  c[1] = "slot" /\ c[2] = r /\ c = SlotId(r, c[3])
<1>1. PICK d : c = SlotId(r, d)
  BY DEF SlotsOf, ToSet
<1> QED
  BY <1>1 DEF SlotId

\* The rows of a table, and the slots of a row, are nodes.
LEMMA TableNodes ==
    ASSUME NEW ws, IsBoard(ws), NEW t \in Tables(ws)
    PROVE  /\ RowsOf(t) \in Seq(BoardNodes(ws)) /\ IsInjective(RowsOf(t))
           /\ \A c \in ToSet(RowsOf(t)) : \E r \in ToSet(t.rows) : c = RowId(r)
           /\ \A n \in ToSet(RowsOf(t)) :
                 /\ SlotsOf(t, n[2]) \in Seq(BoardNodes(ws)) /\ IsInjective(SlotsOf(t, n[2]))
                 /\ \A c \in ToSet(SlotsOf(t, n[2])) : \E d : c = SlotId(n[2], d)
<1>1. /\ t.rows \in Seq(ToSet(t.rows)) /\ IsInjective(t.rows)
      /\ t.columns \in Seq(ToSet(t.columns)) /\ IsInjective(t.columns)
  BY DEF IsBoard
<1>2. /\ RowsOf(t) = [k \in DOMAIN t.rows |-> RowId(t.rows[k])]
      /\ \A r : SlotsOf(t, r) = [k \in DOMAIN t.columns |-> SlotId(r, t.columns[k])]
  BY DEF RowsOf, SlotsOf
<1>3. PICK m \in Nat : DOMAIN t.rows = 1..m
  BY <1>1
<1>4. PICK n \in Nat : DOMAIN t.columns = 1..n
  BY <1>1
<1>5. \A k \in 1..m : RowId(t.rows[k]) \in BoardNodes(ws)
  <2>1. \A k \in 1..m : RowId(t.rows[k]) \in ToSet(RowsOf(t))
    BY <1>2, <1>3 DEF ToSet
  <2> QED
    BY <2>1 DEF BoardNodes, RowNodes
<1>6. RowsOf(t) \in Seq(BoardNodes(ws))
  BY <1>2, <1>3, <1>5
<1>7. IsInjective(RowsOf(t))
  BY <1>1, <1>2 DEF IsInjective, RowId
<1>8. \A c \in ToSet(RowsOf(t)) : \E r \in ToSet(t.rows) : c = RowId(r)
  BY <1>2 DEF ToSet
<1>9. ASSUME NEW c \in ToSet(RowsOf(t))
      PROVE  /\ SlotsOf(t, c[2]) \in Seq(BoardNodes(ws)) /\ IsInjective(SlotsOf(t, c[2]))
             /\ \A s \in ToSet(SlotsOf(t, c[2])) : \E d : s = SlotId(c[2], d)
  <2>1. PICK r \in ToSet(t.rows) : c = RowId(r)
    BY <1>8
  <2>2. c[2] = r
    BY <2>1 DEF RowId
  <2>3. \A k \in 1..n : SlotId(r, t.columns[k]) \in BoardNodes(ws)
    <3>1. \A k \in 1..n : SlotId(r, t.columns[k]) \in ToSet(SlotsOf(t, r))
      BY <1>2, <1>4 DEF ToSet
    <3> QED
      BY <3>1 DEF BoardNodes, SlotNodes
  <2>4. SlotsOf(t, r) \in Seq(BoardNodes(ws))
    BY <1>2, <1>4, <2>3
  <2>5. IsInjective(SlotsOf(t, r))
    BY <1>1, <1>2 DEF IsInjective, SlotId
  <2>6. \A s \in ToSet(SlotsOf(t, r)) : \E d : s = SlotId(r, d)
    BY <1>2 DEF ToSet
  <2> QED
    BY <2>2, <2>4, <2>5, <2>6
<1> QED
  BY <1>6, <1>7, <1>8, <1>9

\* What a board's list is made of.
LEMMA BoardIs ==
    ASSUME NEW ws, IsBoard(ws)
    PROVE  /\ Len(ws) \in Nat /\ DOMAIN ws = 1..Len(ws) /\ ws \in Seq(ToSet(ws))
           /\ \A w \in ToSet(ws) :
                 /\ w.id \in IdsOf(ws) /\ w.id[1] = "widget"
                 /\ w.parent = Root \/ w.parent[1] = "widget"
                 /\ \E k \in DOMAIN ws : w = ws[k]
           /\ \A v, w \in ToSet(ws) : v.id = w.id => v = w
           /\ \A k \in DOMAIN ws : ws[k] \in ToSet(ws)
           /\ \A k, l \in DOMAIN ws : ws[k].id = ws[l].id => k = l
<1>1. \A w \in ToSet(ws) : \E k \in DOMAIN ws : w = ws[k]
  BY DEF ToSet
<1>2. ws \in Seq(ToSet(ws)) /\ \A k, l \in DOMAIN ws : ws[k].id = ws[l].id => k = l
  BY DEF IsBoard
<1>3. Len(ws) \in Nat /\ DOMAIN ws = 1..Len(ws)
  <2> DEFINE W == ToSet(ws)
  <2>1. ws \in Seq(W)
    BY <1>2
  <2> HIDE DEF W
  <2> QED
    BY <2>1
<1>4. \A w \in ToSet(ws) : w.id \in IdsOf(ws)
  BY <1>1 DEF IdsOf
<1>5. \A w \in ToSet(ws) : w.id[1] = "widget" /\ (w.parent = Root \/ w.parent[1] = "widget")
  BY DEF IsBoard
<1>6. \A k \in DOMAIN ws : ws[k] \in ToSet(ws)
  BY DEF ToSet
<1> QED
  BY <1>1, <1>2, <1>3, <1>4, <1>5, <1>6

\* A widget, a row or a slot, each with a holder of its own kind.
LEMMA HeldIs ==
    ASSUME NEW ws, IsBoard(ws), NEW t \in Tables(ws), NEW n, NEW c, HeldBy(t, n, c)
    PROVE  /\ c \in BoardNodes(ws)
           /\ \/ n = t.parent /\ c = t.id /\ c[1] = "widget"
              \/ n = t.id /\ n[1] = "widget" /\ c[1] = "row" /\ c \in ToSet(RowsOf(t))
                 /\ c[2] \in ToSet(t.rows)
              \/ n[1] = "row" /\ c[1] = "slot" /\ n \in ToSet(RowsOf(t)) /\ n = RowId(c[2])
                 /\ c[2] \in ToSet(t.rows)
<1>1. t \in ToSet(ws) /\ IsTable(t)
  BY DEF Tables
<1>2. t.id \in IdsOf(ws) /\ t.id[1] = "widget"
  BY <1>1, BoardIs
<1>3. CASE n = t.parent /\ c = t.id
  BY <1>2, <1>3 DEF BoardNodes
<1>4. CASE n = t.id /\ c \in ToSet(RowsOf(t))
  <2>1. PICK r \in ToSet(t.rows) : c = RowId(r)
    BY <1>4, TableNodes
  <2>2. c \in RowNodes(ws)
    BY <1>4 DEF RowNodes
  <2> QED
    BY <1>2, <1>4, <2>1, <2>2 DEF BoardNodes, RowId
<1>5. ASSUME NEW r \in ToSet(t.rows), n = RowId(r), c \in ToSet(SlotsOf(t, r))
      PROVE  /\ c \in SlotNodes(ws) /\ n[1] = "row" /\ c[1] = "slot" /\ n \in ToSet(RowsOf(t))
             /\ n = RowId(c[2]) /\ c[2] \in ToSet(t.rows)
  <2>1. n \in ToSet(RowsOf(t))
    BY <1>5 DEF RowsOf, ToSet
  <2>2. n[1] = "row" /\ n[2] = r
    BY <1>5 DEF RowId
  <2>3. PICK d : c = SlotId(r, d)
    BY <1>5 DEF SlotsOf, ToSet
  <2> QED
    BY <1>5, <2>1, <2>2, <2>3 DEF SlotNodes, SlotId
<1> QED
  BY <1>3, <1>4, <1>5 DEF HeldBy, BoardNodes

\* A table, a row or a slot is held by one node only.
LEMMA TablesOneHolder ==
    ASSUME NEW ws, IsBoard(ws), NEW T, T \subseteq Tables(ws)
    PROVE  OneHolder(PairsOf(T))
<1> SUFFICES ASSUME NEW m, NEW n, NEW c, <<m, c>> \in PairsOf(T), <<n, c>> \in PairsOf(T)
             PROVE  m = n
  BY DEF OneHolder
<1>1. PICK s \in T : HeldBy(s, m, c)
  BY PairsOfAre
<1>2. PICK t \in T : HeldBy(t, n, c)
  BY PairsOfAre
<1>3. s \in Tables(ws) /\ t \in Tables(ws) /\ s \in ToSet(ws) /\ t \in ToSet(ws)
  BY DEF Tables
<1>4. s # t => s.id # t.id /\ ToSet(s.rows) \cap ToSet(t.rows) = {}
  BY <1>3, BoardIs DEF IsBoard
<1>5. \/ m = s.parent /\ c = s.id /\ c[1] = "widget"
      \/ m = s.id /\ c[1] = "row" /\ c[2] \in ToSet(s.rows)
      \/ c[1] = "slot" /\ m = RowId(c[2])
  BY <1>1, <1>3, HeldIs
<1>6. \/ n = t.parent /\ c = t.id /\ c[1] = "widget"
      \/ n = t.id /\ c[1] = "row" /\ c[2] \in ToSet(t.rows)
      \/ c[1] = "slot" /\ n = RowId(c[2])
  BY <1>2, <1>3, HeldIs
<1> QED
  BY <1>4, <1>5, <1>6

\* One more table is expanded.
LEMMA ExpandLists ==
    ASSUME NEW ws, IsBoard(ws), NEW t \in Tables(ws), NEW T, T \subseteq Tables(ws), t \notin T,
           NEW adjacency, ListsAre(adjacency, BoardNodes(ws), PairsOf(T))
    PROVE  ListsAre(ExpandTable(adjacency, t), BoardNodes(ws), PairsOf(T \cup {t}))
<1> DEFINE N == BoardNodes(ws)
           after == ExpandTable(adjacency, t)
<1>1. t \in ToSet(ws) /\ t.id \in N /\ t.id[1] = "widget" /\ (t.parent = Root \/ t.parent[1] = "widget")
  BY BoardIs DEF Tables, BoardNodes
<1>2. \A s \in T : /\ s \in ToSet(ws) /\ s \in Tables(ws) /\ s.id # t.id /\ s.parent # t.id
                   /\ ToSet(s.rows) \cap ToSet(t.rows) = {}
                   /\ s.parent = Root \/ s.parent[1] = "widget"
  BY <1>1, BoardIs DEF IsBoard, Tables
<1>3. t.parent # t.id
  BY DEF IsBoard
<1>4. \A n, c : <<n, c>> \in PairsOf(T \cup {t}) <=> (\E s \in T : HeldBy(s, n, c)) \/ HeldBy(t, n, c)
  <2> TAKE n, c
  <2>1. <<n, c>> \in PairsOf(T \cup {t}) <=> \E s \in T \cup {t} : HeldBy(s, n, c)
    BY PairsOfAre
  <2> QED
    BY <2>1
<1> SUFFICES ASSUME NEW n
             PROVE  /\ Children(after, n) \in Seq(N) /\ IsInjective(Children(after, n))
                    /\ \A c : c \in Kids(after, n)
                                <=> (\E s \in T : HeldBy(s, n, c)) \/ HeldBy(t, n, c)
  BY <1>4 DEF ListsAre
<1>5. Children(after, n) = IF n \in ToSet(RowsOf(t)) THEN SlotsOf(t, n[2])
                           ELSE IF n = t.id THEN RowsOf(t)
                           ELSE IF n = t.parent THEN Children(adjacency, n) \o <<t.id>>
                           ELSE Children(adjacency, n)
  BY ExpandIs
<1>6. /\ Children(adjacency, n) \in Seq(N) /\ IsInjective(Children(adjacency, n))
      /\ \A c : c \in Kids(adjacency, n) <=> \E s \in T : HeldBy(s, n, c)
  BY PairsOfAre DEF ListsAre
<1> HIDE DEF after
<1>7. CASE n \in ToSet(RowsOf(t))
  <2>1. PICK r \in ToSet(t.rows) : n = RowId(r)
    BY <1>7, TableNodes
  <2>2. n[1] = "row" /\ n[2] = r
    BY <2>1 DEF RowId
  <2>3. \A c : ~ \E s \in T : HeldBy(s, n, c)
    <3> SUFFICES ASSUME NEW c, NEW s \in T, HeldBy(s, n, c) PROVE FALSE
      OBVIOUS
    <3>1. n = RowId(c[2]) /\ c[2] \in ToSet(s.rows)
      BY <1>2, <2>1, <2>2, HeldIs DEF Root, RowId
    <3>2. c[2] = r
      BY <2>1, <3>1 DEF RowId
    <3> QED
      BY <1>2, <3>1, <3>2
  <2>4. \A c : HeldBy(t, n, c) <=> c \in ToSet(SlotsOf(t, r))
    BY <1>1, <2>1, <2>2 DEF HeldBy, RowId, Root
  <2>5. Children(after, n) = SlotsOf(t, n[2])
    BY <1>5, <1>7
  <2> QED
    BY <1>7, <2>2, <2>3, <2>4, <2>5, TableNodes DEF Kids
<1>8. CASE n = t.id
  <2>1. n \notin ToSet(RowsOf(t))
    BY <1>1, <1>8, TableNodes DEF RowId
  <2>2. \A c : ~ \E s \in T : HeldBy(s, n, c)
    BY <1>1, <1>2, <1>8 DEF HeldBy, RowId
  <2>3. \A c : HeldBy(t, n, c) <=> c \in ToSet(RowsOf(t))
    BY <1>1, <1>3, <1>8 DEF HeldBy, RowId
  <2> QED
    BY <1>5, <1>8, <2>1, <2>2, <2>3, TableNodes DEF Kids
<1>9. CASE n = t.parent /\ n # t.id /\ n \notin ToSet(RowsOf(t))
  <2>1. Children(after, n) = Children(adjacency, n) \o <<t.id>>
    BY <1>5, <1>9
  <2>2. ~ \E s \in T : HeldBy(s, n, t.id)
    <3> SUFFICES ASSUME NEW s \in T, HeldBy(s, n, t.id) PROVE FALSE
      OBVIOUS
    <3> QED
      BY <1>1, <1>2, HeldIs
  <2>3. PICK q : q = Children(adjacency, n)
    OBVIOUS
  <2>4. PICK one : one = <<t.id>>
    OBVIOUS
  <2>5. one \in Seq(N) /\ IsInjective(one) /\ ToSet(one) = {t.id}
    BY <1>1, <2>4 DEF IsInjective, ToSet
  <2>6. q \in Seq(N) /\ IsInjective(q) /\ ToSet(q) \cap ToSet(one) = {}
    BY <1>6, <2>2, <2>3, <2>5 DEF Kids
  <2>7. /\ q \o one \in Seq(N) /\ IsInjective(q \o one)
        /\ ToSet(q \o one) = ToSet(q) \cup {t.id}
    BY <2>5, <2>6, ConcatIs
  <2>8. \A c : HeldBy(t, n, c) <=> c = t.id
    BY <1>9, <1>1 DEF HeldBy, RowId, Root
  <2> QED
    BY <1>6, <2>1, <2>3, <2>4, <2>7, <2>8 DEF Kids
<1>10. CASE n # t.parent /\ n # t.id /\ n \notin ToSet(RowsOf(t))
  <2>1. \A c : ~ HeldBy(t, n, c)
    BY <1>10, HeldIs
  <2> QED
    BY <1>5, <1>6, <1>10, <2>1 DEF Kids
<1> QED
  BY <1>7, <1>8, <1>9, <1>10

\* The equation of the recursive function of TableAdjacency, and the function.
IsExpanded(ws, n, f) ==
    f = [k \in 0..n |-> IF k = 0 THEN NoChildren
                        ELSE IF IsTable(ws[k]) THEN ExpandTable(f[k - 1], ws[k])
                        ELSE f[k - 1]]
Expanded(ws) ==
    CHOOSE f : f = [k \in 0..Len(ws) |-> IF k = 0 THEN NoChildren
                                         ELSE IF IsTable(ws[k]) THEN ExpandTable(f[k - 1], ws[k])
                                         ELSE f[k - 1]]

LEMMA ExpandedExists ==
    ASSUME NEW ws, NEW n \in Nat, Len(ws) = n
    PROVE  IsExpanded(ws, n, Expanded(ws)) /\ TableAdjacency(ws) = Expanded(ws)[n]
<1> DEFINE T == {k \in 0..n : \E f : IsExpanded(ws, k, f)}
           After(before, k) == IF IsTable(ws[k]) THEN ExpandTable(before, ws[k]) ELSE before
<1>1. 0 \in T
  <2> DEFINE f == [k \in 0..0 |-> NoChildren]
  <2>1. IsExpanded(ws, 0, f)
    BY DEF IsExpanded
  <2> QED
    BY <2>1
<1>2. ASSUME NEW m \in 0..n, m \in T, m < n PROVE m + 1 \in T
  <2>1. PICK f : IsExpanded(ws, m, f)
    BY <1>2
  <2> DEFINE g == [k \in 0..(m + 1) |-> IF k <= m THEN f[k] ELSE After(f[m], k)]
  <2> HIDE DEF After
  <2>2. \A k \in 0..m : f[k] = IF k = 0 THEN NoChildren ELSE After(f[k - 1], k)
    BY <2>1 DEF IsExpanded, After
  <2>3. ASSUME NEW k \in 0..(m + 1)
        PROVE  g[k] = IF k = 0 THEN NoChildren ELSE After(g[k - 1], k)
    <3>1. CASE k <= m
      <4>1. /\ k \in 0..m /\ g[k] = f[k]
            /\ k # 0 => k - 1 \in 0..(m + 1) /\ g[k - 1] = f[k - 1]
        BY <3>1
      <4> HIDE DEF g
      <4> QED
        BY <2>2, <4>1
    <3>2. CASE k = m + 1
      BY <3>2, <1>2
    <3> QED
      BY <3>1, <3>2, <1>2
  <2>4. g = [k \in 0..(m + 1) |-> IF k = 0 THEN NoChildren ELSE After(g[k - 1], k)]
    BY <2>3
  <2> HIDE DEF g
  <2>5. IsExpanded(ws, m + 1, g)
    BY <2>4 DEF IsExpanded, After
  <2>6. m + 1 \in 0..n
    BY <1>2
  <2> QED
    BY <2>5, <2>6
<1> HIDE DEF T, After
<1>3. n \in T
  <2>1. \A k \in 0..n : k \in T /\ k < n => k + 1 \in T
    BY <1>2
  <2>2. \A k \in 0..n : k \in T
    BY <1>1, <2>1, UpTo
  <2> QED
    BY <2>2
<1>4. PICK f : IsExpanded(ws, n, f)
  BY <1>3 DEF T
<1>5. IsExpanded(ws, n, Expanded(ws))
  BY <1>4 DEF IsExpanded, Expanded
<1>6. TableAdjacency(ws) = Expanded(ws)[n]
  BY DEF TableAdjacency, Expanded
<1> QED
  BY <1>5, <1>6

\* The tables' lists have the tables, their rows and their slots, and nothing else.
LEMMA TableAdjacencyIs ==
    ASSUME NEW ws, IsBoard(ws)
    PROVE  /\ ListsAre(TableAdjacency(ws), BoardNodes(ws), PairsOf(Tables(ws)))
           /\ OneHolder(PairsOf(Tables(ws)))
<1>1. PICK n \in Nat : n = Len(ws) /\ DOMAIN ws = 1..n
  BY BoardIs
<1> DEFINE f == Expanded(ws)
           Before(k) == {ws[j] : j \in {i \in 1..k : IsTable(ws[i])}}
           T == {k \in 0..n : ListsAre(f[k], BoardNodes(ws), PairsOf(Before(k)))}
<1>2. /\ TableAdjacency(ws) = f[n]
      /\ \A k \in 0..n : f[k] = IF k = 0 THEN NoChildren
                                ELSE IF IsTable(ws[k]) THEN ExpandTable(f[k - 1], ws[k])
                                ELSE f[k - 1]
  <2>1. IsExpanded(ws, n, f) /\ TableAdjacency(ws) = f[n]
    BY <1>1, ExpandedExists
  <2> HIDE DEF f
  <2> QED
    BY <2>1 DEF IsExpanded
<1> HIDE DEF f
<1>3. \A k \in 0..n : Before(k) \subseteq Tables(ws)
  BY <1>1, BoardIs DEF Tables
<1>4. 0 \in T
  <2>1. f[0] = NoChildren /\ Before(0) = {} /\ 0 \in 0..n
    BY <1>2
  <2>2. PICK none : none = NoChildren
    OBVIOUS
  <2>3. \A m : Children(none, m) = <<>>
    BY <2>2 DEF Children, NoChildren
  <2>4. <<>> \in Seq(BoardNodes(ws)) /\ IsInjective(<<>>) /\ ToSet(<<>>) = {}
    BY EmptyList
  <2>5. \A m, c : <<m, c>> \notin PairsOf({})
    BY DEF PairsOf
  <2>6. ListsAre(none, BoardNodes(ws), PairsOf({}))
    BY <2>3, <2>4, <2>5 DEF ListsAre, Kids
  <2> QED
    BY <2>1, <2>2, <2>6
<1>5. ASSUME NEW k \in 0..n, k \in T, k < n PROVE k + 1 \in T
  <2>1. k + 1 \in 0..n /\ (k + 1) - 1 = k /\ k + 1 # 0 /\ 1..(k + 1) = (1..k) \cup {k + 1}
    BY <1>5
  <2>2. PICK adjacency : adjacency = f[k]
    OBVIOUS
  <2>3. ListsAre(adjacency, BoardNodes(ws), PairsOf(Before(k)))
    BY <1>5, <2>2
  <2>4. k + 1 \in DOMAIN ws
    BY <1>1, <2>1
  <2>5. CASE IsTable(ws[k + 1])
    <3>1. PICK t : t = ws[k + 1]
      OBVIOUS
    <3>2. f[k + 1] = ExpandTable(adjacency, t)
      BY <1>2, <2>1, <2>2, <2>5, <3>1
    <3>3. t \in Tables(ws)
      BY <2>4, <2>5, <3>1, BoardIs DEF Tables
    <3>4. t \notin Before(k)
      <4> SUFFICES ASSUME NEW j \in 1..k, ws[j] = t PROVE FALSE
        OBVIOUS
      <4>1. j \in DOMAIN ws /\ j # k + 1
        BY <1>1, <2>1
      <4> QED
        BY <2>4, <3>1, <4>1, BoardIs
    <3>5. Before(k + 1) = Before(k) \cup {t}
      BY <2>1, <2>5, <3>1
    <3>6. Before(k) \subseteq Tables(ws)
      BY <1>3
    <3>7. PICK before : before = Before(k)
      OBVIOUS
    <3> HIDE DEF Before
    <3>8. ListsAre(ExpandTable(adjacency, t), BoardNodes(ws), PairsOf(before \cup {t}))
      BY <2>3, <3>3, <3>4, <3>6, <3>7, ExpandLists
    <3> QED
      BY <2>1, <3>2, <3>5, <3>7, <3>8
  <2>6. CASE ~ IsTable(ws[k + 1])
    <3>1. f[k + 1] = adjacency
      BY <1>2, <2>1, <2>2, <2>6
    <3>2. Before(k + 1) = Before(k)
      BY <2>1, <2>6
    <3> QED
      BY <2>1, <2>3, <3>1, <3>2
  <2> QED
    BY <2>5, <2>6
<1>6. n \in T
  <2> HIDE DEF T
  <2> QED
    BY <1>4, <1>5, UpTo
<1>7. Before(n) = Tables(ws)
  <2>1. \A t \in Tables(ws) : \E k \in 1..n : t = ws[k] /\ IsTable(ws[k])
    BY <1>1, BoardIs DEF Tables
  <2>2. Tables(ws) \subseteq Before(n)
    BY <2>1
  <2> QED
    BY <1>3, <2>2
<1>8. OneHolder(PairsOf(Tables(ws)))
  BY TablesOneHolder
<1> QED
  BY <1>2, <1>6, <1>7, <1>8

-----------------------------------------------------------------------------
(* The grouping by parent_id.                                                *)

\* The lists have the widgets at some places, each in the list of its holder, and R
\* has the pairs of these.
HolderLists(ws, places, holder, adjacency) ==
    \A n : /\ n \in DOMAIN adjacency <=> \E k \in places : holder[k] = n
           /\ n \in DOMAIN adjacency =>
                 adjacency[n] = IdList(Those(ws, {k \in places : holder[k] = n}))
HolderPairs(ws, places, holder, R) ==
    \A n, c : <<n, c>> \in R <=> \E k \in places : n = holder[k] /\ c = ws[k].id

\* Widgets appended, one after the other, each to the list of its holder.
LEMMA AppendedIs ==
    ASSUME NEW ws, IsBoard(ws), NEW places, places \subseteq DOMAIN ws, NEW holder,
           NEW adjacency, HolderLists(ws, places, holder, adjacency),
           NEW R, HolderPairs(ws, places, holder, R)
    PROVE  ListsAre(adjacency, BoardNodes(ws), R) /\ OneHolder(R)
<1>1. /\ ws \in Seq(ToSet(ws))
      /\ \A k, l \in DOMAIN ws : ws[k].id = ws[l].id => k = l
      /\ \A k \in DOMAIN ws : ws[k].id \in BoardNodes(ws)
  BY BoardIs DEF BoardNodes
<1>2. ASSUME NEW n
      PROVE  /\ Children(adjacency, n) \in Seq(BoardNodes(ws)) /\ IsInjective(Children(adjacency, n))
             /\ \A c : c \in Kids(adjacency, n) <=> <<n, c>> \in R
  <2>1. CASE n \in DOMAIN adjacency
    <3> DEFINE P == {k \in places : holder[k] = n}
    <3>1. P \subseteq DOMAIN ws
      OBVIOUS
    <3>2. Children(adjacency, n) = IdList(Those(ws, P))
      BY <2>1 DEF Children, HolderLists
    <3>3. \A c : <<n, c>> \in R <=> c \in {ws[k].id : k \in P}
      BY DEF HolderPairs
    <3> HIDE DEF P
    <3>4. /\ IdList(Those(ws, P)) \in Seq(BoardNodes(ws)) /\ IsInjective(IdList(Those(ws, P)))
          /\ ToSet(IdList(Those(ws, P))) = {ws[k].id : k \in P}
      <4>1. \A k \in P : ws[k].id \in BoardNodes(ws)
        BY <1>1, <3>1
      <4>2. \A k, l \in P : ws[k].id = ws[l].id => k = l
        BY <1>1, <3>1
      <4> QED
        BY <1>1, <3>1, <4>1, <4>2, ThoseList
    <3> QED
      BY <3>2, <3>3, <3>4 DEF Kids
  <2>2. CASE n \notin DOMAIN adjacency
    <3>1. Children(adjacency, n) = <<>>
      BY <2>2 DEF Children
    <3>2. \A c : <<n, c>> \notin R
      BY <2>2 DEF HolderLists, HolderPairs
    <3> QED
      BY <3>1, <3>2, EmptyList DEF Kids
  <2> QED
    BY <2>1, <2>2
<1>3. OneHolder(R)
  BY <1>1 DEF OneHolder, HolderPairs
<1> QED
  BY <1>2, <1>3 DEF ListsAre

PlacesWith(ws, kind) ==
    {k \in DOMAIN ws : IF kind = "cell" THEN IsCell(ws[k]) ELSE IsPlain(ws[k])}
CellPairs(ws) == {<<SlotOf(ws[k]), ws[k].id>> : k \in PlacesWith(ws, "cell")}
PlainPairs(ws) == {<<ws[k].parent, ws[k].id>> : k \in PlacesWith(ws, "plain")}

\* What holds a node by parent_id.
ParentIdPairs(ws) == (PairsOf(Tables(ws)) \cup CellPairs(ws)) \cup PlainPairs(ws)

LEMMA ParentIdAdjacencyIs ==
    ASSUME NEW ws, IsBoard(ws)
    PROVE  /\ ListsAre(ParentIdAdjacency(ws), BoardNodes(ws), ParentIdPairs(ws))
           /\ OneHolder(ParentIdPairs(ws))
<1> DEFINE N == BoardNodes(ws)
<1>1. ListsAre(CellAdjacency(ws), N, CellPairs(ws)) /\ OneHolder(CellPairs(ws))
  <2> DEFINE places == PlacesWith(ws, "cell")
             holder == [k \in places |-> SlotOf(ws[k])]
  <2> DEFINE adjacency == CellAdjacency(ws)
  <2>1. HolderLists(ws, places, holder, adjacency)
    <3>1. places = {k \in DOMAIN ws : IsCell(ws[k])}
      BY DEF PlacesWith
    <3>2. adjacency = Appended(ws, holder)
      BY <3>1 DEF CellAdjacency
    <3>3. DOMAIN holder = places
      OBVIOUS
    <3> HIDE DEF places, holder, adjacency
    <3> QED
      BY <3>2, <3>3 DEF HolderLists, Appended
  <2>2. HolderPairs(ws, places, holder, CellPairs(ws))
    BY DEF CellPairs, HolderPairs
  <2>3. places \subseteq DOMAIN ws
    BY DEF PlacesWith
  <2> HIDE DEF places, holder, adjacency
  <2> QED
    BY <2>1, <2>2, <2>3, AppendedIs DEF adjacency
<1>2. ListsAre(PlainAdjacency(ws), N, PlainPairs(ws)) /\ OneHolder(PlainPairs(ws))
  <2> DEFINE places == PlacesWith(ws, "plain")
             holder == [k \in places |-> ParentOf(ws[k])]
  <2> DEFINE adjacency == PlainAdjacency(ws)
  <2>1. HolderLists(ws, places, holder, adjacency)
    <3>1. places = {k \in DOMAIN ws : IsPlain(ws[k])}
      BY DEF PlacesWith
    <3>2. adjacency = Appended(ws, holder)
      BY <3>1 DEF PlainAdjacency
    <3>3. DOMAIN holder = places
      OBVIOUS
    <3> HIDE DEF places, holder, adjacency
    <3> QED
      BY <3>2, <3>3 DEF HolderLists, Appended
  <2>2. HolderPairs(ws, places, holder, PlainPairs(ws))
    BY DEF PlainPairs, ParentOf, HolderPairs
  <2>3. places \subseteq DOMAIN ws
    BY DEF PlacesWith
  <2> HIDE DEF places, holder, adjacency
  <2> QED
    BY <2>1, <2>2, <2>3, AppendedIs DEF adjacency
<1>3. ListsAre(TableAdjacency(ws), N, PairsOf(Tables(ws))) /\ OneHolder(PairsOf(Tables(ws)))
  BY TableAdjacencyIs
<1>4. \A n, c : <<n, c>> \in PairsOf(Tables(ws)) =>
                  c[1] # "widget" \/ \E t \in ToSet(ws) : IsTable(t) /\ c = t.id
  <2> SUFFICES ASSUME NEW n, NEW c, NEW t \in Tables(ws), HeldBy(t, n, c)
               PROVE  c[1] # "widget" \/ c = t.id
    BY PairsOfAre DEF Tables
  <2> QED
    BY HeldIs
<1>5. \A n, c : <<n, c>> \in CellPairs(ws) =>
                  c[1] = "widget" /\ \E w \in ToSet(ws) : IsCell(w) /\ c = w.id
  BY BoardIs DEF CellPairs, PlacesWith
<1>6. \A n, c : <<n, c>> \in PlainPairs(ws) =>
                  c[1] = "widget" /\ \E w \in ToSet(ws) : IsPlain(w) /\ c = w.id
  BY BoardIs DEF PlainPairs, PlacesWith
<1>7. \A v, w \in ToSet(ws) : v.id = w.id => v = w
  BY BoardIs
<1>8. \A m, n, c : <<m, c>> \in PairsOf(Tables(ws)) => <<n, c>> \notin CellPairs(ws)
  <2> SUFFICES ASSUME NEW m, NEW n, NEW c, <<m, c>> \in PairsOf(Tables(ws)), <<n, c>> \in CellPairs(ws)
               PROVE  FALSE
    OBVIOUS
  <2>1. PICK w \in ToSet(ws) : IsCell(w) /\ c = w.id /\ c[1] = "widget"
    BY <1>5
  <2>2. PICK t \in ToSet(ws) : IsTable(t) /\ c = t.id
    BY <1>4, <2>1
  <2>3. t = w
    BY <1>7, <2>1, <2>2
  <2> QED
    BY <2>1, <2>2, <2>3 DEF IsTable, IsCell
<1>9. \A m, n, c : <<m, c>> \in PairsOf(Tables(ws)) \cup CellPairs(ws) => <<n, c>> \notin PlainPairs(ws)
  <2> SUFFICES ASSUME NEW m, NEW n, NEW c, <<m, c>> \in PairsOf(Tables(ws)) \cup CellPairs(ws),
                      <<n, c>> \in PlainPairs(ws)
               PROVE  FALSE
    OBVIOUS
  <2>1. PICK w \in ToSet(ws) : IsPlain(w) /\ c = w.id /\ c[1] = "widget"
    BY <1>6
  <2>2. PICK v \in ToSet(ws) : (IsTable(v) \/ IsCell(v)) /\ c = v.id
    BY <1>4, <1>5, <2>1
  <2>3. v = w
    BY <1>7, <2>1, <2>2
  <2> QED
    BY <2>1, <2>2, <2>3 DEF IsPlain
<1> DEFINE first == Merge(TableAdjacency(ws), CellAdjacency(ws))
           R == PairsOf(Tables(ws)) \cup CellPairs(ws)
<1>10. ListsAre(first, N, R) /\ OneHolder(R)
  BY <1>1, <1>3, <1>8, MergeLists
<1>11. ParentIdAdjacency(ws) = Merge(first, PlainAdjacency(ws)) /\ ParentIdPairs(ws) = R \cup PlainPairs(ws)
  BY DEF ParentIdAdjacency, ParentIdPairs
<1>12. \A m, n, c : <<m, c>> \in R => <<n, c>> \notin PlainPairs(ws)
  BY <1>9
<1> HIDE DEF first, R
<1> QED
  BY <1>2, <1>10, <1>11, <1>12, MergeLists

-----------------------------------------------------------------------------
(* Trees.                                                                    *)

\* Of some nodes there is one that none of them holds.
Acyclic(R, N) == \A S \in SUBSET N : S # {} => \E c \in S : \A n \in S : <<n, c>> \notin R

\* A tree of a board is a tree: its lists are lists of its nodes, a node is once in
\* one list at most, and no way from holder to holder is a cycle.
IsTree(t) ==
    /\ IsFiniteSet(NodesOf(t)) /\ Root \notin NodesOf(t)
    /\ \E R : ListsAre(t.adjacency, NodesOf(t), R) /\ OneHolder(R) /\ Acyclic(R, NodesOf(t))

LEMMA FiniteImage ==
    ASSUME NEW S, IsFiniteSet(S), NEW f
    PROVE  IsFiniteSet({f[x] : x \in S})
<1> DEFINE T == {f[x] : x \in S}
           g == [x \in S |-> f[x]]
<1>1. g \in Surjection(S, T)
  BY DEF Surjection
<1> HIDE DEF g, T
<1>2. IsFiniteSet(T)
  BY <1>1, FS_Surjection
<1> QED
  BY <1>2 DEF T

LEMMA FiniteList ==
    ASSUME NEW S, NEW q \in Seq(S)
    PROVE  IsFiniteSet(ToSet(q))
<1>1. DOMAIN q = 1..Len(q) /\ Len(q) \in Nat
  OBVIOUS
<1>2. IsFiniteSet(DOMAIN q)
  BY <1>1, FS_Interval
<1>3. IsFiniteSet({q[k] : k \in DOMAIN q})
  BY <1>2, FiniteImage
<1> QED
  BY <1>3 DEF ToSet

LEMMA BoardNodesFinite ==
    ASSUME NEW ws, IsBoard(ws)
    PROVE  IsFiniteSet(BoardNodes(ws)) /\ IsFiniteSet(ToSet(ws))
<1>1. IsFiniteSet(DOMAIN ws) /\ IsFiniteSet(ToSet(ws))
  <2>1. DOMAIN ws = 1..Len(ws) /\ Len(ws) \in Nat
    BY BoardIs
  <2>2. ws \in Seq(ToSet(ws))
    BY BoardIs
  <2>3. PICK W : W = ToSet(ws)
    OBVIOUS
  <2>4. IsFiniteSet(ToSet(ws))
    BY <2>2, <2>3, FiniteList
  <2> QED
    BY <2>1, <2>4, FS_Interval
<1>2. IsFiniteSet(IdsOf(ws))
  <2> DEFINE f == [k \in DOMAIN ws |-> ws[k].id]
  <2>1. IsFiniteSet({f[k] : k \in DOMAIN ws})
    <3> HIDE DEF f
    <3> QED
      BY <1>1, FiniteImage
  <2> QED
    BY <2>1 DEF IdsOf
<1>3. Tables(ws) \in SUBSET ToSet(ws) /\ IsFiniteSet(Tables(ws))
  <2>1. Tables(ws) \in SUBSET ToSet(ws)
    BY DEF Tables
  <2> QED
    BY <1>1, <2>1, FS_Subset
<1>4. IsFiniteSet(RowNodes(ws))
  <2> DEFINE f == [t \in Tables(ws) |-> ToSet(RowsOf(t))]
             Q == {f[t] : t \in Tables(ws)}
  <2>1. IsFiniteSet(Q)
    <3> HIDE DEF f
    <3> QED
      BY <1>3, FiniteImage
  <2>2. ASSUME NEW t \in Tables(ws) PROVE IsFiniteSet(f[t])
    <3>1. RowsOf(t) \in Seq(BoardNodes(ws))
      BY TableNodes
    <3>2. IsFiniteSet(ToSet(RowsOf(t)))
      BY <3>1, FiniteList
    <3> QED
      BY <3>2
  <2>3. RowNodes(ws) = UNION Q
    BY DEF RowNodes
  <2>4. \A X \in Q : IsFiniteSet(X)
    BY <2>2
  <2> HIDE DEF Q
  <2> QED
    BY <2>1, <2>3, <2>4, FS_UNION
<1>5. IsFiniteSet(SlotNodes(ws))
  <2> DEFINE g == [n \in RowNodes(ws) |-> UNION {ToSet(SlotsOf(t, n[2])) : t \in Tables(ws)}]
             Q == {g[n] : n \in RowNodes(ws)}
  <2>1. IsFiniteSet(Q)
    <3> HIDE DEF g
    <3> QED
      BY <1>4, FiniteImage
  <2>2. ASSUME NEW r, NEW t \in Tables(ws) PROVE IsFiniteSet(ToSet(SlotsOf(t, r)))
    <3>1. t.columns \in Seq(ToSet(t.columns))
      BY DEF IsBoard
    <3>2. PICK n \in Nat : DOMAIN t.columns = 1..n
      BY <3>1
    <3>3. PICK W : \A k \in 1..n : SlotId(r, t.columns[k]) \in W
      <4>1. \A k \in 1..n : SlotId(r, t.columns[k]) \in {SlotId(r, t.columns[l]) : l \in 1..n}
        OBVIOUS
      <4> QED
        BY <4>1
    <3>4. SlotsOf(t, r) \in Seq(W)
      BY <3>2, <3>3 DEF SlotsOf
    <3> QED
      BY <3>4, FiniteList
  <2>3. ASSUME NEW n \in RowNodes(ws) PROVE IsFiniteSet(g[n])
    <3> DEFINE f == [t \in Tables(ws) |-> ToSet(SlotsOf(t, n[2]))]
               P == {f[t] : t \in Tables(ws)}
    <3>1. IsFiniteSet(P)
      <4> HIDE DEF f
      <4> QED
        BY <1>3, FiniteImage
    <3>2. \A X \in P : IsFiniteSet(X)
      BY <2>2
    <3>3. g[n] = UNION P
      OBVIOUS
    <3> HIDE DEF P
    <3> QED
      BY <3>1, <3>2, <3>3, FS_UNION
  <2>4. \A X \in Q : IsFiniteSet(X)
    BY <2>3
  <2>5. SlotNodes(ws) \subseteq UNION Q
    <3> SUFFICES ASSUME NEW t \in Tables(ws), NEW r \in ToSet(t.rows), NEW c \in ToSet(SlotsOf(t, r))
                 PROVE  \E n \in RowNodes(ws) : c \in g[n]
      BY DEF SlotNodes
    <3>1. RowId(r) \in RowNodes(ws)
      BY DEF RowNodes, RowsOf, ToSet
    <3>2. RowId(r)[2] = r
      BY DEF RowId
    <3> QED
      BY <3>1, <3>2
  <2>6. IsFiniteSet(UNION Q)
    <3> HIDE DEF Q
    <3> QED
      BY <2>1, <2>4, FS_UNION
  <2> QED
    BY <2>5, <2>6, FS_Subset
<1>6. IsFiniteSet(IdsOf(ws) \cup RowNodes(ws))
  BY <1>2, <1>4, FS_Union
<1>7. IsFiniteSet(BoardNodes(ws))
  BY <1>5, <1>6, FS_Union DEF BoardNodes
<1> QED
  BY <1>1, <1>7

\* What holds a node by parent_id: a widget its parent, a cell its slot, a row its
\* table, a slot its row.
LEMMA ParentIdPairsAre ==
    ASSUME NEW ws, IsBoard(ws), NEW n, NEW c, <<n, c>> \in ParentIdPairs(ws)
    PROVE  \/ \E w \in ToSet(ws) : ~ IsCell(w) /\ c = w.id /\ n = w.parent
           \/ \E w \in ToSet(ws) : IsCell(w) /\ c = w.id /\ n = SlotOf(w)
           \/ \E t \in Tables(ws) : n = t.id /\ c \in ToSet(RowsOf(t))
           \/ \E t \in Tables(ws) : \E r \in ToSet(t.rows) :
                 n = RowId(r) /\ c \in ToSet(SlotsOf(t, r))
<1>1. CASE <<n, c>> \in PairsOf(Tables(ws))
  <2>1. PICK t \in Tables(ws) : HeldBy(t, n, c)
    BY <1>1, PairsOfAre
  <2>2. t \in ToSet(ws) /\ ~ IsCell(t)
    BY DEF Tables, IsTable, IsCell
  <2> QED
    BY <2>1, <2>2 DEF HeldBy
<1>2. CASE <<n, c>> \in CellPairs(ws)
  BY <1>2, BoardIs DEF CellPairs, PlacesWith
<1>3. CASE <<n, c>> \in PlainPairs(ws)
  BY <1>3, BoardIs DEF PlainPairs, PlacesWith, IsPlain
<1> QED
  BY <1>1, <1>2, <1>3 DEF ParentIdPairs

\* A widget has itself in it, a table its rows and slots, too.
Owns(w, n) ==
    \/ n = w.id
    \/ IsTable(w) /\ n \in ToSet(RowsOf(w))
    \/ IsTable(w) /\ \E r \in ToSet(w.rows) : n \in ToSet(SlotsOf(w, r))

LEMMA ParentIdAcyclic ==
    ASSUME NEW ws, IsBoard(ws), IsNested(ws)
    PROVE  Acyclic(ParentIdPairs(ws), BoardNodes(ws))
<1> SUFFICES ASSUME NEW S \in SUBSET BoardNodes(ws), S # {},
                    \A c \in S : \E n \in S : <<n, c>> \in ParentIdPairs(ws)
             PROVE  FALSE
  BY DEF Acyclic
<1> DEFINE P == {k \in DOMAIN ws : \E n \in S : Owns(ws[k], n)}
<1>1. \A n \in BoardNodes(ws) : \E w \in ToSet(ws) : Owns(w, n)
  <2>1. \A n \in IdsOf(ws) : \E w \in ToSet(ws) : Owns(w, n)
    BY BoardIs DEF IdsOf, Owns
  <2>2. \A n \in RowNodes(ws) : \E w \in ToSet(ws) : Owns(w, n)
    BY DEF RowNodes, Owns, Tables
  <2>3. \A n \in SlotNodes(ws) : \E w \in ToSet(ws) : Owns(w, n)
    BY DEF SlotNodes, Owns, Tables
  <2> QED
    BY <2>1, <2>2, <2>3 DEF BoardNodes
<1>2. \A w \in ToSet(ws) : \A n \in S : Owns(w, n) => \E k \in P : w = ws[k]
  BY BoardIs
<1>3. P \in SUBSET DOMAIN ws /\ P # {}
  BY <1>1, <1>2
<1>4. PICK k \in P : \A l \in P : ~ IsIn(ws[k], ws[l])
  BY <1>3 DEF IsNested
<1>5. PICK w \in ToSet(ws) : w = ws[k] /\ \E n \in S : Owns(w, n)
  BY BoardIs
<1>6. \A v \in ToSet(ws) : \A n \in S : Owns(v, n) => ~ IsIn(w, v)
  BY <1>2, <1>4, <1>5
<1> HIDE DEF P
<1>7. ~ IsCell(w) => w.parent \notin S
  <2>1. w.parent # Root => w.parent[1] = "widget"
    BY BoardIs
  <2> SUFFICES ASSUME ~ IsCell(w), w.parent \in S PROVE FALSE
    OBVIOUS
  <2>2. PICK v \in ToSet(ws) : Owns(v, w.parent)
    BY <1>1
  <2>3. \A t \in Tables(ws) : w.parent \notin ToSet(RowsOf(t))
    BY <2>1, TableNodes DEF RowId, Root
  <2>4. \A t \in Tables(ws) : \A r \in ToSet(t.rows) : w.parent \notin ToSet(SlotsOf(t, r))
    BY <2>1, SlotsAre DEF Root
  <2>5. w.parent = v.id
    BY <2>2, <2>3, <2>4 DEF Owns, Tables
  <2> QED
    BY <1>6, <2>2, <2>5 DEF IsIn
<1>8. w.id \notin S
  <2> SUFFICES ASSUME w.id \in S PROVE FALSE
    OBVIOUS
  <2>1. PICK n \in S : <<n, w.id>> \in ParentIdPairs(ws)
    OBVIOUS
  <2>2. w.id[1] = "widget" /\ \A v \in ToSet(ws) : v.id = w.id => v = w
    BY BoardIs
  <2>3. ~ \E t \in Tables(ws) : w.id \in ToSet(RowsOf(t))
    BY <2>2, TableNodes DEF RowId
  <2>4. ~ \E t \in Tables(ws) : \E r \in ToSet(t.rows) : w.id \in ToSet(SlotsOf(t, r))
    BY <2>2, SlotsAre
  <2>5. IsCell(w) /\ n = SlotOf(w)
    BY <1>7, <2>1, <2>2, <2>3, <2>4, ParentIdPairsAre
  <2>6. n \in SlotNodes(ws)
    <3>1. n[1] = "slot"
      BY <2>5 DEF SlotOf, SlotId
    <3>2. n \notin IdsOf(ws)
      BY <3>1, BoardIs DEF IdsOf
    <3>3. n \notin RowNodes(ws)
      BY <3>1, TableNodes DEF RowNodes, RowId
    <3> QED
      BY <3>2, <3>3 DEF BoardNodes
  <2>7. PICK t \in Tables(ws) : \E r \in ToSet(t.rows) : n \in ToSet(SlotsOf(t, r))
    BY <2>6 DEF SlotNodes
  <2>8. w.row \in ToSet(t.rows)
    BY <2>5, <2>7 DEF SlotsOf, SlotId, SlotOf, ToSet
  <2>9. t \in ToSet(ws) /\ Owns(t, n) /\ IsIn(w, t)
    BY <2>5, <2>7, <2>8 DEF Owns, Tables, IsIn
  <2> QED
    BY <1>6, <2>9
<1>9. IsTable(w) /\ w \in Tables(ws)
  BY <1>5, <1>8 DEF Owns, Tables
<1>10. ASSUME NEW c \in ToSet(RowsOf(w)), c \in S PROVE FALSE
  <2>1. PICK r \in ToSet(w.rows) : c = RowId(r)
    BY <1>9, TableNodes
  <2>2. PICK n \in S : <<n, c>> \in ParentIdPairs(ws)
    BY <1>10
  <2>3. c[1] = "row" /\ c[2] = r
    BY <2>1 DEF RowId
  <2>4. PICK t \in Tables(ws) : n = t.id /\ c \in ToSet(RowsOf(t))
    <3>1. \A v \in ToSet(ws) : c # v.id
      BY <2>3, BoardIs
    <3>2. \A t \in Tables(ws) : \A q \in ToSet(t.rows) : c \notin ToSet(SlotsOf(t, q))
      BY <2>3, SlotsAre
    <3> QED
      BY <2>2, <3>1, <3>2, ParentIdPairsAre
  <2>5. r \in ToSet(t.rows)
    BY <2>1, <2>4, TableNodes DEF RowId
  <2>6. t = w
    BY <1>9, <2>1, <2>5 DEF IsBoard
  <2> QED
    BY <1>8, <2>2, <2>4, <2>6
<1>11. ASSUME NEW r \in ToSet(w.rows), NEW c \in ToSet(SlotsOf(w, r)), c \in S PROVE FALSE
  <2>1. PICK n \in S : <<n, c>> \in ParentIdPairs(ws)
    BY <1>11
  <2>2. c[1] = "slot" /\ c[2] = r
    BY <1>11, SlotsAre
  <2>3. \E t \in Tables(ws) : \E q \in ToSet(t.rows) : n = RowId(q) /\ c \in ToSet(SlotsOf(t, q))
    <3>1. \A v \in ToSet(ws) : c # v.id
      BY <2>2, BoardIs
    <3>2. \A t \in Tables(ws) : c \notin ToSet(RowsOf(t))
      BY <2>2, TableNodes DEF RowId
    <3> QED
      BY <2>1, <3>1, <3>2, ParentIdPairsAre
  <2>4. n = RowId(r)
    BY <2>2, <2>3, SlotsAre
  <2>5. n \in ToSet(RowsOf(w))
    BY <2>4 DEF RowsOf, ToSet
  <2> QED
    BY <1>10, <2>1, <2>5
<1> QED
  BY <1>5, <1>8, <1>9, <1>10, <1>11 DEF Owns

\* The tree of the grouping by parent_id is a tree, on every board: the lists of table
\* expansion, of the cells and of the other widgets do not meet in a node.
THEOREM ParentIdTreeIsTree ==
    ASSUME NEW ws, IsBoard(ws), IsNested(ws)
    PROVE  IsTree(ParentIdTree(ws)) /\ NodesOf(ParentIdTree(ws)) = BoardNodes(ws)
<1>1. NodesOf(ParentIdTree(ws)) = BoardNodes(ws) /\ ParentIdTree(ws).adjacency = ParentIdAdjacency(ws)
  BY DEF ParentIdTree, BuildTree, NodesOf, BoardNodes
<1>2. Root \notin BoardNodes(ws)
  <2>1. Root \notin IdsOf(ws)
    BY BoardIs DEF IdsOf, Root
  <2>2. Root \notin RowNodes(ws)
    BY TableNodes DEF RowNodes, RowId, Root
  <2>3. Root \notin SlotNodes(ws)
    BY SlotsAre DEF SlotNodes, Root
  <2> QED
    BY <2>1, <2>2, <2>3 DEF BoardNodes
<1> QED
  BY <1>1, <1>2, BoardNodesFinite, ParentIdAdjacencyIs, ParentIdAcyclic DEF IsTree

-----------------------------------------------------------------------------
(* The widgets that are clustered.                                           *)

Boxes == [x: Int, y: Int, width: Int, height: Int]

LEMMA ClusteredIs ==
    ASSUME NEW ws, IsBoard(ws)
    PROVE  /\ Clustered(ws) \in Seq(ToSet(Clustered(ws)))
           /\ Len(Clustered(ws)) \in Nat /\ DOMAIN Clustered(ws) = 1..Len(Clustered(ws))
           /\ \A w : w \in ToSet(Clustered(ws)) <=> w \in ToSet(ws) /\ IsPlain(w)
           /\ \A k \in DOMAIN Clustered(ws) : /\ Clustered(ws)[k] \in ToSet(Clustered(ws))
                                             /\ Clustered(ws)[k].box \in Boxes
           /\ \A k, l \in DOMAIN Clustered(ws) :
                 Clustered(ws)[k].id = Clustered(ws)[l].id => k = l
<1> DEFINE places == {k \in DOMAIN ws : IsPlain(ws[k])}
<1>1. PICK free : free = Clustered(ws)
  OBVIOUS
<1>2. free = Those(ws, places)
  BY <1>1 DEF Clustered
<1>3. /\ ws \in Seq(ToSet(ws)) /\ places \subseteq DOMAIN ws
      /\ \A k, l \in places : ws[k].id = ws[l].id => k = l
  BY BoardIs
<1> HIDE DEF places
<1>4. /\ free \in Seq(ToSet(free)) /\ ToSet(free) = {ws[k] : k \in places}
      /\ DOMAIN IdList(free) = DOMAIN free /\ IsInjective(IdList(free))
  BY <1>2, <1>3, ThoseList
<1>5. PICK W : W = ToSet(free)
  OBVIOUS
<1>6. Len(free) \in Nat /\ DOMAIN free = 1..Len(free)
  BY <1>4, <1>5
<1>7. \A w : w \in ToSet(free) <=> w \in ToSet(ws) /\ IsPlain(w)
  BY <1>4, BoardIs DEF places
<1>8. \A k \in DOMAIN free : free[k] \in ToSet(free)
  BY DEF ToSet
<1>9. \A w \in ToSet(free) : w.box \in Boxes
  BY <1>7 DEF IsBoard, Boxes
<1>10. \A k, l \in DOMAIN free : free[k].id = free[l].id => k = l
  BY <1>4 DEF IdList, IsInjective
<1> QED
  BY <1>1, <1>4, <1>6, <1>7, <1>8, <1>9, <1>10

\* Nearness has no direction.
LEMMA NearIsMutual ==
    ASSUME NEW a, NEW b, a.box \in Boxes, b.box \in Boxes, Near(a, b)
    PROVE  Near(b, a)
<1> DEFINE v == a.box
           w == b.box
           dx == GapBetween(v.x, v.width, w.x, w.width)
           dy == GapBetween(v.y, v.height, w.y, w.height)
<1>1. \A p, q, r, s \in Int : GapBetween(p, q, r, s) = GapBetween(r, s, p, q)
  <2>1. \A p, q \in Int : Larger(p, q) = Larger(q, p) /\ Smaller(p, q) = Smaller(q, p)
    BY DEF Larger, Smaller
  <2>2. \A p, q, r, s \in Int : Smaller(p + q, r + s) = Smaller(r + s, p + q)
    BY <2>1
  <2> QED
    BY <2>1, <2>2 DEF GapBetween
<1>2. GapBetween(w.x, w.width, v.x, v.width) = dx /\ GapBetween(w.y, w.height, v.y, v.height) = dy
  <2>1. /\ v.x \in Int /\ v.y \in Int /\ v.width \in Int /\ v.height \in Int
        /\ w.x \in Int /\ w.y \in Int /\ w.width \in Int /\ w.height \in Int
    BY DEF Boxes
  <2> HIDE DEF v, w
  <2> QED
    BY <1>1, <2>1
<1>3. dx * dx + dy * dy <= ClusterGap * ClusterGap
  BY DEF Near
<1> HIDE DEF dx, dy
<1> QED
  BY <1>2, <1>3 DEF Near

-----------------------------------------------------------------------------
(* Components.                                                               *)

\* Nothing near a place of S is outside of it.
Closed(free, S) == \A a \in S : \A b \in DOMAIN free : Near(free[a], free[b]) => b \in S

\* Being connected is an equivalence.
LEMMA ConnectedIs ==
    ASSUME NEW free, \A k \in DOMAIN free : free[k].box \in Boxes
    PROVE  /\ \A i \in DOMAIN free : Connected(free, i, i)
           /\ \A i, j \in DOMAIN free : Connected(free, i, j) => Connected(free, j, i)
           /\ \A i, j, k \in DOMAIN free :
                 Connected(free, i, j) /\ Connected(free, j, k) => Connected(free, i, k)
<1>1. \A i, j : Connected(free, i, j)
                  <=> \A S \in SUBSET DOMAIN free : i \in S /\ Closed(free, S) => j \in S
  BY DEF Connected, Closed
<1>2. ASSUME NEW S \in SUBSET DOMAIN free, Closed(free, S)
      PROVE  Closed(free, DOMAIN free \ S)
  BY <1>2, NearIsMutual DEF Closed
<1>3. ASSUME NEW i \in DOMAIN free, NEW j \in DOMAIN free, Connected(free, i, j)
      PROVE  Connected(free, j, i)
  <2> SUFFICES ASSUME NEW S \in SUBSET DOMAIN free, j \in S, Closed(free, S), i \notin S PROVE FALSE
    BY <1>1
  <2>1. Closed(free, DOMAIN free \ S) /\ i \in DOMAIN free \ S
    BY <1>2
  <2> QED
    BY <1>1, <1>3, <2>1
<1>4. ASSUME NEW i, NEW j, NEW k, Connected(free, i, j), Connected(free, j, k)
      PROVE  Connected(free, i, k)
  BY <1>1, <1>4
<1> QED
  BY <1>1, <1>3, <1>4

\* A component has its places, and is the component of each of them.
LEMMA ComponentIs ==
    ASSUME NEW free, \A k \in DOMAIN free : free[k].box \in Boxes
    PROVE  /\ \A i \in DOMAIN free : i \in Component(free, i) /\ Component(free, i) \subseteq DOMAIN free
           /\ \A i, j \in DOMAIN free :
                 j \in Component(free, i) => Component(free, j) = Component(free, i)
BY ConnectedIs DEF Component

Firsts(free) == {i \in DOMAIN free : \A j \in Component(free, i) : i <= j}

\* The components are the lists of the components of their first places.
LEMMA ComponentsAre ==
    ASSUME NEW free, Len(free) \in Nat, DOMAIN free = 1..Len(free),
           \A k \in DOMAIN free : free[k].box \in Boxes
    PROVE  \E order \in Seq(DOMAIN free) :
              /\ Ascending(order) /\ ToSet(order) = Firsts(free)
              /\ Components(free) = [k \in 1..Len(order) |->
                                       InOrder(Component(free, order[k]), Len(free))]
              /\ \A k \in 1..Len(order) :
                    LET cluster == InOrder(Component(free, order[k]), Len(free))
                    IN /\ cluster \in Seq(DOMAIN free) /\ Ascending(cluster)
                       /\ ToSet(cluster) = Component(free, order[k])
<1> DEFINE order == InOrder(Firsts(free), Len(free))
<1>1. \A S : S \subseteq DOMAIN free =>
               /\ InOrder(S, Len(free)) \in Seq(DOMAIN free) /\ Ascending(InOrder(S, Len(free)))
               /\ ToSet(InOrder(S, Len(free))) = S
  <2> SUFFICES ASSUME NEW S, S \subseteq DOMAIN free
               PROVE  /\ InOrder(S, Len(free)) \in Seq(DOMAIN free)
                      /\ Ascending(InOrder(S, Len(free))) /\ ToSet(InOrder(S, Len(free))) = S
    OBVIOUS
  <2>1. S \cap 1..Len(free) = S
    OBVIOUS
  <2>2. PICK q : q = InOrder(S, Len(free))
    OBVIOUS
  <2>3. q \in Seq(S) /\ Ascending(q) /\ ToSet(q) = S
    BY <2>1, <2>2, InOrderIs
  <2>4. q \in Seq(DOMAIN free)
    BY <2>3
  <2> QED
    BY <2>2, <2>3, <2>4
<1>2. order \in Seq(DOMAIN free) /\ Ascending(order) /\ ToSet(order) = Firsts(free)
  BY <1>1 DEF Firsts
<1>3. Components(free) = [k \in DOMAIN order |-> InOrder(Component(free, order[k]), Len(free))]
  BY DEF Components, Firsts
<1> HIDE DEF order
<1>4. DOMAIN order = 1..Len(order)
  BY <1>2
<1>5. \A k \in 1..Len(order) : Component(free, order[k]) \subseteq DOMAIN free
  BY DEF Component
<1> QED
  BY <1>1, <1>2, <1>3, <1>4, <1>5

\* Every place is in one component, which is not empty.
LEMMA ComponentsPartition ==
    ASSUME NEW free, Len(free) \in Nat, DOMAIN free = 1..Len(free),
           \A k \in DOMAIN free : free[k].box \in Boxes
    PROVE  /\ Components(free) \in Seq(Seq(DOMAIN free))
           /\ \A k \in DOMAIN Components(free) :
                 Components(free)[k] # <<>> /\ Ascending(Components(free)[k])
           /\ \A k, l \in DOMAIN Components(free) :
                 k # l => ToSet(Components(free)[k]) \cap ToSet(Components(free)[l]) = {}
           /\ \A i \in DOMAIN free : \E k \in DOMAIN Components(free) : i \in ToSet(Components(free)[k])
<1>1. PICK order \in Seq(DOMAIN free) :
              /\ Ascending(order) /\ ToSet(order) = Firsts(free)
              /\ Components(free) = [k \in 1..Len(order) |->
                                       InOrder(Component(free, order[k]), Len(free))]
              /\ \A k \in 1..Len(order) :
                    LET cluster == InOrder(Component(free, order[k]), Len(free))
                    IN /\ cluster \in Seq(DOMAIN free) /\ Ascending(cluster)
                       /\ ToSet(cluster) = Component(free, order[k])
  BY ComponentsAre
<1>2. PICK n \in Nat : n = Len(order) /\ DOMAIN order = 1..n
  OBVIOUS
<1>3. PICK clusters : clusters = Components(free)
  OBVIOUS
<1>4. /\ clusters = [k \in 1..n |-> clusters[k]]
      /\ \A k \in 1..n : /\ clusters[k] \in Seq(DOMAIN free) /\ Ascending(clusters[k])
                         /\ ToSet(clusters[k]) = Component(free, order[k])
  BY <1>1, <1>2, <1>3
<1>5. \A k \in 1..n : order[k] \in Firsts(free) /\ order[k] \in DOMAIN free
  <2>1. \A k \in 1..n : order[k] \in ToSet(order)
    BY <1>2 DEF ToSet
  <2> QED
    BY <1>1, <2>1 DEF Firsts
<1>6. \A k \in 1..n : order[k] \in ToSet(clusters[k])
  <2> SUFFICES ASSUME NEW k \in 1..n PROVE order[k] \in ToSet(clusters[k])
    OBVIOUS
  <2>1. PICK a \in DOMAIN free : a = order[k]
    BY <1>5
  <2>2. a \in Component(free, a)
    BY ComponentIs
  <2> QED
    BY <1>4, <2>1, <2>2
<1>7. ASSUME NEW k \in 1..n, NEW l \in 1..n, NEW p \in ToSet(clusters[k]), p \in ToSet(clusters[l])
      PROVE  k = l
  <2>1. p \in Component(free, order[k]) /\ p \in Component(free, order[l])
    BY <1>4, <1>7
  <2>2. p \in DOMAIN free /\ Component(free, order[k]) = Component(free, order[l])
    <3>1. PICK a \in DOMAIN free : a = order[k]
      BY <1>5
    <3>2. PICK b \in DOMAIN free : b = order[l]
      BY <1>5
    <3>3. p \in Component(free, a) /\ p \in Component(free, b)
      BY <2>1, <3>1, <3>2
    <3>4. p \in DOMAIN free /\ Component(free, p) = Component(free, a)
      BY <3>3, ComponentIs
    <3>5. Component(free, p) = Component(free, b)
      BY <3>3, ComponentIs
    <3> QED
      BY <3>1, <3>2, <3>4, <3>5
  <2>3. order[k] \in Component(free, order[l]) /\ order[l] \in Component(free, order[k])
    BY <1>5, <2>2, ComponentIs
  <2>4. order[k] \in Nat /\ order[l] \in Nat /\ order[k] <= order[l] /\ order[l] <= order[k]
    BY <1>5, <2>3 DEF Firsts
  <2>5. (k < l => order[k] < order[l]) /\ (l < k => order[l] < order[k])
    BY <1>1, <1>2 DEF Ascending
  <2> QED
    BY <1>2, <2>4, <2>5
<1>8. ASSUME NEW i \in DOMAIN free PROVE \E k \in 1..n : i \in ToSet(clusters[k])
  <2>1. PICK first \in Component(free, i) : \A j \in Component(free, i) : first <= j
    <3>1. PICK C : C = Component(free, i)
      OBVIOUS
    <3>2. i \in C /\ C \subseteq DOMAIN free
      BY <3>1, ComponentIs
    <3>3. C \subseteq Nat
      BY <3>2
    <3>4. Min(C) \in C /\ \A j \in C : Min(C) <= j
      BY <3>2, <3>3, Smallest
    <3> QED
      BY <3>1, <3>4
  <2>2. first \in DOMAIN free /\ Component(free, first) = Component(free, i)
    BY <2>1, ComponentIs
  <2>3. first \in ToSet(order)
    BY <1>1, <2>1, <2>2 DEF Firsts
  <2>4. PICK k \in 1..n : order[k] = first
    BY <1>2, <2>3 DEF ToSet
  <2>5. i \in Component(free, order[k])
    BY <2>2, <2>4, ComponentIs
  <2>6. i \in ToSet(clusters[k])
    BY <1>4, <2>5
  <2> QED
    BY <2>6
<1>9. clusters \in Seq(Seq(DOMAIN free)) /\ DOMAIN clusters = 1..n
  <2>1. PICK W : W = Seq(DOMAIN free)
    OBVIOUS
  <2>2. clusters \in Seq(W) /\ DOMAIN clusters = 1..n
    BY <1>2, <1>4, <2>1
  <2> QED
    BY <2>1, <2>2
<1>10. \A k \in 1..n : clusters[k] # <<>>
  BY <1>6, EmptyList
<1> QED
  BY <1>3, <1>4, <1>7, <1>8, <1>9, <1>10

-----------------------------------------------------------------------------
(* The place of a cluster.                                                   *)

\* The widgets of a cluster: one at least, each with an id of its own and a box.
IsCluster(cluster) ==
    /\ cluster \in Seq(ToSet(cluster)) /\ cluster # <<>>
    /\ \A k, l \in DOMAIN cluster : cluster[k].id = cluster[l].id => k = l
    /\ \A k \in DOMAIN cluster : cluster[k].box \in Boxes /\ cluster[k].id[1] = "widget"

LEMMA ClusterIs ==
    ASSUME NEW cluster, IsCluster(cluster)
    PROVE  /\ Len(cluster) \in Nat \ {0} /\ DOMAIN cluster = 1..Len(cluster)
           /\ \A k \in DOMAIN cluster : cluster[k].id \in ToSet(IdList(cluster))
           /\ \A c \in ToSet(IdList(cluster)) : \E k \in DOMAIN cluster : c = cluster[k].id
           /\ \A N : ToSet(IdList(cluster)) \subseteq N => IdList(cluster) \in Seq(N)
           /\ IsInjective(IdList(cluster))
<1>1. PICK W : W = ToSet(cluster)
  OBVIOUS
<1>2. cluster \in Seq(W) /\ cluster # <<>>
  BY <1>1 DEF IsCluster
<1>3. PICK n \in Nat \ {0} : n = Len(cluster) /\ DOMAIN cluster = 1..n
  BY <1>2
<1>4. IdList(cluster) = [k \in 1..n |-> cluster[k].id]
  BY <1>3 DEF IdList
<1>5. \A N : ToSet(IdList(cluster)) \subseteq N => IdList(cluster) \in Seq(N)
  <2> SUFFICES ASSUME NEW N, ToSet(IdList(cluster)) \subseteq N PROVE IdList(cluster) \in Seq(N)
    OBVIOUS
  <2>1. \A k \in 1..n : cluster[k].id \in N
    BY <1>4 DEF ToSet
  <2> QED
    BY <1>4, <2>1
<1>6. IsInjective(IdList(cluster))
  BY <1>3, <1>4 DEF IsInjective, IsCluster
<1> QED
  BY <1>3, <1>4, <1>5, <1>6 DEF ToSet

\* The areas of a cluster are numbers.
LEMMA AreasAre ==
    ASSUME NEW cluster, IsCluster(cluster)
    PROVE  \A k \in DOMAIN cluster : Area(cluster[k]) \in Int
<1> SUFFICES ASSUME NEW k \in DOMAIN cluster PROVE Area(cluster[k]) \in Int
  OBVIOUS
<1>1. cluster[k].box.width \in Int /\ cluster[k].box.height \in Int
  BY DEF IsCluster, Boxes
<1>2. \A a, b \in Int : a * b \in Int
  OBVIOUS
<1> QED
  BY <1>1, <1>2 DEF Area

\* One of some widgets is the largest, the first of the largest ones.
LEMMA LargestIs ==
    ASSUME NEW cluster, IsCluster(cluster), NEW places \in SUBSET DOMAIN cluster, places # {}
    PROVE  /\ LargestOf(cluster, places) \in places
           /\ \A m \in places \ {LargestOf(cluster, places)} :
                 \/ Area(cluster[m]) < Area(cluster[LargestOf(cluster, places)])
                 \/ /\ Area(cluster[m]) = Area(cluster[LargestOf(cluster, places)])
                    /\ LargestOf(cluster, places) < m
<1>1. PICK n \in Nat \ {0} : n = Len(cluster) /\ DOMAIN cluster = 1..n
  BY ClusterIs
<1> DEFINE area == [k \in 1..n |-> Area(cluster[k])]
           Beats(k, l) == area[l] < area[k] \/ (area[l] = area[k] /\ k < l)
           Upto(k) == (1..k) \cap places
           T == {k \in 0..n : Upto(k) # {} => \E m \in Upto(k) : \A l \in Upto(k) \ {m} : Beats(m, l)}
<1>2. \A k \in 1..n : area[k] \in Int
  BY <1>1, AreasAre
<1> HIDE DEF area
<1>3. 0 \in T
  OBVIOUS
<1>4. ASSUME NEW k \in 0..n, k \in T, k < n PROVE k + 1 \in T
  <2>1. k + 1 \in 0..n /\ 1..(k + 1) = (1..k) \cup {k + 1} /\ k \in Nat
    BY <1>4
  <2>2. CASE k + 1 \notin places
    <3>1. Upto(k + 1) = Upto(k)
      BY <2>1, <2>2
    <3> HIDE DEF Upto
    <3> QED
      BY <1>4, <2>1, <3>1
  <2>3. CASE k + 1 \in places /\ Upto(k) = {}
    <3>1. Upto(k + 1) = {k + 1}
      BY <2>1, <2>3
    <3> HIDE DEF Upto
    <3> QED
      BY <2>1, <3>1
  <2>4. CASE k + 1 \in places /\ Upto(k) # {}
    <3>1. PICK m \in Upto(k) : \A l \in Upto(k) \ {m} : Beats(m, l)
      BY <1>4, <2>4
    <3>2. /\ m \in 1..n /\ k + 1 \in 1..n /\ m # k + 1 /\ m < k + 1
          /\ \A l \in Upto(k) : l \in 1..n
          /\ Upto(k + 1) = Upto(k) \cup {k + 1}
      BY <1>1, <2>1, <2>4, <3>1
    <3> HIDE DEF Upto
    <3>3. CASE area[m] < area[k + 1]
      <4>1. \A l \in Upto(k) : area[l] < area[k + 1]
        <5> SUFFICES ASSUME NEW l \in Upto(k) PROVE area[l] < area[k + 1]
          OBVIOUS
        <5>1. l = m \/ Beats(m, l)
          BY <3>1
        <5>2. area[l] \in Int /\ area[m] \in Int /\ area[k + 1] \in Int
          BY <1>2, <3>2
        <5> QED
          BY <3>3, <5>1, <5>2
      <4> QED
        BY <2>1, <3>2, <4>1
    <3>4. CASE ~ area[m] < area[k + 1]
      <4>1. area[m] \in Int /\ area[k + 1] \in Int
        BY <1>2, <3>2
      <4>2. Beats(m, k + 1)
        BY <3>2, <3>4, <4>1
      <4> QED
        BY <2>1, <3>1, <3>2, <4>2
    <3> QED
      BY <3>3, <3>4
  <2> QED
    BY <2>2, <2>3, <2>4
<1>5. n \in T
  <2> HIDE DEF T
  <2> QED
    BY <1>3, <1>4, UpTo
<1>6. PICK m \in places : \A l \in places \ {m} : Beats(m, l)
  BY <1>1, <1>5
<1>7. \A l \in places \ {m} :
         \/ Area(cluster[l]) < Area(cluster[m])
         \/ Area(cluster[l]) = Area(cluster[m]) /\ m < l
  BY <1>1, <1>6 DEF area
<1> QED
  BY <1>6, <1>7 DEF LargestOf

LEMMA AnchorIsPlace ==
    ASSUME NEW cluster, IsCluster(cluster)
    PROVE  /\ AnchorPlace(cluster) \in DOMAIN cluster
           /\ \A m \in DOMAIN cluster \ {AnchorPlace(cluster)} :
                 \/ Area(cluster[m]) < Area(cluster[AnchorPlace(cluster)])
                 \/ /\ Area(cluster[m]) = Area(cluster[AnchorPlace(cluster)])
                    /\ AnchorPlace(cluster) < m
<1>1. PICK places : places = DOMAIN cluster
  OBVIOUS
<1>2. places # {} /\ places \in SUBSET DOMAIN cluster
  <2>1. PICK n \in Nat \ {0} : DOMAIN cluster = 1..n
    BY ClusterIs
  <2>2. 1 \in 1..n
    OBVIOUS
  <2> QED
    BY <1>1, <2>1, <2>2
<1>3. AnchorPlace(cluster) = LargestOf(cluster, places)
  BY <1>1 DEF AnchorPlace
<1> QED
  BY <1>1, <1>2, <1>3, LargestIs

\* A cluster hangs on one node of the top level: its only widget, its anchor or a group.
IsGroup(cluster) == Len(cluster) # 1 /\ ~ HasAnchor(cluster)
HeadOf(cluster, index) ==
    IF Len(cluster) = 1 THEN cluster[1].id
    ELSE IF HasAnchor(cluster) THEN cluster[AnchorPlace(cluster)].id ELSE GroupId(index)
ClusterPairs(cluster, index) ==
    {<<Root, HeadOf(cluster, index)>>}
        \cup ({HeadOf(cluster, index)} \X (ToSet(IdList(cluster)) \ {HeadOf(cluster, index)}))

\* Nothing holds a node of S.
Unheld(R, S) == \A m : \A c \in S : <<m, c>> \notin R

\* The groups and the lists placed so far.
IsPartial(partial) == partial = [groups |-> partial.groups, adjacency |-> partial.adjacency]

\* The lists of partial are lists of nodes and have none of the cluster's.
CanPlace(N, R, partial, cluster, index) ==
    /\ IsPartial(partial) /\ ListsAre(partial.adjacency, N, R) /\ OneHolder(R)
    /\ IsCluster(cluster) /\ ToSet(IdList(cluster)) \subseteq N /\ HeadOf(cluster, index) \in N
    /\ Unheld(R, ToSet(IdList(cluster)) \cup {HeadOf(cluster, index)})

\* The cluster has been placed: partial has become after.
HasPlaced(N, R, partial, cluster, index, after) ==
    /\ ListsAre(after.adjacency, N, R \cup ClusterPairs(cluster, index))
    /\ OneHolder(R \cup ClusterPairs(cluster, index))
    /\ IsPartial(after)
    /\ after.groups = IF IsGroup(cluster) THEN partial.groups \cup {GroupId(index)}
                      ELSE partial.groups

LEMMA PlaceClusterIs ==
    ASSUME NEW N, NEW R, NEW partial, NEW cluster, NEW index,
           CanPlace(N, R, partial, cluster, index),
           NEW after, after = PlaceCluster(partial, cluster, index)
    PROVE  HasPlaced(N, R, partial, cluster, index, after)
<1> USE DEF CanPlace, HasPlaced
<1>1. PICK adjacency, groups : partial = [groups |-> groups, adjacency |-> adjacency]
  BY DEF IsPartial
<1>2. partial.adjacency = adjacency /\ partial.groups = groups
  BY <1>1
<1>3. PICK head : head = HeadOf(cluster, index)
  OBVIOUS
<1>4. PICK ids : ids = ToSet(IdList(cluster))
  OBVIOUS
<1>5. PICK one : one = <<head>>
  OBVIOUS
<1>6. one \in Seq(N) /\ IsInjective(one) /\ ToSet(one) = {head}
  BY <1>3, <1>5 DEF IsInjective, ToSet
<1>7. PICK top : top = Extend(adjacency, Root, one)
  OBVIOUS
<1>8. PICK P : P = R \cup {<<Root, head>>}
  OBVIOUS
<1>9. ListsAre(top, N, P) /\ OneHolder(P)
  <2>1. \A m, c : <<m, c>> \in P <=> <<m, c>> \in R \/ (m = Root /\ c \in ToSet(one))
    BY <1>6, <1>8
  <2>2. \A m : \A c \in ToSet(one) : <<m, c>> \notin R
    BY <1>3, <1>6 DEF Unheld
  <2> QED
    BY <1>6, <1>7, <1>2, <2>1, <2>2, ExtendLists
<1>10. PICK Q : Q = R \cup ClusterPairs(cluster, index)
  OBVIOUS
<1>11. \A m, c : <<m, c>> \in Q <=> <<m, c>> \in P \/ (m = head /\ c \in ids \ {head})
  BY <1>3, <1>4, <1>8, <1>10 DEF ClusterPairs
<1>12. ASSUME NEW others, others \in Seq(N), IsInjective(others), ToSet(others) = ids \ {head}
       PROVE  ListsAre(Extend(top, head, others), N, Q) /\ OneHolder(Q)
  <2>1. \A m : \A c \in ToSet(others) : <<m, c>> \notin P
    BY <1>3, <1>4, <1>8, <1>12 DEF Unheld
  <2>2. \A m, c : <<m, c>> \in Q <=> <<m, c>> \in P \/ (m = head /\ c \in ToSet(others))
    BY <1>11, <1>12
  <2> QED
    BY <1>9, <1>12, <2>1, <2>2, ExtendLists
<1>13. CASE Len(cluster) = 1
  <2>1. DOMAIN cluster = {1} /\ head = cluster[1].id /\ ids = {head}
    <3>1. DOMAIN cluster = 1..1
      BY <1>13, ClusterIs
    <3>2. DOMAIN cluster = {1}
      BY <3>1
    <3> QED
      BY <1>3, <1>4, <1>13, <3>2, ClusterIs DEF HeadOf
  <2>2. IdList(cluster) = one
    BY <1>5, <2>1 DEF IdList
  <2>3. after = [groups |-> groups, adjacency |-> top]
    BY <1>1, <1>7, <1>13, <2>2 DEF PlaceCluster, PlaceSingle
  <2>4. ListsAre(top, N, Q) /\ OneHolder(Q)
    <3>1. \A m, c : <<m, c>> \in Q <=> <<m, c>> \in P
      BY <1>11, <2>1
    <3> QED
      BY <1>9, <3>1 DEF ListsAre, OneHolder
  <2> QED
    BY <1>10, <1>13, <1>2, <2>3, <2>4 DEF IsGroup, IsPartial
<1>14. CASE Len(cluster) # 1 /\ HasAnchor(cluster)
  <2>1. PICK place \in DOMAIN cluster : place = AnchorPlace(cluster)
    BY AnchorIsPlace
  <2>2. head = cluster[place].id
    BY <1>3, <1>14, <2>1 DEF HeadOf
  <2>3. PICK rest : rest = DOMAIN cluster \ {place}
    OBVIOUS
  <2>4. PICK others : others = IdList(Those(cluster, rest))
    OBVIOUS
  <2>5. /\ cluster \in Seq(ToSet(cluster)) /\ rest \subseteq DOMAIN cluster
        /\ \A k \in rest : cluster[k].id \in N
        /\ \A k, l \in rest : cluster[k].id = cluster[l].id => k = l
    BY <2>3, ClusterIs DEF IsCluster
  <2>6. others \in Seq(N) /\ IsInjective(others) /\ ToSet(others) = {cluster[k].id : k \in rest}
    BY <2>4, <2>5, ThoseList
  <2>7. {cluster[k].id : k \in rest} = ids \ {head}
    <3>1. \A k \in rest : cluster[k].id \in ids \ {head}
      BY <1>4, <2>1, <2>2, <2>3, ClusterIs DEF IsCluster
    <3>2. \A c \in ids \ {head} : \E k \in rest : c = cluster[k].id
      BY <1>4, <2>2, <2>3, ClusterIs
    <3> QED
      BY <3>1, <3>2
  <2>8. after = [groups |-> groups, adjacency |-> Extend(top, head, others)]
    <3>1. PlaceAnchored(adjacency, cluster) = Extend(top, head, others)
      BY <1>5, <1>7, <2>1, <2>2, <2>3, <2>4 DEF PlaceAnchored
    <3> QED
      BY <1>1, <1>14, <3>1 DEF PlaceCluster
  <2>9. ListsAre(Extend(top, head, others), N, Q) /\ OneHolder(Q)
    BY <1>12, <2>6, <2>7
  <2> QED
    BY <1>10, <1>14, <1>2, <2>8, <2>9 DEF IsGroup, IsPartial
<1>15. CASE Len(cluster) # 1 /\ ~ HasAnchor(cluster)
  <2>1. head = GroupId(index)
    BY <1>3, <1>15 DEF HeadOf
  <2>2. PICK others : others = IdList(cluster)
    OBVIOUS
  <2>3. others \in Seq(N) /\ IsInjective(others) /\ ToSet(others) = ids
    BY <1>4, <2>2, ClusterIs
  <2>4. head \notin ids
    <3>1. head[1] = "spatial_group"
      BY <2>1 DEF GroupId
    <3>2. \A c \in ids : c[1] = "widget"
      BY <1>4, ClusterIs DEF IsCluster
    <3> QED
      BY <3>1, <3>2
  <2>5. after = [groups |-> groups \cup {head}, adjacency |-> Extend(top, head, others)]
    <3>1. PlaceGroup(adjacency, cluster, index) = Extend(top, head, others)
      BY <1>5, <1>7, <2>1, <2>2 DEF PlaceGroup
    <3> QED
      BY <1>1, <1>15, <2>1, <3>1 DEF PlaceCluster
  <2>6. ListsAre(Extend(top, head, others), N, Q) /\ OneHolder(Q)
    BY <1>12, <2>3, <2>4
  <2> QED
    BY <1>10, <1>15, <1>2, <2>1, <2>5, <2>6 DEF IsGroup, IsPartial
<1> QED
  BY <1>13, <1>14, <1>15

-----------------------------------------------------------------------------
(* The grouping by proximity.                                                *)

\* The equation of the recursive function of Placed, and the function.
IsPlacing(ws, n, f) ==
    f = [k \in 0..n |->
            IF k = 0 THEN Unplaced(ws)
            ELSE PlaceCluster(f[k - 1],
                              WidgetsAt(Clustered(ws), Components(Clustered(ws))[k]), k - 1)]
Placing(ws) ==
    CHOOSE f : f = [k \in 0..Len(Components(Clustered(ws))) |->
                       IF k = 0 THEN Unplaced(ws)
                       ELSE PlaceCluster(f[k - 1],
                               WidgetsAt(Clustered(ws), Components(Clustered(ws))[k]), k - 1)]

LEMMA PlacingExists ==
    ASSUME NEW ws, NEW n \in Nat, Len(Components(Clustered(ws))) = n
    PROVE  IsPlacing(ws, n, Placing(ws)) /\ Placed(ws) = Placing(ws)[n]
<1> DEFINE T == {k \in 0..n : \E f : IsPlacing(ws, k, f)}
           After(before, k) ==
              PlaceCluster(before, WidgetsAt(Clustered(ws), Components(Clustered(ws))[k]), k - 1)
<1>1. 0 \in T
  <2> DEFINE f == [k \in 0..0 |-> Unplaced(ws)]
  <2>1. IsPlacing(ws, 0, f)
    BY DEF IsPlacing
  <2> QED
    BY <2>1
<1>2. ASSUME NEW m \in 0..n, m \in T, m < n PROVE m + 1 \in T
  <2>1. PICK f : IsPlacing(ws, m, f)
    BY <1>2
  <2> DEFINE g == [k \in 0..(m + 1) |-> IF k <= m THEN f[k] ELSE After(f[m], k)]
  <2> HIDE DEF After
  <2>2. \A k \in 0..m : f[k] = IF k = 0 THEN Unplaced(ws) ELSE After(f[k - 1], k)
    BY <2>1 DEF IsPlacing, After
  <2>3. ASSUME NEW k \in 0..(m + 1)
        PROVE  g[k] = IF k = 0 THEN Unplaced(ws) ELSE After(g[k - 1], k)
    <3>1. CASE k <= m
      <4>1. /\ k \in 0..m /\ g[k] = f[k]
            /\ k # 0 => k - 1 \in 0..(m + 1) /\ g[k - 1] = f[k - 1]
        BY <3>1
      <4> HIDE DEF g
      <4> QED
        BY <2>2, <4>1
    <3>2. CASE k = m + 1
      BY <3>2, <1>2
    <3> QED
      BY <3>1, <3>2, <1>2
  <2>4. g = [k \in 0..(m + 1) |-> IF k = 0 THEN Unplaced(ws) ELSE After(g[k - 1], k)]
    BY <2>3
  <2> HIDE DEF g
  <2>5. IsPlacing(ws, m + 1, g)
    BY <2>4 DEF IsPlacing, After
  <2>6. m + 1 \in 0..n
    BY <1>2
  <2> QED
    BY <2>5, <2>6
<1> HIDE DEF T, After
<1>3. n \in T
  <2>1. \A k \in 0..n : k \in T /\ k < n => k + 1 \in T
    BY <1>2
  <2>2. \A k \in 0..n : k \in T
    BY <1>1, <2>1, UpTo
  <2> QED
    BY <2>2
<1>4. PICK f : IsPlacing(ws, n, f)
  BY <1>3 DEF T
<1>5. IsPlacing(ws, n, Placing(ws))
  BY <1>4 DEF IsPlacing, Placing
<1>6. Placed(ws) = Placing(ws)[n]
  BY DEF Placed, Placing
<1> QED
  BY <1>5, <1>6

\* The k-th cluster of a board, its place in the tree, and the spatial groups.
ClusterOf(ws, k) == WidgetsAt(Clustered(ws), Components(Clustered(ws))[k])
ClusterPlaces(ws) == DOMAIN Components(Clustered(ws))
SpatialGroups(ws, k) == {GroupId(j - 1) : j \in {i \in 1..k : IsGroup(ClusterOf(ws, i))}}
SpatialPairs(ws, k) ==
    PairsOf(Tables(ws)) \cup UNION {ClusterPairs(ClusterOf(ws, j), j - 1) : j \in 1..k}
SpatialNodes(ws) == BoardNodes(ws) \cup SpatialGroups(ws, Len(Components(Clustered(ws))))

\* The clusters of a board: each has plain widgets, and a plain widget is in one.
LEMMA ClustersAre ==
    ASSUME NEW ws, IsBoard(ws)
    PROVE  /\ Len(Components(Clustered(ws))) \in Nat
           /\ ClusterPlaces(ws) = 1..Len(Components(Clustered(ws)))
           /\ \A k \in ClusterPlaces(ws) :
                 /\ IsCluster(ClusterOf(ws, k))
                 /\ \A c \in ToSet(IdList(ClusterOf(ws, k))) :
                       \E w \in ToSet(ws) : IsPlain(w) /\ c = w.id
           /\ \A k, l \in ClusterPlaces(ws) :
                 k # l => ToSet(IdList(ClusterOf(ws, k))) \cap ToSet(IdList(ClusterOf(ws, l))) = {}
           /\ \A w \in ToSet(ws) :
                 IsPlain(w) => \E k \in ClusterPlaces(ws) : w.id \in ToSet(IdList(ClusterOf(ws, k)))
<1>1. PICK free : free = Clustered(ws)
  OBVIOUS
<1>2. PICK clusters : clusters = Components(free)
  OBVIOUS
<1>3. /\ Len(free) \in Nat /\ DOMAIN free = 1..Len(free)
      /\ \A w : w \in ToSet(free) <=> w \in ToSet(ws) /\ IsPlain(w)
      /\ \A k \in DOMAIN free : free[k] \in ToSet(free) /\ free[k].box \in Boxes
      /\ \A k, l \in DOMAIN free : free[k].id = free[l].id => k = l
  BY <1>1, ClusteredIs
<1>4. /\ clusters \in Seq(Seq(DOMAIN free))
      /\ \A k \in DOMAIN clusters : clusters[k] # <<>> /\ Ascending(clusters[k])
      /\ \A k, l \in DOMAIN clusters : k # l => ToSet(clusters[k]) \cap ToSet(clusters[l]) = {}
      /\ \A i \in DOMAIN free : \E k \in DOMAIN clusters : i \in ToSet(clusters[k])
  BY <1>2, <1>3, ComponentsPartition
<1>5. PICK n \in Nat : n = Len(clusters) /\ DOMAIN clusters = 1..n
  <2>1. PICK W : W = Seq(DOMAIN free)
    OBVIOUS
  <2> QED
    BY <1>4, <2>1
<1>6. ClusterPlaces(ws) = 1..n /\ Len(Components(Clustered(ws))) = n
  BY <1>1, <1>2, <1>5 DEF ClusterPlaces
<1>7. \A k \in 1..n : clusters[k] \in Seq(DOMAIN free)
  <2>1. PICK W : W = Seq(DOMAIN free)
    OBVIOUS
  <2>2. clusters \in Seq(W)
    BY <1>4, <2>1
  <2>3. \A k \in 1..n : clusters[k] \in W
    BY <1>5, <2>2
  <2> QED
    BY <2>1, <2>3
<1>8. ASSUME NEW k \in 1..n
      PROVE  /\ IsCluster(ClusterOf(ws, k))
             /\ ToSet(IdList(ClusterOf(ws, k))) = {free[p].id : p \in ToSet(clusters[k])}
             /\ ToSet(clusters[k]) \subseteq DOMAIN free
  <2>1. PICK places : places = clusters[k]
    OBVIOUS
  <2>2. PICK cluster : cluster = ClusterOf(ws, k)
    OBVIOUS
  <2>3. places \in Seq(DOMAIN free) /\ places # <<>> /\ Ascending(places)
    BY <1>4, <1>5, <1>7, <2>1
  <2>4. PICK m \in Nat \ {0} : DOMAIN places = 1..m /\ m = Len(places)
    BY <2>3
  <2>5. cluster = [l \in 1..m |-> free[places[l]]]
    BY <1>1, <1>2, <2>1, <2>2, <2>4 DEF ClusterOf, WidgetsAt
  <2>6. \A l \in 1..m : places[l] \in DOMAIN free /\ places[l] \in Nat
    BY <1>3, <2>3, <2>4
  <2>7. \A l, h \in 1..m : cluster[l].id = cluster[h].id => l = h
    <3> SUFFICES ASSUME NEW l \in 1..m, NEW h \in 1..m, cluster[l].id = cluster[h].id PROVE l = h
      OBVIOUS
    <3>1. places[l] = places[h]
      BY <1>3, <2>5, <2>6
    <3>2. (l < h => places[l] < places[h]) /\ (h < l => places[h] < places[l])
      BY <2>3, <2>4 DEF Ascending
    <3> QED
      BY <2>6, <3>1, <3>2
  <2>8. cluster \in Seq(ToSet(cluster)) /\ cluster # <<>>
    <3>1. \A l \in 1..m : cluster[l] \in ToSet(cluster)
      BY <2>5 DEF ToSet
    <3>2. PICK W : W = ToSet(cluster)
      OBVIOUS
    <3>3. cluster \in Seq(W) /\ Len(cluster) = m
      BY <2>5, <3>1, <3>2
    <3> QED
      BY <3>2, <3>3
  <2>9. \A p \in DOMAIN free : free[p].id[1] = "widget"
    BY <1>3, BoardIs
  <2>10. \A l \in 1..m : cluster[l].box \in Boxes /\ cluster[l].id[1] = "widget"
    BY <1>3, <2>5, <2>6, <2>9
  <2>11. IsCluster(cluster)
    BY <2>5, <2>7, <2>8, <2>10 DEF IsCluster
  <2>12. ToSet(places) = {places[l] : l \in 1..m}
    BY <2>4 DEF ToSet
  <2>13. ToSet(IdList(cluster)) = {free[places[l]].id : l \in 1..m}
    BY <2>5 DEF ToSet, IdList
  <2>14. ToSet(IdList(cluster)) = {free[p].id : p \in ToSet(places)}
    BY <2>12, <2>13
  <2> QED
    BY <2>1, <2>2, <2>6, <2>11, <2>12, <2>14
<1>9. \A k \in 1..n : \A c \in ToSet(IdList(ClusterOf(ws, k))) :
         \E w \in ToSet(ws) : IsPlain(w) /\ c = w.id
  BY <1>3, <1>8
<1>10. ASSUME NEW k \in 1..n, NEW l \in 1..n, k # l,
             NEW c \in ToSet(IdList(ClusterOf(ws, k))), c \in ToSet(IdList(ClusterOf(ws, l)))
      PROVE  FALSE
  <2>1. PICK p \in ToSet(clusters[k]) : c = free[p].id /\ p \in DOMAIN free
    BY <1>8
  <2>2. PICK q \in ToSet(clusters[l]) : c = free[q].id /\ q \in DOMAIN free
    BY <1>8, <1>10
  <2>3. p = q
    BY <1>3, <2>1, <2>2
  <2> QED
    BY <1>4, <1>5, <1>10, <2>1, <2>2, <2>3
<1>11. ASSUME NEW w \in ToSet(ws), IsPlain(w)
       PROVE  \E k \in 1..n : w.id \in ToSet(IdList(ClusterOf(ws, k)))
  <2>1. PICK i \in DOMAIN free : w = free[i]
    BY <1>3, <1>11 DEF ToSet
  <2>2. PICK k \in 1..n : i \in ToSet(clusters[k])
    BY <1>4, <1>5
  <2> QED
    BY <1>8, <2>1, <2>2
<1> QED
  BY <1>6, <1>8, <1>9, <1>10, <1>11

\* The head of a cluster is one of its widgets, or a group that has its number.
LEMMA HeadIs ==
    ASSUME NEW cluster, IsCluster(cluster), NEW index
    PROVE  /\ IF IsGroup(cluster) THEN HeadOf(cluster, index) = GroupId(index)
              ELSE HeadOf(cluster, index) \in ToSet(IdList(cluster))
           /\ \A m, c : <<m, c>> \in ClusterPairs(cluster, index)
                 <=> \/ m = Root /\ c = HeadOf(cluster, index)
                     \/ m = HeadOf(cluster, index) /\ c # m /\ c \in ToSet(IdList(cluster))
           /\ \A c \in ToSet(IdList(cluster)) : c[1] = "widget"
<1>1. Len(cluster) = 1 => 1 \in DOMAIN cluster
  BY ClusterIs
<1>2. IF IsGroup(cluster) THEN HeadOf(cluster, index) = GroupId(index)
      ELSE HeadOf(cluster, index) \in ToSet(IdList(cluster))
  BY <1>1, ClusterIs, AnchorIsPlace DEF HeadOf, IsGroup
<1>3. \A c \in ToSet(IdList(cluster)) : c[1] = "widget"
  BY ClusterIs DEF IsCluster
<1> QED
  BY <1>2, <1>3 DEF ClusterPairs

LEMMA SpatialPairsAre ==
    \A ws, k, m, c : <<m, c>> \in SpatialPairs(ws, k)
       <=> \/ <<m, c>> \in PairsOf(Tables(ws))
           \/ \E j \in 1..k : <<m, c>> \in ClusterPairs(ClusterOf(ws, j), j - 1)
BY DEF SpatialPairs

\* After k turns of the loop the lists have the tables and the first k clusters.
PlacedUpTo(ws, k, partial) ==
    /\ IsPartial(partial) /\ partial.groups = SpatialGroups(ws, k)
    /\ ListsAre(partial.adjacency, SpatialNodes(ws), SpatialPairs(ws, k))
    /\ OneHolder(SpatialPairs(ws, k))

LEMMA PlaceNext ==
    ASSUME NEW ws, IsBoard(ws), NEW k \in Nat, k + 1 \in ClusterPlaces(ws),
           NEW partial, PlacedUpTo(ws, k, partial)
    PROVE  PlacedUpTo(ws, k + 1, PlaceCluster(partial, ClusterOf(ws, k + 1), k))
<1>1. PICK n \in Nat : n = Len(Components(Clustered(ws))) /\ ClusterPlaces(ws) = 1..n
  BY ClustersAre
<1>2. k + 1 \in 1..n /\ 1..(k + 1) = (1..k) \cup {k + 1} /\ 1..k \subseteq 1..n /\ (k + 1) - 1 = k
  BY <1>1
<1>3. PICK cluster : cluster = ClusterOf(ws, k + 1)
  OBVIOUS
<1>4. PICK head : head = HeadOf(cluster, k)
  OBVIOUS
<1>5. PICK ids : ids = ToSet(IdList(cluster))
  OBVIOUS
<1>6. IsCluster(cluster) /\ \A c \in ids : \E w \in ToSet(ws) : IsPlain(w) /\ c = w.id
  BY <1>1, <1>2, <1>3, <1>5, ClustersAre
<1>7. /\ IF IsGroup(cluster) THEN head = GroupId(k) ELSE head \in ids
      /\ \A c \in ids : c[1] = "widget"
  BY <1>4, <1>5, <1>6, HeadIs
<1>8. ids \subseteq SpatialNodes(ws)
  BY <1>6, BoardIs DEF SpatialNodes, BoardNodes
<1>9. head \in SpatialNodes(ws)
  <2>1. CASE IsGroup(cluster)
    <3>1. head = GroupId((k + 1) - 1) /\ IsGroup(ClusterOf(ws, k + 1))
      BY <1>2, <1>3, <1>7, <2>1
    <3>2. head \in SpatialGroups(ws, n)
      BY <1>2, <3>1 DEF SpatialGroups
    <3> QED
      BY <1>1, <3>2 DEF SpatialNodes
  <2> QED
    BY <1>7, <1>8, <2>1
<1>10. ASSUME NEW m, NEW c \in ids \cup {head}, <<m, c>> \in SpatialPairs(ws, k) PROVE FALSE
  <2>1. c \in ids \/ (c = GroupId(k) /\ c[1] = "spatial_group")
    BY <1>7 DEF GroupId
  <2>2. CASE <<m, c>> \in PairsOf(Tables(ws))
    <3>1. PICK t \in Tables(ws) : HeldBy(t, m, c)
      BY <2>2, PairsOfAre
    <3>2. c[1] # "spatial_group"
      BY <3>1, HeldIs
    <3>3. c \in ids /\ c[1] = "widget"
      BY <1>7, <2>1, <3>2
    <3>4. c = t.id
      BY <3>1, <3>3, HeldIs
    <3>5. PICK w \in ToSet(ws) : IsPlain(w) /\ c = w.id
      BY <1>6, <3>3
    <3>6. t \in ToSet(ws) /\ IsTable(t)
      BY DEF Tables
    <3>7. t = w
      BY <3>4, <3>5, <3>6, BoardIs
    <3> QED
      BY <3>5, <3>6, <3>7 DEF IsPlain
  <2>3. ASSUME NEW j \in 1..k, <<m, c>> \in ClusterPairs(ClusterOf(ws, j), j - 1) PROVE FALSE
    <3>1. PICK other : other = ClusterOf(ws, j)
      OBVIOUS
    <3>2. j \in 1..n /\ j # k + 1 /\ j - 1 # k
      BY <1>2
    <3>3. IsCluster(other) /\ ToSet(IdList(other)) \cap ids = {}
      BY <1>1, <1>2, <1>3, <1>5, <3>1, <3>2, ClustersAre
    <3>4. PICK i : i = j - 1
      OBVIOUS
    <3>5. c \in ToSet(IdList(other)) \/ (c = GroupId(i) /\ c[1] = "spatial_group")
      <4>1. c = HeadOf(other, i) \/ c \in ToSet(IdList(other))
        BY <2>3, <3>1, <3>3, <3>4, HeadIs
      <4> QED
        BY <3>3, <4>1, HeadIs DEF GroupId
    <3>6. \A d \in ToSet(IdList(other)) : d[1] = "widget"
      BY <3>3, HeadIs
    <3>7. GroupId(i) # GroupId(k)
      BY <3>2, <3>4 DEF GroupId
    <3> QED
      BY <1>7, <2>1, <3>3, <3>5, <3>6, <3>7
  <2> QED
    BY <1>10, <2>2, <2>3, SpatialPairsAre
<1>11. PICK P : P = SpatialPairs(ws, k)
  OBVIOUS
<1>12. PICK groups : groups = SpatialGroups(ws, k)
  OBVIOUS
<1>13. PICK after : after = PlaceCluster(partial, cluster, k)
  OBVIOUS
<1>14. /\ IsPartial(partial) /\ partial.groups = groups
       /\ ListsAre(partial.adjacency, SpatialNodes(ws), P) /\ OneHolder(P)
  BY <1>11, <1>12 DEF PlacedUpTo
<1>15. /\ ListsAre(after.adjacency, SpatialNodes(ws), P \cup ClusterPairs(cluster, k))
       /\ OneHolder(P \cup ClusterPairs(cluster, k))
       /\ IsPartial(after)
       /\ after.groups = IF IsGroup(cluster) THEN groups \cup {GroupId(k)} ELSE groups
  <2>1. /\ ToSet(IdList(cluster)) \subseteq SpatialNodes(ws) /\ HeadOf(cluster, k) \in SpatialNodes(ws)
        /\ Unheld(P, ToSet(IdList(cluster)) \cup {HeadOf(cluster, k)})
    BY <1>4, <1>5, <1>8, <1>9, <1>10, <1>11 DEF Unheld
  <2>2. CanPlace(SpatialNodes(ws), P, partial, cluster, k)
    BY <1>6, <1>14, <2>1 DEF CanPlace
  <2>3. HasPlaced(SpatialNodes(ws), P, partial, cluster, k, after)
    BY <1>13, <2>2, PlaceClusterIs
  <2> QED
    BY <1>14, <2>3 DEF HasPlaced
<1>16. SpatialGroups(ws, k + 1) = IF IsGroup(cluster) THEN groups \cup {GroupId(k)} ELSE groups
  <2>1. \A g : g \in SpatialGroups(ws, k + 1)
                 <=> \E j \in 1..(k + 1) : IsGroup(ClusterOf(ws, j)) /\ g = GroupId(j - 1)
    BY DEF SpatialGroups
  <2>2. \A g : g \in groups <=> \E j \in 1..k : IsGroup(ClusterOf(ws, j)) /\ g = GroupId(j - 1)
    BY <1>12 DEF SpatialGroups
  <2>3. \A g : g \in SpatialGroups(ws, k + 1)
                 <=> g \in groups \/ (IsGroup(cluster) /\ g = GroupId(k))
    BY <1>2, <1>3, <2>1, <2>2
  <2> QED
    BY <2>3
<1>17. SpatialPairs(ws, k + 1) = P \cup ClusterPairs(cluster, k)
  <2>1. {ClusterPairs(ClusterOf(ws, j), j - 1) : j \in 1..(k + 1)}
           = {ClusterPairs(ClusterOf(ws, j), j - 1) : j \in 1..k} \cup {ClusterPairs(cluster, k)}
    BY <1>2, <1>3
  <2> QED
    BY <1>11, <2>1 DEF SpatialPairs
<1>18. PlacedUpTo(ws, k + 1, after)
  BY <1>15, <1>16, <1>17 DEF PlacedUpTo
<1> QED
  BY <1>3, <1>13, <1>18

\* Every turn of the loop has its clusters placed.
LEMMA PlacingIs ==
    ASSUME NEW ws, IsBoard(ws), NEW n \in Nat, n = Len(Components(Clustered(ws)))
    PROVE  \A k \in 0..n : PlacedUpTo(ws, k, Placing(ws)[k])
<1> DEFINE f == Placing(ws)
           T == {k \in 0..n : PlacedUpTo(ws, k, f[k])}
<1>1. \A k \in 0..n : f[k] = IF k = 0 THEN Unplaced(ws)
                             ELSE PlaceCluster(f[k - 1], ClusterOf(ws, k), k - 1)
  <2>1. IsPlacing(ws, n, f)
    BY PlacingExists
  <2> HIDE DEF f
  <2> QED
    BY <2>1 DEF IsPlacing, ClusterOf
<1>2. ClusterPlaces(ws) = 1..n
  BY ClustersAre
<1> HIDE DEF f
<1>3. 0 \in T
  <2>1. PICK partial : partial = f[0]
    OBVIOUS
  <2>2. 0 \in 0..n
    OBVIOUS
  <2>3. partial = Unplaced(ws)
    BY <1>1, <2>1, <2>2
  <2>4. partial = [groups |-> {}, adjacency |-> TableAdjacency(ws)]
    BY <2>3 DEF Unplaced
  <2>5. SpatialGroups(ws, 0) = {}
    BY DEF SpatialGroups
  <2>6. SpatialPairs(ws, 0) = PairsOf(Tables(ws))
    BY DEF SpatialPairs
  <2>7. ListsAre(TableAdjacency(ws), SpatialNodes(ws), PairsOf(Tables(ws)))
    <3> SUFFICES ASSUME NEW m
                 PROVE  /\ Children(TableAdjacency(ws), m) \in Seq(SpatialNodes(ws))
                        /\ IsInjective(Children(TableAdjacency(ws), m))
                        /\ \A c : c \in Kids(TableAdjacency(ws), m) <=> <<m, c>> \in PairsOf(Tables(ws))
      BY DEF ListsAre
    <3>1. PICK q : q = Children(TableAdjacency(ws), m)
      OBVIOUS
    <3>2. /\ q \in Seq(BoardNodes(ws)) /\ IsInjective(q)
          /\ \A c : c \in Kids(TableAdjacency(ws), m) <=> <<m, c>> \in PairsOf(Tables(ws))
      BY <3>1, TableAdjacencyIs DEF ListsAre
    <3>3. BoardNodes(ws) \subseteq SpatialNodes(ws)
      BY DEF SpatialNodes
    <3>4. q \in Seq(SpatialNodes(ws))
      BY <3>2, <3>3
    <3> QED
      BY <3>1, <3>2, <3>4
  <2>8. PlacedUpTo(ws, 0, partial)
    <3>1. partial.adjacency = TableAdjacency(ws)
      BY <2>4
    <3> QED
      BY <2>5, <2>6, <2>7, <2>4, <3>1, TableAdjacencyIs DEF PlacedUpTo, IsPartial
  <2> QED
    BY <2>1, <2>8, <2>2
<1>4. \A k \in 0..n : k \in T /\ k < n => k + 1 \in T
  <2> SUFFICES ASSUME NEW k \in 0..n, PlacedUpTo(ws, k, f[k]), k < n
               PROVE  PlacedUpTo(ws, k + 1, f[k + 1]) /\ k + 1 \in 0..n
    OBVIOUS
  <2>1. k + 1 \in 0..n /\ k + 1 \in 1..n /\ k + 1 # 0 /\ (k + 1) - 1 = k /\ k \in Nat
    OBVIOUS
  <2>2. PICK partial : partial = f[k]
    OBVIOUS
  <2>3. f[k + 1] = PlaceCluster(partial, ClusterOf(ws, k + 1), k)
    BY <1>1, <2>1, <2>2
  <2>4. PlacedUpTo(ws, k + 1, PlaceCluster(partial, ClusterOf(ws, k + 1), k))
    BY <1>2, <2>1, <2>2, PlaceNext
  <2> QED
    BY <2>1, <2>3, <2>4
<1>5. \A k \in 0..n : k \in T
  <2> HIDE DEF T
  <2> QED
    BY <1>3, <1>4, UpTo
<1> QED
  BY <1>5 DEF f

\* The largest of a cluster is AnchorRatio times the next, which has an area, just if
\* some widget dwarfs the others, and then it is the first of those that do.
LEMMA AnchorDwarfs ==
    ASSUME NEW cluster, IsCluster(cluster), Len(cluster) # 1
    PROVE  /\ HasAnchor(cluster) => Dwarfs(cluster, AnchorPlace(cluster))
           /\ \A k \in DOMAIN cluster :
                 Dwarfs(cluster, k) => HasAnchor(cluster) /\ AnchorPlace(cluster) <= k
<1>1. PICK n \in Nat \ {0} : n = Len(cluster) /\ DOMAIN cluster = 1..n /\ n >= 2
  <2>1. Len(cluster) \in Nat \ {0} /\ DOMAIN cluster = 1..Len(cluster)
    BY ClusterIs
  <2>2. Len(cluster) >= 2
    BY <2>1
  <2> QED
    BY <2>1, <2>2
<1>2. PICK a : a = AnchorPlace(cluster)
  OBVIOUS
<1>3. PICK s : s = SecondPlace(cluster)
  OBVIOUS
<1> DEFINE area == [k \in 1..n |-> Area(cluster[k])]
<1>4. \A k \in 1..n : area[k] \in Int /\ area[k] = Area(cluster[k])
  BY <1>1, AreasAre
<1> HIDE DEF area
<1>5. a \in 1..n /\ \A m \in (1..n) \ {a} : area[m] < area[a] \/ (area[m] = area[a] /\ a < m)
  BY <1>1, <1>2, <1>4, AnchorIsPlace
<1>6. s \in (1..n) \ {a} /\ \A m \in (1..n) \ {a} : area[m] <= area[s]
  <2>1. (1..n) \ {a} # {}
    <3>1. 1 \in 1..n /\ 2 \in 1..n
      BY <1>1
    <3> QED
      BY <3>1
  <2>2. PICK others : others = (1..n) \ {a}
    OBVIOUS
  <2>3. s = LargestOf(cluster, others) /\ others \in SUBSET DOMAIN cluster /\ others # {}
    BY <1>1, <1>2, <1>3, <2>1, <2>2 DEF SecondPlace
  <2>4. s \in others /\ \A m \in others \ {s} :
            Area(cluster[m]) < Area(cluster[s]) \/ Area(cluster[m]) = Area(cluster[s])
    BY <2>3, LargestIs
  <2> QED
    BY <1>4, <2>2, <2>4
<1>7. AnchorRatio \in Nat \ {0}
  BY SpatialAssumption
<1>8. \A x \in Int : \A y \in Int :
         /\ AnchorRatio * x \in Int
         /\ x <= y => AnchorRatio * x <= AnchorRatio * y
         /\ x > 0 => AnchorRatio * x >= x
  <2>1. \A r, x, y \in Int : r > 0 /\ x <= y => r * x <= r * y
    OBVIOUS
  <2>2. \A r, x \in Int : r > 0 /\ x > 0 => r * x >= x
    OBVIOUS
  <2>3. \A r, x \in Int : r * x \in Int
    OBVIOUS
  <2> QED
    BY <1>7, <2>1, <2>2, <2>3
<1> DEFINE times == [x \in Int |-> AnchorRatio * x]
<1>9. /\ \A x \in Int : times[x] \in Int /\ times[x] = AnchorRatio * x
      /\ \A x, y \in Int : x <= y => times[x] <= times[y]
      /\ \A x \in Int : x > 0 => times[x] >= x
  BY <1>8
<1> HIDE DEF times
<1>10. HasAnchor(cluster) <=> area[s] > 0 /\ area[a] >= times[area[s]]
  BY <1>2, <1>3, <1>4, <1>5, <1>6, <1>9 DEF HasAnchor
<1>11. \A k \in 1..n : Dwarfs(cluster, k) <=>
          /\ \E m \in (1..n) \ {k} : area[m] > 0
          /\ \A m \in (1..n) \ {k} : times[area[m]] <= area[k]
  <2> SUFFICES ASSUME NEW k \in 1..n
               PROVE  Dwarfs(cluster, k) <=>
                         /\ \E m \in (1..n) \ {k} : area[m] > 0
                         /\ \A m \in (1..n) \ {k} : times[area[m]] <= area[k]
    OBVIOUS
  <2>1. Dwarfs(cluster, k) <=>
           /\ \E m \in (1..n) \ {k} : Area(cluster[m]) > 0
           /\ \A m \in (1..n) \ {k} : AnchorRatio * Area(cluster[m]) <= Area(cluster[k])
    BY <1>1 DEF Dwarfs
  <2>2. \A m \in 1..n : AnchorRatio * Area(cluster[m]) = times[area[m]] /\ Area(cluster[m]) = area[m]
    BY <1>4, <1>9
  <2> QED
    BY <2>1, <2>2
<1>12. HasAnchor(cluster) => Dwarfs(cluster, a)
  <2> SUFFICES ASSUME area[s] > 0, area[a] >= times[area[s]], NEW m \in (1..n) \ {a}
               PROVE  times[area[m]] <= area[a]
    BY <1>5, <1>6, <1>10, <1>11
  <2>1. times[area[m]] <= times[area[s]]
    BY <1>4, <1>6, <1>9
  <2>2. times[area[m]] \in Int /\ times[area[s]] \in Int /\ area[a] \in Int
    BY <1>4, <1>5, <1>6, <1>9
  <2> QED
    BY <2>1, <2>2
<1>13. ASSUME NEW k \in 1..n, Dwarfs(cluster, k) PROVE HasAnchor(cluster) /\ a <= k
  <2>1. PICK m \in (1..n) \ {k} : area[m] > 0
    BY <1>11, <1>13
  <2>2. \A l \in (1..n) \ {k} : times[area[l]] <= area[k]
    BY <1>11, <1>13
  <2>3. area[k] > 0 /\ area[k] >= area[m]
    BY <1>4, <1>9, <2>1, <2>2
  <2>4. \A l \in 1..n : area[l] <= area[k]
    <3> SUFFICES ASSUME NEW l \in 1..n, l # k PROVE area[l] <= area[k]
      BY <1>4
    <3>1. times[area[l]] <= area[k] /\ times[area[l]] \in Int /\ area[l] \in Int /\ area[k] \in Int
      BY <1>4, <1>9, <2>2
    <3>2. CASE area[l] > 0
      BY <1>9, <3>1, <3>2
    <3>3. CASE ~ area[l] > 0
      BY <2>3, <3>1, <3>3
    <3> QED
      BY <3>2, <3>3
  <2>5. area[a] = area[k] /\ a <= k
    <3>1. area[a] \in Int /\ area[k] \in Int /\ area[a] <= area[k]
      BY <1>4, <1>5, <2>4
    <3>2. CASE k = a
      BY <1>5, <3>2
    <3>3. CASE k # a
      BY <1>5, <3>1, <3>3
    <3> QED
      BY <3>2, <3>3
  <2>6. area[s] > 0
    <3>1. CASE k = a
      <4>1. area[m] <= area[s] /\ area[m] \in Int /\ area[s] \in Int
        BY <1>4, <1>6, <2>1, <3>1
      <4> QED
        BY <2>1, <4>1
    <3>2. CASE k # a
      <4>1. area[k] <= area[s] /\ area[k] \in Int /\ area[s] \in Int
        BY <1>4, <1>6, <3>2
      <4> QED
        BY <2>3, <4>1
    <3> QED
      BY <3>1, <3>2
  <2>7. area[a] >= times[area[s]]
    <3>1. CASE s # k
      BY <1>4, <1>6, <1>9, <2>2, <2>5, <3>1
    <3>2. CASE s = k
      <4>1. a # k
        BY <1>6, <3>2
      <4>2. times[area[a]] <= area[k]
        BY <1>5, <2>2, <4>1
      <4> QED
        BY <1>4, <1>5, <1>9, <2>5, <3>2, <4>2
    <3> QED
      BY <3>1, <3>2
  <2> QED
    BY <1>10, <2>5, <2>6, <2>7
<1> QED
  BY <1>1, <1>2, <1>12, <1>13

\* The reference names the head that the loop of group makes.
LEMMA HeadForIs ==
    ASSUME NEW cluster, IsCluster(cluster), NEW index
    PROVE  HeadFor(cluster, index) = HeadOf(cluster, index)
<1>1. CASE Len(cluster) = 1
  BY <1>1 DEF HeadFor, HeadOf
<1>2. CASE Len(cluster) # 1
  <2> DEFINE anchors == {k \in DOMAIN cluster : Dwarfs(cluster, k)}
  <2>1. PICK a : a = AnchorPlace(cluster) /\ a \in DOMAIN cluster
    BY AnchorIsPlace
  <2>2. CASE ~ HasAnchor(cluster)
    <3>1. anchors = {}
      BY <1>2, <2>2, AnchorDwarfs
    <3> QED
      BY <1>2, <2>2, <3>1 DEF HeadFor, HeadOf
  <2>3. CASE HasAnchor(cluster)
    <3>1. a \in anchors /\ \A k \in anchors : a <= k
      BY <1>2, <2>1, <2>3, AnchorDwarfs
    <3>2. \A k \in anchors : k \in Nat
      BY ClusterIs
    <3>3. a = CHOOSE k \in anchors : \A m \in anchors : k <= m
      <4> HIDE DEF anchors
      <4>1. \A k \in anchors : (\A m \in anchors : k <= m) => k = a
        BY <3>1, <3>2
      <4> QED
        BY <3>1, <4>1
    <3> QED
      BY <1>2, <2>1, <2>3, <3>1, <3>3 DEF HeadFor, HeadOf
  <2> QED
    BY <2>2, <2>3
<1> QED
  BY <1>1, <1>2

\* What holds what in the tree of a whole board.
AllSpatialPairs(ws) == SpatialPairs(ws, Len(Components(Clustered(ws))))

\* A widget that is no cell has a holder: a table its parent, the others the top level
\* or the head of their cluster.  A cell has none.
LEMMA SpatialHolders ==
    ASSUME NEW ws, IsBoard(ws)
    PROVE  /\ OneHolder(AllSpatialPairs(ws))
           /\ \A t \in Tables(ws) : <<t.parent, t.id>> \in AllSpatialPairs(ws)
           /\ \A k \in ClusterPlaces(ws) :
                 /\ <<Root, HeadOf(ClusterOf(ws, k), k - 1)>> \in AllSpatialPairs(ws)
                 /\ \A c \in ToSet(IdList(ClusterOf(ws, k))) :
                       c # HeadOf(ClusterOf(ws, k), k - 1) =>
                          <<HeadOf(ClusterOf(ws, k), k - 1), c>> \in AllSpatialPairs(ws)
           /\ \A w \in ToSet(ws) : IsCell(w) => \A n : <<n, w.id>> \notin AllSpatialPairs(ws)
<1>1. PICK n \in Nat : n = Len(Components(Clustered(ws))) /\ ClusterPlaces(ws) = 1..n
  BY ClustersAre
<1>2. AllSpatialPairs(ws) = SpatialPairs(ws, n)
  BY <1>1 DEF AllSpatialPairs
<1>3. OneHolder(AllSpatialPairs(ws))
  <2>1. n \in 0..n
    OBVIOUS
  <2> QED
    BY <1>1, <1>2, <2>1, PlacingIs DEF PlacedUpTo
<1>4. \A t \in Tables(ws) : <<t.parent, t.id>> \in AllSpatialPairs(ws)
  <2>1. \A t \in Tables(ws) : HeldBy(t, t.parent, t.id)
    BY DEF HeldBy
  <2>2. \A t \in Tables(ws) : <<t.parent, t.id>> \in PairsOf(Tables(ws))
    BY <2>1, PairsOfAre
  <2> QED
    BY <1>2, <2>2, SpatialPairsAre
<1>5. ASSUME NEW k \in 1..n
      PROVE  /\ <<Root, HeadOf(ClusterOf(ws, k), k - 1)>> \in AllSpatialPairs(ws)
             /\ \A c \in ToSet(IdList(ClusterOf(ws, k))) :
                   c # HeadOf(ClusterOf(ws, k), k - 1) =>
                      <<HeadOf(ClusterOf(ws, k), k - 1), c>> \in AllSpatialPairs(ws)
  <2>1. PICK cluster : cluster = ClusterOf(ws, k)
    OBVIOUS
  <2>2. PICK i : i = k - 1
    OBVIOUS
  <2>3. IsCluster(cluster)
    BY <1>1, <2>1, ClustersAre
  <2>4. \A m, c : <<m, c>> \in ClusterPairs(cluster, i) => <<m, c>> \in AllSpatialPairs(ws)
    BY <1>2, <2>1, <2>2, SpatialPairsAre
  <2>5. <<Root, HeadOf(cluster, i)>> \in ClusterPairs(cluster, i)
    BY <2>3, HeadIs
  <2>6. \A c \in ToSet(IdList(cluster)) : c # HeadOf(cluster, i) =>
           <<HeadOf(cluster, i), c>> \in ClusterPairs(cluster, i)
    BY <2>3, HeadIs
  <2> QED
    BY <2>1, <2>2, <2>4, <2>5, <2>6
<1>6. ASSUME NEW w \in ToSet(ws), IsCell(w), NEW m, <<m, w.id>> \in AllSpatialPairs(ws)
      PROVE  FALSE
  <2>1. w.id[1] = "widget" /\ \A v \in ToSet(ws) : v.id = w.id => v = w
    BY BoardIs
  <2>2. CASE <<m, w.id>> \in PairsOf(Tables(ws))
    <3>1. PICK t \in Tables(ws) : HeldBy(t, m, w.id)
      BY <2>2, PairsOfAre
    <3>2. w.id = t.id /\ t \in ToSet(ws) /\ IsTable(t)
      BY <2>1, <3>1, HeldIs DEF Tables
    <3> QED
      BY <1>6, <2>1, <3>2 DEF IsCell, IsTable
  <2>3. ASSUME NEW j \in 1..n, <<m, w.id>> \in ClusterPairs(ClusterOf(ws, j), j - 1) PROVE FALSE
    <3>1. PICK cluster : cluster = ClusterOf(ws, j)
      OBVIOUS
    <3>2. IsCluster(cluster) /\ \A c \in ToSet(IdList(cluster)) :
             \E v \in ToSet(ws) : IsPlain(v) /\ c = v.id
      BY <1>1, <3>1, ClustersAre
    <3>3. w.id = HeadOf(cluster, j - 1) \/ w.id \in ToSet(IdList(cluster))
      BY <2>3, <3>1, <3>2, HeadIs
    <3>4. w.id \in ToSet(IdList(cluster))
      BY <2>1, <3>2, <3>3, HeadIs DEF GroupId
    <3> QED
      BY <1>6, <2>1, <3>2, <3>4 DEF IsPlain
  <2> QED
    BY <1>2, <1>6, <2>2, <2>3, SpatialPairsAre
<1> QED
  BY <1>1, <1>3, <1>4, <1>5, <1>6

\* What the reference says that holds a widget does so, and the top level holds the groups.
LEMMA HolderNearIs ==
    ASSUME NEW ws, IsBoard(ws)
    PROVE  /\ \A w \in ToSet(ws) : IsPlain(w) => <<HolderNear(ws, w.id), w.id>> \in AllSpatialPairs(ws)
           /\ \A g \in SpatialGroups(ws, Len(Components(Clustered(ws)))) : <<Root, g>> \in AllSpatialPairs(ws)
<1>1. PICK n \in Nat : n = Len(Components(Clustered(ws))) /\ ClusterPlaces(ws) = 1..n
  BY ClustersAre
<1>2. ASSUME NEW w \in ToSet(ws), IsPlain(w)
      PROVE  <<HolderNear(ws, w.id), w.id>> \in AllSpatialPairs(ws)
  <2>1. PICK k : /\ k = CHOOSE c \in ClusterPlaces(ws) : w.id \in ToSet(IdList(ClusterOf(ws, c)))
                 /\ k \in ClusterPlaces(ws) /\ w.id \in ToSet(IdList(ClusterOf(ws, k)))
    BY <1>2, ClustersAre
  <2>2. PICK head : head = HeadFor(ClusterOf(ws, k), k - 1)
    OBVIOUS
  <2>3. HolderNear(ws, w.id) = IF head = w.id THEN Root ELSE head
    BY <2>1, <2>2 DEF HolderNear, ClusterOf, ClusterPlaces
  <2>4. head = HeadOf(ClusterOf(ws, k), k - 1)
    BY <2>1, <2>2, ClustersAre, HeadForIs
  <2> QED
    BY <2>1, <2>3, <2>4, SpatialHolders
<1>3. ASSUME NEW k \in 1..n, IsGroup(ClusterOf(ws, k))
      PROVE  <<Root, GroupId(k - 1)>> \in AllSpatialPairs(ws)
  <2>1. HeadOf(ClusterOf(ws, k), k - 1) = GroupId(k - 1)
    BY <1>1, <1>3, ClustersAre, HeadIs
  <2> QED
    BY <1>1, <2>1, SpatialHolders
<1> QED
  BY <1>1, <1>2, <1>3 DEF SpatialGroups

LEMMA SpatialAcyclic ==
    ASSUME NEW ws, IsBoard(ws)
    PROVE  Acyclic(AllSpatialPairs(ws), SpatialNodes(ws)) /\ Root \notin SpatialNodes(ws)
<1> DEFINE R == AllSpatialPairs(ws)
<1>1. Root \notin SpatialNodes(ws)
  <2>1. Root \notin IdsOf(ws)
    BY BoardIs DEF IdsOf, Root
  <2>2. Root \notin RowNodes(ws)
    BY TableNodes DEF RowNodes, RowId, Root
  <2>3. Root \notin SlotNodes(ws)
    BY SlotsAre DEF SlotNodes, Root
  <2>4. \A k : Root \notin SpatialGroups(ws, k)
    BY DEF SpatialGroups, GroupId, Root
  <2> QED
    BY <2>1, <2>2, <2>3, <2>4 DEF BoardNodes, SpatialNodes
<1> SUFFICES ASSUME NEW S \in SUBSET SpatialNodes(ws), \A c \in S : \E n \in S : <<n, c>> \in R
             PROVE  S = {}
  BY <1>1 DEF Acyclic
<1>2. PICK n \in Nat : n = Len(Components(Clustered(ws))) /\ ClusterPlaces(ws) = 1..n
  BY ClustersAre
<1> HIDE DEF R
<1>3. \A m, c : <<m, c>> \in R /\ c \in S => m \in S
  <2>1. OneHolder(R)
    BY SpatialHolders DEF R
  <2> QED
    BY <2>1 DEF OneHolder
<1>4. \A k \in 1..n : HeadOf(ClusterOf(ws, k), k - 1) \notin S
  BY <1>1, <1>2, <1>3, SpatialHolders DEF R
<1>5. \A w \in ToSet(ws) : IsPlain(w) => w.id \notin S
  <2> SUFFICES ASSUME NEW w \in ToSet(ws), IsPlain(w), w.id \in S PROVE FALSE
    OBVIOUS
  <2>1. PICK k \in 1..n : w.id \in ToSet(IdList(ClusterOf(ws, k)))
    BY <1>2, ClustersAre
  <2>2. PICK head : head = HeadOf(ClusterOf(ws, k), k - 1)
    OBVIOUS
  <2>3. head \notin S /\ <<head, w.id>> \in R
    BY <1>2, <1>4, <2>1, <2>2, SpatialHolders DEF R
  <2> QED
    BY <1>3, <2>3
<1>6. \A w \in ToSet(ws) : IsCell(w) => w.id \notin S
  BY SpatialHolders DEF R
<1>7. \A w \in ToSet(ws) : IsTable(w) => w.id \notin S
  <2> SUFFICES ASSUME NEW t \in Tables(ws), t.id \in S PROVE FALSE
    BY DEF Tables
  <2>1. t.parent \in S
    BY <1>3, SpatialHolders DEF R
  <2>2. t \in ToSet(ws) /\ (t.parent = Root \/ t.parent[1] = "widget")
    BY BoardIs DEF Tables
  <2>3. t.parent[1] = "widget"
    BY <1>1, <2>1, <2>2
  <2>4. t.parent \notin RowNodes(ws)
    BY <2>3, TableNodes DEF RowNodes, RowId
  <2>5. t.parent \notin SlotNodes(ws)
    BY <2>3, SlotsAre DEF SlotNodes
  <2>6. \A k : t.parent \notin SpatialGroups(ws, k)
    BY <2>3 DEF SpatialGroups, GroupId
  <2>7. t.parent \in IdsOf(ws)
    BY <2>1, <2>4, <2>5, <2>6 DEF SpatialNodes, BoardNodes
  <2>8. PICK v \in ToSet(ws) : t.parent = v.id
    BY <2>7, BoardIs DEF IdsOf
  <2>9. ~ IsTable(v)
    BY <2>8 DEF IsBoard, Tables
  <2> QED
    BY <1>5, <1>6, <2>1, <2>8, <2>9 DEF IsPlain
<1>8. S \cap IdsOf(ws) = {}
  <2>1. \A c \in IdsOf(ws) : \E w \in ToSet(ws) : c = w.id
    BY BoardIs DEF IdsOf
  <2> QED
    BY <1>5, <1>6, <1>7, <2>1 DEF IsPlain
<1>9. \A m, c, t : t \in Tables(ws) /\ HeldBy(t, m, c) => <<m, c>> \in R
  BY PairsOfAre, SpatialPairsAre DEF R, AllSpatialPairs
<1>10. S \cap RowNodes(ws) = {}
  <2> SUFFICES ASSUME NEW t \in Tables(ws), NEW c \in ToSet(RowsOf(t)), c \in S PROVE FALSE
    BY DEF RowNodes
  <2>1. HeldBy(t, t.id, c)
    BY DEF HeldBy
  <2>2. t.id \in S /\ t.id \in IdsOf(ws)
    BY <1>3, <1>9, <2>1, BoardIs DEF Tables
  <2> QED
    BY <1>8, <2>2
<1>11. S \cap SlotNodes(ws) = {}
  <2> SUFFICES ASSUME NEW t \in Tables(ws), NEW r \in ToSet(t.rows), NEW c \in ToSet(SlotsOf(t, r)),
                      c \in S
               PROVE  FALSE
    BY DEF SlotNodes
  <2>1. HeldBy(t, RowId(r), c)
    BY DEF HeldBy
  <2>2. RowId(r) \in S
    BY <1>3, <1>9, <2>1
  <2>3. RowId(r) \in RowNodes(ws)
    BY DEF RowNodes, RowsOf, ToSet
  <2> QED
    BY <1>10, <2>2, <2>3
<1>12. S \cap SpatialGroups(ws, n) = {}
  <2> SUFFICES ASSUME NEW k \in 1..n, IsGroup(ClusterOf(ws, k)), GroupId(k - 1) \in S PROVE FALSE
    BY DEF SpatialGroups
  <2>1. HeadOf(ClusterOf(ws, k), k - 1) = GroupId(k - 1)
    BY <1>2, ClustersAre, HeadIs
  <2> QED
    BY <1>4, <2>1
<1> QED
  BY <1>2, <1>8, <1>10, <1>11, <1>12 DEF SpatialNodes, BoardNodes

\* The tree of the grouping by proximity is a tree, also on a board whose widgets are
\* in one another: the clusters, their anchors and groups and the tables do not meet.
THEOREM SpatialTreeIsTree ==
    ASSUME NEW ws, IsBoard(ws)
    PROVE  /\ IsTree(SpatialTreeOf(ws)) /\ NodesOf(SpatialTreeOf(ws)) = SpatialNodes(ws)
           /\ SpatialTreeOf(ws).group_nodes = SpatialGroups(ws, Len(Components(Clustered(ws))))
           /\ ListsAre(SpatialTreeOf(ws).adjacency, SpatialNodes(ws), AllSpatialPairs(ws))
<1>1. PICK n \in Nat : n = Len(Components(Clustered(ws))) /\ ClusterPlaces(ws) = 1..n
  BY ClustersAre
<1>2. PICK placed : placed = Placed(ws)
  OBVIOUS
<1>3. PlacedUpTo(ws, n, placed)
  <2>1. n \in 0..n
    OBVIOUS
  <2> QED
    BY <1>1, <1>2, <2>1, PlacingIs, PlacingExists
<1>4. PICK t : t = SpatialTreeOf(ws)
  OBVIOUS
<1>5. t.group_nodes = SpatialGroups(ws, n) /\ t.adjacency = placed.adjacency /\ NodesOf(t) = SpatialNodes(ws)
  BY <1>1, <1>2, <1>3, <1>4 DEF SpatialTreeOf, BuildTree, NodesOf, SpatialNodes, BoardNodes, PlacedUpTo
<1>6. ListsAre(t.adjacency, SpatialNodes(ws), AllSpatialPairs(ws)) /\ OneHolder(AllSpatialPairs(ws))
  BY <1>1, <1>3, <1>5 DEF PlacedUpTo, AllSpatialPairs
<1>7. IsFiniteSet(SpatialNodes(ws))
  <2> DEFINE f == [j \in 1..n |-> GroupId(j - 1)]
  <2>1. IsFiniteSet({f[j] : j \in 1..n})
    <3>1. IsFiniteSet(1..n)
      BY FS_Interval
    <3> HIDE DEF f
    <3> QED
      BY <3>1, FiniteImage
  <2>2. SpatialGroups(ws, n) \in SUBSET {f[j] : j \in 1..n}
    BY DEF SpatialGroups
  <2>3. IsFiniteSet(SpatialGroups(ws, n))
    <3> HIDE DEF f
    <3> QED
      BY <2>1, <2>2, FS_Subset
  <2> QED
    BY <1>1, <2>3, BoardNodesFinite, FS_Union DEF SpatialNodes
<1> QED
  BY <1>1, <1>4, <1>5, <1>6, <1>7, SpatialAcyclic DEF IsTree
=============================================================================
