----------------------------- MODULE FreeListProofs -----------------------------
(***************************************************************************)
(* Facts about the operators of FreeList, for any heap.  Walk is a         *)
(* recursive function and an induction theorem of the library would take   *)
(* an operator as its parameter; instead every induction here is the least *)
(* counterexample of a set of numbers.                                     *)
(***************************************************************************)
EXTENDS FreeList, NaturalsInduction, WellFoundedInduction, TLAPS

(* A non-empty set of numbers has a least one.                             *)
LEMMA Least ==
  ASSUME NEW S \in SUBSET Nat, S # {}
  PROVE  \E m \in S : \A x \in S : m <= x
<1> DEFINE R == {ss \in Nat \X Nat : ss[1] < ss[2]}
<1>1. IsWellFoundedOn(R, Nat)
  BY NatLessThanWellFounded DEF OpToRel
<1> HIDE DEF R
<1>2. \E m \in S : \A x \in S : ~ (<<x, m>> \in R)
  BY <1>1, WFMin
<1>3. \A x, m \in S : ~ (<<x, m>> \in R) => m <= x
  BY DEF R
<1> QED
  BY <1>2, <1>3

(* Induction on a set of numbers.                                          *)
LEMMA Induction ==
  ASSUME NEW S \in SUBSET Nat, 0 \in S, \A k \in S : k + 1 \in S
  PROVE  S = Nat
<1> SUFFICES ASSUME Nat \ S # {} PROVE FALSE
  OBVIOUS
<1>1. PICK m \in Nat \ S : \A x \in Nat \ S : m <= x
  BY Least
<1>2. m # 0 /\ m - 1 \in Nat /\ m - 1 < m
  BY <1>1
<1>3. m - 1 \in S
  BY <1>1, <1>2
<1>4. (m - 1) + 1 \in S
  BY <1>3
<1> QED
  BY <1>1, <1>2, <1>4

(* Iterating a function is a function on the numbers.                      *)
LEMMA Iteration ==
  ASSUME NEW D, NEW succ \in [D -> D], NEW a \in D
  PROVE  \E f : f = [k \in Nat |-> IF k = 0 THEN a ELSE succ[f[k - 1]]]
<1> DEFINE P(g, n) == /\ g \in [0 .. n -> D]
                      /\ g[0] = a
                      /\ \A i \in 0 .. n : i # 0 => g[i] = succ[g[i - 1]]
           G(n) == CHOOSE g : P(g, n)
           has == {n \in Nat : \E g : P(g, n)}
           f == [n \in Nat |-> G(n)[n]]
<1>1. has = Nat
  <2>1. 0 \in has
    <3>1. P([i \in 0 .. 0 |-> a], 0)
      OBVIOUS
    <3> QED
      BY <3>1
  <2>2. ASSUME NEW n \in has PROVE n + 1 \in has
    <3>1. PICK g : P(g, n)
      BY <2>2
    <3> DEFINE e == [i \in 0 .. n + 1 |-> IF i = n + 1 THEN succ[g[n]] ELSE g[i]]
    <3>2. g[n] \in D /\ n \in Nat
      BY <3>1, <2>2
    <3>3. e \in [0 .. n + 1 -> D]
      BY <3>1, <3>2
    <3>4. e[0] = a
      BY <3>1, <3>2
    <3>5. ASSUME NEW i \in 0 .. n + 1, i # 0 PROVE e[i] = succ[e[i - 1]]
      <4>1. CASE i = n + 1
        BY <4>1, <3>2
      <4>2. CASE i # n + 1
        <5>1. i \in 0 .. n /\ i - 1 \in 0 .. n /\ i - 1 # n + 1 /\ i - 1 \in 0 .. n + 1
          BY <4>2, <3>2, <3>5
        <5>2. e[i] = g[i] /\ e[i - 1] = g[i - 1]
          BY <5>1, <4>2
        <5> QED
          BY <5>1, <5>2, <3>1, <3>5
      <4> QED
        BY <4>1, <4>2
    <3>6. P(e, n + 1)
      BY <3>3, <3>4, <3>5
    <3> HIDE DEF e, P
    <3>7. n + 1 \in Nat /\ \E d : P(d, n + 1)
      BY <3>6, <3>2
    <3> QED
      BY <3>7
  <2> HIDE DEF has
  <2>3. has \in SUBSET Nat
    BY DEF has
  <2> QED
    BY <2>1, <2>2, <2>3, Induction
<1>2. \A n \in Nat : P(G(n), n)
  BY <1>1, Zenon
<1> HIDE DEF G
<1>3. ASSUME NEW n \in Nat PROVE G(n + 1)[n] = G(n)[n]
  <2> DEFINE same == {i \in Nat : i <= n => G(n + 1)[i] = G(n)[i]}
  <2>1. P(G(n), n) /\ P(G(n + 1), n + 1)
    BY <1>2
  <2>2. 0 \in same
    BY <2>1
  <2>3. ASSUME NEW i \in same PROVE i + 1 \in same
    <3> SUFFICES ASSUME i + 1 <= n PROVE G(n + 1)[i + 1] = G(n)[i + 1]
      OBVIOUS
    <3>1. i + 1 \in 0 .. n /\ i + 1 \in 0 .. n + 1 /\ i + 1 # 0 /\ (i + 1) - 1 = i /\ i <= n
      BY <2>3
    <3> QED
      BY <3>1, <2>1, <2>3
  <2> HIDE DEF same
  <2>4. same \in SUBSET Nat
    BY DEF same
  <2>5. same = Nat
    BY <2>2, <2>3, <2>4, Induction
  <2> QED
    BY <2>5 DEF same
<1>4. ASSUME NEW k \in Nat PROVE f[k] = IF k = 0 THEN a ELSE succ[f[k - 1]]
  <2>1. CASE k = 0
    BY <2>1, <1>2
  <2>2. CASE k # 0
    <3>1. k - 1 \in Nat /\ k \in 0 .. k /\ (k - 1) + 1 = k
      BY <2>2
    <3>2. G(k)[k] = succ[G(k)[k - 1]]
      BY <1>2, <2>2, <3>1
    <3>3. G(k)[k - 1] = G(k - 1)[k - 1]
      BY <1>3, <3>1
    <3> QED
      BY <3>1, <3>2, <3>3, <2>2
  <2> QED
    BY <2>1, <2>2
<1>5. f = [k \in Nat |-> f[k]]
  OBVIOUS
<1> HIDE DEF f
<1>6. f = [k \in Nat |-> IF k = 0 THEN a ELSE succ[f[k - 1]]]
  BY <1>4, <1>5
<1> QED
  BY <1>6

(* The nodes that a heap points to.                                        *)
Pointers == Addrs \cup {Null}

(* A walk starts where it was told and goes from node to node.             *)
LEMMA WalkSteps ==
  ASSUME NEW h \in HeapValue, NEW a \in Pointers
  PROVE  /\ Walk(h, a)[0] = a
         /\ \A k \in Nat : Walk(h, a)[k + 1] = Successor(h, Walk(h, a)[k])
<1> DEFINE succ == [x \in Pointers |-> Successor(h, x)]
           node == CHOOSE f : f = [k \in Nat |-> IF k = 0 THEN a ELSE Successor(h, f[k - 1])]
<1>1. succ \in [Pointers -> Pointers]
  BY HeapAssumption DEF Pointers, HeapValue, Successor
<1> HIDE DEF succ
<1>2. PICK f : f = [k \in Nat |-> IF k = 0 THEN a ELSE succ[f[k - 1]]]
  BY <1>1, Iteration DEF Pointers
<1>3. \A k \in Nat : f[k] = IF k = 0 THEN a ELSE succ[f[k - 1]]
  <2> DEFINE e == [k \in Nat |-> IF k = 0 THEN a ELSE succ[f[k - 1]]]
  <2>1. \A k \in Nat : e[k] = IF k = 0 THEN a ELSE succ[f[k - 1]]
    OBVIOUS
  <2>2. f = e
    BY <1>2
  <2> HIDE DEF e
  <2> QED
    BY <2>1, <2>2
<1>4. \A k \in Nat : f[k] \in Pointers
  <2> DEFINE S == {k \in Nat : f[k] \in Pointers}
  <2>1. 0 \in S /\ \A k \in S : k + 1 \in S
    BY <1>1, <1>3
  <2> HIDE DEF S
  <2>2. S = Nat
    BY <2>1, Induction DEF S
  <2> QED
    BY <2>2 DEF S
<1>5. \A k \in Nat \ {0} : k - 1 \in Nat /\ succ[f[k - 1]] = Successor(h, f[k - 1])
  BY <1>4 DEF succ
<1>6. f = [k \in Nat |-> IF k = 0 THEN a ELSE Successor(h, f[k - 1])]
  <2>1. [k \in Nat |-> IF k = 0 THEN a ELSE succ[f[k - 1]]]
          = [k \in Nat |-> IF k = 0 THEN a ELSE Successor(h, f[k - 1])]
    BY <1>5
  <2> QED
    BY <1>2, <2>1
<1>7. node = [k \in Nat |-> IF k = 0 THEN a ELSE Successor(h, node[k - 1])]
  BY <1>6
<1>8. Walk(h, a) = node
  BY DEF Walk
<1> HIDE DEF node
<1> DEFINE e == [k \in Nat |-> IF k = 0 THEN a ELSE Successor(h, node[k - 1])]
<1>9. e[0] = a /\ \A k \in Nat : e[k + 1] = Successor(h, node[k])
  OBVIOUS
<1> HIDE DEF e
<1>10. node = e
  BY <1>7 DEF e
<1> QED
  BY <1>8, <1>9, <1>10

(* A function that starts there and goes from node to node is the walk.    *)
LEMMA WalkIs ==
  ASSUME NEW h \in HeapValue, NEW a \in Pointers, NEW f, f[0] = a,
         \A k \in Nat : f[k + 1] = Successor(h, f[k])
  PROVE  \A k \in Nat : Walk(h, a)[k] = f[k]
<1> DEFINE S == {k \in Nat : Walk(h, a)[k] = f[k]}
<1>1. 0 \in S /\ \A k \in S : k + 1 \in S
  BY WalkSteps
<1> HIDE DEF S
<1>2. S = Nat
  BY <1>1, Induction DEF S
<1> QED
  BY <1>2 DEF S

-----------------------------------------------------------------------------
(* The list of h is f[0], ..., f[n - 1], without repetition; f is Null     *)
(* from n on.                                                              *)
IsList(h, f, n) ==
  /\ n \in Nat
  /\ \A k \in Nat : IF k < n THEN f[k] \in Addrs ELSE f[k] = Null
  /\ f[0] = h.head
  /\ \A k \in Nat : k < n => h.next[f[k]] = f[k + 1]
  /\ \A j, k \in Nat : j < k /\ k < n => f[j] # f[k]

Nodes(f, n) == {f[k] : k \in 0 .. n - 1}

(* All nodes but the last one are in order, and no two of them adjacent.   *)
Ascending(h, f, n) ==
  \A j, k \in Nat : j < k /\ k + 1 < n => End(h, f[j]) < f[k]

(* The last node, and every other, is no address where Null is one.        *)
LEMMA NodeFacts ==
  ASSUME NEW h \in HeapValue, NEW f, NEW n, IsList(h, f, n)
  PROVE  /\ n \in Nat
         /\ \A k \in Nat : f[k] = Null <=> k >= n
         /\ \A k \in Nat : k < n => f[k] \in Nodes(f, n) /\ f[k] \in Addrs /\ f[k] \in Nat
         /\ \A x \in Nodes(f, n) : \E k \in Nat : k < n /\ x = f[k]
         /\ Nodes(f, n) \subseteq Addrs
         /\ Null \notin Nodes(f, n)
         /\ \A j, k \in Nat : j < n /\ k < n /\ f[j] = f[k] => j = k
<1>1. \A x \in Addrs : x \in Nat /\ x # Null
  BY HeapAssumption DEF Addrs
<1>2. n \in Nat /\ \A k \in Nat : IF k < n THEN f[k] \in Addrs ELSE f[k] = Null
  BY DEF IsList
<1>3. \A x \in Nodes(f, n) : \E k \in Nat : k < n /\ x = f[k]
  BY <1>2 DEF Nodes
<1>4. \A k \in Nat : k < n => f[k] \in Nodes(f, n)
  BY <1>2 DEF Nodes
<1>5. \A j, k \in Nat : j < n /\ k < n /\ f[j] = f[k] => j = k
  BY <1>2 DEF IsList
<1> QED
  BY <1>1, <1>2, <1>3, <1>4, <1>5

(* The walk from the i-th node lists the nodes from there.                 *)
LEMMA WalkFrom ==
  ASSUME NEW h \in HeapValue, NEW f, NEW n, IsList(h, f, n), NEW i \in Nat
  PROVE  \A k \in Nat : Walk(h, f[i])[k] = f[i + k]
<1> DEFINE e == [k \in Nat |-> f[i + k]]
<1>1. f[i] \in Pointers
  BY DEF IsList, Pointers
<1>2. e[0] = f[i]
  OBVIOUS
<1>3. ASSUME NEW k \in Nat PROVE e[k + 1] = Successor(h, e[k])
  <2>1. i + k \in Nat /\ e[k] = f[i + k] /\ e[k + 1] = f[(i + k) + 1]
    OBVIOUS
  <2>2. CASE i + k < n
    BY <2>1, <2>2, HeapAssumption DEF IsList, Successor, Addrs
  <2>3. CASE ~ (i + k < n)
    <3>1. f[i + k] = Null /\ f[(i + k) + 1] = Null
      BY <2>1, <2>3 DEF IsList
    <3> QED
      BY <2>1, <3>1 DEF Successor
  <2> QED
    BY <2>2, <2>3
<1>4. \A k \in Nat : e[k] = f[i + k]
  OBVIOUS
<1> HIDE DEF e
<1> QED
  BY <1>1, <1>2, <1>3, <1>4, WalkIs

(* With a number of nodes, every smaller one is looked at.                 *)
LEMMA FewerSteps ==
  ASSUME NEW n \in Steps, NEW k \in Nat, k <= n
  PROVE  k \in Steps
<1>1. n \in Nat /\ n <= Capacity /\ n * Header <= Capacity /\ Header \in Nat /\ Capacity \in Nat
  BY HeapAssumption DEF Steps
<1>2. PICK d \in Nat : n = k + d
  <2>1. n - k \in Nat /\ n = k + (n - k)
    BY <1>1
  <2> QED
    BY <2>1
<1>3. n * Header = k * Header + d * Header /\ d * Header \in Nat /\ k * Header \in Nat
  BY <1>1, <1>2
<1>4. k * Header <= Capacity /\ k <= Capacity
  BY <1>1, <1>3
<1> QED
  BY <1>1, <1>4 DEF Steps

(* A list whose headers can lie side by side is read to its end.           *)
LEMMA ListWalk ==
  ASSUME NEW h \in HeapValue, NEW f, NEW n, IsList(h, f, n)
  PROVE  /\ \A k \in Nat : Walk(h, h.head)[k] = f[k]
         /\ n \in Steps => Listed(h) = Nodes(f, n)
<1>1. \A k \in Nat : Walk(h, h.head)[k] = f[k]
  BY WalkFrom DEF IsList
<1>2. ASSUME n \in Steps PROVE Listed(h) = Nodes(f, n)
  <2>1. \A k \in Steps : k \in Nat
    BY DEF Steps
  <2>2. \A k \in 0 .. n - 1 : k \in Steps /\ f[k] # Null
    BY <1>2, <2>1, NodeFacts, FewerSteps
  <2>3. \A k \in Steps : f[k] # Null => k \in 0 .. n - 1
    BY <2>1, NodeFacts
  <2> QED
    BY <1>1, <2>1, <2>2, <2>3 DEF Listed, Nodes
<1> QED
  BY <1>1, <1>2

-----------------------------------------------------------------------------
(* Min is the smallest element of a set of numbers.                        *)
LEMMA MinFacts ==
  ASSUME NEW S \in SUBSET Nat, S # {}
  PROVE  Min(S) \in S /\ \A x \in S : Min(S) <= x
<1>1. \E m \in S : \A x \in S : m <= x
  BY Least
<1> QED
  BY <1>1 DEF Min

(* The k-th node with the one before it.                                   *)
Place(f, k) == [node |-> f[k], prev |-> IF k = 0 THEN Null ELSE f[k - 1]]

(* FromHead finds the k-th node of the list, and the one before it.        *)
LEMMA PlaceFromHead ==
  ASSUME NEW h \in HeapValue, NEW f, NEW n, IsList(h, f, n), NEW k \in Nat
  PROVE  FromHead(h, k) = Place(f, k)
<1>1. \A j \in Nat : Walk(h, h.head)[j] = f[j]
  BY ListWalk
<1>2. CASE k = 0
  BY <1>1, <1>2 DEF FromHead, Place
<1>3. CASE k # 0
  <2>1. k - 1 \in Nat
    BY <1>3
  <2> QED
    BY <1>1, <1>3, <2>1 DEF FromHead, Place
<1> QED
  BY <1>2, <1>3

(* The predecessor of a node on the list is found.                         *)
LEMMA PrevNodeFound ==
  ASSUME NEW h \in HeapValue, NEW f, NEW n, IsList(h, f, n), n \in Steps,
         NEW i \in Nat, i < n
  PROVE  FindPrevNode(h, f[i]) = Place(f, i).prev
<1> DEFINE at == {k \in Steps : Walk(h, h.head)[k] = f[i]}
<1>1. \A k \in Steps : k \in Nat
  BY DEF Steps
<1>2. i \in Steps /\ f[i] # Null
  BY NodeFacts, FewerSteps
<1>3. \A k \in Nat : Walk(h, h.head)[k] = f[k]
  BY ListWalk
<1>a. ASSUME NEW k \in Nat, f[k] = f[i] PROVE k = i
  <2>1. n \in Nat /\ f[k] # Null
    BY <1>2, <1>a, NodeFacts
  <2>2. k < n
    BY <2>1, NodeFacts
  <2> QED
    BY <1>a, <2>2, NodeFacts
<1>4. at = {i}
  BY <1>1, <1>2, <1>3, <1>a
<1>5. Min(at) = i
  BY <1>4, MinFacts
<1>6. FindPrevNode(h, f[i]) = FromHead(h, Min(at)).prev
  BY <1>2, <1>4 DEF FindPrevNode
<1> QED
  BY <1>5, <1>6, PlaceFromHead

(* The steps from the i-th node at which there is a large enough block.    *)
LEMMA FittingSteps ==
  ASSUME NEW h \in HeapValue, NEW f, NEW n, IsList(h, f, n), n \in Steps,
         NEW i \in Nat, NEW m \in Nat
  PROVE  /\ Fitting(h, f[i], m) \subseteq Nat
         /\ \A k \in Nat : k \in Fitting(h, f[i], m) <=> i + k < n /\ h.size[f[i + k]] >= m
<1>1. \A k \in Steps : k \in Nat
  BY DEF Steps
<1>2. \A k \in Nat : i + k < n => k \in Steps
  BY <1>1, NodeFacts, FewerSteps
<1>3. \A k \in Nat : Walk(h, f[i])[k] = f[i + k]
  BY WalkFrom
<1>4. \A k \in Nat : f[i + k] = Null <=> i + k >= n
  BY NodeFacts
<1>5. \A k \in Nat : k \in Fitting(h, f[i], m) <=> k \in Steps /\ f[i + k] # Null /\ h.size[f[i + k]] >= m
  BY <1>3 DEF Fitting
<1>6. \A k \in Nat : i + k < n <=> ~ (i + k >= n)
  BY NodeFacts
<1> QED
  BY <1>1, <1>2, <1>4, <1>5, <1>6 DEF Fitting

(* What a search for m bytes that ended with found says of the list.       *)
Finds(h, f, n, m, found) ==
  LET fitting == {b \in Nodes(f, n) : h.size[b] >= m}
  IN  /\ fitting = {} => found = NoFit
      /\ fitting # {} => \E i \in Nat : i < n /\ h.size[f[i]] >= m /\ found = Place(f, i)

(* The steps at which the search from head meets a block that is large     *)
(* enough.                                                                 *)
LEMMA FittingFromHead ==
  ASSUME NEW h \in HeapValue, NEW f, NEW n, IsList(h, f, n), n \in Steps, NEW m \in Nat
  PROVE  /\ Fitting(h, h.head, m) \subseteq Nat
         /\ \A k \in Nat : k \in Fitting(h, h.head, m) <=> k < n /\ h.size[f[k]] >= m
         /\ Fitting(h, h.head, m) = {} <=> {b \in Nodes(f, n) : h.size[b] >= m} = {}
<1>1. h.head = f[0] /\ \A k \in Nat : 0 + k = k
  BY DEF IsList
<1>2. /\ Fitting(h, h.head, m) \subseteq Nat
      /\ \A k \in Nat : k \in Fitting(h, h.head, m) <=> k < n /\ h.size[f[k]] >= m
  BY <1>1, FittingSteps
<1>3. \A k \in Nat : k < n => f[k] \in Nodes(f, n)
  BY NodeFacts
<1>4. \A x \in Nodes(f, n) : \E k \in Nat : k < n /\ x = f[k]
  BY NodeFacts
<1> HIDE DEF IsList
<1>5. ASSUME Fitting(h, h.head, m) = {}, NEW b \in Nodes(f, n), h.size[b] >= m PROVE FALSE
  BY <1>2, <1>4, <1>5
<1>6. ASSUME {b \in Nodes(f, n) : h.size[b] >= m} = {}, NEW k \in Fitting(h, h.head, m) PROVE FALSE
  BY <1>2, <1>3, <1>6
<1> QED
  BY <1>2, <1>5, <1>6

(* firstFit finds a block exactly if there is one that is large enough,    *)
LEMMA FirstFitFinds ==
  ASSUME NEW h \in HeapValue, NEW f, NEW n, IsList(h, f, n), n \in Steps, NEW m \in Nat
  PROVE  Finds(h, f, n, m, FirstFit(h, m))
<1> DEFINE S == Fitting(h, h.head, m)
<1>1. /\ S \in SUBSET Nat
      /\ \A k \in Nat : k \in S <=> k < n /\ h.size[f[k]] >= m
      /\ S = {} <=> {b \in Nodes(f, n) : h.size[b] >= m} = {}
  BY FittingFromHead
<1>2. FirstFit(h, m) = IF S = {} THEN NoFit ELSE FromHead(h, Min(S))
  BY DEF FirstFit
<1> HIDE DEF S
<1>3. S # {} => Min(S) \in S
  BY <1>1, MinFacts
<1>4. S # {} => FirstFit(h, m) = Place(f, Min(S))
  BY <1>1, <1>2, <1>3, PlaceFromHead
<1>5. S = {} => FirstFit(h, m) = NoFit
  BY <1>2
<1> QED
  BY <1>1, <1>3, <1>4, <1>5 DEF Finds

(* bestFit too, and none that is large enough is smaller,                  *)
LEMMA BestFitFinds ==
  ASSUME NEW h \in HeapValue, NEW f, NEW n, IsList(h, f, n), n \in Steps, NEW m \in Nat
  PROVE  /\ Finds(h, f, n, m, BestFit(h, m))
         /\ \A b \in Nodes(f, n) : h.size[b] >= m => h.size[BestFit(h, m).node] <= h.size[b]
<1> DEFINE S == Fitting(h, h.head, m)
           sizes == {h.size[f[k]] : k \in S}
           smallest == {k \in S : \A j \in S : h.size[f[k]] <= h.size[f[j]]}
<1>1. /\ S \in SUBSET Nat
      /\ \A k \in Nat : k \in S <=> k < n /\ h.size[f[k]] >= m
      /\ S = {} <=> {b \in Nodes(f, n) : h.size[b] >= m} = {}
  BY FittingFromHead
<1>2. BestFit(h, m) = IF S = {} THEN NoFit ELSE FromHead(h, Min(smallest))
  <2>1. \A k \in S : Walk(h, h.head)[k] = f[k]
    BY <1>1, ListWalk
  <2>2. smallest = {k \in S : \A j \in S : h.size[Walk(h, h.head)[k]] <= h.size[Walk(h, h.head)[j]]}
    BY <2>1
  <2> QED
    BY <2>2 DEF BestFit
<1> HIDE DEF S
<1>3. \A k \in S : f[k] \in Addrs /\ h.size[f[k]] \in Nat
  BY <1>1, NodeFacts, HeapAssumption DEF HeapValue
<1>4. ASSUME S # {} PROVE smallest # {}
  <2>1. sizes \in SUBSET Nat /\ sizes # {}
    BY <1>3, <1>4
  <2>2. PICK x \in sizes : \A y \in sizes : x <= y
    BY <2>1, Least
  <2> QED
    BY <2>2
<1>5. smallest \in SUBSET S
  OBVIOUS
<1>6. ASSUME S # {} PROVE Min(smallest) \in smallest
  BY <1>1, <1>4, <1>5, <1>6, MinFacts
<1>7. \A x \in Nodes(f, n) : \E k \in Nat : k < n /\ x = f[k]
  BY NodeFacts
<1>8. ASSUME S # {} PROVE BestFit(h, m) = Place(f, Min(smallest))
  BY <1>1, <1>2, <1>5, <1>6, <1>8, PlaceFromHead
<1>9. Finds(h, f, n, m, BestFit(h, m))
  BY <1>1, <1>2, <1>5, <1>6, <1>8 DEF Finds
<1>10. ASSUME NEW b \in Nodes(f, n), h.size[b] >= m PROVE h.size[BestFit(h, m).node] <= h.size[b]
  <2>1. PICK k \in S : b = f[k]
    BY <1>1, <1>7, <1>10
  <2>2. BestFit(h, m).node = f[Min(smallest)]
    BY <2>1, <1>8 DEF Place
  <2> QED
    BY <2>1, <2>2, <1>6
<1> QED
  BY <1>9, <1>10

(* worstFit too, and none is larger,                                       *)
LEMMA WorstFitFinds ==
  ASSUME NEW h \in HeapValue, NEW f, NEW n, IsList(h, f, n), n \in Steps, NEW m \in Nat
  PROVE  /\ Finds(h, f, n, m, WorstFit(h, m))
         /\ \A b \in Nodes(f, n) : h.size[b] >= m => h.size[WorstFit(h, m).node] >= h.size[b]
<1> DEFINE S == Fitting(h, h.head, m)
           lacking == {Capacity - h.size[f[k]] : k \in S}
           largest == {k \in S : \A j \in S : h.size[f[k]] >= h.size[f[j]]}
<1>1. /\ S \in SUBSET Nat
      /\ \A k \in Nat : k \in S <=> k < n /\ h.size[f[k]] >= m
      /\ S = {} <=> {b \in Nodes(f, n) : h.size[b] >= m} = {}
  BY FittingFromHead
<1>2. WorstFit(h, m) = IF S = {} THEN NoFit ELSE FromHead(h, Min(largest))
  <2>1. \A k \in S : Walk(h, h.head)[k] = f[k]
    BY <1>1, ListWalk
  <2>2. largest = {k \in S : \A j \in S : h.size[Walk(h, h.head)[k]] >= h.size[Walk(h, h.head)[j]]}
    BY <2>1
  <2> QED
    BY <2>2 DEF WorstFit
<1> HIDE DEF S
<1>3. \A k \in S : f[k] \in Addrs /\ h.size[f[k]] \in 0 .. Capacity /\ Capacity - h.size[f[k]] \in Nat
  BY <1>1, NodeFacts, HeapAssumption DEF HeapValue
<1>4. ASSUME S # {} PROVE largest # {}
  <2>1. lacking \in SUBSET Nat /\ lacking # {}
    BY <1>3, <1>4
  <2>2. PICK x \in lacking : \A y \in lacking : x <= y
    BY <2>1, Least
  <2>3. PICK k \in S : x = Capacity - h.size[f[k]]
    BY <2>2
  <2>4. ASSUME NEW j \in S PROVE h.size[f[k]] >= h.size[f[j]]
    <3>1. x <= Capacity - h.size[f[j]]
      BY <2>2
    <3> QED
      BY <3>1, <2>3, <1>3, HeapAssumption
  <2> QED
    BY <2>4
<1>5. largest \in SUBSET S
  OBVIOUS
<1>6. ASSUME S # {} PROVE Min(largest) \in largest
  BY <1>1, <1>4, <1>5, <1>6, MinFacts
<1>7. \A x \in Nodes(f, n) : \E k \in Nat : k < n /\ x = f[k]
  BY NodeFacts
<1>8. ASSUME S # {} PROVE WorstFit(h, m) = Place(f, Min(largest))
  BY <1>1, <1>2, <1>5, <1>6, <1>8, PlaceFromHead
<1>9. Finds(h, f, n, m, WorstFit(h, m))
  BY <1>1, <1>2, <1>5, <1>6, <1>8 DEF Finds
<1>10. ASSUME NEW b \in Nodes(f, n), h.size[b] >= m PROVE h.size[WorstFit(h, m).node] >= h.size[b]
  <2>1. PICK k \in S : b = f[k]
    BY <1>1, <1>7, <1>10
  <2>2. WorstFit(h, m).node = f[Min(largest)]
    BY <2>1, <1>8 DEF Place
  <2> QED
    BY <2>1, <2>2, <1>6
<1> QED
  BY <1>9, <1>10

(* and nextFit, which starts at nextFreeBlock and goes round once.         *)
LEMMA NextFitFinds ==
  ASSUME NEW h \in HeapValue, NEW f, NEW n, IsList(h, f, n), n \in Steps, NEW m \in Nat,
         h.nextFree \in Nodes(f, n) \cup {Null}
  PROVE  Finds(h, f, n, m, NextFit(h, m))
<1> DEFINE S == Fitting(h, h.head, m)
           ahead == Fitting(h, h.nextFree, m)
           wrapped == {k \in S : \A j \in 0 .. k : f[j] # h.nextFree}
<1>1. /\ S \in SUBSET Nat
      /\ \A k \in Nat : k \in S <=> k < n /\ h.size[f[k]] >= m
      /\ S = {} <=> {b \in Nodes(f, n) : h.size[b] >= m} = {}
  BY FittingFromHead
<1>2. wrapped = {k \in S : \A j \in 0 .. k : Walk(h, h.head)[j] # h.nextFree}
  BY <1>1, ListWalk
<1>3. NextFit(h, m) = IF ahead # {}
                        THEN [node |-> Walk(h, h.nextFree)[Min(ahead)],
                              prev |-> IF Min(ahead) = 0 THEN FindPrevNode(h, h.nextFree)
                                                ELSE Walk(h, h.nextFree)[Min(ahead) - 1]]
                      ELSE IF wrapped # {} THEN FromHead(h, Min(wrapped))
                      ELSE NoFit
  BY <1>2 DEF NextFit
<1>4. PICK i \in Nat : i <= n /\ h.nextFree = f[i] /\ (h.nextFree = Null <=> i = n)
  <2>1. n \in Nat /\ f[n] = Null /\ \A x \in Nodes(f, n) : x # Null /\ \E k \in Nat : k < n /\ x = f[k]
    BY NodeFacts
  <2> QED
    BY <2>1
<1>5. ahead \in SUBSET Nat /\ \A k \in Nat : k \in ahead <=> i + k < n /\ h.size[f[i + k]] >= m
  BY <1>4, FittingSteps
<1>6. \A j, k \in Nat : j < n /\ k < n /\ f[j] = f[k] => j = k
  BY NodeFacts
<1>7. n \in Nat /\ \A k \in Nat : k < n => f[k] # Null
  BY NodeFacts
<1> HIDE DEF S, ahead
<1>8. CASE ahead # {}
  <2>1. Min(ahead) \in ahead
    BY <1>5, <1>8, MinFacts
  <2>2. Min(ahead) \in Nat /\ i + Min(ahead) < n /\ h.size[f[i + Min(ahead)]] >= m /\ i < n
    <3>1. PICK k \in Nat : k = Min(ahead)
      BY <2>1, <1>5
    <3>2. i + k < n /\ h.size[f[i + k]] >= m
      BY <2>1, <3>1, <1>5
    <3>3. i < n
      BY <3>2, <1>7
    <3> QED
      BY <3>1, <3>2, <3>3
  <2>3. Walk(h, h.nextFree)[Min(ahead)] = f[i + Min(ahead)]
    <3>1. \A k \in Nat : Walk(h, h.nextFree)[k] = f[i + k]
      BY <1>4, WalkFrom
    <3> QED
      BY <2>2, <3>1
  <2>4. CASE Min(ahead) = 0
    <3>1. FindPrevNode(h, h.nextFree) = Place(f, i).prev
      BY <1>4, <2>2, PrevNodeFound
    <3>2. NextFit(h, m) = Place(f, i + Min(ahead))
      BY <1>3, <1>8, <2>2, <2>3, <2>4, <3>1 DEF Place
    <3> QED
      BY <2>2, <3>2, <1>1 DEF Finds
  <2>5. CASE Min(ahead) # 0
    <3>1. Min(ahead) - 1 \in Nat /\ i + Min(ahead) # 0 /\ i + (Min(ahead) - 1) = (i + Min(ahead)) - 1
      BY <2>2, <2>5
    <3>2. Walk(h, h.nextFree)[Min(ahead) - 1] = f[i + (Min(ahead) - 1)]
      <4>1. \A k \in Nat : Walk(h, h.nextFree)[k] = f[i + k]
        BY <1>4, WalkFrom
      <4> QED
        BY <3>1, <4>1
    <3>3. NextFit(h, m) = Place(f, i + Min(ahead))
      BY <1>3, <1>8, <2>3, <2>5, <3>1, <3>2, Zenon DEF Place
    <3> QED
      BY <2>2, <3>3, <1>1 DEF Finds
  <2> QED
    BY <2>4, <2>5
<1>9. CASE ahead = {}
  <2>1. \A k \in S : k < i
    <3> SUFFICES ASSUME NEW k \in S, k >= i PROVE FALSE
      BY <1>1
    <3>1. k - i \in Nat /\ i + (k - i) = k
      BY <1>1
    <3> QED
      BY <3>1, <1>1, <1>5, <1>9
  <2>2. wrapped = S
    <3> SUFFICES ASSUME NEW k \in S, NEW j \in 0 .. k PROVE f[j] # h.nextFree
      OBVIOUS
    <3>1. k < i /\ k < n /\ k \in Nat
      BY <2>1, <1>1
    <3>2. j \in Nat /\ j < i /\ j < n
      BY <3>1, <1>4, <1>7
    <3> QED
      BY <3>2, <1>4, <1>6, <1>7
  <2>3. S # {} => Min(S) \in S
    BY <1>1, MinFacts
  <2> HIDE DEF wrapped
  <2>4. CASE S = {}
    BY <1>1, <1>3, <1>9, <2>2, <2>4 DEF Finds
  <2>5. CASE S # {}
    <3>1. Min(S) \in Nat /\ Min(S) < n /\ h.size[f[Min(S)]] >= m
      BY <1>1, <2>3, <2>5
    <3>2. NextFit(h, m) = Place(f, Min(S))
      BY <1>3, <1>9, <2>2, <2>5, <3>1, PlaceFromHead
    <3> QED
      BY <1>1, <2>5, <3>1, <3>2 DEF Finds
  <2> QED
    BY <2>4, <2>5
<1> QED
  BY <1>8, <1>9

(* Every strategy of MyMalloc finds a block with its predecessor wherever  *)
(* there is one, and the best and the worst fit are that.                  *)
LEMMA SearchFinds ==
  ASSUME NEW h \in HeapValue, NEW f, NEW n, IsList(h, f, n), n \in Steps, NEW m \in Nat,
         h.nextFree \in Nodes(f, n) \cup {Null}, NEW s \in Strategies
  PROVE  /\ Finds(h, f, n, m, Search(h, m, s))
         /\ \A b \in Nodes(f, n) :
              h.size[b] >= m => /\ s = "BEST_FIT" => h.size[Search(h, m, s).node] <= h.size[b]
                                /\ s = "WORST_FIT" => h.size[Search(h, m, s).node] >= h.size[b]
<1>1. CASE s = "BEST_FIT"
  BY <1>1, BestFitFinds DEF Search
<1>2. CASE s = "WORST_FIT"
  BY <1>2, WorstFitFinds DEF Search
<1>3. CASE s = "FIRST_FIT"
  BY <1>3, FirstFitFinds DEF Search
<1>4. CASE s = "NEXT_FIT"
  BY <1>4, NextFitFinds DEF Search
<1> QED
  BY <1>1, <1>2, <1>3, <1>4 DEF Strategies

-----------------------------------------------------------------------------
(* split leaves a remainder of its own.                                    *)
Divides(h, x, m) == h.size[x] > m + Header

Remainder(x, m) == x + Header + m

(* What takes the place of the node on the list.                           *)
After(h, x, m) == IF Divides(h, x, m) THEN Remainder(x, m) ELSE h.next[x]

(* What is left of the marks when a remainder was cut off, and when the    *)
(* block was given away.                                                   *)
MarksCut(h, x, m) ==
  IF Divides(h, x, m) THEN Overwritten(h.mark, Remainder(x, m), Remainder(x, m) + MagicAt)
                      ELSE h.mark

MarksAfter(h, x, m) == Stamped(MarksCut(h, x, m), x)

(* Whatever is written where, there are marks,                             *)
LEMMA OverwrittenMarks ==
  ASSUME NEW mark \in [Addrs -> Marks], NEW x, NEW y
  PROVE  Overwritten(mark, x, y) \in [Addrs -> Marks]
BY DEF Overwritten, Marks

(* and that of a header that lies elsewhere does not change.               *)
LEMMA OverwrittenElsewhere ==
  ASSUME NEW mark \in [Addrs -> Marks], NEW x \in Nat, NEW y \in Nat,
         NEW a \in Addrs, y <= a + MagicAt \/ a + Header <= x
  PROVE  Overwritten(mark, x, y)[a] = mark[a]
BY HeapAssumption DEF Overwritten, Addrs

LEMMA StampedMarks ==
  ASSUME NEW mark \in [Addrs -> Marks], NEW x \in Addrs
  PROVE  /\ Stamped(mark, x) \in [Addrs -> Marks]
         /\ Stamped(mark, x)[x] = "valid"
         /\ \A a \in Addrs :
              a # x /\ (x + Header <= a \/ a + Header <= x) => Stamped(mark, x)[a] = mark[a]
<1>1. x \in Nat /\ MagicAt \in Nat /\ Header \in Nat /\ "valid" \in Marks
  BY HeapAssumption DEF Addrs, Marks
<1> DEFINE over == Overwritten(mark, x + MagicAt, x + Header)
<1>2. over \in [Addrs -> Marks]
  BY OverwrittenMarks
<1>3. Stamped(mark, x) = [over EXCEPT ![x] = "valid"]
  BY DEF Stamped
<1> HIDE DEF over
<1>4. ASSUME NEW a \in Addrs, x + Header <= a \/ a + Header <= x PROVE over[a] = mark[a]
  <2>1. a \in Nat /\ x + MagicAt \in Nat /\ x + Header \in Nat
    BY <1>1 DEF Addrs
  <2>2. x + Header <= a + MagicAt \/ a + Header <= x + MagicAt
    BY <1>1, <1>4, <2>1
  <2> QED
    BY <2>1, <2>2, OverwrittenElsewhere DEF over
<1> QED
  BY <1>1, <1>2, <1>3, <1>4

(* The marks of all other headers survive a block being given away.        *)
LEMMA MarksSurvive ==
  ASSUME NEW h \in HeapValue, NEW x \in Addrs, NEW m \in Nat,
         Divides(h, x, m) => Remainder(x, m) \in Addrs
  PROVE  /\ MarksCut(h, x, m) \in [Addrs -> Marks]
         /\ MarksAfter(h, x, m) \in [Addrs -> Marks]
         /\ MarksAfter(h, x, m)[x] = "valid"
         /\ \A a \in Addrs :
              /\ a # x /\ (x + Header <= a \/ a + Header <= x)
              /\ Divides(h, x, m) =>
                   Remainder(x, m) + Header <= a \/ a + Header <= Remainder(x, m)
              => MarksAfter(h, x, m)[a] = h.mark[a]
<1>1. h.mark \in [Addrs -> Marks]
  BY DEF HeapValue
<1>2. MarksCut(h, x, m) \in [Addrs -> Marks]
  BY <1>1, OverwrittenMarks DEF MarksCut
<1>3. ASSUME NEW a \in Addrs,
             Divides(h, x, m) =>
               Remainder(x, m) + Header <= a \/ a + Header <= Remainder(x, m)
      PROVE  MarksCut(h, x, m)[a] = h.mark[a]
  <2>1. CASE Divides(h, x, m)
    <3> DEFINE r == Remainder(x, m)
    <3>1. r \in Nat /\ r + MagicAt \in Nat /\ a \in Nat /\ Header \in Nat /\ MagicAt \in Nat
          /\ MagicAt < Header
      BY <2>1, HeapAssumption DEF Addrs
    <3>2. r + MagicAt <= a + MagicAt \/ a + Header <= r
      <4> HIDE DEF r
      <4>1. r + Header <= a \/ a + Header <= r
        BY <1>3, <2>1 DEF r
      <4> QED
        BY <3>1, <4>1
    <3> HIDE DEF r
    <3>3. Overwritten(h.mark, r, r + MagicAt)[a] = h.mark[a]
      BY <1>1, <3>1, <3>2, OverwrittenElsewhere
    <3> QED
      BY <2>1, <3>3 DEF MarksCut, r
  <2>2. CASE ~ Divides(h, x, m)
    BY <2>2 DEF MarksCut
  <2> QED
    BY <2>1, <2>2
<1> QED
  BY <1>2, <1>3, StampedMarks DEF MarksAfter

(* The fields of the heap after a block is given away.                     *)
LEMMA GiveAwayFields ==
  ASSUME NEW h \in HeapValue, NEW x \in Addrs, NEW p \in Pointers, p # x, NEW m \in Nat,
         Divides(h, x, m) => Remainder(x, m) \in Addrs,
         NEW g, g = GiveAway(h, [node |-> x, prev |-> p], m)
  PROVE  /\ g \in HeapValue
         /\ g.head = IF p = Null THEN After(h, x, m) ELSE h.head
         /\ g.nextFree = IF After(h, x, m) = Null THEN g.head ELSE After(h, x, m)
         /\ g.mark = MarksAfter(h, x, m)
         /\ \A a \in Addrs :
              g.size[a] = IF Divides(h, x, m) /\ a = x THEN m
                          ELSE IF Divides(h, x, m) /\ a = Remainder(x, m) THEN h.size[x] - m - Header
                          ELSE h.size[a]
         /\ \A a \in Addrs :
              g.next[a] = IF a = x THEN Null
                          ELSE IF a = p THEN After(h, x, m)
                          ELSE IF Divides(h, x, m) /\ a = Remainder(x, m) THEN h.next[x]
                          ELSE h.next[a]
<1> DEFINE r == Remainder(x, m)
           after == After(h, x, m)
           d == IF Divides(h, x, m)
                  THEN [h EXCEPT !.size[r] = h.size[x] - m - Header, !.size[x] = m, !.next[r] = h.next[x],
                                 !.mark = Overwritten(@, r, r + MagicAt)]
                  ELSE h
           u == IF p = Null THEN [d EXCEPT !.head = after] ELSE [d EXCEPT !.next[p] = after]
           v == [u EXCEPT !.nextFree = IF after = Null THEN u.head ELSE after]
<1>1. g = [v EXCEPT !.mark = Stamped(@, x), !.next[x] = Null]
  BY DEF GiveAway, Split, Divides, After, Remainder
<1>2. /\ x \in Nat /\ x # r /\ Capacity \in Nat /\ Header \in Nat
      /\ h.size[x] \in 0 .. Capacity
      /\ h.next[x] \in Pointers
  BY HeapAssumption DEF HeapValue, Pointers, Addrs, Remainder
<1>3. /\ h.size \in [Addrs -> 0 .. Capacity] /\ h.next \in [Addrs -> Pointers]
      /\ h.head \in Pointers /\ h.nextFree \in Pointers /\ h.mark \in [Addrs -> Marks]
      /\ h = [head |-> h.head, nextFree |-> h.nextFree, size |-> h.size, next |-> h.next, mark |-> h.mark]
  BY DEF HeapValue, Pointers
<1>4. after \in Pointers
  BY <1>2 DEF After, Pointers
<1>5. /\ d.size \in [Addrs -> 0 .. Capacity] /\ d.next \in [Addrs -> Pointers]
      /\ d.head = h.head /\ d.nextFree = h.nextFree /\ d.mark = MarksCut(h, x, m)
      /\ d = [head |-> d.head, nextFree |-> d.nextFree, size |-> d.size, next |-> d.next, mark |-> d.mark]
      /\ \A a \in Addrs :
              d.size[a] = IF Divides(h, x, m) /\ a = x THEN m
                          ELSE IF Divides(h, x, m) /\ a = r THEN h.size[x] - m - Header
                          ELSE h.size[a]
      /\ \A a \in Addrs : d.next[a] = IF Divides(h, x, m) /\ a = r THEN h.next[x] ELSE h.next[a]
  <2>1. CASE Divides(h, x, m)
    <3>1. h.size[x] > m + Header /\ r \in Addrs
      BY <2>1 DEF Divides
    <3>2. m \in 0 .. Capacity /\ h.size[x] - m - Header \in 0 .. Capacity
      BY <3>1, <1>2
    <3>3. PICK k : k = [head |-> h.head, nextFree |-> h.nextFree, size |-> h.size, next |-> h.next, mark |-> h.mark]
      OBVIOUS
    <3>4. d = [k EXCEPT !.size[r] = h.size[x] - m - Header, !.size[x] = m, !.next[r] = h.next[x],
                        !.mark = Overwritten(@, r, r + MagicAt)]
      BY <2>1, <3>3, <1>3
    <3>5. d = [head |-> h.head, nextFree |-> h.nextFree,
               size |-> [[h.size EXCEPT ![r] = h.size[x] - m - Header] EXCEPT ![x] = m],
               next |-> [h.next EXCEPT ![r] = h.next[x]],
               mark |-> Overwritten(h.mark, r, r + MagicAt)]
      <4> HIDE DEF d, r
      <4>1. k.size = h.size /\ k.next = h.next /\ k.mark = h.mark
        BY <3>3
      <4>2. d = [[[k EXCEPT !.size = [[h.size EXCEPT ![r] = h.size[x] - m - Header] EXCEPT ![x] = m]]
                    EXCEPT !.next = [h.next EXCEPT ![r] = h.next[x]]]
                    EXCEPT !.mark = Overwritten(h.mark, r, r + MagicAt)]
        BY <3>3, <3>4, <4>1
      <4> QED
        BY <3>3, <4>2
    <3>6. d.mark = MarksCut(h, x, m)
      <4> HIDE DEF d
      <4> QED
        BY <2>1, <3>5 DEF MarksCut
    <3> HIDE DEF d, r
    <3> QED
      BY <3>1, <3>2, <3>5, <3>6, <1>2, <1>3, <2>1
  <2>2. CASE ~ Divides(h, x, m)
    BY <2>2, <1>3 DEF MarksCut
  <2> QED
    BY <2>1, <2>2
<1> HIDE DEF d, r, after
<1>6. /\ u.size = d.size /\ u.next \in [Addrs -> Pointers]
      /\ u.head = (IF p = Null THEN after ELSE h.head) /\ u.nextFree = h.nextFree /\ u.mark = d.mark
      /\ u = [head |-> u.head, nextFree |-> u.nextFree, size |-> u.size, next |-> u.next, mark |-> u.mark]
      /\ \A a \in Addrs : u.next[a] = IF a = p THEN after ELSE d.next[a]
  <2>1. CASE p = Null
    <3>1. u = [head |-> after, nextFree |-> d.nextFree, size |-> d.size, next |-> d.next, mark |-> d.mark]
      BY <1>5, <2>1
    <3>2. p \notin Addrs
      BY <2>1, HeapAssumption DEF Addrs
    <3> HIDE DEF u
    <3> QED
      BY <3>1, <3>2, <2>1, <1>5
  <2>2. CASE p # Null
    <3>1. u = [head |-> d.head, nextFree |-> d.nextFree, size |-> d.size,
               next |-> [d.next EXCEPT ![p] = after], mark |-> d.mark]
      BY <1>5, <2>2
    <3>2. p \in Addrs
      BY <2>2 DEF Pointers
    <3> HIDE DEF u
    <3> QED
      BY <3>1, <3>2, <2>2, <1>5, <1>4
  <2> QED
    BY <2>1, <2>2
<1> HIDE DEF u
<1>7. g = [head |-> u.head, nextFree |-> IF after = Null THEN u.head ELSE after, size |-> u.size,
           next |-> [u.next EXCEPT ![x] = Null], mark |-> Stamped(u.mark, x)]
  BY <1>1, <1>6
<1>8. u.head \in Pointers
  BY <1>6, <1>4, <1>3
<1>9. Null \in Pointers
  BY DEF Pointers
<1>10. g.next \in [Addrs -> Pointers] /\ \A a \in Addrs : g.next[a] = IF a = x THEN Null ELSE u.next[a]
  BY <1>7, <1>6, <1>9
<1>m. g.mark = MarksAfter(h, x, m)
  BY <1>5, <1>6, <1>7 DEF MarksAfter
<1>11. g \in HeapValue
  <2>1. g.head \in Pointers /\ g.nextFree \in Pointers /\ g.size \in [Addrs -> 0 .. Capacity]
    BY <1>3, <1>4, <1>5, <1>6, <1>7, <1>8
  <2>3. g.mark \in [Addrs -> Marks]
    BY <1>m, MarksSurvive
  <2>2. g = [head |-> g.head, nextFree |-> g.nextFree, size |-> g.size, next |-> g.next, mark |-> g.mark]
    BY <1>7
  <2> QED
    BY <2>1, <2>2, <2>3, <1>10 DEF HeapValue, Pointers
<1> USE DEF r, after
<1>12. \A a \in Addrs : g.next[a] = IF a = x THEN Null
                          ELSE IF a = p THEN After(h, x, m)
                          ELSE IF Divides(h, x, m) /\ a = Remainder(x, m) THEN h.next[x]
                          ELSE h.next[a]
  BY <1>10, <1>6, <1>5
<1>13. g.head = u.head /\ g.nextFree = (IF after = Null THEN u.head ELSE after) /\ g.size = u.size
  BY <1>7
<1> QED
  BY <1>5, <1>6, <1>m, <1>11, <1>12, <1>13

-----------------------------------------------------------------------------
(* A list with a node replaced, taken out, or put in before the i-th.      *)
Put(f, i, b) == [k \in Nat |-> IF k = i THEN b ELSE f[k]]
Without(f, i) == [k \in Nat |-> IF k < i THEN f[k] ELSE f[k + 1]]
With(f, i, b) == [k \in Nat |-> IF k < i THEN f[k] ELSE IF k = i THEN b ELSE f[k - 1]]

(* The list of g is that of h with the i-th node replaced by b.            *)
LEMMA PutList ==
  ASSUME NEW h \in HeapValue, NEW f, NEW n, IsList(h, f, n), NEW i \in Nat, i < n,
         NEW b \in Addrs, b \notin Nodes(f, n), NEW g \in HeapValue,
         g.head = IF i = 0 THEN b ELSE h.head,
         g.next[b] = f[i + 1],
         \A k \in Nat : k < n /\ k # i => g.next[f[k]] = IF k + 1 = i THEN b ELSE h.next[f[k]]
  PROVE  /\ IsList(g, Put(f, i, b), n)
         /\ Nodes(Put(f, i, b), n) = (Nodes(f, n) \ {f[i]}) \cup {b}
<1> DEFINE e == Put(f, i, b)
<1>1. \A k \in Nat : e[k] = IF k = i THEN b ELSE f[k]
  BY DEF Put
<1>2. /\ n \in Nat
      /\ \A k \in Nat : k < n => f[k] \in Nodes(f, n) /\ f[k] \in Addrs
      /\ \A k \in Nat : k >= n => f[k] = Null
      /\ \A x \in Nodes(f, n) : \E k \in Nat : k < n /\ x = f[k]
      /\ \A j, k \in Nat : j < n /\ k < n /\ f[j] = f[k] => j = k
  BY NodeFacts
<1>3. f[0] = h.head /\ \A k \in Nat : k < n => h.next[f[k]] = f[k + 1]
  BY DEF IsList
<1> HIDE DEF e
<1>4. \A k \in Nat : IF k < n THEN e[k] \in Addrs ELSE e[k] = Null
  BY <1>1, <1>2
<1>5. e[0] = g.head
  BY <1>1, <1>3
<1>6. \A k \in Nat : k < n => g.next[e[k]] = e[k + 1]
  BY <1>1, <1>2, <1>3
<1>7. \A j, k \in Nat : j < k /\ k < n => e[j] # e[k]
  BY <1>1, <1>2
<1>8. IsList(g, e, n)
  BY <1>2, <1>4, <1>5, <1>6, <1>7 DEF IsList
<1>9. Nodes(e, n) = (Nodes(f, n) \ {f[i]}) \cup {b}
  <2>1. ASSUME NEW x \in Nodes(e, n) PROVE x \in (Nodes(f, n) \ {f[i]}) \cup {b}
    <3>1. PICK k \in Nat : k < n /\ x = e[k]
      BY <1>8, NodeFacts
    <3> QED
      BY <3>1, <1>1, <1>2
  <2>2. ASSUME NEW x \in (Nodes(f, n) \ {f[i]}) \cup {b} PROVE x \in Nodes(e, n)
    <3>1. PICK k \in Nat : k < n /\ x = e[k]
      BY <2>2, <1>1, <1>2
    <3> QED
      BY <3>1, <1>8, NodeFacts
  <2> QED
    BY <2>1, <2>2
<1> QED
  BY <1>8, <1>9 DEF e

(* The list of g is that of h without the i-th node.                       *)
LEMMA WithoutList ==
  ASSUME NEW h \in HeapValue, NEW f, NEW n, IsList(h, f, n), NEW i \in Nat, i < n,
         NEW g \in HeapValue,
         g.head = IF i = 0 THEN f[1] ELSE h.head,
         \A k \in Nat : k < n /\ k # i => g.next[f[k]] = IF k + 1 = i THEN f[i + 1] ELSE h.next[f[k]]
  PROVE  /\ IsList(g, Without(f, i), n - 1)
         /\ Nodes(Without(f, i), n - 1) = Nodes(f, n) \ {f[i]}
<1> DEFINE e == Without(f, i)
<1>1. \A k \in Nat : e[k] = IF k < i THEN f[k] ELSE f[k + 1]
  BY DEF Without
<1>2. /\ n \in Nat
      /\ \A k \in Nat : k < n => f[k] \in Nodes(f, n) /\ f[k] \in Addrs
      /\ \A k \in Nat : k >= n => f[k] = Null
      /\ \A x \in Nodes(f, n) : \E k \in Nat : k < n /\ x = f[k]
      /\ \A j, k \in Nat : j < n /\ k < n /\ f[j] = f[k] => j = k
  BY NodeFacts
<1>3. f[0] = h.head /\ \A k \in Nat : k < n => h.next[f[k]] = f[k + 1]
  BY DEF IsList
<1> HIDE DEF e
<1>4. \A k \in Nat : IF k < n - 1 THEN e[k] \in Addrs ELSE e[k] = Null
  BY <1>1, <1>2
<1>5. e[0] = g.head
  BY <1>1, <1>3
<1>6. ASSUME NEW k \in Nat, k < n - 1 PROVE g.next[e[k]] = e[k + 1]
  <2>1. CASE k < i
    BY <1>1, <1>2, <1>3, <1>6, <2>1
  <2>2. CASE ~ (k < i)
    <3>1. k + 1 \in Nat /\ k + 1 < n /\ k + 1 # i /\ (k + 1) + 1 # i /\ ~ (k + 1 < i)
      BY <1>2, <1>6, <2>2
    <3>2. e[k] = f[k + 1] /\ e[k + 1] = f[(k + 1) + 1]
      BY <1>1, <2>2, <3>1
    <3> QED
      BY <3>1, <3>2, <1>3
  <2> QED
    BY <2>1, <2>2
<1>7. \A j, k \in Nat : j < k /\ k < n - 1 => e[j] # e[k]
  BY <1>1, <1>2
<1>8. IsList(g, e, n - 1)
  BY <1>2, <1>4, <1>5, <1>6, <1>7 DEF IsList
<1>9. Nodes(e, n - 1) = Nodes(f, n) \ {f[i]}
  <2>1. ASSUME NEW x \in Nodes(e, n - 1) PROVE x \in Nodes(f, n) \ {f[i]}
    <3>1. PICK k \in Nat : k < n - 1 /\ x = e[k]
      BY <1>8, NodeFacts
    <3> QED
      BY <3>1, <1>1, <1>2
  <2>2. ASSUME NEW x \in Nodes(f, n) \ {f[i]} PROVE x \in Nodes(e, n - 1)
    <3>1. PICK j \in Nat : j < n /\ x = f[j] /\ j # i
      BY <2>2, <1>2
    <3>2. PICK k \in Nat : k < n - 1 /\ x = e[k]
      <4>1. CASE j < i
        BY <3>1, <4>1, <1>1, <1>2
      <4>2. CASE j > i
        <5>1. j - 1 \in Nat /\ ~ (j - 1 < i) /\ (j - 1) + 1 = j /\ j - 1 < n - 1
          BY <3>1, <4>2, <1>2
        <5> QED
          BY <3>1, <5>1, <1>1
      <4> QED
        BY <3>1, <4>1, <4>2
    <3> QED
      BY <3>2, <1>8, NodeFacts
  <2> QED
    BY <2>1, <2>2
<1> QED
  BY <1>8, <1>9 DEF e

(* The list of g is that of h with b before the i-th node.                 *)
LEMMA WithList ==
  ASSUME NEW h \in HeapValue, NEW f, NEW n, IsList(h, f, n), NEW i \in Nat, i <= n,
         NEW b \in Addrs, b \notin Nodes(f, n), NEW g \in HeapValue,
         g.head = IF i = 0 THEN b ELSE h.head,
         g.next[b] = f[i],
         \A k \in Nat : k < n => g.next[f[k]] = IF k + 1 = i THEN b ELSE h.next[f[k]]
  PROVE  /\ IsList(g, With(f, i, b), n + 1)
         /\ Nodes(With(f, i, b), n + 1) = Nodes(f, n) \cup {b}
<1> DEFINE e == With(f, i, b)
<1>1. \A k \in Nat : e[k] = IF k < i THEN f[k] ELSE IF k = i THEN b ELSE f[k - 1]
  BY DEF With
<1>2. /\ n \in Nat
      /\ \A k \in Nat : k < n => f[k] \in Nodes(f, n) /\ f[k] \in Addrs
      /\ \A k \in Nat : k >= n => f[k] = Null
      /\ \A x \in Nodes(f, n) : \E k \in Nat : k < n /\ x = f[k]
      /\ \A j, k \in Nat : j < n /\ k < n /\ f[j] = f[k] => j = k
  BY NodeFacts
<1>3. f[0] = h.head /\ \A k \in Nat : k < n => h.next[f[k]] = f[k + 1]
  BY DEF IsList
<1> HIDE DEF e
<1>4. ASSUME NEW k \in Nat PROVE IF k < n + 1 THEN e[k] \in Addrs ELSE e[k] = Null
  <2>1. CASE k <= i
    BY <1>1, <1>2, <2>1
  <2>2. CASE k > i
    <3>1. k - 1 \in Nat /\ e[k] = f[k - 1]
      BY <1>1, <2>2
    <3> QED
      BY <3>1, <1>2
  <2> QED
    BY <2>1, <2>2
<1>5. e[0] = g.head
  BY <1>1, <1>3
<1>6. ASSUME NEW k \in Nat, k < n + 1 PROVE g.next[e[k]] = e[k + 1]
  <2>1. CASE k < i
    <3>1. e[k] = f[k] /\ k < n /\ e[k + 1] = IF k + 1 = i THEN b ELSE f[k + 1]
      BY <1>1, <1>2, <2>1
    <3> QED
      BY <3>1, <1>3
  <2>2. CASE k = i
    <3>1. e[k] = b /\ e[k + 1] = f[i]
      BY <1>1, <2>2
    <3> QED
      BY <3>1
  <2>3. CASE k > i
    <3>1. k - 1 \in Nat /\ k - 1 < n /\ (k - 1) + 1 = k /\ ~ (k + 1 < i) /\ k + 1 # i /\ (k + 1) - 1 = k
      BY <1>2, <1>6, <2>3
    <3>2. e[k] = f[k - 1] /\ e[k + 1] = f[k]
      BY <1>1, <2>3, <3>1
    <3>3. g.next[f[k - 1]] = h.next[f[k - 1]]
      BY <3>1, <2>3
    <3> QED
      BY <3>1, <3>2, <3>3, <1>3
  <2> QED
    BY <2>1, <2>2, <2>3
<1>7. ASSUME NEW j \in Nat, NEW k \in Nat, j < k, k < n + 1 PROVE e[j] # e[k]
  <2>1. CASE k < i
    BY <1>1, <1>2, <1>7, <2>1
  <2>2. CASE k = i
    BY <1>1, <1>2, <1>7, <2>2
  <2>3. CASE k > i
    <3>1. k - 1 \in Nat /\ k - 1 < n /\ e[k] = f[k - 1] /\ f[k - 1] # b
      BY <1>1, <1>2, <1>7, <2>3
    <3>2. CASE j < i
      <4>1. j # k - 1 /\ j < n
        BY <3>2, <2>3, <1>7, <1>2
      <4> QED
        BY <3>1, <3>2, <4>1, <1>1, <1>2
    <3>3. CASE j = i
      BY <3>1, <3>3, <1>1
    <3>4. CASE j > i
      <4>1. j - 1 \in Nat /\ j - 1 < n /\ j - 1 # k - 1 /\ e[j] = f[j - 1]
        BY <1>1, <1>2, <1>7, <3>4
      <4> QED
        BY <3>1, <4>1, <1>2
    <3> QED
      BY <3>2, <3>3, <3>4
  <2> QED
    BY <2>1, <2>2, <2>3
<1>8. IsList(g, e, n + 1)
  BY <1>2, <1>4, <1>5, <1>6, <1>7 DEF IsList
<1>9. Nodes(e, n + 1) = Nodes(f, n) \cup {b}
  <2>1. ASSUME NEW x \in Nodes(e, n + 1) PROVE x \in Nodes(f, n) \cup {b}
    <3>1. PICK k \in Nat : k < n + 1 /\ x = e[k]
      BY <1>8, NodeFacts
    <3>2. CASE k > i
      <4>1. k - 1 \in Nat /\ k - 1 < n /\ e[k] = f[k - 1]
        BY <1>1, <1>2, <3>1, <3>2
      <4> QED
        BY <3>1, <4>1, <1>2
    <3>3. CASE ~ (k > i)
      BY <3>1, <3>3, <1>1, <1>2
    <3> QED
      BY <3>2, <3>3
  <2>2. ASSUME NEW x \in Nodes(f, n) \cup {b} PROVE x \in Nodes(e, n + 1)
    <3>1. \A k \in Nat : k < n + 1 => e[k] \in Nodes(e, n + 1)
      BY <1>8, NodeFacts
    <3>2. CASE x = b
      BY <3>1, <3>2, <1>1, <1>2
    <3>3. CASE x # b
      <4>1. PICK k \in Nat : k < n /\ x = f[k]
        BY <2>2, <3>3, <1>2
      <4>2. CASE k < i
        BY <3>1, <4>1, <4>2, <1>1, <1>2
      <4>3. CASE k >= i
        <5>1. k + 1 \in Nat /\ k + 1 < n + 1 /\ ~ (k + 1 < i) /\ k + 1 # i /\ (k + 1) - 1 = k
          BY <4>1, <4>3, <1>2
        <5> QED
          BY <3>1, <4>1, <5>1, <1>1
      <4> QED
        BY <4>1, <4>2, <4>3
    <3> QED
      BY <3>2, <3>3
  <2> QED
    BY <2>1, <2>2
<1> QED
  BY <1>8, <1>9 DEF e

(* After a block is given away the list lacks it, or has the remainder in  *)
(* its place, is still ascending, and nextFreeBlock is on it or NULL.      *)
LEMMA GiveAwayList ==
  ASSUME NEW h \in HeapValue, NEW f, NEW n, IsList(h, f, n), Ascending(h, f, n),
         NEW i \in Nat, i < n, NEW m \in Nat,
         Divides(h, f[i], m) => Remainder(f[i], m) \in Addrs \ Nodes(f, n),
         NEW g, g = GiveAway(h, Place(f, i), m)
  PROVE  /\ g \in HeapValue
         /\ g.mark = MarksAfter(h, f[i], m)
         /\ \A a \in Addrs :
              g.size[a] = IF Divides(h, f[i], m) /\ a = f[i] THEN m
                          ELSE IF Divides(h, f[i], m) /\ a = Remainder(f[i], m)
                            THEN h.size[f[i]] - m - Header
                          ELSE h.size[a]
         /\ \E e, l : /\ IsList(g, e, l)
                      /\ Ascending(g, e, l)
                      /\ Nodes(e, l) = (Nodes(f, n) \ {f[i]})
                           \cup {r \in {Remainder(f[i], m)} : Divides(h, f[i], m)}
                      /\ g.nextFree \in Nodes(e, l) \cup {Null}
<1> DEFINE x == f[i]
           p == IF i = 0 THEN Null ELSE f[i - 1]
           r == Remainder(x, m)
           divides == Divides(h, x, m)
<1>1. /\ n \in Nat
      /\ \A k \in Nat : k < n => f[k] \in Nodes(f, n) /\ f[k] \in Addrs /\ f[k] \in Nat /\ f[k] # Null
      /\ \A k \in Nat : k >= n => f[k] = Null
      /\ \A j, k \in Nat : j < n /\ k < n /\ f[j] = f[k] => j = k
  BY NodeFacts
<1>2. f[0] = h.head /\ \A k \in Nat : k < n => h.next[f[k]] = f[k + 1]
  BY DEF IsList
<1>3. x \in Addrs /\ x \in Nodes(f, n) /\ p \in Pointers /\ p # x /\ (p = Null <=> i = 0)
  <2>1. CASE i = 0
    BY <1>1, <2>1 DEF Pointers
  <2>2. CASE i # 0
    <3>1. i - 1 \in Nat /\ i - 1 < n /\ i - 1 # i
      BY <1>1, <2>2
    <3> QED
      BY <1>1, <2>2, <3>1 DEF Pointers
  <2> QED
    BY <2>1, <2>2
<1>4. g = GiveAway(h, [node |-> x, prev |-> p], m)
  BY DEF Place
<1>5. divides => r \in Addrs /\ r # Null
  BY HeapAssumption DEF Addrs
<1>6. /\ g \in HeapValue
      /\ g.head = IF p = Null THEN After(h, x, m) ELSE h.head
      /\ g.nextFree = IF After(h, x, m) = Null THEN g.head ELSE After(h, x, m)
      /\ g.mark = MarksAfter(h, x, m)
      /\ \A a \in Addrs :
              g.size[a] = IF divides /\ a = x THEN m
                          ELSE IF divides /\ a = r THEN h.size[x] - m - Header
                          ELSE h.size[a]
      /\ \A a \in Addrs :
              g.next[a] = IF a = x THEN Null
                          ELSE IF a = p THEN After(h, x, m)
                          ELSE IF divides /\ a = r THEN h.next[x]
                          ELSE h.next[a]
  <2> HIDE DEF x, p
  <2> QED
    BY <1>3, <1>4, <1>5, GiveAwayFields
<1>7. ASSUME NEW k \in Nat, k < n PROVE f[k] = p <=> k + 1 = i
  <2>1. CASE i = 0
    BY <1>1, <1>7, <2>1
  <2>2. CASE i # 0
    <3>1. i - 1 \in Nat /\ i - 1 < n
      BY <1>1, <2>2
    <3> QED
      BY <1>1, <1>7, <2>2, <3>1
  <2> QED
    BY <2>1, <2>2
<1>8. h.size[x] \in Nat /\ \A a \in Addrs : h.size[a] \in Nat
  BY <1>3, HeapAssumption DEF HeapValue
<1>9. CASE divides
  <2> DEFINE e == Put(f, i, r)
  <2>1. r \in Addrs /\ r \notin Nodes(f, n) /\ After(h, x, m) = r /\ r # Null
    BY <1>9, <1>5 DEF After
  <2>2. g.head = IF i = 0 THEN r ELSE h.head
    BY <1>3, <1>6, <2>1
  <2>3. r # x /\ r # p
    <3>1. CASE i = 0
      BY <1>3, <2>1, <3>1
    <3>2. CASE i # 0
      <4>1. i - 1 \in Nat /\ i - 1 < n
        BY <1>1, <3>2
      <4> QED
        BY <1>1, <1>3, <2>1, <3>2, <4>1
    <3> QED
      BY <3>1, <3>2
  <2>4. g.next[r] = f[i + 1]
    BY <1>2, <1>6, <1>9, <2>1, <2>3
  <2>5. ASSUME NEW k \in Nat, k < n, k # i
        PROVE  g.next[f[k]] = IF k + 1 = i THEN r ELSE h.next[f[k]]
    <3>1. f[k] \in Addrs /\ f[k] # x /\ f[k] # r /\ (f[k] = p <=> k + 1 = i)
      BY <1>1, <1>7, <2>1, <2>5
    <3> QED
      BY <1>6, <2>1, <3>1
  <2>6. IsList(g, e, n) /\ Nodes(e, n) = (Nodes(f, n) \ {x}) \cup {r}
    <3> HIDE DEF r, divides
    <3> QED
      BY <1>6, <2>1, <2>2, <2>4, <2>5, PutList
  <2>7. \A k \in Nat : e[k] = IF k = i THEN r ELSE f[k]
    BY DEF Put
  <2>8. ASSUME NEW j \in Nat, NEW k \in Nat, j < k, k + 1 < n
        PROVE  End(g, e[j]) < e[k]
    <3>1. End(h, f[j]) < f[k]
      BY <2>8 DEF Ascending
    <3>2. j < n /\ k < n
      BY <1>1, <2>8
    <3>3. x \in Nat /\ r = x + Header + m /\ x < r
      BY <1>3, HeapAssumption DEF Remainder, Addrs
    <3>4. CASE j = i
      <4>1. e[j] = r /\ e[k] = f[k]
        BY <2>7, <2>8, <3>4
      <4>2. End(g, r) = End(h, x)
        BY <1>6, <1>8, <1>9, <2>1, <2>3, <3>3, HeapAssumption DEF End
      <4> QED
        BY <3>1, <3>4, <4>1, <4>2
    <3>5. CASE k = i
      <4>1. e[j] = f[j] /\ e[k] = r
        BY <2>7, <2>8, <3>5
      <4>2. f[j] \in Addrs /\ f[j] # x /\ f[j] # r /\ f[j] \in Nat
        BY <1>1, <2>1, <2>8, <3>2, <3>5
      <4>3. End(g, f[j]) = End(h, f[j])
        BY <1>6, <4>2 DEF End
      <4>4. End(h, f[j]) \in Nat
        BY <4>2, <1>8, HeapAssumption DEF End
      <4>5. r \in Nat /\ f[k] = x
        BY <2>1, <3>5 DEF Addrs
      <4> HIDE DEF r, x, e
      <4> QED
        BY <3>1, <3>3, <4>1, <4>3, <4>4, <4>5
    <3>6. CASE j # i /\ k # i
      <4>1. e[j] = f[j] /\ e[k] = f[k]
        BY <2>7, <3>6
      <4>2. f[j] \in Addrs /\ f[j] # x /\ f[j] # r
        BY <1>1, <2>1, <3>2, <3>6
      <4>3. End(g, f[j]) = End(h, f[j])
        BY <1>6, <4>2 DEF End
      <4> QED
        BY <3>1, <4>1, <4>3
    <3> QED
      BY <3>4, <3>5, <3>6
  <2>9. Ascending(g, e, n)
    BY <2>8 DEF Ascending
  <2>10. g.nextFree \in Nodes(e, n)
    BY <1>6, <2>1, <2>6
  <2>11. {y \in {r} : divides} = {r}
    BY <1>9
  <2> HIDE DEF e, r, x, divides
  <2>12. \E d, l : /\ IsList(g, d, l)
                   /\ Ascending(g, d, l)
                   /\ Nodes(d, l) = (Nodes(f, n) \ {x}) \cup {y \in {r} : divides}
                   /\ g.nextFree \in Nodes(d, l) \cup {Null}
    BY <1>1, <2>6, <2>9, <2>10, <2>11
  <2> QED
    BY <1>6, <2>12 DEF x, r, divides
<1>10. CASE ~ divides
  <2> DEFINE e == Without(f, i)
  <2>1. After(h, x, m) = f[i + 1]
    BY <1>2, <1>10 DEF After
  <2>2. g.head = IF i = 0 THEN f[1] ELSE h.head
    BY <1>3, <1>6, <2>1
  <2>3. ASSUME NEW k \in Nat, k < n, k # i
        PROVE  g.next[f[k]] = IF k + 1 = i THEN f[i + 1] ELSE h.next[f[k]]
    <3>1. f[k] \in Addrs /\ f[k] # x /\ (f[k] = p <=> k + 1 = i)
      BY <1>1, <1>7, <2>3
    <3> QED
      BY <1>6, <1>10, <2>1, <3>1
  <2>4. IsList(g, e, n - 1) /\ Nodes(e, n - 1) = Nodes(f, n) \ {x}
    BY <1>6, <2>2, <2>3, WithoutList
  <2>5. \A k \in Nat : e[k] = IF k < i THEN f[k] ELSE f[k + 1]
    BY DEF Without
  <2>6. \A a \in Addrs : End(g, a) = End(h, a)
    BY <1>6, <1>10 DEF End
  <2>7. ASSUME NEW j \in Nat, NEW k \in Nat, j < k, k + 1 < n - 1
        PROVE  End(g, e[j]) < e[k]
    <3>1. PICK s \in Nat, t \in Nat : s < t /\ t + 1 < n /\ e[j] = f[s] /\ e[k] = f[t]
      <4>1. CASE j < i /\ k < i
        BY <1>1, <2>5, <2>7, <4>1
      <4>2. CASE j < i /\ ~ (k < i)
        <5>1. j < k + 1 /\ (k + 1) + 1 < n /\ k + 1 \in Nat /\ e[j] = f[j] /\ e[k] = f[k + 1]
          BY <1>1, <2>5, <2>7, <4>2
        <5> QED
          BY <5>1
      <4>3. CASE ~ (j < i)
        <5>1. j + 1 < k + 1 /\ (k + 1) + 1 < n /\ e[j] = f[j + 1] /\ e[k] = f[k + 1]
              /\ j + 1 \in Nat /\ k + 1 \in Nat
          BY <1>1, <2>5, <2>7, <4>3
        <5> QED
          BY <5>1
      <4> QED
        BY <4>1, <4>2, <4>3
    <3>2. End(h, f[s]) < f[t]
      BY <3>1 DEF Ascending
    <3>3. f[s] \in Addrs
      BY <1>1, <3>1
    <3> QED
      BY <2>6, <3>1, <3>2, <3>3
  <2>8. Ascending(g, e, n - 1)
    BY <2>7 DEF Ascending
  <2>9. g.nextFree \in Nodes(e, n - 1) \cup {Null}
    <3>1. CASE After(h, x, m) = Null
      <4>1. g.nextFree = e[0]
        BY <1>6, <2>4, <3>1 DEF IsList
      <4>2. IF 0 < n - 1 THEN e[0] \in Nodes(e, n - 1) ELSE e[0] = Null
        BY <1>1, <1>6, <2>4, NodeFacts
      <4> QED
        BY <4>1, <4>2
    <3>2. CASE After(h, x, m) # Null
      <4>1. i + 1 < n
        BY <1>1, <2>1, <3>2
      <4>2. f[i + 1] = e[i] /\ i < n - 1
        BY <1>1, <2>5, <4>1
      <4>3. f[i + 1] \in Nodes(e, n - 1)
        BY <1>6, <2>4, <4>2, NodeFacts
      <4> QED
        BY <1>6, <2>1, <3>2, <4>3
    <3> QED
      BY <3>1, <3>2
  <2>10. {y \in {r} : divides} = {}
    BY <1>10
  <2> HIDE DEF e, r, x, divides
  <2>11. \E d, l : /\ IsList(g, d, l)
                   /\ Ascending(g, d, l)
                   /\ Nodes(d, l) = (Nodes(f, n) \ {x}) \cup {y \in {r} : divides}
                   /\ g.nextFree \in Nodes(d, l) \cup {Null}
    BY <1>1, <2>4, <2>8, <2>9, <2>10
  <2> QED
    BY <1>6, <2>11 DEF x, r, divides
<1> QED
  BY <1>9, <1>10

-----------------------------------------------------------------------------
(* What the merge of two blocks writes: the size and the link of the       *)
(* first.                                                                  *)
LEMMA AbsorbFields ==
  ASSUME NEW h \in HeapValue, NEW x \in Addrs, NEW y \in Addrs,
         h.size[x] + Header + h.size[y] <= Capacity,
         NEW g, g = Absorb(h, x, y)
  PROVE  /\ g \in HeapValue
         /\ g.head = h.head /\ g.nextFree = h.nextFree /\ g.mark = h.mark
         /\ \A a \in Addrs : g.size[a] = IF a = x THEN h.size[x] + Header + h.size[y] ELSE h.size[a]
         /\ \A a \in Addrs : g.next[a] = IF a = x THEN h.next[y] ELSE h.next[a]
<1>1. /\ h.size \in [Addrs -> 0 .. Capacity] /\ h.next \in [Addrs -> Pointers]
      /\ h.head \in Pointers /\ h.nextFree \in Pointers /\ h.mark \in [Addrs -> Marks]
      /\ h = [head |-> h.head, nextFree |-> h.nextFree, size |-> h.size, next |-> h.next, mark |-> h.mark]
  BY DEF HeapValue, Pointers
<1>2. g = [head |-> h.head, nextFree |-> h.nextFree,
           size |-> [h.size EXCEPT ![x] = h.size[x] + Header + h.size[y]],
           next |-> [h.next EXCEPT ![x] = h.next[y]], mark |-> h.mark]
  BY <1>1 DEF Absorb
<1>3. h.size[x] + Header + h.size[y] \in 0 .. Capacity
  BY <1>1, HeapAssumption
<1>4. g.size \in [Addrs -> 0 .. Capacity] /\ g.next \in [Addrs -> Pointers]
  BY <1>1, <1>2, <1>3
<1>5. g \in HeapValue
  BY <1>1, <1>2, <1>4 DEF HeapValue, Pointers
<1> QED
  BY <1>1, <1>2, <1>5

(* Only what is left behind in headers that are not in use is dropped.     *)
LEMMA ForgetFields ==
  ASSUME NEW h \in HeapValue, NEW f, NEW n, IsList(h, f, n), n \in Steps,
         NEW used \in SUBSET Addrs, NEW g, g = Forget(h, used)
  PROVE  /\ g \in HeapValue
         /\ g.nextFree = h.nextFree /\ g.mark = h.mark
         /\ \A a \in Nodes(f, n) \cup used : g.size[a] = h.size[a]
         /\ IsList(g, f, n)
<1>1. /\ h.size \in [Addrs -> 0 .. Capacity] /\ h.next \in [Addrs -> Pointers]
      /\ h.head \in Pointers /\ h.nextFree \in Pointers /\ h.mark \in [Addrs -> Marks]
      /\ h = [head |-> h.head, nextFree |-> h.nextFree, size |-> h.size, next |-> h.next, mark |-> h.mark]
  BY DEF HeapValue, Pointers
<1>2. Listed(h) = Nodes(f, n)
  BY ListWalk
<1>3. g = [head |-> h.head, nextFree |-> h.nextFree,
           size |-> [a \in Addrs |-> IF a \in Nodes(f, n) \cup used THEN h.size[a] ELSE 0],
           next |-> [a \in Addrs |-> IF a \in Nodes(f, n) THEN h.next[a] ELSE Null], mark |-> h.mark]
  BY <1>1, <1>2 DEF Forget
<1>4. 0 \in 0 .. Capacity /\ Null \in Pointers
  BY HeapAssumption DEF Pointers
<1>5. g.size \in [Addrs -> 0 .. Capacity] /\ g.next \in [Addrs -> Pointers]
  BY <1>1, <1>3, <1>4
<1>6. g \in HeapValue
  BY <1>1, <1>3, <1>5 DEF HeapValue, Pointers
<1>7. Nodes(f, n) \subseteq Addrs
  BY NodeFacts
<1>8. \A a \in Nodes(f, n) \cup used : g.size[a] = h.size[a]
  BY <1>1, <1>3, <1>7
<1>9. g.head = h.head /\ \A a \in Nodes(f, n) : g.next[a] = h.next[a]
  BY <1>3, <1>7
<1>10. \A k \in Nat : k < n => f[k] \in Nodes(f, n)
  BY NodeFacts
<1>11. IsList(g, f, n)
  BY <1>9, <1>10 DEF IsList
<1> QED
  BY <1>3, <1>6, <1>8, <1>11

(* MyFree's assignments that put b before the i-th node.                   *)
Link(h, f, i, b) ==
  IF i = 0 THEN [h EXCEPT !.next[b] = h.head, !.head = b]
           ELSE [h EXCEPT !.next[f[i - 1]] = b, !.next[b] = f[i]]

(* What the insertion of a block at a place of the list writes: two        *)
(* links.                                                                  *)
LEMMA LinkFields ==
  ASSUME NEW h \in HeapValue, NEW f, NEW n, IsList(h, f, n), NEW i \in Nat, i < n,
         NEW b \in Addrs, b \notin Nodes(f, n),
         NEW g, g = Link(h, f, i, b)
  PROVE  /\ g \in HeapValue
         /\ g.head = IF i = 0 THEN b ELSE h.head
         /\ g.nextFree = h.nextFree /\ g.mark = h.mark /\ g.size = h.size
         /\ g.next[b] = f[i]
         /\ \A k \in Nat : k < n => g.next[f[k]] = IF k + 1 = i THEN b ELSE h.next[f[k]]
<1>1. /\ h.size \in [Addrs -> 0 .. Capacity] /\ h.next \in [Addrs -> Pointers]
      /\ h.head \in Pointers /\ h.nextFree \in Pointers /\ h.mark \in [Addrs -> Marks]
      /\ h = [head |-> h.head, nextFree |-> h.nextFree, size |-> h.size, next |-> h.next, mark |-> h.mark]
  BY DEF HeapValue, Pointers
<1>2. /\ n \in Nat /\ f[0] = h.head
      /\ \A k \in Nat : k < n => f[k] \in Nodes(f, n) /\ f[k] \in Addrs /\ f[k] \in Pointers
      /\ \A j, k \in Nat : j < n /\ k < n /\ f[j] = f[k] => j = k
  BY NodeFacts DEF Pointers, IsList
<1>3. b \in Pointers
  BY DEF Pointers
<1>4. CASE i = 0
  <2>1. g = [head |-> b, nextFree |-> h.nextFree, size |-> h.size,
             next |-> [h.next EXCEPT ![b] = f[i]], mark |-> h.mark]
    BY <1>1, <1>2, <1>4 DEF Link
  <2>2. g.next \in [Addrs -> Pointers] /\ g.next[b] = f[i] /\ \A a \in Addrs : a # b => g.next[a] = h.next[a]
    BY <1>1, <1>2, <2>1
  <2>3. g \in HeapValue
    BY <1>1, <1>3, <2>1, <2>2 DEF HeapValue, Pointers
  <2>4. \A k \in Nat : k < n => g.next[f[k]] = IF k + 1 = i THEN b ELSE h.next[f[k]]
    BY <1>2, <1>4, <2>2
  <2> QED
    BY <1>4, <2>1, <2>2, <2>3, <2>4
<1>5. CASE i # 0
  <2> DEFINE p == f[i - 1]
  <2>1. i - 1 \in Nat /\ i - 1 < n
    BY <1>2, <1>5
  <2>2. p \in Addrs /\ p # b /\ \A k \in Nat : k < n => (f[k] = p <=> k + 1 = i)
    BY <1>2, <2>1
  <2>3. g = [head |-> h.head, nextFree |-> h.nextFree, size |-> h.size,
             next |-> [[h.next EXCEPT ![p] = b] EXCEPT ![b] = f[i]], mark |-> h.mark]
    BY <1>1, <1>5 DEF Link
  <2> HIDE DEF p
  <2>4. /\ g.next \in [Addrs -> Pointers] /\ g.next[b] = f[i]
        /\ \A a \in Addrs : a # b => g.next[a] = IF a = p THEN b ELSE h.next[a]
    BY <1>1, <1>2, <1>3, <2>2, <2>3
  <2>5. g \in HeapValue
    BY <1>1, <2>3, <2>4 DEF HeapValue, Pointers
  <2>6. ASSUME NEW k \in Nat, k < n PROVE g.next[f[k]] = IF k + 1 = i THEN b ELSE h.next[f[k]]
    <3>1. f[k] \in Addrs /\ f[k] # b
      BY <1>2, <2>6
    <3> QED
      BY <2>2, <2>4, <2>6, <3>1
  <2> QED
    BY <1>5, <2>3, <2>4, <2>5, <2>6
<1> QED
  BY <1>4, <1>5

(* The i-th node is where MyFree stops for b: the nodes before it are      *)
(* below b, and it is above b unless it is the last one.                   *)
Stop(h, f, n, i, b) ==
  /\ i \in Nat /\ i < n
  /\ b \in Addrs /\ b \notin Nodes(f, n)
  /\ i + 1 < n => b < f[i]
  /\ \A j \in Nat : j < i => f[j] < b
  /\ \A c \in Nodes(f, n) : /\ c < b => End(h, c) <= b
                            /\ c > b => End(h, b) <= c
  /\ \A c \in Nodes(f, n) \cup {b} : End(h, c) <= Capacity

(* The nodes of g are those of h and b, of which b and some next to it are *)
(* one now, from the lowest to the end of the highest; what else lies at A *)
(* has its size.                                                           *)
Joined(h, g, L, K, b, A) ==
  \E gone \in SUBSET {x \in L : End(h, x) = b \/ End(h, b) = x} : \E lo \in gone \cup {b} :
    /\ \A x \in gone \cup {b} : lo <= x /\ End(h, x) <= End(g, lo)
    /\ \E x \in gone \cup {b} : End(g, lo) = End(h, x)
    /\ K = (L \ gone) \cup {lo}
    /\ \A a \in A \ (gone \cup {b}) : g.size[a] = h.size[a]

(* When blocks that lie against the block b, the gone ones, leave the      *)
(* list and one block over all their bytes is on it instead, b was joined  *)
(* with them.                                                              *)
LEMMA JoinedBy ==
  ASSUME NEW h, NEW g, NEW L, NEW K, NEW b, NEW gone \in SUBSET L, NEW lo \in gone \cup {b},
         NEW A,
         \A x \in gone : End(h, x) = b \/ End(h, b) = x,
         \A x \in gone \cup {b} : lo <= x /\ End(h, x) <= End(g, lo),
         \E x \in gone \cup {b} : End(g, lo) = End(h, x),
         K = (L \ gone) \cup {lo},
         \A a \in A \ (gone \cup {b}) : g.size[a] = h.size[a]
  PROVE  Joined(h, g, L, K, b, A)
<1>1. gone \in SUBSET {x \in L : End(h, x) = b \/ End(h, b) = x}
  OBVIOUS
<1> QED
  BY <1>1, Zenon DEF Joined

(* What is known of the ends of the nodes and of b.                        *)
LEMMA StopFacts ==
  ASSUME NEW h \in HeapValue, NEW f, NEW n, IsList(h, f, n), Ascending(h, f, n),
         NEW i, NEW b, Stop(h, f, n, i, b)
  PROVE  /\ \A a \in Addrs : a \in Nat /\ h.size[a] \in Nat /\ End(h, a) \in Nat /\ a + Header <= End(h, a)
         /\ \A j \in Nat : j < i => End(h, f[j]) <= b
         /\ \A j \in Nat : j + 1 < i => End(h, f[j]) < b
         /\ i + 1 < n => End(h, b) <= f[i]
         /\ \A k \in Nat : i < k /\ k + 1 < n => End(h, b) < f[k]
<1>1. \A a \in Addrs : a \in Nat /\ h.size[a] \in Nat /\ End(h, a) \in Nat /\ a + Header <= End(h, a)
  BY HeapAssumption DEF Addrs, HeapValue, End
<1>2. /\ n \in Nat /\ i \in Nat /\ i < n /\ b \in Addrs
      /\ \A k \in Nat : k < n => f[k] \in Nodes(f, n) /\ f[k] \in Addrs
  BY NodeFacts DEF Stop
<1>3. \A j \in Nat : j < i => End(h, f[j]) <= b /\ f[j] < b
  BY <1>2 DEF Stop
<1>4. ASSUME NEW j \in Nat, j + 1 < i PROVE End(h, f[j]) < b
  <2>1. j < j + 1 /\ (j + 1) + 1 < n /\ j + 1 \in Nat
    BY <1>2, <1>4
  <2>2. End(h, f[j]) < f[j + 1]
    BY <2>1 DEF Ascending
  <2>3. f[j + 1] < b
    BY <1>3, <1>4, <2>1
  <2>4. f[j] \in Addrs /\ f[j + 1] \in Addrs
    BY <1>2, <1>4, <2>1
  <2> QED
    BY <1>1, <1>2, <2>2, <2>3, <2>4
<1>5. i + 1 < n => End(h, b) <= f[i]
  BY <1>2 DEF Stop
<1>6. ASSUME NEW k \in Nat, i < k, k + 1 < n PROVE End(h, b) < f[k]
  <2>1. End(h, f[i]) < f[k]
    BY <1>2, <1>6 DEF Ascending
  <2>2. i + 1 < n /\ f[i] \in Addrs /\ f[k] \in Addrs
    BY <1>2, <1>6
  <2> QED
    BY <1>1, <1>2, <1>5, <2>1, <2>2, HeapAssumption
<1> QED
  BY <1>1, <1>3, <1>4, <1>5, <1>6

(* coalesceFreeList: b is merged with the nodes between which it was       *)
(* linked if they are next to it; the list is ascending again, and holds   *)
(* every node it held but possibly the one that followed b.  The pointer   *)
(* that is returned is on the list whenever MyFree moves nextFreeBlock to  *)
(* it.                                                                     *)
Coalesced(h, f, n, i, b, c) ==
  /\ c.heap \in HeapValue
  /\ c.heap.mark = h.mark /\ c.heap.nextFree = h.nextFree
  /\ \E e, l : /\ IsList(c.heap, e, l)
               /\ Ascending(c.heap, e, l)
               /\ Joined(h, c.heap, Nodes(f, n), Nodes(e, l), b, Addrs)
               /\ Nodes(f, n) \ {f[i]} \subseteq Nodes(e, l)
               /\ IF c.merged # Null /\ c.heap.next[c.merged] # f[i]
                    THEN c.merged \in Nodes(e, l)
                    ELSE f[i] \in Nodes(e, l)

(* b takes the place of the node that follows it.                          *)
LEMMA AbsorbsNext ==
  ASSUME NEW h \in HeapValue, NEW f, NEW n, IsList(h, f, n), Ascending(h, f, n),
         NEW i, NEW b, Stop(h, f, n, i, b),
         End(h, b) = f[i], i # 0 => End(h, f[i - 1]) # b,
         NEW c, c.heap = Absorb(Link(h, f, i, b), b, f[i]),
         c.merged = IF i = 0 THEN b ELSE f[i - 1]
  PROVE  Coalesced(h, f, n, i, b, c)
<1> DEFINE u == Link(h, f, i, b)
           x == f[i]
           g == c.heap
           e == Put(f, i, b)
<1>1. /\ n \in Nat /\ i \in Nat /\ i < n /\ b \in Addrs /\ b \notin Nodes(f, n)
      /\ \A k \in Nat : k < n => f[k] \in Nodes(f, n) /\ f[k] \in Addrs
      /\ \A j, k \in Nat : j < n /\ k < n /\ f[j] = f[k] => j = k
      /\ \A k \in Nat : k < n => h.next[f[k]] = f[k + 1]
      /\ \A k \in Nat : k >= n => f[k] = Null
      /\ Null \notin Addrs
  BY NodeFacts, HeapAssumption DEF Stop, IsList, Addrs
<1>2. /\ u \in HeapValue
      /\ u.head = IF i = 0 THEN b ELSE h.head
      /\ u.nextFree = h.nextFree /\ u.mark = h.mark /\ u.size = h.size
      /\ u.next[b] = f[i]
      /\ \A k \in Nat : k < n => u.next[f[k]] = IF k + 1 = i THEN b ELSE h.next[f[k]]
  BY <1>1, LinkFields
<1>3. /\ \A a \in Addrs : a \in Nat /\ h.size[a] \in Nat /\ End(h, a) \in Nat /\ a + Header <= End(h, a)
      /\ \A j \in Nat : j < i => End(h, f[j]) <= b
      /\ \A j \in Nat : j + 1 < i => End(h, f[j]) < b
  BY StopFacts
<1>4. x \in Nodes(f, n) /\ x \in Addrs /\ x # b /\ End(h, x) <= Capacity /\ b < x
  BY <1>1, <1>3, HeapAssumption DEF Stop
<1>5. h.size[b] + Header + h.size[x] <= Capacity /\ End(h, x) = b + Header + (h.size[b] + Header + h.size[x])
  BY <1>1, <1>3, <1>4, HeapAssumption DEF End
<1>6. /\ g \in HeapValue
      /\ g.head = u.head /\ g.nextFree = h.nextFree /\ g.mark = h.mark
      /\ \A a \in Addrs : g.size[a] = IF a = b THEN h.size[b] + Header + h.size[x] ELSE h.size[a]
      /\ \A a \in Addrs : g.next[a] = IF a = b THEN u.next[x] ELSE u.next[a]
  <2> HIDE DEF u, x
  <2> QED
    BY <1>1, <1>2, <1>4, <1>5, AbsorbFields DEF x, u
<1>7. g.next[b] = f[i + 1]
  BY <1>1, <1>2, <1>6
<1>8. ASSUME NEW k \in Nat, k < n, k # i
      PROVE  g.next[f[k]] = IF k + 1 = i THEN b ELSE h.next[f[k]]
  BY <1>1, <1>2, <1>6, <1>8
<1>9. IsList(g, e, n) /\ Nodes(e, n) = (Nodes(f, n) \ {x}) \cup {b}
  BY <1>1, <1>2, <1>6, <1>7, <1>8, PutList
<1>10. \A k \in Nat : e[k] = IF k = i THEN b ELSE f[k]
  BY DEF Put
<1>11. \A a \in Addrs : a # b => End(g, a) = End(h, a)
  BY <1>6 DEF End
<1>12. End(g, b) = End(h, x)
  BY <1>1, <1>5, <1>6 DEF End
<1>13. ASSUME NEW j \in Nat, NEW k \in Nat, j < k, k + 1 < n
       PROVE  End(g, e[j]) < e[k]
  <2>1. End(h, f[j]) < f[k] /\ j < n /\ k < n
    BY <1>1, <1>13 DEF Ascending
  <2>2. CASE j = i
    BY <1>10, <1>12, <1>13, <2>1, <2>2
  <2>3. CASE k = i
    <3>1. e[j] = f[j] /\ e[k] = b /\ f[j] # b /\ f[j] \in Addrs
      BY <1>1, <1>10, <1>13, <2>1, <2>3
    <3>2. End(g, e[j]) = End(h, f[j])
      BY <1>11, <3>1
    <3>3. CASE j + 1 < i
      BY <1>3, <3>1, <3>2, <3>3
    <3>4. CASE j + 1 = i
      <4>1. j = i - 1 /\ i # 0
        BY <1>1, <3>4
      <4>2. End(h, f[j]) # b /\ End(h, f[j]) <= b
        BY <1>3, <1>13, <2>3, <4>1
      <4> QED
        BY <1>1, <1>3, <3>1, <3>2, <4>2
    <3> QED
      BY <1>1, <1>13, <2>3, <3>3, <3>4
  <2>4. CASE j # i /\ k # i
    <3>1. e[j] = f[j] /\ e[k] = f[k] /\ f[j] # b /\ f[j] \in Addrs
      BY <1>1, <1>10, <2>1, <2>4
    <3> QED
      BY <1>11, <2>1, <3>1
  <2> QED
    BY <2>2, <2>3, <2>4
<1>14. Ascending(g, e, n)
  BY <1>13 DEF Ascending
<1>15. Joined(h, g, Nodes(f, n), Nodes(e, n), b, Addrs)
  <2>a. Nodes(f, n) \subseteq Addrs
    BY NodeFacts
  <2>1. /\ {x} \in SUBSET Nodes(f, n) /\ b \in {x} \cup {b}
        /\ \A y \in {x} : End(h, y) = b \/ End(h, b) = y
    BY <1>4
  <2>2. \A y \in {x} \cup {b} : b <= y /\ End(h, y) <= End(g, b)
    BY <1>1, <1>3, <1>4, <1>12, HeapAssumption
  <2>3. \E y \in {x} \cup {b} : End(g, b) = End(h, y)
    BY <1>12
  <2>4. \A a \in Addrs \ ({x} \cup {b}) : g.size[a] = h.size[a]
    BY <1>6
  <2> HIDE DEF x, g, e
  <2> QED
    BY <1>9, <2>1, <2>2, <2>3, <2>4, <2>a, JoinedBy
<1>16. c.merged # Null /\ c.merged \in Nodes(e, n)
  <2>1. CASE i = 0
    BY <1>1, <1>9, <2>1
  <2>2. CASE i # 0
    <3>1. i - 1 \in Nat /\ i - 1 < n /\ i - 1 # i
      BY <1>1, <2>2
    <3>2. f[i - 1] # x /\ f[i - 1] \in Nodes(f, n) /\ f[i - 1] \in Addrs
      BY <1>1, <3>1
    <3> QED
      BY <1>1, <1>9, <2>2, <3>2
  <2> QED
    BY <2>1, <2>2
<1>17. g.next[c.merged] # f[i]
  <2>1. CASE i = 0
    <3>1. f[i + 1] # f[i]
      BY <1>1, <1>4
    <3> QED
      BY <1>7, <2>1, <3>1
  <2>2. CASE i # 0
    <3>1. i - 1 \in Nat /\ i - 1 < n /\ i - 1 # i /\ (i - 1) + 1 = i
      BY <1>1, <2>2
    <3> QED
      BY <1>8, <1>4, <2>2, <3>1
  <2> QED
    BY <2>1, <2>2
<1>18. Nodes(f, n) \ {f[i]} \subseteq Nodes(e, n)
  BY <1>9
<1> HIDE DEF e, g, u, x
<1>19. \E d, l : /\ IsList(g, d, l)
                 /\ Ascending(g, d, l)
                 /\ Joined(h, g, Nodes(f, n), Nodes(d, l), b, Addrs)
                 /\ Nodes(f, n) \ {f[i]} \subseteq Nodes(d, l)
                 /\ c.merged \in Nodes(d, l)
  BY <1>9, <1>14, <1>15, <1>16, <1>18
<1> QED
  BY <1>6, <1>16, <1>17, <1>19 DEF Coalesced, g

(* The node before b takes b and the node that follows it.                 *)
LEMMA PrevAbsorbsBoth ==
  ASSUME NEW h \in HeapValue, NEW f, NEW n, IsList(h, f, n), Ascending(h, f, n),
         NEW i, NEW b, Stop(h, f, n, i, b), i # 0,
         End(h, b) = f[i], End(h, f[i - 1]) = b,
         NEW c, c.heap = Absorb(Absorb(Link(h, f, i, b), b, f[i]), f[i - 1], b),
         c.merged = f[i - 1]
  PROVE  Coalesced(h, f, n, i, b, c)
<1> DEFINE u == Link(h, f, i, b)
           x == f[i]
           p == f[i - 1]
           v == Absorb(u, b, x)
           g == c.heap
           e == Without(f, i)
<1>1. /\ n \in Nat /\ i \in Nat /\ i < n /\ b \in Addrs /\ b \notin Nodes(f, n)
      /\ \A k \in Nat : k < n => f[k] \in Nodes(f, n) /\ f[k] \in Addrs
      /\ \A j, k \in Nat : j < n /\ k < n /\ f[j] = f[k] => j = k
      /\ \A k \in Nat : k < n => h.next[f[k]] = f[k + 1]
      /\ \A k \in Nat : k >= n => f[k] = Null
      /\ Null \notin Addrs
  BY NodeFacts, HeapAssumption DEF Stop, IsList, Addrs
<1>a. i - 1 \in Nat /\ i - 1 < n /\ i - 1 # i /\ (i - 1) + 1 = i
  BY <1>1
<1>2. /\ u \in HeapValue
      /\ u.head = h.head
      /\ u.nextFree = h.nextFree /\ u.mark = h.mark /\ u.size = h.size
      /\ u.next[b] = f[i]
      /\ \A k \in Nat : k < n => u.next[f[k]] = IF k + 1 = i THEN b ELSE h.next[f[k]]
  BY <1>1, LinkFields
<1>3. \A a \in Addrs : a \in Nat /\ h.size[a] \in Nat /\ End(h, a) \in Nat /\ a + Header <= End(h, a)
  BY StopFacts
<1>4. /\ x \in Nodes(f, n) /\ x \in Addrs /\ x # b /\ End(h, x) <= Capacity /\ b < x
      /\ p \in Nodes(f, n) /\ p \in Addrs /\ p # b /\ p # x /\ p < b
  BY <1>1, <1>a, <1>3, HeapAssumption DEF Stop
<1>5. /\ h.size[b] + Header + h.size[x] <= Capacity
      /\ h.size[p] + Header + (h.size[b] + Header + h.size[x]) <= Capacity
      /\ End(h, x) = p + Header + (h.size[p] + Header + (h.size[b] + Header + h.size[x]))
  <2>1. b + Header + h.size[b] = x /\ p + Header + h.size[p] = b /\ End(h, x) = x + Header + h.size[x]
    BY DEF End
  <2>2. /\ x \in Nat /\ p \in Nat /\ b \in Nat /\ Header \in Nat /\ Capacity \in Nat
        /\ h.size[x] \in Nat /\ h.size[p] \in Nat /\ h.size[b] \in Nat
    BY <1>1, <1>3, <1>4, HeapAssumption
  <2>3. x + Header + h.size[x] <= Capacity
    BY <1>4, <2>1
  <2> HIDE DEF x, p
  <2> QED
    BY <2>1, <2>2, <2>3
<1>6. /\ v \in HeapValue
      /\ v.head = u.head /\ v.nextFree = h.nextFree /\ v.mark = h.mark
      /\ \A a \in Addrs : v.size[a] = IF a = b THEN h.size[b] + Header + h.size[x] ELSE h.size[a]
      /\ \A a \in Addrs : v.next[a] = IF a = b THEN u.next[x] ELSE u.next[a]
  <2> HIDE DEF u, x
  <2> QED
    BY <1>1, <1>2, <1>4, <1>5, AbsorbFields DEF v
<1>7. /\ g \in HeapValue
      /\ g.head = v.head /\ g.nextFree = h.nextFree /\ g.mark = h.mark
      /\ \A a \in Addrs : g.size[a] = IF a = p THEN v.size[p] + Header + v.size[b] ELSE v.size[a]
      /\ \A a \in Addrs : g.next[a] = IF a = p THEN v.next[b] ELSE v.next[a]
  <2>1. v.size[p] + Header + v.size[b] <= Capacity
    BY <1>1, <1>4, <1>5, <1>6
  <2>2. g = Absorb(v, p, b)
    OBVIOUS
  <2> HIDE DEF u, x, p, v, g
  <2> QED
    BY <1>1, <1>4, <1>6, <2>1, <2>2, AbsorbFields
<1>8. /\ \A a \in Addrs : a # p /\ a # b => g.size[a] = h.size[a] /\ g.next[a] = u.next[a]
      /\ g.next[p] = f[i + 1]
      /\ End(g, p) = End(h, x)
  <2>1. u.next[x] = f[i + 1]
    BY <1>1, <1>2
  <2>2. \A a \in Addrs : a # p /\ a # b => g.size[a] = h.size[a] /\ g.next[a] = u.next[a]
    BY <1>6, <1>7
  <2>3. g.next[p] = f[i + 1]
    BY <1>1, <1>4, <1>6, <1>7, <2>1
  <2>4. g.size[p] = h.size[p] + Header + (h.size[b] + Header + h.size[x])
    BY <1>1, <1>4, <1>6, <1>7
  <2>5. End(g, p) = End(h, x)
    BY <1>5, <2>4 DEF End
  <2> QED
    BY <2>2, <2>3, <2>5
<1>9. ASSUME NEW k \in Nat, k < n, k # i
      PROVE  g.next[f[k]] = IF k + 1 = i THEN f[i + 1] ELSE h.next[f[k]]
  <2>1. CASE k + 1 = i
    BY <1>8, <1>9, <2>1
  <2>2. CASE k + 1 # i
    <3>1. k # i - 1
      BY <1>1, <2>2
    <3>2. f[k] \in Addrs /\ f[k] # p /\ f[k] # b
      BY <1>1, <1>a, <1>9, <3>1
    <3> QED
      BY <1>2, <1>8, <1>9, <2>2, <3>2
  <2> QED
    BY <2>1, <2>2
<1>10. IsList(g, e, n - 1) /\ Nodes(e, n - 1) = Nodes(f, n) \ {x}
  <2>1. g.head = IF i = 0 THEN f[1] ELSE h.head
    BY <1>2, <1>6, <1>7
  <2> HIDE DEF g
  <2> QED
    BY <1>1, <1>7, <1>9, <2>1, WithoutList
<1>11. \A k \in Nat : e[k] = IF k < i THEN f[k] ELSE f[k + 1]
  BY DEF Without
<1>12. \A a \in Addrs : a # p /\ a # b => End(g, a) = End(h, a)
  BY <1>8 DEF End
<1>13. ASSUME NEW j \in Nat, NEW k \in Nat, j < k, k + 1 < n - 1
       PROVE  End(g, e[j]) < e[k]
  <2>1. CASE j + 1 = i
    <3>1. e[j] = p /\ e[k] = f[k + 1] /\ i < k + 1 /\ (k + 1) + 1 < n
      BY <1>1, <1>11, <1>13, <2>1
    <3>2. End(h, x) < f[k + 1]
      BY <1>1, <3>1 DEF Ascending
    <3> QED
      BY <1>8, <3>1, <3>2
  <2>2. CASE j + 1 # i
    <3>1. PICK s \in Nat, t \in Nat : s < t /\ t + 1 < n /\ e[j] = f[s] /\ e[k] = f[t] /\ s # i - 1
      <4>1. CASE j < i /\ k < i
        BY <1>1, <1>11, <1>13, <2>2, <4>1
      <4>2. CASE j < i /\ ~ (k < i)
        <5>1. j < k + 1 /\ (k + 1) + 1 < n /\ k + 1 \in Nat /\ e[j] = f[j] /\ e[k] = f[k + 1] /\ j # i - 1
          BY <1>1, <1>11, <1>13, <2>2, <4>2
        <5> QED
          BY <5>1
      <4>3. CASE ~ (j < i)
        <5>1. j + 1 < k + 1 /\ (k + 1) + 1 < n /\ e[j] = f[j + 1] /\ e[k] = f[k + 1]
              /\ j + 1 \in Nat /\ k + 1 \in Nat /\ j + 1 # i - 1
          BY <1>1, <1>11, <1>13, <4>3
        <5> QED
          BY <5>1
      <4> QED
        BY <4>1, <4>2, <4>3
    <3>2. End(h, f[s]) < f[t]
      BY <3>1 DEF Ascending
    <3>3. f[s] \in Addrs /\ f[s] # p /\ f[s] # b
      BY <1>1, <1>a, <3>1
    <3> QED
      BY <1>12, <3>1, <3>2, <3>3
  <2> QED
    BY <2>1, <2>2
<1>14. Ascending(g, e, n - 1)
  BY <1>13 DEF Ascending
<1>15. Joined(h, g, Nodes(f, n), Nodes(e, n - 1), b, Addrs)
  <2>1. /\ {p, x} \in SUBSET Nodes(f, n) /\ p \in {p, x} \cup {b}
        /\ \A y \in {p, x} : End(h, y) = b \/ End(h, b) = y
    BY <1>4
  <2>2. \A y \in {p, x} \cup {b} : p <= y /\ End(h, y) <= End(g, p)
    BY <1>1, <1>3, <1>4, <1>8, HeapAssumption
  <2>3. \E y \in {p, x} \cup {b} : End(g, p) = End(h, y)
    BY <1>8
  <2>4. \A a \in Addrs \ ({p, x} \cup {b}) : g.size[a] = h.size[a]
    BY <1>8
  <2>5. Nodes(e, n - 1) = (Nodes(f, n) \ {p, x}) \cup {p}
    BY <1>4, <1>10
  <2>6. PICK gone : gone = {p, x}
    OBVIOUS
  <2> HIDE DEF x, p, g, e
  <2> QED
    BY <2>1, <2>2, <2>3, <2>4, <2>5, <2>6, JoinedBy
<1>16. c.merged # Null /\ c.merged \in Nodes(e, n - 1)
  BY <1>1, <1>4, <1>10
<1>17. g.next[c.merged] # f[i]
  BY <1>1, <1>4, <1>8
<1>18. Nodes(f, n) \ {f[i]} \subseteq Nodes(e, n - 1)
  BY <1>10
<1> HIDE DEF e, g, u, x, p, v
<1>19. \E d, l : /\ IsList(g, d, l)
                 /\ Ascending(g, d, l)
                 /\ Joined(h, g, Nodes(f, n), Nodes(d, l), b, Addrs)
                 /\ Nodes(f, n) \ {f[i]} \subseteq Nodes(d, l)
                 /\ c.merged \in Nodes(d, l)
  BY <1>10, <1>14, <1>15, <1>16, <1>18
<1> QED
  BY <1>7, <1>16, <1>17, <1>19 DEF Coalesced, g

(* The node before b takes b.                                              *)
LEMMA PrevAbsorbs ==
  ASSUME NEW h \in HeapValue, NEW f, NEW n, IsList(h, f, n), Ascending(h, f, n),
         NEW i, NEW b, Stop(h, f, n, i, b), i # 0,
         End(h, b) # f[i], End(h, f[i - 1]) = b,
         NEW c, c.heap = Absorb(Link(h, f, i, b), f[i - 1], b), c.merged = b
  PROVE  Coalesced(h, f, n, i, b, c)
<1> DEFINE u == Link(h, f, i, b)
           p == f[i - 1]
           g == c.heap
<1>1. /\ n \in Nat /\ i \in Nat /\ i < n /\ b \in Addrs /\ b \notin Nodes(f, n)
      /\ \A k \in Nat : k < n => f[k] \in Nodes(f, n) /\ f[k] \in Addrs
      /\ \A j, k \in Nat : j < n /\ k < n /\ f[j] = f[k] => j = k
      /\ \A k \in Nat : k < n => h.next[f[k]] = f[k + 1]
      /\ \A k \in Nat : k >= n => f[k] = Null
      /\ Null \notin Addrs
  BY NodeFacts, HeapAssumption DEF Stop, IsList, Addrs
<1>a. i - 1 \in Nat /\ i - 1 < n /\ i - 1 # i /\ (i - 1) + 1 = i
  BY <1>1
<1>2. /\ u \in HeapValue
      /\ u.head = h.head
      /\ u.nextFree = h.nextFree /\ u.mark = h.mark /\ u.size = h.size
      /\ u.next[b] = f[i]
      /\ \A k \in Nat : k < n => u.next[f[k]] = IF k + 1 = i THEN b ELSE h.next[f[k]]
  BY <1>1, LinkFields
<1>3. /\ \A a \in Addrs : a \in Nat /\ h.size[a] \in Nat /\ End(h, a) \in Nat /\ a + Header <= End(h, a)
      /\ i + 1 < n => End(h, b) <= f[i]
      /\ \A k \in Nat : i < k /\ k + 1 < n => End(h, b) < f[k]
  BY StopFacts
<1>4. p \in Nodes(f, n) /\ p \in Addrs /\ p # b /\ p < b /\ End(h, b) <= Capacity
  BY <1>1, <1>a, <1>3, HeapAssumption DEF Stop
<1>5. /\ h.size[p] + Header + h.size[b] <= Capacity
      /\ End(h, b) = p + Header + (h.size[p] + Header + h.size[b])
  BY <1>1, <1>3, <1>4, HeapAssumption DEF End
<1>6. /\ g \in HeapValue
      /\ g.head = u.head /\ g.nextFree = h.nextFree /\ g.mark = h.mark
      /\ \A a \in Addrs : g.size[a] = IF a = p THEN h.size[p] + Header + h.size[b] ELSE h.size[a]
      /\ \A a \in Addrs : g.next[a] = IF a = p THEN u.next[b] ELSE u.next[a]
  <2>1. g = Absorb(u, p, b)
    OBVIOUS
  <2> HIDE DEF u, p, g
  <2> QED
    BY <1>1, <1>2, <1>4, <1>5, <2>1, AbsorbFields
<1>7. \A k \in Nat : k < n => g.next[f[k]] = h.next[f[k]]
  <2> SUFFICES ASSUME NEW k \in Nat, k < n PROVE g.next[f[k]] = h.next[f[k]]
    OBVIOUS
  <2>1. CASE k + 1 = i
    <3>1. f[k] = p /\ h.next[f[k]] = f[i]
      BY <1>1, <2>1
    <3> QED
      BY <1>2, <1>4, <1>6, <3>1
  <2>2. CASE k + 1 # i
    <3>1. f[k] # p /\ f[k] \in Addrs
      BY <1>1, <1>a, <2>2
    <3> QED
      BY <1>2, <1>6, <2>2, <3>1
  <2> QED
    BY <2>1, <2>2
<1>8. IsList(g, f, n)
  BY <1>2, <1>6, <1>7 DEF IsList
<1>9. /\ \A a \in Addrs : a # p => End(g, a) = End(h, a)
      /\ End(g, p) = End(h, b)
  BY <1>4, <1>5, <1>6 DEF End
<1>10. ASSUME NEW j \in Nat, NEW k \in Nat, j < k, k + 1 < n
       PROVE  End(g, f[j]) < f[k]
  <2>1. End(h, f[j]) < f[k] /\ f[j] \in Addrs /\ f[k] \in Addrs
    BY <1>1, <1>10 DEF Ascending
  <2>2. CASE j = i - 1
    <3>1. k >= i
      BY <1>1, <1>10, <2>2
    <3>2. CASE k = i
      BY <1>1, <1>3, <1>9, <1>10, <2>1, <2>2, <3>2
    <3>3. CASE k > i
      BY <1>3, <1>9, <1>10, <2>2, <3>3
    <3> QED
      BY <1>1, <3>1, <3>2, <3>3
  <2>3. CASE j # i - 1
    <3>1. f[j] # p
      BY <1>1, <1>a, <1>10, <2>3
    <3> QED
      BY <1>9, <2>1, <3>1
  <2> QED
    BY <2>2, <2>3
<1>11. Ascending(g, f, n)
  BY <1>10 DEF Ascending
<1>12. Joined(h, g, Nodes(f, n), Nodes(f, n), b, Addrs)
  <2>a. Nodes(f, n) \subseteq Addrs
    BY NodeFacts
  <2>1. /\ {p} \in SUBSET Nodes(f, n) /\ p \in {p} \cup {b}
        /\ \A y \in {p} : End(h, y) = b \/ End(h, b) = y
    BY <1>4
  <2>2. \A y \in {p} \cup {b} : p <= y /\ End(h, y) <= End(g, p)
    BY <1>1, <1>3, <1>4, <1>9, HeapAssumption
  <2>3. \E y \in {p} \cup {b} : End(g, p) = End(h, y)
    BY <1>9
  <2>4. \A a \in Addrs \ ({p} \cup {b}) : g.size[a] = h.size[a]
    BY <1>6
  <2>5. Nodes(f, n) = (Nodes(f, n) \ {p}) \cup {p}
    BY <1>4
  <2> HIDE DEF p, g
  <2> QED
    BY <2>1, <2>2, <2>3, <2>4, <2>5, <2>a, JoinedBy
<1>13. g.next[c.merged] = f[i]
  BY <1>1, <1>2, <1>4, <1>6
<1>14. f[i] \in Nodes(f, n)
  BY <1>1
<1> HIDE DEF g, u, p
<1>15. \E d, l : /\ IsList(g, d, l)
                 /\ Ascending(g, d, l)
                 /\ Joined(h, g, Nodes(f, n), Nodes(d, l), b, Addrs)
                 /\ Nodes(f, n) \ {f[i]} \subseteq Nodes(d, l)
                 /\ f[i] \in Nodes(d, l)
  BY <1>8, <1>11, <1>12, <1>14
<1> QED
  BY <1>6, <1>13, <1>15 DEF Coalesced, g

(* b is linked and stays a block of its own.                               *)
LEMMA NoneAbsorbs ==
  ASSUME NEW h \in HeapValue, NEW f, NEW n, IsList(h, f, n), Ascending(h, f, n),
         NEW i, NEW b, Stop(h, f, n, i, b),
         End(h, b) # f[i], i # 0 => End(h, f[i - 1]) # b,
         NEW c, c.heap = Link(h, f, i, b), c.merged = IF i = 0 THEN b ELSE Null
  PROVE  Coalesced(h, f, n, i, b, c)
<1> DEFINE g == c.heap
           e == With(f, i, b)
<1>1. /\ n \in Nat /\ i \in Nat /\ i < n /\ b \in Addrs /\ b \notin Nodes(f, n)
      /\ \A k \in Nat : k < n => f[k] \in Nodes(f, n) /\ f[k] \in Addrs
      /\ \A j, k \in Nat : j < n /\ k < n /\ f[j] = f[k] => j = k
  BY NodeFacts DEF Stop
<1>2. /\ g \in HeapValue
      /\ g.head = IF i = 0 THEN b ELSE h.head
      /\ g.nextFree = h.nextFree /\ g.mark = h.mark /\ g.size = h.size
      /\ g.next[b] = f[i]
      /\ \A k \in Nat : k < n => g.next[f[k]] = IF k + 1 = i THEN b ELSE h.next[f[k]]
  BY <1>1, LinkFields
<1>3. /\ \A a \in Addrs : a \in Nat /\ h.size[a] \in Nat /\ End(h, a) \in Nat /\ a + Header <= End(h, a)
      /\ \A j \in Nat : j < i => End(h, f[j]) <= b
      /\ \A j \in Nat : j + 1 < i => End(h, f[j]) < b
      /\ i + 1 < n => End(h, b) <= f[i]
      /\ \A k \in Nat : i < k /\ k + 1 < n => End(h, b) < f[k]
  BY StopFacts
<1>4. IsList(g, e, n + 1) /\ Nodes(e, n + 1) = Nodes(f, n) \cup {b}
  BY <1>1, <1>2, WithList
<1>5. \A k \in Nat : e[k] = IF k < i THEN f[k] ELSE IF k = i THEN b ELSE f[k - 1]
  BY DEF With
<1>6. \A a : End(g, a) = End(h, a)
  BY <1>2 DEF End
<1>7. ASSUME NEW j \in Nat, NEW k \in Nat, j < k, k + 1 < n + 1
      PROVE  End(h, e[j]) < e[k]
  <2>1. CASE k < i
    <3>1. e[j] = f[j] /\ e[k] = f[k] /\ k + 1 < n
      BY <1>1, <1>5, <1>7, <2>1
    <3> QED
      BY <1>7, <3>1 DEF Ascending
  <2>2. CASE k = i
    <3>1. e[j] = f[j] /\ e[k] = b /\ j < n /\ f[j] \in Addrs
      BY <1>1, <1>5, <1>7, <2>2
    <3>2. CASE j + 1 < i
      BY <1>3, <3>1, <3>2
    <3>3. CASE j + 1 = i
      <4>1. j = i - 1 /\ i # 0
        BY <1>1, <3>3
      <4>2. End(h, f[j]) # b /\ End(h, f[j]) <= b
        BY <1>3, <1>7, <2>2, <4>1
      <4> QED
        BY <1>1, <1>3, <3>1, <4>2
    <3> QED
      BY <1>1, <1>7, <2>2, <3>2, <3>3
  <2>3. CASE k > i
    <3>1. k - 1 \in Nat /\ e[k] = f[k - 1] /\ (k - 1) + 1 < n /\ f[k - 1] \in Addrs
      BY <1>1, <1>5, <1>7, <2>3
    <3>2. CASE j < i
      <4>1. e[j] = f[j] /\ j < k - 1
        BY <1>1, <1>5, <2>3, <3>2
      <4> QED
        BY <3>1, <4>1 DEF Ascending
    <3>3. CASE j = i
      <4>1. e[j] = b
        BY <1>5, <3>3
      <4>2. CASE k - 1 = i
        BY <1>1, <1>3, <3>1, <4>1, <4>2
      <4>3. CASE k - 1 > i
        BY <1>3, <3>1, <4>1, <4>3
      <4> QED
        BY <1>1, <1>7, <2>3, <4>2, <4>3
    <3>4. CASE j > i
      <4>1. j - 1 \in Nat /\ e[j] = f[j - 1] /\ j - 1 < k - 1
        BY <1>1, <1>5, <1>7, <3>4
      <4> QED
        BY <3>1, <4>1 DEF Ascending
    <3> QED
      BY <1>1, <3>2, <3>3, <3>4
  <2> QED
    BY <1>1, <2>1, <2>2, <2>3
<1>8. Ascending(g, e, n + 1)
  BY <1>6, <1>7 DEF Ascending
<1>9. Joined(h, g, Nodes(f, n), Nodes(e, n + 1), b, Addrs)
  <2>a. Nodes(f, n) \subseteq Addrs
    BY NodeFacts
  <2>1. /\ {} \in SUBSET Nodes(f, n) /\ b \in {} \cup {b}
        /\ \A y \in {} : End(h, y) = b \/ End(h, b) = y
    OBVIOUS
  <2>2. \A y \in {} \cup {b} : b <= y /\ End(h, y) <= End(g, b)
    BY <1>1, <1>3, <1>6
  <2>3. \E y \in {} \cup {b} : End(g, b) = End(h, y)
    BY <1>6
  <2>4. \A a \in Addrs \ ({} \cup {b}) : g.size[a] = h.size[a]
    BY <1>2
  <2>5. Nodes(e, n + 1) = (Nodes(f, n) \ {}) \cup {b}
    BY <1>4
  <2> HIDE DEF g, e
  <2> QED
    BY <2>1, <2>2, <2>3, <2>4, <2>5, <2>a, JoinedBy
<1>10. ~ (c.merged # Null /\ c.heap.next[c.merged] # f[i])
  BY <1>2
<1>11. Nodes(f, n) \ {f[i]} \subseteq Nodes(e, n + 1) /\ f[i] \in Nodes(e, n + 1)
  BY <1>1, <1>4
<1> HIDE DEF g, e
<1>12. \E d, l : /\ IsList(g, d, l)
                 /\ Ascending(g, d, l)
                 /\ Joined(h, g, Nodes(f, n), Nodes(d, l), b, Addrs)
                 /\ Nodes(f, n) \ {f[i]} \subseteq Nodes(d, l)
                 /\ f[i] \in Nodes(d, l)
  BY <1>4, <1>8, <1>9, <1>11
<1> QED
  BY <1>2, <1>10, <1>12 DEF Coalesced, g

(* The four outcomes of coalesceFreeList.                                  *)
LEMMA CoalesceList ==
  ASSUME NEW h \in HeapValue, NEW f, NEW n, IsList(h, f, n), Ascending(h, f, n),
         NEW i, NEW b, Stop(h, f, n, i, b),
         NEW c, c = CoalesceFreeList(Link(h, f, i, b), b, Place(f, i).prev, f[i])
  PROVE  Coalesced(h, f, n, i, b, c)
<1> DEFINE u == Link(h, f, i, b)
           p == Place(f, i).prev
<1>1. /\ n \in Nat /\ i \in Nat /\ i < n /\ b \in Addrs /\ b \notin Nodes(f, n)
      /\ \A k \in Nat : k < n => f[k] \in Addrs
      /\ Null \notin Addrs
  BY NodeFacts, HeapAssumption DEF Stop, Addrs
<1>2. \A a : End(u, a) = End(h, a)
  BY <1>1, LinkFields DEF End
<1>3. p = IF i = 0 THEN Null ELSE f[i - 1]
  BY DEF Place
<1>4. f[i] # Null /\ (p = Null <=> i = 0)
  <2>1. i # 0 => i - 1 \in Nat /\ i - 1 < n
    BY <1>1
  <2> QED
    BY <1>1, <1>3, <2>1
<1> HIDE DEF u, p
<1>5. c = CoalesceFreeList(u, b, p, f[i])
  BY DEF u, p
<1>6. CASE i = 0
  <2>1. c = [heap |-> IF End(h, b) = f[i] THEN Absorb(u, b, f[i]) ELSE u, merged |-> b]
    BY <1>2, <1>4, <1>5, <1>6 DEF CoalesceFreeList
  <2>2. CASE End(h, b) = f[i]
    BY <1>6, <2>1, <2>2, AbsorbsNext DEF u
  <2>3. CASE End(h, b) # f[i]
    BY <1>6, <2>1, <2>3, NoneAbsorbs DEF u
  <2> QED
    BY <2>2, <2>3
<1>7. CASE i # 0
  <2>1. p = f[i - 1] /\ p # Null
    BY <1>3, <1>4, <1>7
  <2>2. c = IF End(h, b) = f[i] /\ End(h, p) = b
              THEN [heap |-> Absorb(Absorb(u, b, f[i]), p, b), merged |-> p]
            ELSE IF End(h, b) = f[i] THEN [heap |-> Absorb(u, b, f[i]), merged |-> p]
            ELSE IF End(h, p) = b THEN [heap |-> Absorb(u, p, b), merged |-> b]
            ELSE [heap |-> u, merged |-> Null]
    BY <1>2, <1>4, <1>5, <2>1 DEF CoalesceFreeList
  <2>3. CASE End(h, b) = f[i] /\ End(h, p) = b
    BY <1>7, <2>1, <2>2, <2>3, PrevAbsorbsBoth DEF u
  <2>4. CASE End(h, b) = f[i] /\ End(h, p) # b
    BY <1>7, <2>1, <2>2, <2>4, AbsorbsNext DEF u
  <2>5. CASE End(h, b) # f[i] /\ End(h, p) = b
    BY <1>7, <2>1, <2>2, <2>5, PrevAbsorbs DEF u
  <2>6. CASE End(h, b) # f[i] /\ End(h, p) # b
    BY <1>7, <2>1, <2>2, <2>6, NoneAbsorbs DEF u
  <2> QED
    BY <2>3, <2>4, <2>5, <2>6
<1> QED
  BY <1>6, <1>7

=============================================================================
