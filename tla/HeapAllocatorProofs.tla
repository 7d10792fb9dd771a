--------------------------- MODULE HeapAllocatorProofs ---------------------------
(***************************************************************************)
(* Proofs about HeapAllocator, for any mapping, any sizes and any order of *)
(* calls: the blocks tile the mapping, the list is sound and all but       *)
(* sorted, a search misses nothing, MyFree takes back what is in use and   *)
(* refuses what was freed, and the list implements the sets of             *)
(* AbstractHeap.                                                           *)
(***************************************************************************)
EXTENDS HeapAllocator, FreeListProofs, FiniteSetTheorems

(* The blocks at C lie one behind the other and end with the mapping.      *)
Tiling(h, C) ==
  /\ C \subseteq Addrs
  /\ \A c, d \in C : c < d => End(h, c) <= d
  /\ \A c \in C : End(h, c) \in C \cup {Capacity}

(* used are the blocks in use of a heap that is in order.                  *)
ListOf(h, used, f, n) ==
  /\ IsList(h, f, n) /\ Ascending(h, f, n) /\ n \in Steps
  /\ used \cap Nodes(f, n) = {}
  /\ Tiling(h, used \cup Nodes(f, n))
  /\ h.nextFree \in Nodes(f, n) \cup {Null}

Sound(h, used) ==
  /\ h \in HeapValue
  /\ \A b \in used : h.mark[b] = "valid"
  /\ \E f, n : ListOf(h, used, f, n)

(* The inductive invariant.                                                *)
HeapInv ==
  /\ mapped \in BOOLEAN
  /\ up \in BOOLEAN
  /\ ~ mapped => heap = ZeroPages /\ held = {}
  /\ mapped => Sound(heap, Internal \cup held) /\ held \cap Internal = {}

(* A block ends behind its header.                                         *)
LEMMA EndFacts ==
  ASSUME NEW h \in HeapValue
  PROVE  \A a \in Addrs : a \in Nat /\ h.size[a] \in Nat /\ End(h, a) \in Nat /\ a + Header <= End(h, a)
BY HeapAssumption DEF Addrs, HeapValue, End

(* The blocks of a tiling end inside the mapping.                          *)
LEMMA TilingEnds ==
  ASSUME NEW h \in HeapValue, NEW C, Tiling(h, C), NEW c \in C
  PROVE  c \in Addrs /\ c < End(h, c) /\ End(h, c) <= Capacity
<1>1. c \in Addrs /\ End(h, c) \in C \cup {Capacity} /\ C \subseteq Addrs
  BY DEF Tiling
<1>2. \A x \in Addrs : x <= Capacity
  BY HeapAssumption DEF Addrs
<1> QED
  BY <1>1, <1>2, EndFacts, HeapAssumption

(* The headers of a tiling do not overlap,                                 *)
LEMMA HeadersApart ==
  ASSUME NEW h \in HeapValue, NEW C, Tiling(h, C), NEW c \in C, NEW d \in C, c # d
  PROVE  c + Header <= d \/ d + Header <= c
<1>1. c \in Addrs /\ d \in Addrs /\ \A x, y \in C : x < y => End(h, x) <= y
  BY DEF Tiling
<1>2. /\ c \in Nat /\ d \in Nat /\ End(h, c) \in Nat /\ End(h, d) \in Nat
      /\ c + Header <= End(h, c) /\ d + Header <= End(h, d) /\ Header \in Nat
  BY <1>1, EndFacts, HeapAssumption
<1>3. c < d \/ d < c
  BY <1>2
<1> QED
  BY <1>1, <1>2, <1>3

(* so that there are no more than fit into the mapping.                    *)
LEMMA TilingSteps ==
  ASSUME NEW h \in HeapValue, NEW f, NEW n, IsList(h, f, n), NEW C, Tiling(h, C),
         Nodes(f, n) \subseteq C
  PROVE  n \in Steps
<1>1. /\ n \in Nat
      /\ \A k \in Nat : k < n => f[k] \in C
      /\ \A j, k \in Nat : j < n /\ k < n /\ f[j] = f[k] => j = k
  BY NodeFacts
<1>2. Header \in Nat /\ Header > 0 /\ Capacity \in Nat
  BY HeapAssumption
<1> DEFINE I == 0 .. n - 1
           J == 0 .. Header - 1
           F == [p \in I \X J |-> f[p[1]] + p[2]]
<1>3. ASSUME NEW i \in I, NEW j \in J
      PROVE  f[i] \in C /\ f[i] \in Nat /\ f[i] + j \in Addrs
  <2>1. i \in Nat /\ i < n /\ j \in Nat /\ j < Header
    BY <1>1, <1>2
  <2>2. f[i] \in C
    BY <1>1, <2>1
  <2>3. f[i] \in Addrs /\ End(h, f[i]) <= Capacity
    BY <2>2, TilingEnds
  <2>4. f[i] \in Nat /\ f[i] + Header <= End(h, f[i]) /\ End(h, f[i]) \in Nat
    BY <2>3, EndFacts
  <2>5. f[i] + j \in Nat /\ f[i] + j < Capacity
    BY <1>2, <2>1, <2>3, <2>4
  <2> QED
    BY <1>2, <2>2, <2>4, <2>5 DEF Addrs
<1>4. ASSUME NEW i \in I, NEW j \in J, NEW k \in I, NEW l \in J, f[i] + j = f[k] + l
      PROVE  i = k /\ j = l
  <2>1. j \in Nat /\ l \in Nat /\ j < Header /\ l < Header
    BY <1>2
  <2>2. /\ f[i] \in C /\ f[i] \in Nat /\ f[k] \in C /\ f[k] \in Nat
        /\ i \in Nat /\ k \in Nat /\ i < n /\ k < n
    BY <1>1, <1>3
  <2>3. f[i] = f[k]
    <3> SUFFICES ASSUME f[i] # f[k] PROVE FALSE
      OBVIOUS
    <3>1. f[i] + Header <= f[k] \/ f[k] + Header <= f[i]
      BY <2>2, HeadersApart
    <3> QED
      BY <1>2, <1>4, <2>1, <2>2, <3>1
  <2>4. i = k
    BY <1>1, <2>2, <2>3
  <2> QED
    BY <1>4, <2>1, <2>2, <2>3, <2>4
<1> HIDE DEF I, J
<1>5. F \in Injection(I \X J, Addrs)
  <2>1. F \in [I \X J -> Addrs]
    BY <1>3
  <2>2. ASSUME NEW p \in I \X J, NEW q \in I \X J, F[p] = F[q] PROVE p = q
    <3>1. p[1] \in I /\ p[2] \in J /\ q[1] \in I /\ q[2] \in J
      OBVIOUS
    <3>2. f[p[1]] + p[2] = f[q[1]] + q[2]
      BY <2>2
    <3>3. p[1] = q[1] /\ p[2] = q[2]
      BY <1>4, <3>1, <3>2
    <3> QED
      BY <3>3
  <2> HIDE DEF F
  <2> QED
    BY <2>1, <2>2 DEF Injection, IsInjective
<1>6. /\ IsFiniteSet(I) /\ Cardinality(I) = n
      /\ IsFiniteSet(J) /\ Cardinality(J) = Header
      /\ IsFiniteSet(Addrs) /\ Cardinality(Addrs) = Capacity
  <2>1. \A m \in Nat : IsFiniteSet(0 .. m - 1) /\ Cardinality(0 .. m - 1) = m
    <3> TAKE m \in Nat
    <3>1. 0 \in Int /\ m - 1 \in Int
      OBVIOUS
    <3>2. IsFiniteSet(0 .. m - 1) /\ Cardinality(0 .. m - 1) = IF 0 > m - 1 THEN 0 ELSE (m - 1) - 0 + 1
      BY <3>1, FS_Interval, Zenon
    <3> QED
      BY <3>2
  <2> QED
    BY <1>1, <1>2, <2>1 DEF I, J, Addrs
<1>7. IsFiniteSet(I \X J) /\ Cardinality(I \X J) = n * Header
  BY <1>6, FS_Product
<1>8. n * Header <= Capacity
  <2> HIDE DEF F
  <2> QED
    BY <1>5, <1>6, <1>7, FS_Injection
<1>9. n <= n * Header
  <2>1. PICK d \in Nat : Header = d + 1
    <3>1. Header - 1 \in Nat /\ Header = (Header - 1) + 1
      BY <1>2
    <3> QED
      BY <3>1
  <2>2. n * Header = n * d + n /\ n * d \in Nat
    BY <1>1, <2>1
  <2> QED
    BY <1>1, <2>2
<1>10. n * Header \in Nat /\ n \in 0 .. Capacity
  BY <1>1, <1>2, <1>8, <1>9
<1> QED
  BY <1>8, <1>10 DEF Steps

(* A block that is cut in two: the remainder starts inside it, where no    *)
(* other block is.                                                         *)
LEMMA RemainderFits ==
  ASSUME NEW h \in HeapValue, NEW C, Tiling(h, C), NEW x \in C, NEW m \in Nat, Divides(h, x, m)
  PROVE  Remainder(x, m) \in Addrs \ C /\ x < Remainder(x, m) /\ Remainder(x, m) + Header < End(h, x)
<1> DEFINE r == Remainder(x, m)
<1>1. x \in Addrs /\ x < End(h, x) /\ End(h, x) <= Capacity
  BY TilingEnds
<1>2. r = x + Header + m /\ h.size[x] > m + Header /\ End(h, x) = x + Header + h.size[x]
  BY DEF Remainder, Divides, End
<1>3. x \in Nat /\ h.size[x] \in Nat /\ Header \in Nat /\ Header > 0 /\ Capacity \in Nat
  BY <1>1, EndFacts, HeapAssumption
<1>4. r \in Nat /\ x < r /\ r + Header < End(h, x) /\ r < Capacity
  BY <1>1, <1>2, <1>3
<1>5. r \in Addrs
  BY <1>3, <1>4 DEF Addrs
<1>6. ASSUME r \in C PROVE FALSE
  <2>1. End(h, x) <= r
    BY <1>4, <1>6 DEF Tiling
  <2>2. End(h, x) \in Nat
    BY <1>1, EndFacts
  <2> HIDE DEF r
  <2> QED
    BY <1>3, <1>4, <2>1, <2>2
<1> QED
  BY <1>4, <1>5, <1>6

(* Cutting a block of a tiling in two gives a tiling.                      *)
LEMMA CutTiling ==
  ASSUME NEW h \in HeapValue, NEW C, Tiling(h, C), NEW x \in C, NEW m \in Nat, Divides(h, x, m),
         NEW g \in HeapValue,
         \A a \in Addrs : g.size[a] = IF a = x THEN m
                                      ELSE IF a = Remainder(x, m) THEN h.size[x] - m - Header
                                      ELSE h.size[a]
  PROVE  /\ Tiling(g, C \cup {Remainder(x, m)})
         /\ End(g, x) = Remainder(x, m) /\ End(g, Remainder(x, m)) = End(h, x)
         /\ \A c \in C \ {x} : End(g, c) = End(h, c)
<1> DEFINE r == Remainder(x, m)
<1>1. r \in Addrs \ C /\ x < r /\ r + Header < End(h, x)
  BY RemainderFits
<1>2. C \subseteq Addrs
  BY DEF Tiling
<1>3. /\ \A a \in Addrs : a \in Nat /\ h.size[a] \in Nat /\ End(h, a) \in Nat /\ a + Header <= End(h, a)
      /\ Header \in Nat /\ Header > 0
  BY EndFacts, HeapAssumption
<1>4. End(g, x) = r
  BY <1>2, <1>3 DEF End, Remainder
<1>5. End(g, r) = End(h, x)
  <2>1. g.size[r] = h.size[x] - m - Header
    BY <1>1
  <2>2. x \in Nat /\ h.size[x] \in Nat
    BY <1>2, <1>3
  <2> QED
    BY <1>3, <2>1, <2>2 DEF End, Remainder
<1>6. \A c \in C \ {x} : End(g, c) = End(h, c)
  BY <1>1, <1>2 DEF End
<1> HIDE DEF r
<1>7. ASSUME NEW c \in C \cup {r}, NEW d \in C \cup {r}, c < d PROVE End(g, c) <= d
  <2>1. x \in Addrs /\ c \in Addrs /\ d \in Addrs
    BY <1>1, <1>2
  <2>2. CASE c = x
    <3>1. CASE d = r
      BY <1>3, <1>4, <2>1, <2>2, <3>1
    <3>2. CASE d # r
      <4>1. End(h, x) <= d
        BY <1>7, <2>2, <3>2 DEF Tiling
      <4> QED
        BY <1>1, <1>3, <1>4, <2>1, <2>2, <4>1
    <3> QED
      BY <3>1, <3>2
  <2>3. CASE c = r
    <3>1. x < d /\ d \in C
      BY <1>1, <1>3, <1>7, <2>1, <2>3
    <3> QED
      BY <1>5, <2>3, <3>1 DEF Tiling
  <2>4. CASE c # x /\ c # r
    <3>1. CASE d = r
      <4>1. c < x
        <5> SUFFICES ASSUME x < c PROVE FALSE
          BY <1>3, <2>1, <2>4
        <5>1. End(h, x) <= c
          BY <2>4 DEF Tiling
        <5> QED
          BY <1>1, <1>3, <1>7, <2>1, <3>1, <5>1
      <4>2. End(h, c) <= x
        BY <2>4, <4>1 DEF Tiling
      <4> QED
        BY <1>1, <1>3, <1>6, <2>1, <2>4, <3>1, <4>2
    <3>2. CASE d # r
      BY <1>6, <1>7, <2>4, <3>2 DEF Tiling
    <3> QED
      BY <3>1, <3>2
  <2> QED
    BY <2>2, <2>3, <2>4
<1>8. \A c \in C \cup {r} : End(g, c) \in (C \cup {r}) \cup {Capacity}
  BY <1>4, <1>5, <1>6 DEF Tiling
<1>9. Tiling(g, C \cup {r})
  BY <1>1, <1>2, <1>7, <1>8 DEF Tiling
<1> QED
  BY <1>4, <1>5, <1>6, <1>9 DEF r

(* A run of adjacent blocks that becomes one.                              *)
LEMMA JoinedTiling ==
  ASSUME NEW h \in HeapValue, NEW C, Tiling(h, C), NEW b \in C,
         NEW gone \in SUBSET C, NEW lo \in gone \cup {b}, b \notin gone,
         \A x \in gone : End(h, x) = b \/ End(h, b) = x,
         NEW g,
         \A x \in gone \cup {b} : lo <= x /\ End(h, x) <= End(g, lo),
         \E x \in gone \cup {b} : End(g, lo) = End(h, x),
         \A c \in C \ (gone \cup {b}) : g.size[c] = h.size[c]
  PROVE  Tiling(g, (C \ (gone \cup {b})) \cup {lo})
<1> DEFINE run == gone \cup {b}
           D == (C \ run) \cup {lo}
<1>1. C \subseteq Addrs /\ run \subseteq C /\ lo \in run /\ D \subseteq C
  BY DEF Tiling
<1>2. /\ \A a \in C : a \in Nat /\ End(h, a) \in Nat /\ a < End(h, a)
  BY <1>1, EndFacts, HeapAssumption
<1>3. \A c, d \in C : c < d => End(h, c) <= d
  BY DEF Tiling
<1>4. \A c \in C \ run : End(g, c) = End(h, c)
  BY DEF End
<1>5. PICK hi \in run : End(g, lo) = End(h, hi)
  OBVIOUS
<1>6. \A x \in run : lo <= x /\ End(h, x) <= End(h, hi)
  BY <1>5
<1>7. \A x \in gone : End(h, x) = b \/ End(h, b) = x
  OBVIOUS
  \* every block of the run but the lowest starts where another one ends
<1>8. ASSUME NEW x \in run, x # lo PROVE \E y \in run : End(h, y) = x
  <2>1. x > lo
    BY <1>1, <1>2, <1>6, <1>8
  <2>2. CASE x = b
    <3>1. lo \in gone /\ ~ (End(h, b) = lo)
      BY <1>1, <1>2, <1>8, <2>1, <2>2
    <3> QED
      BY <1>7, <2>2, <3>1
  <2>3. CASE x # b
    <3>1. CASE End(h, b) = x
      BY <3>1
    <3>2. CASE End(h, x) = b
      <4>1. lo # b
        BY <1>1, <1>2, <2>1, <3>2
      <4>2. CASE End(h, lo) = b
        BY <1>1, <1>2, <1>3, <2>1, <3>2, <4>2
      <4>3. CASE End(h, b) = lo
        BY <1>1, <1>2, <2>1, <3>2, <4>3
      <4> QED
        BY <1>1, <1>7, <4>1, <4>2, <4>3
    <3> QED
      BY <1>7, <2>3, <3>1, <3>2
  <2> QED
    BY <2>2, <2>3
  \* no block lies between the lowest and the end of the run
<1>9. ASSUME NEW d \in C \ run, lo < d PROVE End(h, hi) <= d
  <2>1. \A x \in C : x < d => End(h, x) <= d
    BY <1>3
  <2>2. d # b /\ d \notin gone
    BY <1>9
  <2>3. b < d
    <3>1. CASE lo = b
      BY <1>9, <3>1
    <3>2. CASE lo # b
      <4>1. End(h, lo) = b \/ End(h, b) = lo
        BY <1>1, <1>7, <3>2
      <4>2. End(h, lo) = b
        BY <1>1, <1>2, <1>6, <4>1
      <4>3. b <= d
        BY <1>1, <1>9, <2>1, <4>2
      <4> QED
        BY <1>1, <1>2, <2>2, <4>3
    <3> QED
      BY <3>1, <3>2
  <2>4. End(h, b) <= d
    BY <1>1, <2>1, <2>3
  <2>5. CASE hi = b
    BY <2>4, <2>5
  <2>6. CASE hi # b
    <3>1. CASE End(h, hi) = b
      BY <1>2, <2>3, <3>1
    <3>2. CASE End(h, b) = hi
      <4>1. hi < d
        BY <1>1, <1>2, <2>2, <2>4, <2>6, <3>2
      <4> QED
        BY <1>1, <2>1, <4>1
    <3> QED
      BY <1>7, <2>6, <3>1, <3>2
  <2> QED
    BY <2>5, <2>6
<1> HIDE DEF run
<1>10. ASSUME NEW c \in D, NEW d \in D, c < d PROVE End(g, c) <= d
  <2>1. CASE c = lo
    <3>1. d \in C \ run
      BY <1>1, <1>2, <1>10, <2>1
    <3> QED
      BY <1>5, <1>9, <1>10, <2>1, <3>1
  <2>2. CASE c # lo
    BY <1>1, <1>3, <1>4, <1>10, <2>2
  <2> QED
    BY <2>1, <2>2
<1>11. ASSUME NEW c \in D PROVE End(g, c) \in D \cup {Capacity}
  <2>1. PICK e \in C : /\ End(g, c) = End(h, e)
                       /\ \/ e = c /\ c \notin run
                          \/ e = hi /\ c = lo
    <3>1. CASE c = lo
      BY <1>1, <1>5, <3>1
    <3>2. CASE c # lo
      BY <1>1, <1>4, <3>2
    <3> QED
      BY <3>1, <3>2
  <2>2. End(h, e) \in C \cup {Capacity}
    BY DEF Tiling
  <2>3. ASSUME End(h, e) \in run, End(h, e) # lo PROVE FALSE
    <3>1. PICK y \in run : End(h, y) = End(h, e)
      BY <1>8, <2>3
    <3>2. CASE c = lo /\ e = hi
      <4>1. End(h, End(h, e)) <= End(h, hi)
        BY <1>6, <2>3
      <4> QED
        BY <1>1, <1>2, <2>3, <3>2, <4>1
    <3>3. CASE e = c /\ c \notin run
      <4>1. y # e /\ y \in C
        BY <1>1, <3>1, <3>3
      <4>2. y < e \/ e < y
        BY <1>2, <4>1
      <4> QED
        BY <1>2, <1>3, <3>1, <4>1, <4>2
    <3> QED
      BY <2>1, <3>2, <3>3
  <2> QED
    BY <2>1, <2>2, <2>3
<1>12. Tiling(g, D)
  BY <1>1, <1>10, <1>11 DEF Tiling
<1> QED
  BY <1>12 DEF run

-----------------------------------------------------------------------------
(* The list of a sound heap, and what a walk along it meets.               *)
LEMMA SoundFacts ==
  ASSUME NEW h, NEW used, Sound(h, used)
  PROVE  \E f, n : /\ ListOf(h, used, f, n)
                   /\ Listed(h) = Nodes(f, n)
                   /\ \A k \in Nat : Walk(h, h.head)[k] = f[k]
<1>1. h \in HeapValue
  BY DEF Sound
<1>2. PICK f, n : ListOf(h, used, f, n)
  BY Zenon DEF Sound
<1>3. Listed(h) = Nodes(f, n) /\ \A k \in Nat : Walk(h, h.head)[k] = f[k]
  BY <1>1, <1>2, ListWalk DEF ListOf
<1> QED
  BY <1>2, <1>3

(* g is h, with used in use, after the block at x was given away for m     *)
(* bytes: whole, or cut with the remainder on the list in its place.       *)
Given(h, used, x, m, g) ==
  /\ x \in Listed(h) /\ h.size[x] >= m
  /\ Sound(g, used \cup {x})
  /\ Listed(g) = (Listed(h) \ {x}) \cup {r \in {Remainder(x, m)} : Divides(h, x, m)}
  /\ \A a \in Addrs :
       g.size[a] = IF Divides(h, x, m) /\ a = x THEN m
                   ELSE IF Divides(h, x, m) /\ a = Remainder(x, m) THEN h.size[x] - m - Header
                   ELSE h.size[a]
  /\ \A a \in (used \cup Listed(h)) \ {x} : g.mark[a] = h.mark[a]

(* A block that a search finds can be given away: the heap stays sound.    *)
LEMMA GiveAwaySound ==
  ASSUME NEW h, NEW used, Sound(h, used), NEW m \in Nat, NEW s \in Strategies,
         NEW found, found = Search(h, m, s), found.node # Null,
         NEW g, g = GiveAway(h, found, m)
  PROVE  Given(h, used, found.node, m, g)
<1>1. h \in HeapValue /\ \A b \in used : h.mark[b] = "valid"
  BY DEF Sound
<1>2. PICK f, n : ListOf(h, used, f, n) /\ Listed(h) = Nodes(f, n)
  BY SoundFacts, ZenonT(30)
<1> DEFINE x == found.node
           C == used \cup Nodes(f, n)
<1>3. /\ IsList(h, f, n) /\ Ascending(h, f, n) /\ n \in Steps
      /\ used \cap Nodes(f, n) = {} /\ Tiling(h, C) /\ h.nextFree \in Nodes(f, n) \cup {Null}
  BY <1>2 DEF ListOf
<1>4. Finds(h, f, n, m, found)
  BY <1>1, <1>3, SearchFinds
<1>5. found # NoFit
  BY DEF NoFit
<1>6. PICK i \in Nat : i < n /\ h.size[f[i]] >= m /\ found = Place(f, i)
  BY <1>4, <1>5 DEF Finds
<1>7. x = f[i]
  BY <1>6 DEF Place
<1>8. x \in Nodes(f, n) /\ x \in Addrs /\ Nodes(f, n) \subseteq Addrs
  BY <1>1, <1>3, <1>6, <1>7, NodeFacts
<1> HIDE DEF x, C
<1>9. Divides(h, x, m) => Remainder(x, m) \in Addrs \ C
  BY <1>1, <1>3, <1>8, RemainderFits DEF C
<1>10. /\ g \in HeapValue
       /\ g.mark = MarksAfter(h, x, m)
       /\ \A a \in Addrs :
            g.size[a] = IF Divides(h, x, m) /\ a = x THEN m
                        ELSE IF Divides(h, x, m) /\ a = Remainder(x, m) THEN h.size[x] - m - Header
                        ELSE h.size[a]
       /\ \E e, l : /\ IsList(g, e, l)
                    /\ Ascending(g, e, l)
                    /\ Nodes(e, l) = (Nodes(f, n) \ {x}) \cup {r \in {Remainder(x, m)} : Divides(h, x, m)}
                    /\ g.nextFree \in Nodes(e, l) \cup {Null}
  <2>1. Divides(h, f[i], m) => Remainder(f[i], m) \in Addrs \ Nodes(f, n)
    BY <1>7, <1>9 DEF C
  <2>2. g = GiveAway(h, Place(f, i), m)
    BY <1>6
  <2> QED
    BY <1>1, <1>3, <1>6, <1>7, <2>1, <2>2, GiveAwayList
<1>11. PICK e, l : /\ IsList(g, e, l)
                   /\ Ascending(g, e, l)
                   /\ Nodes(e, l) = (Nodes(f, n) \ {x}) \cup {r \in {Remainder(x, m)} : Divides(h, x, m)}
                   /\ g.nextFree \in Nodes(e, l) \cup {Null}
  BY <1>10, Zenon
<1>c. ASSUME Divides(h, x, m) PROVE Tiling(g, C \cup {Remainder(x, m)})
  <2>1. \A a \in Addrs : g.size[a] = IF a = x THEN m
                                     ELSE IF a = Remainder(x, m) THEN h.size[x] - m - Header
                                     ELSE h.size[a]
    BY <1>10, <1>c
  <2>2. g \in HeapValue /\ x \in C
    BY <1>8, <1>10 DEF C
  <2> QED
    BY <1>1, <1>3, <1>c, <2>1, <2>2, CutTiling
<1>13. Tiling(g, (used \cup {x}) \cup Nodes(e, l)) /\ (used \cup {x}) \cap Nodes(e, l) = {}
  <2>1. CASE Divides(h, x, m)
    <3>1. Tiling(g, C \cup {Remainder(x, m)})
      BY <1>c, <2>1
    <3>2. {r \in {Remainder(x, m)} : Divides(h, x, m)} = {Remainder(x, m)}
      BY <2>1
    <3>3. (used \cup {x}) \cup Nodes(e, l) = C \cup {Remainder(x, m)}
      BY <1>8, <1>11, <3>2 DEF C
    <3>4. (used \cup {x}) \cap Nodes(e, l) = {}
      BY <1>3, <1>8, <1>9, <1>11, <2>1, <3>2 DEF C
    <3> QED
      BY <3>1, <3>3, <3>4
  <2>2. CASE ~ Divides(h, x, m)
    <3>1. {r \in {Remainder(x, m)} : Divides(h, x, m)} = {}
      BY <2>2
    <3>2. (used \cup {x}) \cup Nodes(e, l) = C /\ (used \cup {x}) \cap Nodes(e, l) = {}
      BY <1>3, <1>8, <1>11, <3>1 DEF C
    <3>3. C \subseteq Addrs
      BY <1>3 DEF Tiling
    <3>4. \A c \in C : End(g, c) = End(h, c)
      BY <1>10, <2>2, <3>3 DEF End
    <3>5. Tiling(g, C)
      BY <1>3, <3>4 DEF Tiling
    <3> QED
      BY <3>2, <3>5
  <2> QED
    BY <2>1, <2>2
<1>12. l \in Steps /\ Listed(g) = Nodes(e, l)
  <2>1. l \in Steps
    BY <1>10, <1>11, <1>13, TilingSteps
  <2> QED
    BY <1>10, <1>11, <2>1, ListWalk
<1>14. ListOf(g, used \cup {x}, e, l)
  BY <1>11, <1>12, <1>13 DEF ListOf
  \* the headers of the other blocks lie beside what is written
<1>15. g.mark[x] = "valid" /\ \A a \in C \ {x} : g.mark[a] = h.mark[a]
  <2>1. Divides(h, x, m) => Remainder(x, m) \in Addrs
    BY <1>9
  <2>2. /\ MarksAfter(h, x, m)[x] = "valid"
        /\ \A a \in Addrs :
              /\ a # x /\ (x + Header <= a \/ a + Header <= x)
              /\ Divides(h, x, m) =>
                   Remainder(x, m) + Header <= a \/ a + Header <= Remainder(x, m)
              => MarksAfter(h, x, m)[a] = h.mark[a]
    BY <1>1, <1>8, <2>1, MarksSurvive
  <2>3. ASSUME NEW a \in C \ {x} PROVE g.mark[a] = h.mark[a]
    <3>1. a \in Addrs /\ x \in C
      BY <1>3, <1>8 DEF Tiling, C
    <3>2. x + Header <= a \/ a + Header <= x
      BY <1>1, <1>3, <3>1, HeadersApart
    <3>3. ASSUME Divides(h, x, m)
          PROVE  Remainder(x, m) + Header <= a \/ a + Header <= Remainder(x, m)
      <4>1. PICK r : r = Remainder(x, m)
        OBVIOUS
      <4>2. Tiling(g, C \cup {r})
        BY <1>c, <3>3, <4>1
      <4>3. r \in C \cup {r} /\ a \in C \cup {r} /\ r # a
        BY <1>9, <3>3, <4>1
      <4> QED
        BY <1>10, <4>1, <4>2, <4>3, HeadersApart
    <3> QED
      BY <1>10, <2>2, <3>1, <3>2, <3>3
  <2> QED
    BY <1>10, <2>2, <2>3
<1>16. Sound(g, used \cup {x})
  <2>1. \A b \in used : b \in C \ {x}
    BY <1>3, <1>8 DEF C
  <2>2. \A b \in used \cup {x} : g.mark[b] = "valid"
    BY <1>1, <1>15, <2>1
  <2> QED
    BY <1>10, <1>14, <2>2 DEF Sound
<1>17. \A a \in (used \cup Listed(h)) \ {x} : g.mark[a] = h.mark[a]
  BY <1>2, <1>15 DEF C
<1> QED
  BY <1>2, <1>6, <1>7, <1>8, <1>10, <1>11, <1>12, <1>16, <1>17 DEF x, Given

(* A search ends without a block only where there is none that is large    *)
(* enough; the predecessor it gives is the one on the list.                *)
LEMMA SearchSound ==
  ASSUME NEW h, NEW used, Sound(h, used), NEW m \in Nat, NEW s \in Strategies,
         NEW found, found = Search(h, m, s)
  PROVE  LET fitting == {b \in Listed(h) : h.size[b] >= m}
         IN  /\ found.node = Null <=> fitting = {}
             /\ found.node # Null =>
                  /\ IF found.prev = Null THEN found.node = h.head
                     ELSE found.prev \in Listed(h) /\ h.next[found.prev] = found.node
                  /\ \A b \in fitting :
                       /\ s = "BEST_FIT" => h.size[found.node] <= h.size[b]
                       /\ s = "WORST_FIT" => h.size[found.node] >= h.size[b]
<1>1. h \in HeapValue /\ \A b \in used : h.mark[b] = "valid"
  BY DEF Sound
<1>2. PICK f, n : ListOf(h, used, f, n) /\ Listed(h) = Nodes(f, n)
  BY SoundFacts, Zenon
<1> DEFINE fitting == {b \in Nodes(f, n) : h.size[b] >= m}
<1>3. IsList(h, f, n) /\ n \in Steps /\ h.nextFree \in Nodes(f, n) \cup {Null}
  BY <1>2 DEF ListOf
<1>4. /\ Finds(h, f, n, m, found)
      /\ \A b \in Nodes(f, n) :
           h.size[b] >= m => /\ s = "BEST_FIT" => h.size[found.node] <= h.size[b]
                             /\ s = "WORST_FIT" => h.size[found.node] >= h.size[b]
  BY <1>1, <1>3, SearchFinds
<1>5. CASE fitting = {}
  <2>1. found.node = Null
    BY <1>4, <1>5 DEF Finds, NoFit
  <2> QED
    BY <1>2, <1>5, <2>1
<1>6. CASE fitting # {}
  <2>1. PICK i \in Nat : i < n /\ h.size[f[i]] >= m /\ found = Place(f, i)
    BY <1>4, <1>6 DEF Finds
  <2>2. /\ \A k \in Nat : k < n => f[k] \in Nodes(f, n) /\ f[k] # Null
        /\ n \in Nat
    BY <1>1, <1>3, NodeFacts
  <2>3. found.node = f[i] /\ found.node # Null
    BY <2>1, <2>2 DEF Place
  <2>4. IF found.prev = Null THEN found.node = h.head
        ELSE found.prev \in Nodes(f, n) /\ h.next[found.prev] = found.node
    <3>1. CASE i = 0
      BY <1>3, <2>1, <3>1 DEF Place, IsList
    <3>2. CASE i # 0
      <4>1. i - 1 \in Nat /\ i - 1 < n /\ (i - 1) + 1 = i
        BY <2>1, <2>2, <3>2
      <4>2. found.prev = f[i - 1] /\ found.prev # Null /\ found.prev \in Nodes(f, n)
        BY <2>1, <2>2, <3>2, <4>1 DEF Place
      <4>3. h.next[f[i - 1]] = f[i]
        BY <1>3, <4>1 DEF IsList
      <4> QED
        BY <2>3, <4>2, <4>3
    <3> QED
      BY <3>1, <3>2
  <2> QED
    BY <1>2, <1>4, <1>6, <2>3, <2>4
<1> QED
  BY <1>5, <1>6

-----------------------------------------------------------------------------
(* The heap in which the block b is marked as free.                        *)
Unmarked(b) == [heap EXCEPT !.mark[b] = "freed"]

(* Marking a block as free changes no size and no link.                    *)
LEMMA UnmarkedFields ==
  ASSUME NEW b \in Addrs, heap \in HeapValue
  PROVE  /\ Unmarked(b) \in HeapValue
         /\ Unmarked(b).mark = [heap.mark EXCEPT ![b] = "freed"]
         /\ Unmarked(b).size = heap.size /\ Unmarked(b).next = heap.next
         /\ Unmarked(b).head = heap.head /\ Unmarked(b).nextFree = heap.nextFree
<1>1. PICK m : m = [heap.mark EXCEPT ![b] = "freed"]
  OBVIOUS
<1>2. m \in [Addrs -> Marks]
  BY <1>1 DEF HeapValue, Marks
<1>3. Unmarked(b) = [heap EXCEPT !.mark = m]
  BY <1>1 DEF Unmarked
<1> QED
  BY <1>1, <1>2, <1>3 DEF HeapValue

(* The loop of MyFree stops at the first node above b, or the last one.    *)
LEMMA LoopStops ==
  ASSUME NEW used, Sound(heap, used), NEW b \in used, NEW f, NEW n, ListOf(heap, used, f, n),
         n # 0
  PROVE  \E i \in Nat : i < n /\ StopsAt(b) = Place(f, i) /\ Stop(heap, f, n, i, b)
<1>1. heap \in HeapValue
  BY DEF Sound
<1>2. IsList(heap, f, n) /\ n \in Steps /\ Tiling(heap, used \cup Nodes(f, n)) /\ used \cap Nodes(f, n) = {}
  BY DEF ListOf
<1>3. /\ n \in Nat /\ b \in Addrs /\ b \notin Nodes(f, n)
      /\ \A k \in Nat : f[k] = Null <=> k >= n
      /\ \A k \in Nat : k < n => f[k] \in Nodes(f, n) /\ f[k] \in Addrs /\ f[k] # Null
      /\ f[0] = heap.head
      /\ \A k \in Nat : k < n => heap.next[f[k]] = f[k + 1]
  BY <1>1, <1>2, NodeFacts DEF Tiling, IsList
<1>4. \A a \in Addrs : a \in Nat /\ End(heap, a) \in Nat
  BY <1>1, EndFacts
<1>5. \A k \in Nat : Walk(heap, heap.head)[k] = f[k]
  BY <1>1, <1>2, ListWalk
<1> DEFINE stops == {k \in Steps : Walk(heap, heap.head)[k] # Null
                       /\ (Walk(heap, heap.head)[k] > b \/ heap.next[Walk(heap, heap.head)[k]] = Null)}
<1>6. stops \subseteq Nat
  BY DEF Steps
<1>7. \A k \in Nat : k \in stops <=> k < n /\ (f[k] > b \/ k + 1 = n)
  <2> SUFFICES ASSUME NEW k \in Nat PROVE k \in stops <=> k < n /\ (f[k] > b \/ k + 1 = n)
    OBVIOUS
  <2>1. k < n => k \in Steps
    BY <1>2, <1>3, FewerSteps
  <2>2. f[k] # Null <=> k < n
    BY <1>3
  <2>3. k < n => (heap.next[f[k]] = Null <=> k + 1 = n)
    BY <1>3
  <2> QED
    BY <1>5, <2>1, <2>2, <2>3
<1>8. StopsAt(b) = FromHead(heap, Min(stops))
  <2>1. heap.head # Null
    BY <1>3
  <2> QED
    BY <2>1 DEF StopsAt
<1> HIDE DEF stops
<1>9. n - 1 \in stops
  BY <1>3, <1>7
<1>10. PICK i \in stops : i = Min(stops) /\ \A k \in stops : i <= k
  BY <1>6, <1>9, MinFacts
<1>11. i \in Nat /\ i < n /\ (f[i] > b \/ i + 1 = n)
  BY <1>6, <1>7, <1>10
<1>12. StopsAt(b) = Place(f, i)
  BY <1>1, <1>2, <1>8, <1>10, <1>11, PlaceFromHead
<1>13. ASSUME NEW j \in Nat, j < i PROVE f[j] < b
  <2>1. j \notin stops
    BY <1>10, <1>11, <1>13
  <2>2. ~ (f[j] > b) /\ f[j] # b /\ f[j] \in Addrs
    BY <1>3, <1>7, <1>11, <1>13, <2>1
  <2>3. f[j] \in Nat /\ b \in Nat
    BY <1>3, <1>4, <2>2
  <2> QED
    BY <2>2, <2>3
<1>14. \A c \in Nodes(f, n) : /\ c < b => End(heap, c) <= b
                              /\ c > b => End(heap, b) <= c
  BY <1>2 DEF Tiling
<1>15. \A c \in Nodes(f, n) \cup {b} : End(heap, c) <= Capacity
  BY <1>1, <1>2, TilingEnds
<1>16. Stop(heap, f, n, i, b)
  BY <1>3, <1>11, <1>13, <1>14, <1>15 DEF Stop
<1> QED
  BY <1>11, <1>12, <1>16

(* What MyFree does with a list that is not empty: c is what the merging   *)
(* makes of link.                                                          *)
InsertsInto(b, stop, h, link, c) ==
  /\ h = Unmarked(b)
  /\ link = IF stop.prev = Null THEN [h EXCEPT !.next[b] = h.head, !.head = b]
                                ELSE [h EXCEPT !.next[stop.prev] = b, !.next[b] = stop.node]
  /\ c = CoalesceFreeList(link, b, stop.prev, stop.node)
  /\ Insert(b, stop).heap =
       Forget(IF stop.node = h.nextFree /\ c.merged # Null /\ c.heap.next[c.merged] # stop.node
                THEN [c.heap EXCEPT !.nextFree = c.merged] ELSE c.heap,
              Internal \cup (held \ {b}))

LEMMA InsertInto ==
  ASSUME NEW b, NEW stop, Unmarked(b).head # Null
  PROVE  \E h, link, c : InsertsInto(b, stop, h, link, c)
<1> DEFINE h == Unmarked(b)
           link == IF stop.prev = Null THEN [h EXCEPT !.next[b] = h.head, !.head = b]
                                       ELSE [h EXCEPT !.next[stop.prev] = b, !.next[b] = stop.node]
           c == CoalesceFreeList(link, b, stop.prev, stop.node)
           moves == stop.node = h.nextFree /\ c.merged # Null /\ c.heap.next[c.merged] # stop.node
           given == Forget(IF moves THEN [c.heap EXCEPT !.nextFree = c.merged] ELSE c.heap,
                           Internal \cup (held \ {b}))
<1>1. Insert(b, stop) = IF h.head = Null
                          THEN [heap |-> link, crash |-> FALSE]
                          ELSE [heap |-> given, crash |-> stop.node = h.nextFree /\ c.merged = Null]
  BY Zenon DEF Insert, Unmarked
<1>2. Insert(b, stop).heap = given
  <2> HIDE DEF given, c, link, h
  <2>1. h.head # Null
    BY DEF h
  <2> QED
    BY <1>1, <2>1
<1>3. InsertsInto(b, stop, h, link, c)
  BY <1>2 DEF InsertsInto
<1> HIDE DEF c, link, h
<1> QED
  BY <1>3, Zenon

(* MyFree leaves a sound heap: the block is on the list, alone or merged,  *)
(* and marked as free.                                                     *)
LEMMA InsertSound ==
  ASSUME NEW used, used = Internal \cup held, held \cap Internal = {}, Sound(heap, used),
         NEW b \in held, NEW new, new = Insert(b, StopsAt(b)).heap
  PROVE  /\ Sound(new, used \ {b})
         /\ Joined(heap, new, Listed(heap), Listed(new), b, Listed(heap) \cup used)
         /\ new.mark = [heap.mark EXCEPT ![b] = "freed"]
<1>2. PICK f, n : ListOf(heap, used, f, n) /\ Listed(heap) = Nodes(f, n)
  BY SoundFacts, Zenon
<1>3. /\ IsList(heap, f, n) /\ Ascending(heap, f, n) /\ n \in Steps
      /\ used \cap Nodes(f, n) = {} /\ Tiling(heap, used \cup Nodes(f, n))
      /\ heap.nextFree \in Nodes(f, n) \cup {Null}
  BY <1>2 DEF ListOf
<1>1. /\ heap \in HeapValue /\ \A c \in used : heap.mark[c] = "valid"
      /\ used \subseteq Addrs /\ b \in used /\ b \in Addrs
      /\ Internal \cup (held \ {b}) = used \ {b}
  BY <1>3 DEF Sound, Tiling
<1>h. PICK h : h = Unmarked(b)
  OBVIOUS
<1>4. /\ h \in HeapValue
      /\ h.mark = [heap.mark EXCEPT ![b] = "freed"] /\ h.size = heap.size /\ h.next = heap.next
      /\ h.head = heap.head /\ h.nextFree = heap.nextFree
      /\ h = [heap EXCEPT !.mark[b] = "freed"]
  BY <1>1, <1>h, UnmarkedFields DEF Unmarked
<1>5. \A a : End(h, a) = End(heap, a)
  BY <1>4 DEF End
<1>6. IsList(h, f, n) /\ Ascending(h, f, n)
  BY <1>3, <1>4, <1>5 DEF IsList, Ascending
  \* what is known of the heap before Forget is enough
<1>7. \E w, e, l : /\ w \in HeapValue /\ w.mark = h.mark
                   /\ IsList(w, e, l) /\ Ascending(w, e, l)
                   /\ Joined(h, w, Nodes(f, n), Nodes(e, l), b, Addrs)
                   /\ w.nextFree \in Nodes(e, l) \cup {Null}
                   /\ new = w \/ new = Forget(w, used \ {b})
  <2>1. CASE n = 0
    <3>1. heap.head = Null /\ Nodes(f, n) = {} /\ f[0] = Null
      <4>1. Nodes(f, n) = {}
        BY <2>1 DEF Nodes
      <4> QED
        BY <1>1, <1>3, <2>1, <4>1, NodeFacts DEF IsList
    <3>i. PICK i \in Nat : i = n
      BY <2>1
    <3>w. PICK w : w = [h EXCEPT !.next[b] = h.head, !.head = b]
      OBVIOUS
    <3> DEFINE e == With(f, i, b)
    <3>2. new = w
      BY <1>4, <3>w, <3>1, Zenon DEF Insert, StopsAt, NoFit
    <3>3. /\ w \in HeapValue /\ w.size = h.size /\ w.mark = h.mark /\ w.nextFree = h.nextFree
          /\ w.head = b /\ w.next[b] = h.head
      <4>1. h = [head |-> h.head, nextFree |-> h.nextFree, size |-> h.size, next |-> h.next, mark |-> h.mark]
        BY <1>4 DEF HeapValue
      <4>2. /\ h.size \in [Addrs -> 0 .. Capacity] /\ h.next \in [Addrs -> Addrs \cup {Null}]
            /\ h.head \in Addrs \cup {Null} /\ h.nextFree \in Addrs \cup {Null} /\ h.mark \in [Addrs -> Marks]
        BY <1>4 DEF HeapValue
      <4>3. w = [head |-> b, nextFree |-> h.nextFree, size |-> h.size,
                 next |-> [h.next EXCEPT ![b] = h.head], mark |-> h.mark]
        BY <1>1, <3>w, <4>1, <4>2
      <4>4. w.next = [h.next EXCEPT ![b] = h.head] /\ w.next \in [Addrs -> Addrs \cup {Null}] /\ w.next[b] = h.head
        BY <1>1, <4>2, <4>3
      <4> QED
        BY <1>1, <4>2, <4>3, <4>4 DEF HeapValue
    <3>4. w.nextFree = Null
      BY <1>1, <1>3, <1>4, <3>1, <3>3
    <3>5. IsList(w, e, n + 1) /\ Nodes(e, n + 1) = Nodes(f, n) \cup {b}
      <4>1. i \in Nat /\ i <= n /\ b \notin Nodes(f, n)
        BY <2>1, <3>i, <3>1
      <4>2. w.head = (IF i = 0 THEN b ELSE h.head) /\ w.next[b] = f[i]
        BY <1>4, <2>1, <3>i, <3>1, <3>3
      <4>3. \A k \in Nat : k < n => w.next[f[k]] = IF k + 1 = i THEN b ELSE h.next[f[k]]
        BY <2>1
      <4>4. h \in HeapValue /\ w \in HeapValue /\ b \in Addrs /\ IsList(h, f, n)
        BY <1>1, <1>4, <1>6, <3>3
      <4>5. IsList(w, With(f, i, b), n + 1)
        BY <4>1, <4>2, <4>3, <4>4, WithList, SMTT(30)
      <4>6. Nodes(With(f, i, b), n + 1) = Nodes(f, n) \cup {b}
        BY <4>1, <4>2, <4>3, <4>4, WithList, SMTT(30)
      <4> QED
        BY <4>5, <4>6
    <3>7. Ascending(w, e, n + 1)
      BY <2>1 DEF Ascending
    <3>8. Joined(h, w, Nodes(f, n), Nodes(e, n + 1), b, Addrs)
      <4>1. /\ {} \in SUBSET Nodes(f, n) /\ b \in {} \cup {b}
            /\ \A y \in {} : End(h, y) = b \/ End(h, b) = y
        OBVIOUS
      <4>2. End(w, b) = End(h, b) /\ End(h, b) \in Nat /\ b \in Nat
        BY <1>1, <1>4, <3>3, EndFacts DEF End
      <4>3. \A y \in {} \cup {b} : b <= y /\ End(h, y) <= End(w, b)
        BY <4>2
      <4>4. \E y \in {} \cup {b} : End(w, b) = End(h, y)
        BY <4>2
      <4>5. \A a \in Addrs \ ({} \cup {b}) : w.size[a] = h.size[a]
        BY <3>3
      <4>6. Nodes(e, n + 1) = (Nodes(f, n) \ {}) \cup {b}
        BY <3>5
      <4> HIDE DEF e
      <4> QED
        BY <4>1, <4>3, <4>4, <4>5, <4>6, JoinedBy
    <3> QED
      BY <3>2, <3>3, <3>4, <3>5, <3>7, <3>8
  <2>2. CASE n # 0
    <3>1. PICK i \in Nat : i < n /\ StopsAt(b) = Place(f, i) /\ Stop(heap, f, n, i, b)
      BY <1>2, <2>2, LoopStops
    <3> DEFINE p == Place(f, i).prev
               c == CoalesceFreeList(Link(h, f, i, b), b, p, f[i])
               moves == f[i] = h.nextFree /\ c.merged # Null /\ c.heap.next[c.merged] # f[i]
               w == IF moves THEN [c.heap EXCEPT !.nextFree = c.merged] ELSE c.heap
    <3>2. Stop(h, f, n, i, b)
      BY <1>5, <3>1 DEF Stop
    <3>3. Coalesced(h, f, n, i, b, c)
      BY <1>4, <1>6, <3>2, CoalesceList
    <3>4. heap.head # Null
      BY <1>1, <1>3, <2>2, NodeFacts DEF IsList
    <3>5. StopsAt(b).node = f[i] /\ StopsAt(b).prev = p /\ (p = Null <=> i = 0)
          /\ p = (IF i = 0 THEN Null ELSE f[i - 1])
      <4>1. n \in Nat /\ \A k \in Nat : k < n => f[k] # Null
        BY <1>1, <1>3, NodeFacts
      <4>2. i # 0 => i - 1 \in Nat /\ i - 1 < n
        BY <3>1, <4>1
      <4> QED
        BY <3>1, <4>1, <4>2 DEF Place
    <3> HIDE DEF p
    <3>6. Link(h, f, i, b) = IF StopsAt(b).prev = Null
                                THEN [h EXCEPT !.next[b] = h.head, !.head = b]
                                ELSE [h EXCEPT !.next[StopsAt(b).prev] = b, !.next[b] = StopsAt(b).node]
      BY <3>5 DEF Link
    <3>7. new = Forget(w, used \ {b})
      <4>1. Unmarked(b).head # Null /\ h = Unmarked(b)
        BY <1>4, <1>h, <3>4
      <4>2. PICK k, link, d : InsertsInto(b, StopsAt(b), k, link, d)
        BY <4>1, InsertInto, Zenon
      <4>3. k = h
        BY <4>1, <4>2, Zenon DEF InsertsInto
      <4>4. link = Link(h, f, i, b)
        BY <3>6, <4>2, <4>3, Zenon DEF InsertsInto
      <4>5. d = c
        BY <3>5, <4>2, <4>4, Zenon DEF InsertsInto
      <4> HIDE DEF c
      <4>6. Insert(b, StopsAt(b)).heap = Forget(w, used \ {b})
        BY <1>1, <3>5, <4>2, <4>3, <4>5 DEF InsertsInto
      <4> QED
        BY <4>6
    <3> HIDE DEF c
    <3>8. PICK e, l : /\ IsList(c.heap, e, l)
                      /\ Ascending(c.heap, e, l)
                      /\ Joined(h, c.heap, Nodes(f, n), Nodes(e, l), b, Addrs)
                      /\ Nodes(f, n) \ {f[i]} \subseteq Nodes(e, l)
                      /\ IF c.merged # Null /\ c.heap.next[c.merged] # f[i]
                           THEN c.merged \in Nodes(e, l)
                           ELSE f[i] \in Nodes(e, l)
      BY <3>3, Zenon DEF Coalesced
    <3>9. c.heap \in HeapValue /\ c.heap.mark = h.mark /\ c.heap.nextFree = heap.nextFree
      BY <1>1, <1>4, <3>3 DEF Coalesced
    <3>10. Nodes(e, l) \subseteq Addrs
      BY <3>8, <3>9, NodeFacts
    <3>11. /\ w \in HeapValue /\ w.mark = h.mark
           /\ w.size = c.heap.size /\ w.next = c.heap.next /\ w.head = c.heap.head
           /\ w.nextFree = IF moves THEN c.merged ELSE c.heap.nextFree
      <4>1. CASE moves
        <5>1. c.merged \in Addrs
          BY <3>8, <3>10, <4>1
        <5> QED
          BY <3>9, <4>1, <5>1 DEF HeapValue
      <4>2. CASE ~ moves
        BY <3>9, <4>2
      <4> QED
        BY <4>1, <4>2
    <3>12. w.nextFree \in Nodes(e, l) \cup {Null}
      BY <1>3, <1>4, <3>8, <3>9, <3>11
    <3> HIDE DEF w
    <3>13. \A a : End(w, a) = End(c.heap, a)
      BY <3>11 DEF End
    <3>14. IsList(w, e, l) /\ Ascending(w, e, l) /\ Joined(h, w, Nodes(f, n), Nodes(e, l), b, Addrs)
      BY <3>8, <3>11, <3>13 DEF IsList, Ascending, Joined
    <3> QED
      BY <3>7, <3>11, <3>12, <3>14
  <2> QED
    BY <2>1, <2>2
<1>8. PICK w, e, l : /\ w \in HeapValue /\ w.mark = h.mark
                     /\ IsList(w, e, l) /\ Ascending(w, e, l)
                     /\ Joined(h, w, Nodes(f, n), Nodes(e, l), b, Addrs)
                     /\ w.nextFree \in Nodes(e, l) \cup {Null}
                     /\ new = w \/ new = Forget(w, used \ {b})
  BY <1>7, Zenon
<1>a. PICK gone \in SUBSET {x \in Nodes(f, n) : End(h, x) = b \/ End(h, b) = x} :
        \E lo \in gone \cup {b} :
          /\ \A x \in gone \cup {b} : lo <= x /\ End(h, x) <= End(w, lo)
          /\ \E x \in gone \cup {b} : End(w, lo) = End(h, x)
          /\ Nodes(e, l) = (Nodes(f, n) \ gone) \cup {lo}
          /\ \A a \in Addrs \ (gone \cup {b}) : w.size[a] = h.size[a]
  BY <1>8, Zenon DEF Joined
<1>9. PICK lo \in gone \cup {b} :
        /\ \A x \in gone \cup {b} : lo <= x /\ End(h, x) <= End(w, lo)
        /\ \E x \in gone \cup {b} : End(w, lo) = End(h, x)
        /\ Nodes(e, l) = (Nodes(f, n) \ gone) \cup {lo}
        /\ \A a \in Addrs \ (gone \cup {b}) : w.size[a] = h.size[a]
  BY <1>a, Zenon
<1>10. gone \subseteq Nodes(f, n) /\ \A x \in gone : End(heap, x) = b \/ End(heap, b) = x
  BY <1>5, <1>9
<1>11. used \cap Nodes(e, l) \subseteq {b} /\ Nodes(e, l) \subseteq Nodes(f, n) \cup {b}
  BY <1>3, <1>9, <1>10
<1> DEFINE C == used \cup Nodes(f, n)
<1>12. C \subseteq Addrs /\ Tiling(heap, C) /\ gone \in SUBSET C /\ b \in C /\ b \notin gone
       /\ (C \ (gone \cup {b})) \cup {lo} = (used \ {b}) \cup Nodes(e, l)
  BY <1>1, <1>3, <1>9, <1>10 DEF Tiling
<1> HIDE DEF C
<1>13. Tiling(w, (used \ {b}) \cup Nodes(e, l))
  <2>1. \A x \in gone \cup {b} : lo <= x /\ End(heap, x) <= End(w, lo)
    BY <1>5, <1>9
  <2>2. \E x \in gone \cup {b} : End(w, lo) = End(heap, x)
    BY <1>5, <1>9
  <2>3. \A c \in C \ (gone \cup {b}) : w.size[c] = heap.size[c]
    BY <1>4, <1>9, <1>12
  <2>4. Tiling(w, (C \ (gone \cup {b})) \cup {lo})
    BY <1>1, <1>9, <1>10, <1>12, <2>1, <2>2, <2>3, JoinedTiling
  <2> QED
    BY <1>12, <2>4
<1>14. l \in Steps
  BY <1>8, <1>13, TilingSteps
<1>15. /\ new \in HeapValue /\ new.mark = h.mark /\ new.nextFree = w.nextFree
       /\ IsList(new, e, l)
       /\ \A a \in Nodes(e, l) \cup (used \ {b}) : new.size[a] = w.size[a]
  <2>1. CASE new = w
    BY <1>8, <2>1
  <2>2. CASE new = Forget(w, used \ {b})
    <3>1. used \ {b} \in SUBSET Addrs
      BY <1>1
    <3>2. PICK rest : rest = used \ {b}
      OBVIOUS
    <3> QED
      BY <1>8, <1>14, <2>2, <3>1, <3>2, ForgetFields
  <2> QED
    BY <1>8, <2>1, <2>2
<1>16. \A a \in Nodes(e, l) \cup (used \ {b}) : End(new, a) = End(w, a)
  BY <1>15 DEF End
<1>17. Ascending(new, e, l)
  <2>1. \A k \in Nat : k < l => e[k] \in Nodes(e, l)
    BY <1>8, NodeFacts
  <2>2. l \in Nat
    BY <1>8 DEF IsList
  <2> QED
    BY <1>8, <1>16, <2>1, <2>2 DEF Ascending
<1>18. Listed(new) = Nodes(e, l)
  BY <1>14, <1>15, ListWalk
<1>19. Joined(heap, new, Listed(heap), Listed(new), b, Listed(heap) \cup used)
  <2>1. \A a \in C \ (gone \cup {b}) : new.size[a] = heap.size[a]
    <3>1. \A a \in C \ (gone \cup {b}) : a \in Nodes(e, l) \cup (used \ {b}) /\ a \in Addrs
      BY <1>12
    <3> QED
      BY <1>4, <1>9, <1>15, <3>1
  <2>2. End(new, lo) = End(w, lo)
    BY <1>9, <1>16
  <2>3. \A x \in gone \cup {b} : lo <= x /\ End(heap, x) <= End(new, lo)
    BY <1>5, <1>9, <2>2
  <2>4. \E x \in gone \cup {b} : End(new, lo) = End(heap, x)
    BY <1>5, <1>9, <2>2
  <2>5. Joined(heap, new, Nodes(f, n), Nodes(e, l), b, C)
    BY <1>9, <1>10, <2>1, <2>3, <2>4, JoinedBy
  <2>6. C = Listed(heap) \cup used
    BY <1>2 DEF C
  <2> QED
    BY <1>2, <1>18, <2>5, <2>6
<1>20. Tiling(new, (used \ {b}) \cup Nodes(e, l))
  BY <1>13, <1>16 DEF Tiling
<1>21. (used \ {b}) \cap Nodes(e, l) = {} /\ new.nextFree \in Nodes(e, l) \cup {Null}
  BY <1>8, <1>11, <1>15
<1>22. ListOf(new, used \ {b}, e, l)
  BY <1>14, <1>15, <1>17, <1>20, <1>21 DEF ListOf
<1>23. \A c \in used \ {b} : new.mark[c] = "valid"
  <2>1. heap.mark \in [Addrs -> Marks]
    BY <1>1 DEF HeapValue
  <2> QED
    BY <1>1, <1>4, <1>15, <2>1
<1>24. Sound(new, used \ {b})
  BY <1>15, <1>22, <1>23 DEF Sound
<1> QED
  BY <1>4, <1>15, <1>19, <1>24

-----------------------------------------------------------------------------
(* Fresh pages hold an empty list.                                         *)
LEMMA Zeroed == ZeroPages \in HeapValue /\ Listed(ZeroPages) = {}
<1>1. ZeroPages \in HeapValue
  BY HeapAssumption DEF ZeroPages, HeapValue, Marks
<1> DEFINE f == [k \in Nat |-> Null]
<1>2. \A k \in Nat : f[k] = Null
  OBVIOUS
<1>3. ZeroPages.head = Null
  BY DEF ZeroPages
<1> HIDE DEF f
<1>4. IsList(ZeroPages, f, 0) /\ Nodes(f, 0) = {}
  BY <1>2, <1>3 DEF IsList, Nodes
<1>5. Listed(ZeroPages) = Nodes(f, 0)
  <2>1. 0 \in Steps
    BY HeapAssumption DEF Steps
  <2> QED
    BY <1>1, <1>4, <2>1, ListWalk
<1> QED
  BY <1>1, <1>4, <1>5

(* used are in use, and the only free block is at x, of k bytes.           *)
OneFree(h, used, x, k) == Sound(h, used) /\ Listed(h) = {x} /\ h.size[x] = k

(* The heap before the first two blocks are taken from it.                 *)
LEMMA OneNodeSound == OneFree(OneNode, {}, 0, Capacity - Header)
<1>1. /\ Capacity \in Nat /\ Header \in Nat /\ Header > 0 /\ Capacity > Header /\ 0 \in Addrs
      /\ Capacity - Header \in 0 .. Capacity
  BY HeapAssumption, AllocatorAssumption DEF Addrs
<1>2. PICK S, N, M : S = [a \in Addrs |-> 0] /\ N = [a \in Addrs |-> Null] /\ M = [a \in Addrs |-> "none"]
  OBVIOUS
<1>3. /\ S \in [Addrs -> 0 .. Capacity] /\ N \in [Addrs -> Addrs \cup {Null}] /\ N[0] = Null
      /\ M \in [Addrs -> Marks]
      /\ [S EXCEPT ![0] = Capacity - Header] \in [Addrs -> 0 .. Capacity]
      /\ [S EXCEPT ![0] = Capacity - Header][0] = Capacity - Header
  BY <1>1, <1>2 DEF Marks
<1>4. OneNode = [head |-> 0, nextFree |-> 0, size |-> [S EXCEPT ![0] = Capacity - Header],
                 next |-> N, mark |-> M]
  <2>1. PICK z : z = ZeroPages
    OBVIOUS
  <2>2. z = [head |-> Null, nextFree |-> Null, size |-> S, next |-> N, mark |-> M]
    BY <1>2, <2>1 DEF ZeroPages
  <2>3. OneNode = [z EXCEPT !.head = 0, !.nextFree = 0, !.size[0] = Capacity - Header]
    BY <2>1 DEF OneNode
  <2>4. OneNode = [[[z EXCEPT !.head = 0] EXCEPT !.nextFree = 0] EXCEPT !.size = [S EXCEPT ![0] = Capacity - Header]]
    BY <2>2, <2>3
  <2> QED
    BY <2>2, <2>4
<1>5. OneNode.size[0] = Capacity - Header /\ OneNode.head = 0 /\ OneNode.next[0] = Null
      /\ OneNode.nextFree = 0 /\ OneNode.size \in [Addrs -> 0 .. Capacity]
  BY <1>1, <1>3, <1>4
<1>6. OneNode \in HeapValue
  BY <1>1, <1>3, <1>4, <1>5 DEF HeapValue
<1>7. PICK f : f = [k \in Nat |-> IF k = 0 THEN 0 ELSE Null]
  OBVIOUS
<1>8. f[0] = 0 /\ \A k \in Nat : k >= 1 => f[k] = Null
  BY <1>7
<1>9. IsList(OneNode, f, 1)
  BY <1>1, <1>5, <1>8 DEF IsList
<1>10. Nodes(f, 1) = {0}
  BY <1>8 DEF Nodes
<1>11. End(OneNode, 0) = Capacity
  BY <1>1, <1>5 DEF End
<1>12. Tiling(OneNode, {} \cup Nodes(f, 1))
  BY <1>1, <1>10, <1>11 DEF Tiling
<1>13. Ascending(OneNode, f, 1)
  BY DEF Ascending
<1>s. 1 \in Steps
  BY <1>6, <1>9, <1>12, TilingSteps
<1>14. ListOf(OneNode, {}, f, 1)
  BY <1>1, <1>5, <1>9, <1>10, <1>12, <1>13, <1>s DEF ListOf
<1>15. Sound(OneNode, {})
  BY <1>5, <1>6, <1>14 DEF Sound
<1>16. Listed(OneNode) = {0}
  BY <1>6, <1>9, <1>10, <1>s, ListWalk
<1> QED
  BY <1>5, <1>15, <1>16 DEF OneFree

(* A block is cut from the only free one.                                  *)
LEMMA CutOnly ==
  ASSUME NEW h, NEW used, NEW x \in Addrs, NEW k, OneFree(h, used, x, k),
         NEW m \in Nat, k > m + Header,
         NEW g, g = GiveAway(h, FirstFit(h, m), m)
  PROVE  OneFree(g, used \cup {x}, x + Header + m, k - m - Header)
<1>1. PICK s \in Strategies : s = "FIRST_FIT"
  BY DEF Strategies
<1>2. PICK found : found = Search(h, m, s)
  OBVIOUS
<1>3. g = GiveAway(h, found, m)
  BY <1>1, <1>2 DEF Search
<1>4. Sound(h, used) /\ Listed(h) = {x} /\ h.size[x] = k /\ k \in Nat /\ Header \in Nat /\ x # Null
  BY HeapAssumption DEF OneFree, Sound, HeapValue, Addrs
<1>5. found.node # Null
  <2> DEFINE fitting == {b \in Listed(h) : h.size[b] >= m}
  <2>1. found.node = Null <=> fitting = {}
    BY <1>2, <1>4, SearchSound
  <2>2. x \in fitting
    BY <1>4
  <2> QED
    BY <2>1, <2>2
<1>6. Given(h, used, found.node, m, g)
  BY <1>2, <1>3, <1>4, <1>5, GiveAwaySound
<1>7. found.node = x
  BY <1>4, <1>6 DEF Given
<1>8. Divides(h, x, m) /\ Remainder(x, m) = x + Header + m
  BY <1>4 DEF Divides, Remainder
<1>9. Listed(g) = {x + Header + m} /\ Sound(g, used \cup {x})
  BY <1>4, <1>6, <1>7, <1>8 DEF Given
<1>10. x + Header + m \in Addrs /\ x + Header + m # x
  <2>1. Listed(g) \subseteq Addrs
    <3>1. PICK f, n : ListOf(g, used \cup {x}, f, n) /\ Listed(g) = Nodes(f, n)
      BY <1>9, SoundFacts, Zenon
    <3> QED
      BY <3>1 DEF ListOf, Tiling
  <2> QED
    BY <1>4, <1>9, <2>1, HeapAssumption DEF Addrs
<1> QED
  BY <1>4, <1>6, <1>7, <1>8, <1>9, <1>10 DEF Given, OneFree

(* InitMyMalloc: two blocks in use, and one free block behind them.        *)
LEMMA MapSound ==
  ASSUME InitMyMalloc
  PROVE  OneFree(heap', Internal, First, Capacity - First - Header)
<1>1. PICK a : a = GiveAway(OneNode, FirstFit(OneNode, FreeListSize), FreeListSize)
  OBVIOUS
<1>2. PICK b : b = GiveAway(a, FirstFit(a, MutexSize), MutexSize)
  OBVIOUS
<1>3. heap' = b
  BY <1>1, <1>2, Zenon DEF InitMyMalloc
<1>4. PICK x, y : x = 0 + Header + FreeListSize /\ y = x + Header + MutexSize
  OBVIOUS
<1>5. PICK k, j : k = (Capacity - Header) - FreeListSize - Header /\ j = k - MutexSize - Header
  OBVIOUS
<1>6. /\ Capacity \in Nat /\ Header \in Nat /\ Header > 0 /\ FreeListSize \in Nat /\ MutexSize \in Nat
      /\ Capacity - Header > FreeListSize + Header
      /\ x \in Addrs /\ 0 \in Addrs
      /\ k > MutexSize + Header
  BY <1>4, <1>5, HeapAssumption, AllocatorAssumption DEF Addrs
<1>7. OneFree(a, {} \cup {0}, x, k)
  <2>1. PICK z : z = 0
    OBVIOUS
  <2>2. OneFree(a, {} \cup {z}, z + Header + FreeListSize, (Capacity - Header) - FreeListSize - Header)
    BY <1>1, <1>6, <2>1, OneNodeSound, CutOnly
  <2> QED
    BY <1>4, <1>5, <2>1, <2>2
<1>8. OneFree(b, ({} \cup {0}) \cup {x}, y, j)
  BY <1>2, <1>4, <1>5, <1>6, <1>7, CutOnly
<1>9. ({} \cup {0}) \cup {x} = Internal
  BY <1>4, <1>6 DEF Internal
<1>10. y = First /\ j = Capacity - First - Header
  BY <1>4, <1>5, <1>6 DEF First
<1> QED
  BY <1>3, <1>8, <1>9, <1>10

(* What MyMalloc does to a sound heap.                                     *)
LEMMA MyMallocSound ==
  ASSUME HeapInv, NEW n \in Sizes, NEW s \in Strategies, MyMalloc(n, s),
         NEW x, x = Search(heap, n, s).node
  PROVE  /\ Given(heap, Internal \cup held, x, n, heap')
         /\ x \notin Internal \cup held
         /\ held' = held \cup {x} /\ Sound(heap', Internal \cup held')
<1>1. PICK found : found = Search(heap, n, s)
  OBVIOUS
<1>2. /\ mapped /\ found.node = x /\ x # Null /\ heap' = GiveAway(heap, found, n)
      /\ held' = held \cup {x}
  BY <1>1 DEF MyMalloc
<1>3. Sound(heap, Internal \cup held) /\ n \in Nat
  BY <1>2, AllocatorAssumption DEF HeapInv
<1>4. Given(heap, Internal \cup held, x, n, heap')
  BY <1>1, <1>2, <1>3, GiveAwaySound
<1>5. PICK f, k : ListOf(heap, Internal \cup held, f, k) /\ Listed(heap) = Nodes(f, k)
  BY <1>3, SoundFacts, Zenon
<1>6. x \notin Internal \cup held
  BY <1>4, <1>5 DEF ListOf, Given
<1>7. (Internal \cup held) \cup {x} = Internal \cup held'
  BY <1>2
<1> QED
  BY <1>2, <1>4, <1>6, <1>7 DEF Given

(* And MyFree.                                                             *)
LEMMA MyFreeSound ==
  ASSUME HeapInv, NEW b \in Addrs, MyFree(b)
  PROVE  /\ b \in held /\ held' = held \ {b} /\ b \notin Listed(heap)
         /\ Sound(heap', Internal \cup held')
         /\ Joined(heap, heap', Listed(heap), Listed(heap'), b,
                   Listed(heap) \cup (Internal \cup held))
         /\ heap'.mark = [heap.mark EXCEPT ![b] = "freed"]
<1>1. /\ mapped /\ b \in held /\ held' = held \ {b}
      /\ heap' = Insert(b, StopsAt(b)).heap
  BY DEF MyFree
<1>2. Sound(heap, Internal \cup held) /\ held \cap Internal = {}
  BY <1>1 DEF HeapInv
<1>3. PICK used : used = Internal \cup held
  OBVIOUS
<1>4. PICK g : g = heap'
  OBVIOUS
<1>5. /\ Sound(g, used \ {b})
      /\ Joined(heap, g, Listed(heap), Listed(g), b, Listed(heap) \cup used)
      /\ g.mark = [heap.mark EXCEPT ![b] = "freed"]
  <2>1. g = Insert(b, StopsAt(b)).heap
    BY <1>1, <1>4
  <2> QED
    BY <1>1, <1>2, <1>3, <2>1, InsertSound
<1>6. used \ {b} = Internal \cup held'
  BY <1>1, <1>2, <1>3
<1>7. PICK f, k : ListOf(heap, Internal \cup held, f, k) /\ Listed(heap) = Nodes(f, k)
  BY <1>2, SoundFacts, Zenon
<1> QED
  BY <1>1, <1>3, <1>4, <1>5, <1>6, <1>7 DEF ListOf

(* A caller writes in its block, and so into no header.                    *)
LEMMA WriteSound ==
  ASSUME HeapInv, NEW b \in Addrs, NEW x \in Addrs, Write(b, x)
  PROVE  /\ Sound(heap', Internal \cup held) /\ Listed(heap') = Listed(heap)
         /\ heap'.size = heap.size
         /\ \A a \in Internal \cup held \cup Listed(heap) : heap'.mark[a] = heap.mark[a]
<1>1. /\ mapped /\ b \in held /\ b + Header <= x /\ x < End(heap, b)
      /\ heap' = [heap EXCEPT !.mark = Overwritten(@, x, x + 1)]
  BY DEF Write
<1>2. PICK used : used = Internal \cup held
  OBVIOUS
<1>3. Sound(heap, used)
  BY <1>1, <1>2 DEF HeapInv
<1>4. heap \in HeapValue /\ \A c \in used : heap.mark[c] = "valid"
  BY <1>3 DEF Sound
<1>5. PICK f, n : ListOf(heap, used, f, n) /\ Listed(heap) = Nodes(f, n)
  BY <1>3, SoundFacts, Zenon
<1>6. PICK g : g = heap'
  OBVIOUS
<1>7. PICK m : m = Overwritten(heap.mark, x, x + 1)
  OBVIOUS
<1>8. m \in [Addrs -> Marks] /\ heap.mark \in [Addrs -> Marks]
  BY <1>4, <1>7, OverwrittenMarks DEF HeapValue
<1>9. /\ g \in HeapValue /\ g.mark = m /\ g.size = heap.size /\ g.next = heap.next
      /\ g.head = heap.head /\ g.nextFree = heap.nextFree
  <2>1. g = [heap EXCEPT !.mark = m]
    BY <1>1, <1>6, <1>7
  <2> QED
    BY <1>4, <1>8, <2>1 DEF HeapValue
<1>10. \A a : End(g, a) = End(heap, a)
  BY <1>9 DEF End
<1>11. /\ IsList(heap, f, n) /\ Ascending(heap, f, n) /\ n \in Steps
       /\ used \cap Nodes(f, n) = {} /\ Tiling(heap, used \cup Nodes(f, n))
       /\ heap.nextFree \in Nodes(f, n) \cup {Null}
  BY <1>5 DEF ListOf
<1>12. ListOf(g, used, f, n)
  <2>1. IsList(g, f, n)
    BY <1>9, <1>11 DEF IsList
  <2>2. Ascending(g, f, n)
    BY <1>10, <1>11 DEF Ascending
  <2>3. Tiling(g, used \cup Nodes(f, n))
    BY <1>10, <1>11 DEF Tiling
  <2> QED
    BY <1>9, <1>11, <2>1, <2>2, <2>3 DEF ListOf
<1>13. ASSUME NEW a \in used \cup Nodes(f, n) PROVE g.mark[a] = heap.mark[a]
  <2>1. a \in Addrs /\ b \in used \cup Nodes(f, n)
    BY <1>1, <1>2, <1>11 DEF Tiling
  <2>2. /\ a \in Nat /\ b \in Nat /\ End(heap, a) \in Nat /\ a + Header <= End(heap, a)
        /\ x \in Nat /\ x + 1 \in Nat /\ End(heap, b) \in Nat
        /\ Header \in Nat /\ MagicAt \in Nat
    BY <1>4, <2>1, EndFacts, HeapAssumption DEF Addrs
  <2>3. x + 1 <= a + MagicAt \/ a + Header <= x
    <3>1. CASE a < b
      <4>1. End(heap, a) <= b
        BY <1>11, <2>1, <3>1 DEF Tiling
      <4> QED
        BY <1>1, <2>2, <4>1
    <3>2. CASE a = b
      BY <1>1, <3>2
    <3>3. CASE b < a
      <4>1. End(heap, b) <= a
        BY <1>11, <2>1, <3>3 DEF Tiling
      <4> QED
        BY <1>1, <2>2, <4>1
    <3> QED
      BY <2>2, <3>1, <3>2, <3>3
  <2> QED
    BY <1>7, <1>8, <1>9, <2>1, <2>2, <2>3, OverwrittenElsewhere
<1>14. Sound(g, used)
  BY <1>4, <1>9, <1>12, <1>13 DEF Sound
<1>15. Listed(g) = Nodes(f, n)
  BY <1>9, <1>12, ListWalk DEF ListOf
<1> QED
  BY <1>2, <1>5, <1>6, <1>9, <1>13, <1>14, <1>15

(* Every call of heapAllocator.c keeps the invariant.                      *)
LEMMA HeapInvInductive == HeapInv /\ [Next]_vars => HeapInv'
<1> SUFFICES ASSUME HeapInv, [Next]_vars PROVE HeapInv'
  OBVIOUS
<1>1. CASE UNCHANGED vars
  BY <1>1 DEF HeapInv, vars
<1>2. CASE InitMyMalloc
  <2>1. mapped' = TRUE /\ held' = held /\ up' = up /\ held = {}
    BY <1>2 DEF InitMyMalloc, HeapInv
  <2>2. Sound(heap', Internal)
    BY <1>2, MapSound DEF OneFree
  <2>3. Internal \cup held' = Internal /\ held' \cap Internal = {}
    BY <2>1
  <2> QED
    BY <2>1, <2>2, <2>3 DEF HeapInv
<1>3. CASE UnInitMyMalloc
  BY <1>3 DEF UnInitMyMalloc, HeapInv
<1>4. ASSUME NEW n \in Sizes, NEW s \in Strategies, MyMalloc(n, s) PROVE HeapInv'
  <2>1. PICK x : x = Search(heap, n, s).node
    OBVIOUS
  <2>2. x \notin Internal \cup held /\ held' = held \cup {x} /\ Sound(heap', Internal \cup held')
    BY <1>4, <2>1, MyMallocSound
  <2>3. mapped /\ mapped' = mapped /\ up' = up
    BY <1>4 DEF MyMalloc
  <2>4. held' \cap Internal = {}
    BY <2>2, <2>3 DEF HeapInv
  <2> QED
    BY <2>2, <2>3, <2>4 DEF HeapInv
<1>5. ASSUME NEW b \in Addrs, MyFree(b) PROVE HeapInv'
  <2>1. held' = held \ {b} /\ Sound(heap', Internal \cup held')
    BY <1>5, MyFreeSound
  <2>2. mapped /\ mapped' = mapped /\ up' \in BOOLEAN
    BY <1>5 DEF MyFree
  <2>3. held' \cap Internal = {}
    BY <2>1, <2>2 DEF HeapInv
  <2> QED
    BY <2>1, <2>2, <2>3 DEF HeapInv
<1>6. ASSUME NEW b \in Addrs, NEW x \in Addrs, Write(b, x) PROVE HeapInv'
  <2>1. Sound(heap', Internal \cup held)
    BY <1>6, WriteSound
  <2>2. mapped /\ mapped' = mapped /\ held' = held /\ up' = up
    BY <1>6 DEF Write
  <2> QED
    BY <2>1, <2>2 DEF HeapInv
<1> QED
  BY <1>1, <1>2, <1>3, <1>4, <1>5, <1>6 DEF Next, Crashed, MyMallocFails, MyFreeFails

(* However the calls are ordered, the heap is in order.                    *)
THEOREM HeapInvariant == Spec => []HeapInv
<1>1. Init => HeapInv
  BY DEF Init, HeapInv
<1> QED
  BY <1>1, HeapInvInductive, PTL DEF Spec

-----------------------------------------------------------------------------
(* No call of heapAllocator.c writes a size or a link that lies outside    *)
(* the mapping, for any capacity and any sizes.                            *)
THEOREM TypesOK == Spec => []TypeOK
<1>1. HeapInv => TypeOK
  <2> SUFFICES ASSUME HeapInv PROVE TypeOK
    OBVIOUS
  <2>1. CASE mapped
    <3>1. Sound(heap, Internal \cup held)
      BY <2>1 DEF HeapInv
    <3>2. Internal \cup held \subseteq Addrs
      BY <3>1, Zenon DEF Sound, ListOf, Tiling
    <3> QED
      BY <3>1, <3>2 DEF HeapInv, TypeOK, Sound
  <2>2. CASE ~ mapped
    BY <2>2, Zeroed DEF HeapInv, TypeOK
  <2> QED
    BY <2>1, <2>2
<1> QED
  BY <1>1, HeapInvariant, PTL

(* The checks of MyFree let a block in use pass.                           *)
LEMMA InUseMarked ==
  ASSUME HeapInv, mapped, NEW b \in Internal \cup held
  PROVE  b \in Addrs /\ Accepts(b)
<1>1. Sound(heap, Internal \cup held)
  BY DEF HeapInv
<1>2. PICK f, n : ListOf(heap, Internal \cup held, f, n)
  BY <1>1, Zenon DEF Sound
<1> QED
  BY <1>1, <1>2 DEF Accepts, Sound, ListOf, Tiling

(* MyFree takes back every block in use, wherever headers were left behind *)
(* and whatever was written over them.                                     *)
THEOREM MarksCorrect == Spec => []InUseAccepted
<1>1. HeapInv => InUseAccepted
  BY InUseMarked DEF InUseAccepted
<1> QED
  BY <1>1, HeapInvariant, PTL

(* MyFree refuses a block that was just freed, and goes on to refuse it as *)
(* long as it is on the list.                                              *)
THEOREM DoubleFreeCorrect == Spec => DoubleFreeRefused
<1> DEFINE Refuses == LET freed == held \ held'
                          waiting == {b \in Listed(heap) : ~ Accepts(b)} \cap Listed(heap)'
                      IN  \A b \in freed \cup waiting : ~ Accepts(b)'
<1>1. HeapInv /\ [Next]_vars => Refuses
  <2> SUFFICES ASSUME HeapInv, [Next]_vars,
                      NEW b, \/ b \in held /\ b \notin held'
                             \/ b \in Listed(heap) /\ ~ Accepts(b) /\ b \in Listed(heap')
               PROVE  ~ (b \in Addrs /\ heap'.mark[b] = "valid")
    BY DEF Accepts
  <2>1. CASE UNCHANGED vars
    BY <2>1 DEF vars, Accepts
  <2>2. CASE InitMyMalloc
    <3>1. held = {} /\ Listed(heap) = {}
      BY <2>2, Zeroed DEF InitMyMalloc, HeapInv
    <3> QED
      BY <3>1
  <2>3. CASE UnInitMyMalloc
    <3>1. heap'.mark = [a \in Addrs |-> "none"]
      BY <2>3 DEF UnInitMyMalloc, ZeroPages
    <3> QED
      BY <3>1
  <2>4. ASSUME NEW n \in Sizes, NEW s \in Strategies, MyMalloc(n, s)
        PROVE  ~ (b \in Addrs /\ heap'.mark[b] = "valid")
    <3>1. PICK x : x = Search(heap, n, s).node
      OBVIOUS
    <3>2. /\ Given(heap, Internal \cup held, x, n, heap')
          /\ held' = held \cup {x} /\ Sound(heap', Internal \cup held')
      BY <2>4, <3>1, MyMallocSound
    <3>3. b \in Listed(heap) /\ ~ Accepts(b) /\ b \in Listed(heap')
      BY <3>2
    <3>4. PICK f, k : ListOf(heap', Internal \cup held', f, k) /\ Listed(heap') = Nodes(f, k)
      BY <3>2, SoundFacts, Zenon
    <3>5. b # x
      BY <3>2, <3>3, <3>4 DEF ListOf
    <3>6. heap'.mark[b] = heap.mark[b]
      BY <3>2, <3>3, <3>5 DEF Given
    <3> QED
      BY <3>3, <3>6 DEF Accepts
  <2>5. ASSUME NEW c \in Addrs, MyFree(c)
        PROVE  ~ (b \in Addrs /\ heap'.mark[b] = "valid")
    <3>1. /\ c \in held /\ held' = held \ {c} /\ c \notin Listed(heap)
          /\ heap'.mark = [heap.mark EXCEPT ![c] = "freed"]
      BY <2>5, MyFreeSound
    <3>2. heap \in HeapValue
      BY <2>5 DEF MyFree, HeapInv, Sound
    <3>3. heap.mark \in [Addrs -> Marks]
      BY <3>2 DEF HeapValue
    <3>4. CASE b = c
      BY <3>1, <3>3, <3>4
    <3>5. CASE b # c
      BY <3>1, <3>3, <3>5 DEF Accepts
    <3> QED
      BY <3>4, <3>5
  <2>6. ASSUME NEW c \in Addrs, NEW x \in Addrs, Write(c, x)
        PROVE  ~ (b \in Addrs /\ heap'.mark[b] = "valid")
    <3>1. /\ Listed(heap') = Listed(heap) /\ held' = held
          /\ \A a \in Internal \cup held \cup Listed(heap) : heap'.mark[a] = heap.mark[a]
      BY <2>6, WriteSound DEF Write
    <3> QED
      BY <3>1 DEF Accepts
  <2> QED
    BY <2>1, <2>2, <2>3, <2>4, <2>5, <2>6 DEF Next, Crashed, MyMallocFails, MyFreeFails
<1>2. HeapInv /\ [Next]_vars => [Refuses]_vars
  BY <1>1
<1> QED
  BY <1>2, HeapInvariant, PTL DEF Spec, DoubleFreeRefused

(* The list ends, so that no loop over it runs on, and nextFreeBlock is a  *)
(* node of it.                                                             *)
THEOREM ListCorrect == Spec => []ListSound
<1>1. HeapInv => ListSound
  <2> SUFFICES ASSUME HeapInv PROVE ListSound
    OBVIOUS
  <2>1. CASE mapped
    <3>1. Sound(heap, Internal \cup held)
      BY <2>1 DEF HeapInv
    <3>2. PICK f, n : /\ ListOf(heap, Internal \cup held, f, n)
                      /\ Listed(heap) = Nodes(f, n)
                      /\ \A k \in Nat : Walk(heap, heap.head)[k] = f[k]
      BY <3>1, SoundFacts, Zenon
    <3>3. n \in Nat /\ n \in Steps /\ f[n] = Null /\ heap.nextFree \in Listed(heap) \cup {Null}
      BY <3>2 DEF ListOf, IsList
    <3> QED
      BY <3>2, <3>3 DEF ListSound
  <2>2. CASE ~ mapped
    <3>1. heap = ZeroPages /\ heap.head = Null /\ heap.nextFree = Null
      BY <2>2 DEF HeapInv, ZeroPages
    <3>2. 0 \in Steps
      BY HeapAssumption DEF Steps
    <3>3. Walk(heap, heap.head)[0] = Null
      <4>1. Walk(heap, heap.head)[0] \in Listed(heap) \cup {Null}
        BY <3>2 DEF Listed
      <4> QED
        BY <3>1, <4>1, Zeroed
    <3> QED
      BY <3>1, <3>2, <3>3 DEF ListSound
  <2> QED
    BY <2>1, <2>2
<1> QED
  BY <1>1, HeapInvariant, PTL

(* No two blocks share a byte, and nothing is lost between them.           *)
THEOREM TilingCorrect == Spec => []Tiled
<1>1. HeapInv => Tiled
  <2> SUFFICES ASSUME HeapInv, mapped PROVE /\ Internal \cap Listed(heap) = {}
                                            /\ held \cap (Internal \cup Listed(heap)) = {}
                                            /\ \A c, d \in Chunks : c < d => End(heap, c) <= d
                                            /\ \A c \in Chunks : End(heap, c) \in Chunks \cup {Capacity}
    BY DEF Tiled
  <2>1. Sound(heap, Internal \cup held) /\ held \cap Internal = {}
    BY DEF HeapInv
  <2>2. PICK f, n : ListOf(heap, Internal \cup held, f, n) /\ Listed(heap) = Nodes(f, n)
    BY <2>1, SoundFacts, Zenon
  <2>3. Tiling(heap, Chunks) /\ (Internal \cup held) \cap Listed(heap) = {}
    BY <2>2 DEF ListOf, Chunks
  <2> QED
    BY <2>1, <2>3 DEF Tiling
<1> QED
  BY <1>1, HeapInvariant, PTL

(* All nodes but the last one stay in order, and no two of them adjacent.  *)
THEOREM OrderCorrect == Spec => []OrderedUpToLast
<1>1. HeapInv => OrderedUpToLast
  <2> SUFFICES ASSUME HeapInv, mapped PROVE OrderedUpToLast
    BY DEF OrderedUpToLast
  <2>1. Sound(heap, Internal \cup held)
    BY DEF HeapInv
  <2>2. PICK f, n : ListOf(heap, Internal \cup held, f, n) /\ Listed(heap) = Nodes(f, n)
    BY <2>1, SoundFacts, Zenon
  <2> SUFFICES ASSUME NEW j \in Steps, NEW k \in Steps, j < k,
                      Walk(heap, heap.head)[k] # Null,
                      heap.next[Walk(heap, heap.head)[k]] # Null
               PROVE  End(heap, Walk(heap, heap.head)[j]) < Walk(heap, heap.head)[k]
    BY DEF OrderedUpToLast
  <2>3. heap \in HeapValue /\ IsList(heap, f, n) /\ Ascending(heap, f, n) /\ j \in Nat /\ k \in Nat
    BY <2>1, <2>2 DEF Sound, ListOf, Steps
  <2>w. \A i \in Nat : Walk(heap, heap.head)[i] = f[i]
    BY <2>3, ListWalk
  <2>4. f[k] # Null /\ heap.next[f[k]] # Null
    BY <2>3, <2>w
  <2>5. n \in Nat /\ k < n /\ f[k + 1] # Null
    BY <2>3, <2>4 DEF IsList
  <2>6. k + 1 < n
    BY <2>3, <2>5 DEF IsList
  <2> QED
    BY <2>3, <2>w, <2>6 DEF Ascending
<1> QED
  BY <1>1, HeapInvariant, PTL

(* MyMalloc fails only where no free block is large enough, and takes the  *)
(* one its strategy names.                                                 *)
THEOREM SearchCorrect == Spec => []SearchComplete
<1>1. HeapInv => SearchComplete
  <2> SUFFICES ASSUME HeapInv, mapped PROVE SearchComplete
    BY DEF SearchComplete
  <2>1. Sound(heap, Internal \cup held)
    BY DEF HeapInv
  <2>2. \A n \in Sizes : n \in Nat
    BY AllocatorAssumption
  <2> QED
    BY <2>1, <2>2, SearchSound DEF SearchComplete
<1> QED
  BY <1>1, HeapInvariant, PTL

-----------------------------------------------------------------------------
(* The refinement: the blocks at L in the heap h, as AbstractHeap has them. *)
BlockOf(h, a) == [addr |-> a, size |-> h.size[a]]

Blocks(h, L) == {BlockOf(h, a) : a \in L}

(* A block is known by its address, and ends where its header says.        *)
LEMMA BlockOfFacts ==
  ASSUME NEW h
  PROVE  /\ \A a : BlockOf(h, a).addr = a /\ BlockOf(h, a).size = h.size[a]
         /\ \A a, c : BlockOf(h, a) = BlockOf(h, c) => a = c
         /\ \A a : Promise!Behind(BlockOf(h, a)) = End(h, a)
BY DEF BlockOf, Promise!Behind, End

(* Blocks whose size is left alone stay what they are.                     *)
LEMMA SameBlocks ==
  ASSUME NEW h, NEW g, NEW L, \A a \in L : g.size[a] = h.size[a]
  PROVE  Blocks(g, L) = Blocks(h, L)
<1>1. \A a \in L : BlockOf(g, a) = BlockOf(h, a)
  BY DEF BlockOf
<1> QED
  BY <1>1 DEF Blocks

(* The blocks at two sets of addresses,                                    *)
LEMMA BlocksUnion ==
  ASSUME NEW h, NEW L, NEW K
  PROVE  Blocks(h, L \cup K) = Blocks(h, L) \cup Blocks(h, K)
BY DEF Blocks

(* at a set without another,                                               *)
LEMMA BlocksMinus ==
  ASSUME NEW h, NEW L, NEW K
  PROVE  Blocks(h, L \ K) = Blocks(h, L) \ Blocks(h, K)
<1>1. \A a, c : BlockOf(h, a) = BlockOf(h, c) => a = c
  BY BlockOfFacts
<1> QED
  BY <1>1 DEF Blocks

(* at one address,                                                         *)
LEMMA BlocksOne ==
  ASSUME NEW h, NEW x
  PROVE  Blocks(h, {x}) = {BlockOf(h, x)}
BY DEF Blocks

(* with one address more,                                                  *)
LEMMA BlocksWith ==
  ASSUME NEW h, NEW L, NEW x
  PROVE  Blocks(h, L \cup {x}) = Blocks(h, L) \cup {BlockOf(h, x)}
BY DEF Blocks

(* and with one less.                                                      *)
LEMMA BlocksLess ==
  ASSUME NEW h, NEW L, NEW x
  PROVE  Blocks(h, L \ {x}) = Blocks(h, L) \ {BlockOf(h, x)}
<1>1. \A a, c : BlockOf(h, a) = BlockOf(h, c) => a = c
  BY BlockOfFacts
<1> QED
  BY <1>1 DEF Blocks

(* Giving a block away is an allocation.                                   *)
LEMMA AllocBlocks ==
  ASSUME NEW h, NEW used, Sound(h, used), NEW K \in SUBSET used, NEW m \in Nat,
         NEW x, x \notin used, NEW g, Given(h, used, x, m, g),
         NEW b, b = BlockOf(h, x)
  PROVE  /\ b \in Blocks(h, Listed(h)) /\ b.size >= m
         /\ Blocks(g, Listed(g)) = (Blocks(h, Listed(h)) \ {b}) \cup Promise!Rest(b, m)
         /\ Blocks(g, K \cup {x}) = Blocks(h, K) \cup {[b EXCEPT !.size = Promise!Cut(b, m)]}
<1>1. PICK f, n : ListOf(h, used, f, n) /\ Listed(h) = Nodes(f, n)
  BY SoundFacts, Zenon
<1>2. Tiling(h, used \cup Listed(h)) /\ h \in HeapValue
  BY <1>1 DEF ListOf, Sound
<1>3. /\ x \in Listed(h) /\ h.size[x] >= m
      /\ Listed(g) = (Listed(h) \ {x}) \cup {r \in {Remainder(x, m)} : Divides(h, x, m)}
      /\ \A a \in Addrs :
           g.size[a] = IF Divides(h, x, m) /\ a = x THEN m
                       ELSE IF Divides(h, x, m) /\ a = Remainder(x, m) THEN h.size[x] - m - Header
                       ELSE h.size[a]
  BY DEF Given
<1>4. used \cup Listed(h) \subseteq Addrs
  BY <1>2 DEF Tiling
<1>5. Divides(h, x, m) => Remainder(x, m) \in Addrs \ (used \cup Listed(h))
  BY <1>2, <1>3, RemainderFits
<1>6. \A a \in (used \cup Listed(h)) \ {x} : g.size[a] = h.size[a]
  BY <1>3, <1>4, <1>5
<1>7. b.size = h.size[x] /\ b.addr = x /\ b = [addr |-> x, size |-> h.size[x]]
  BY DEF BlockOf
<1>8. Blocks(g, K \cup {x}) = Blocks(h, K) \cup {[b EXCEPT !.size = Promise!Cut(b, m)]}
  <2>1. Blocks(g, K) = Blocks(h, K)
    <3>1. \A a \in K : g.size[a] = h.size[a]
      BY <1>6
    <3> QED
      BY <3>1, SameBlocks
  <2>2. g.size[x] = Promise!Cut(b, m)
    BY <1>3, <1>4, <1>7 DEF Promise!Cut, Divides
  <2>3. BlockOf(g, x) = [b EXCEPT !.size = Promise!Cut(b, m)]
    BY <1>7, <2>2 DEF BlockOf
  <2>4. Blocks(g, K \cup {x}) = Blocks(g, K) \cup {BlockOf(g, x)}
    BY BlocksWith, Zenon
  <2> QED
    BY <2>1, <2>3, <2>4
<1>9. Blocks(g, Listed(g)) = (Blocks(h, Listed(h)) \ {b}) \cup Promise!Rest(b, m)
  <2> DEFINE R == {r \in {Remainder(x, m)} : Divides(h, x, m)}
  <2>1. Blocks(g, Listed(h) \ {x}) = Blocks(h, Listed(h)) \ {b}
    <3>1. \A a \in Listed(h) \ {x} : g.size[a] = h.size[a]
      BY <1>6
    <3>2. Blocks(g, Listed(h) \ {x}) = Blocks(h, Listed(h) \ {x})
      BY <3>1, SameBlocks
    <3>3. Blocks(h, Listed(h) \ {x}) = Blocks(h, Listed(h)) \ {BlockOf(h, x)}
      BY BlocksLess, Zenon
    <3> QED
      BY <3>2, <3>3
  <2>2. Blocks(g, R) = Promise!Rest(b, m)
    <3>1. CASE Divides(h, x, m)
      <4>1. R = {Remainder(x, m)}
        BY <3>1
      <4>2. g.size[Remainder(x, m)] = h.size[x] - m - Header
        BY <1>3, <1>4, <1>5, <3>1
      <4>3. Blocks(g, R) = {[addr |-> x + Header + m, size |-> h.size[x] - m - Header]}
        <5> HIDE DEF R
        <5>1. Blocks(g, R) = {BlockOf(g, Remainder(x, m))}
          BY <4>1, BlocksOne, Zenon
        <5> QED
          BY <4>2, <5>1 DEF BlockOf, Remainder
      <4>4. Promise!Rest(b, m) = {[addr |-> x + Header + m, size |-> h.size[x] - m - Header]}
        BY <1>7, <3>1 DEF Promise!Rest, Divides
      <4> QED
        BY <4>3, <4>4
    <3>2. CASE ~ Divides(h, x, m)
      <4>1. R = {}
        BY <3>2
      <4>2. Blocks(g, R) = {}
        BY <4>1 DEF Blocks
      <4>3. Promise!Rest(b, m) = {}
        BY <1>7, <3>2 DEF Promise!Rest, Divides
      <4> QED
        BY <4>2, <4>3
    <3> QED
      BY <3>1, <3>2
  <2>3. Listed(g) = (Listed(h) \ {x}) \cup R
    BY <1>3
  <2> HIDE DEF R
  <2>4. Blocks(g, (Listed(h) \ {x}) \cup R) = Blocks(g, Listed(h) \ {x}) \cup Blocks(g, R)
    <3>1. \A A, B : Blocks(g, A \cup B) = Blocks(g, A) \cup Blocks(g, B)
      BY BlocksUnion, Zenon
    <3> QED
      BY <3>1, Zenon
  <2> QED
    BY <2>1, <2>2, <2>3, <2>4
<1>10. b \in Blocks(h, Listed(h))
  BY <1>3 DEF Blocks
<1> QED
  BY <1>3, <1>7, <1>8, <1>9, <1>10

(* free becomes G when b is released into it.                              *)
Released(F, b, G) ==
  \E merged \in SUBSET {c \in F : Promise!Behind(c) = b.addr \/ Promise!Behind(b) = c.addr} :
    LET from == CHOOSE a \in {c.addr : c \in merged \cup {b}} :
                  \A c \in merged \cup {b} : a <= c.addr
        to == CHOOSE e \in {Promise!Behind(c) : c \in merged \cup {b}} :
                \A c \in merged \cup {b} : Promise!Behind(c) <= e
    IN  G = (F \ merged) \cup {[addr |-> from, size |-> to - from - Header]}

(* From h to g, the block at x of those at K is given back.                *)
Freed(h, g, K, x) ==
  /\ BlockOf(h, x) \in Blocks(h, K)
  /\ Blocks(g, K \ {x}) = Blocks(h, K) \ {BlockOf(h, x)}
  /\ Released(Blocks(h, Listed(h)), BlockOf(h, x), Blocks(g, Listed(g)))

(* Freeing a block is a release.                                           *)
LEMMA ReleaseBlocks ==
  ASSUME NEW h, NEW used, Sound(h, used), NEW K \in SUBSET used, NEW x \in K, x \notin Listed(h),
         NEW g, Sound(g, used \ {x}),
         Joined(h, g, Listed(h), Listed(g), x, Listed(h) \cup used)
  PROVE  Freed(h, g, K, x)
<1> DEFINE b == BlockOf(h, x)
<1>1. PICK gone \in SUBSET {y \in Listed(h) : End(h, y) = x \/ End(h, x) = y} :
        \E lo \in gone \cup {x} :
          /\ \A y \in gone \cup {x} : lo <= y /\ End(h, y) <= End(g, lo)
          /\ \E y \in gone \cup {x} : End(g, lo) = End(h, y)
          /\ Listed(g) = (Listed(h) \ gone) \cup {lo}
          /\ \A a \in (Listed(h) \cup used) \ (gone \cup {x}) : g.size[a] = h.size[a]
  BY Zenon DEF Joined
<1>2. PICK lo \in gone \cup {x} :
        /\ \A y \in gone \cup {x} : lo <= y /\ End(h, y) <= End(g, lo)
        /\ \E y \in gone \cup {x} : End(g, lo) = End(h, y)
        /\ Listed(g) = (Listed(h) \ gone) \cup {lo}
        /\ \A a \in (Listed(h) \cup used) \ (gone \cup {x}) : g.size[a] = h.size[a]
  BY <1>1, Zenon
<1>3. PICK f, n : ListOf(h, used, f, n) /\ Listed(h) = Nodes(f, n)
  BY SoundFacts, Zenon
<1>4. /\ h \in HeapValue /\ g \in HeapValue
      /\ Listed(h) \subseteq Addrs /\ used \subseteq Addrs /\ used \cap Listed(h) = {}
  BY <1>3 DEF Sound, ListOf, Tiling
<1>5. gone \subseteq Listed(h) /\ x \in Addrs /\ gone \cup {x} \subseteq Addrs
  BY <1>1, <1>4
<1>6. /\ \A a : BlockOf(h, a).addr = a /\ Promise!Behind(BlockOf(h, a)) = End(h, a)
      /\ b.addr = x /\ Promise!Behind(b) = End(h, x)
  BY BlockOfFacts
<1>7. b \in Blocks(h, K)
  BY DEF Blocks
<1>8. Blocks(g, K \ {x}) = Blocks(h, K) \ {b}
  <2>1. \A a \in K \ {x} : g.size[a] = h.size[a]
    BY <1>2, <1>4, <1>5
  <2>2. Blocks(g, K \ {x}) = Blocks(h, K \ {x})
    BY <2>1, SameBlocks
  <2>3. Blocks(h, K \ {x}) = Blocks(h, K) \ {BlockOf(h, x)}
    BY BlocksLess, Zenon
  <2> QED
    BY <2>2, <2>3
<1> DEFINE merged == Blocks(h, gone)
           from == CHOOSE a \in {c.addr : c \in merged \cup {b}} : \A c \in merged \cup {b} : a <= c.addr
           to == CHOOSE e \in {Promise!Behind(c) : c \in merged \cup {b}} :
                   \A c \in merged \cup {b} : Promise!Behind(c) <= e
<1>9. merged \in SUBSET {c \in Blocks(h, Listed(h)) : Promise!Behind(c) = b.addr \/ Promise!Behind(b) = c.addr}
  <2> SUFFICES ASSUME NEW c \in merged
               PROVE  c \in Blocks(h, Listed(h)) /\ (Promise!Behind(c) = b.addr \/ Promise!Behind(b) = c.addr)
    OBVIOUS
  <2>1. PICK y \in gone : c = BlockOf(h, y)
    BY DEF Blocks
  <2>2. y \in Listed(h) /\ (End(h, y) = x \/ End(h, x) = y)
    BY <1>1, <2>1
  <2> QED
    BY <1>6, <2>1, <2>2 DEF Blocks
<1>10. merged \cup {b} = Blocks(h, gone \cup {x})
  BY BlocksWith, Zenon
<1>11. /\ {c.addr : c \in merged \cup {b}} = gone \cup {x}
       /\ {Promise!Behind(c) : c \in merged \cup {b}} = {End(h, y) : y \in gone \cup {x}}
  <2>1. merged \cup {b} = {BlockOf(h, y) : y \in gone \cup {x}}
    BY <1>10 DEF Blocks
  <2> HIDE DEF merged
  <2> QED
    BY <1>6, <2>1
<1>12. \A a : (\A c \in merged \cup {b} : a <= c.addr) <=> \A y \in gone \cup {x} : a <= y
  BY <1>6, <1>10 DEF Blocks
<1>13. \A e : (\A c \in merged \cup {b} : Promise!Behind(c) <= e) <=> \A y \in gone \cup {x} : End(h, y) <= e
  BY <1>6, <1>10 DEF Blocks
<1>14. \A y \in gone \cup {x} : y \in Nat /\ End(h, y) \in Nat
  BY <1>4, <1>5, EndFacts
<1> HIDE DEF merged
<1>15. from = lo
  <2>1. lo \in {c.addr : c \in merged \cup {b}} /\ \A c \in merged \cup {b} : lo <= c.addr
    BY <1>2, <1>11, <1>12
  <2>2. from \in gone \cup {x} /\ \A y \in gone \cup {x} : from <= y
    <3>1. from \in {c.addr : c \in merged \cup {b}} /\ \A c \in merged \cup {b} : from <= c.addr
      BY <2>1, Zenon
    <3> HIDE DEF from
    <3> QED
      BY <1>11, <1>12, <3>1
  <2> HIDE DEF from
  <2> QED
    BY <1>2, <1>14, <2>2
<1>16. to = End(g, lo)
  <2>1. /\ End(g, lo) \in {Promise!Behind(c) : c \in merged \cup {b}}
        /\ \A c \in merged \cup {b} : Promise!Behind(c) <= End(g, lo)
    BY <1>2, <1>11, <1>13
  <2>2. to \in {End(h, y) : y \in gone \cup {x}} /\ \A y \in gone \cup {x} : End(h, y) <= to
    <3>1. to \in {Promise!Behind(c) : c \in merged \cup {b}} /\ \A c \in merged \cup {b} : Promise!Behind(c) <= to
      BY <2>1, Zenon
    <3> HIDE DEF to
    <3> QED
      BY <1>11, <1>13, <3>1
  <2> HIDE DEF to
  <2>3. PICK y \in gone \cup {x} : to = End(h, y)
    BY <2>2
  <2>4. PICK z \in gone \cup {x} : End(g, lo) = End(h, z)
    BY <1>2
  <2>5. End(h, y) <= End(h, z) /\ End(h, z) <= End(h, y)
    BY <1>2, <2>2, <2>3, <2>4
  <2> QED
    BY <1>14, <2>3, <2>4, <2>5
<1>17. BlockOf(g, lo) = [addr |-> from, size |-> to - from - Header]
  <2>1. lo \in Nat /\ g.size[lo] \in Nat /\ Header \in Nat
    BY <1>4, <1>5, EndFacts, HeapAssumption
  <2>2. End(g, lo) - lo - Header = g.size[lo]
    BY <2>1 DEF End
  <2> HIDE DEF from, to
  <2> QED
    BY <1>15, <1>16, <2>2 DEF BlockOf
<1> HIDE DEF from, to
<1>18. Blocks(g, Listed(g)) = (Blocks(h, Listed(h)) \ merged) \cup {[addr |-> from, size |-> to - from - Header]}
  <2>1. \A a \in Listed(h) \ gone : g.size[a] = h.size[a]
    BY <1>2
  <2>2. Blocks(g, Listed(h) \ gone) = Blocks(h, Listed(h) \ gone)
    BY <2>1, SameBlocks
  <2>3. Blocks(h, Listed(h) \ gone) = Blocks(h, Listed(h)) \ merged
    BY BlocksMinus, Zenon DEF merged
  <2>4. Blocks(g, (Listed(h) \ gone) \cup {lo}) = Blocks(g, Listed(h) \ gone) \cup {BlockOf(g, lo)}
    BY BlocksWith, Zenon
  <2> QED
    BY <1>2, <1>17, <2>2, <2>3, <2>4
<1> QED
  BY <1>7, <1>8, <1>9, <1>18 DEF from, to, Released, Freed

(* InitMyMalloc maps one free block, behind the two it keeps for itself.   *)
LEMMA RefineMap == ASSUME HeapInv, InitMyMalloc PROVE Promise!Map
<1>1. OneFree(heap', Internal, First, Capacity - First - Header)
  BY MapSound
<1>2. Listed(heap') = {First} /\ heap'.size[First] = Capacity - First - Header
  BY <1>1 DEF OneFree
<1>3. {Block(a) : a \in Listed(heap)}' = {[addr |-> First, size |-> Capacity - First - Header]}
  BY <1>2 DEF Block
<1>4. /\ up /\ ~ mapped /\ mapped' = TRUE /\ up' = up
      /\ held' = held /\ held = {}
  BY DEF InitMyMalloc, HeapInv
<1>5. {Block(a) : a \in held}' = {Block(a) : a \in held}
  BY <1>4
<1> QED
  BY <1>3, <1>4, <1>5 DEF Promise!Map

(* unInitMyMalloc leaves no block of either kind.                          *)
LEMMA RefineUnmap == ASSUME HeapInv, UnInitMyMalloc PROVE Promise!Unmap
<1>1. /\ up /\ mapped /\ mapped' = FALSE /\ up' = up
      /\ held' = {} /\ heap' = ZeroPages
  BY DEF UnInitMyMalloc
<1>2. Listed(heap') = {}
  BY <1>1, Zeroed
<1>3. {Block(a) : a \in Listed(heap)}' = {} /\ {Block(a) : a \in held}' = {}
  BY <1>1, <1>2
<1> QED
  BY <1>1, <1>3 DEF Promise!Unmap

(* MyMalloc moves a free block, or the front part of one, to the live      *)
(* ones.                                                                   *)
LEMMA RefineAlloc ==
  ASSUME HeapInv, NEW n \in Sizes, NEW s \in Strategies, MyMalloc(n, s)
  PROVE  \E b \in {Block(a) : a \in Listed(heap)} : Promise!Alloc(b, n)
<1>1. PICK x : x = Search(heap, n, s).node
  OBVIOUS
<1>2. PICK b : b = BlockOf(heap, x)
  OBVIOUS
<1>3. /\ Given(heap, Internal \cup held, x, n, heap')
      /\ x \notin Internal \cup held /\ held' = held \cup {x}
  BY <1>1, MyMallocSound
<1>4. mapped /\ mapped' = mapped /\ up /\ up' = up /\ n \in Nat
  BY AllocatorAssumption DEF MyMalloc
<1>5. Sound(heap, Internal \cup held)
  BY <1>4 DEF HeapInv
<1>6. /\ b \in Blocks(heap, Listed(heap)) /\ b.size >= n
      /\ Blocks(heap', Listed(heap')) = (Blocks(heap, Listed(heap)) \ {b}) \cup Promise!Rest(b, n)
      /\ Blocks(heap', held \cup {x}) = Blocks(heap, held) \cup {[b EXCEPT !.size = Promise!Cut(b, n)]}
  <2>1. held \in SUBSET (Internal \cup held)
    OBVIOUS
  <2> QED
    BY <1>2, <1>3, <1>4, <1>5, <2>1, AllocBlocks
<1>7. /\ {Block(a) : a \in Listed(heap)} = Blocks(heap, Listed(heap))
      /\ {Block(a) : a \in held} = Blocks(heap, held)
      /\ {Block(a) : a \in Listed(heap)}' = Blocks(heap', Listed(heap'))
      /\ {Block(a) : a \in held}' = Blocks(heap', held')
  BY DEF Block, Blocks, BlockOf
<1>8. Promise!Alloc(b, n)
  BY <1>3, <1>4, <1>6, <1>7, Zenon DEF Promise!Alloc
<1> QED
  BY <1>6, <1>7, <1>8

(* MyFree moves a live block to the free ones, joined with those it        *)
(* touches and that the code merges.                                       *)
LEMMA RefineRelease ==
  ASSUME HeapInv, NEW x \in Addrs, MyFree(x)
  PROVE  \E b \in {Block(a) : a \in held} : Promise!Release(b)
<1>1. PICK b : b = BlockOf(heap, x)
  OBVIOUS
<1>2. /\ x \in held /\ held' = held \ {x} /\ x \notin Listed(heap)
      /\ Sound(heap', Internal \cup held')
      /\ Joined(heap, heap', Listed(heap), Listed(heap'), x,
                Listed(heap) \cup (Internal \cup held))
  BY MyFreeSound
<1>3. mapped /\ mapped' = mapped /\ up /\ up' \in BOOLEAN
  BY DEF MyFree
<1>4. Sound(heap, Internal \cup held) /\ held \cap Internal = {}
  BY <1>3 DEF HeapInv
<1>5. held \in SUBSET (Internal \cup held) /\ (Internal \cup held) \ {x} = Internal \cup held'
  BY <1>2, <1>4
<1>6. /\ b \in Blocks(heap, held)
      /\ Blocks(heap', held \ {x}) = Blocks(heap, held) \ {b}
      /\ Released(Blocks(heap, Listed(heap)), b, Blocks(heap', Listed(heap')))
  <2>1. PICK used, K, g : used = Internal \cup held /\ K = held /\ g = heap'
    OBVIOUS
  <2>2. /\ Sound(heap, used) /\ K \in SUBSET used /\ x \in K /\ x \notin Listed(heap)
        /\ Sound(g, used \ {x}) /\ Joined(heap, g, Listed(heap), Listed(g), x, Listed(heap) \cup used)
    BY <1>2, <1>4, <1>5, <2>1
  <2>3. Freed(heap, g, K, x)
    BY <2>2, ReleaseBlocks
  <2> QED
    BY <1>1, <2>1, <2>3, Zenon DEF Freed
<1>7. /\ {Block(a) : a \in Listed(heap)} = Blocks(heap, Listed(heap))
      /\ {Block(a) : a \in held} = Blocks(heap, held)
      /\ {Block(a) : a \in Listed(heap)}' = Blocks(heap', Listed(heap'))
      /\ {Block(a) : a \in held}' = Blocks(heap', held')
  BY DEF Block, Blocks, BlockOf
<1>8. Promise!Release(b)
  BY <1>2, <1>3, <1>6, <1>7, Zenon DEF Promise!Release, Released
<1> QED
  BY <1>6, <1>7, <1>8

(* What callers write in their blocks the sets do not show.                *)
LEMMA RefineWrite ==
  ASSUME HeapInv, NEW b \in Addrs, NEW x \in Addrs, Write(b, x)
  PROVE  UNCHANGED Promise!promiseVars
<1>1. /\ Listed(heap') = Listed(heap) /\ heap'.size = heap.size
      /\ mapped' = mapped /\ held' = held /\ up' = up
  BY WriteSound DEF Write
<1>2. /\ {Block(a) : a \in Listed(heap)}' = {Block(a) : a \in Listed(heap)}
      /\ {Block(a) : a \in held}' = {Block(a) : a \in held}
  BY <1>1 DEF Block
<1> QED
  BY <1>1, <1>2 DEF Promise!promiseVars

(* Every call is a step of AbstractHeap, or none.                          *)
LEMMA RefineHeapStep == HeapInv /\ [Next]_vars => [Promise!Next]_(Promise!promiseVars)
<1> SUFFICES ASSUME HeapInv, [Next]_vars PROVE [Promise!Next]_(Promise!promiseVars)
  OBVIOUS
<1>1. CASE UNCHANGED vars
  BY <1>1 DEF vars, Promise!promiseVars, Block
<1>2. CASE InitMyMalloc
  BY <1>2, RefineMap DEF Promise!Next
<1>3. CASE UnInitMyMalloc
  BY <1>3, RefineUnmap DEF Promise!Next
<1>4. ASSUME NEW n \in Sizes, NEW s \in Strategies, MyMalloc(n, s) PROVE Promise!Next
  BY <1>4, RefineAlloc DEF Promise!Next
<1>5. ASSUME NEW x \in Addrs, MyFree(x) PROVE Promise!Next
  BY <1>5, RefineRelease DEF Promise!Next
<1>6. ASSUME NEW b \in Addrs, NEW x \in Addrs, Write(b, x) PROVE UNCHANGED Promise!promiseVars
  BY <1>6, RefineWrite
<1> QED
  BY <1>1, <1>2, <1>3, <1>4, <1>5, <1>6 DEF Next, Crashed, MyMallocFails, MyFreeFails

(* The linked list implements the sets of AbstractHeap.                    *)
THEOREM ImplementsHeap == Spec => ImplementsAbstractHeap
<1>1. Init => Promise!Init
  BY Zeroed DEF Init, Promise!Init
<1> QED
  BY <1>1, RefineHeapStep, HeapInvariant, PTL DEF Spec, ImplementsAbstractHeap, Promise!Spec

=============================================================================
