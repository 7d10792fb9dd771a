------------------------------- MODULE FreeList -------------------------------
(***************************************************************************)
(* The free list of sharedMalloc/src/freeList.c: the four searches, split, *)
(* findPrevNode and coalesceFreeList, as operators on a heap value h with  *)
(*   h.head, h.nextFree     the two fields of FreeList,                    *)
(*   h.size[a], h.next[a]   the fields of the Node at offset a,            *)
(*   h.mark[a]              what MyFree sees of the two others there.      *)
(* Addresses are offsets in the mapping, and a Node may lie at any of them *)
(* (no size is aligned), so new headers and what callers write may cover   *)
(* parts of headers that were left behind.  The size and next that are     *)
(* left behind are not read before they are written again: they are 0 and  *)
(* Null here, as is the next of a block in use.  The magic number and      *)
(* isFreed that are left behind stay until something overwrites them.      *)
(***************************************************************************)
EXTENDS Integers, FiniteSetsExt

CONSTANTS
  Capacity,  \* heapCapacity, the size of the mapping
  Header,    \* sizeof(Node)
  MagicAt,   \* the offsets of magicNumber, behind size and next, and of
  FreedAt,   \* isFreed, the last field, in a Node
  Null       \* NULL

ASSUME HeapAssumption ==
  /\ Capacity \in Nat
  /\ Header \in Nat /\ MagicAt \in Nat /\ FreedAt \in Nat
  /\ 0 < MagicAt /\ MagicAt < FreedAt /\ FreedAt < Header
  /\ Null \notin Int

Addrs == 0 .. Capacity - 1

(* No magic number; the magic number, and isFreed is not 1; or it is.      *)
Marks == {"none", "valid", "freed"}

HeapValue == [head : Addrs \cup {Null}, nextFree : Addrs \cup {Null},
              size : [Addrs -> 0 .. Capacity], next : [Addrs -> Addrs \cup {Null}],
              mark : [Addrs -> Marks]]

(* The offset behind the block of the node at a.                           *)
End(h, a) == a + Header + h.size[a]

Successor(h, a) == IF a = Null THEN Null ELSE h.next[a]

(* The node that is k steps after a, Null once the list has ended.         *)
Walk(h, a) ==
  LET node[k \in Nat] == IF k = 0 THEN a ELSE Successor(h, node[k - 1])
  IN  node

(* No list whose headers do not overlap is longer than this.               *)
Steps == {k \in 0 .. Capacity : k * Header <= Capacity}

Listed(h) == {Walk(h, h.head)[k] : k \in Steps} \ {Null}

-----------------------------------------------------------------------------
(* What a search ends with: the node and its predecessor on the list.      *)
NoFit == [node |-> Null, prev |-> Null]

FromHead(h, k) ==
  [node |-> Walk(h, h.head)[k],
   prev |-> IF k = 0 THEN Null ELSE Walk(h, h.head)[k - 1]]

(* The steps of a walk from a at which there is a block of n bytes.        *)
Fitting(h, a, n) ==
  {k \in Steps : Walk(h, a)[k] # Null /\ h.size[Walk(h, a)[k]] >= n}

(* The first of the smallest blocks that fit.                              *)
BestFit(h, n) ==
  LET fitting == Fitting(h, h.head, n)
      sizeAt(k) == h.size[Walk(h, h.head)[k]]
      smallest == {k \in fitting : \A j \in fitting : sizeAt(k) <= sizeAt(j)}
  IN  IF fitting = {} THEN NoFit ELSE FromHead(h, Min(smallest))

(* The first of the largest blocks.                                        *)
WorstFit(h, n) ==
  LET fitting == Fitting(h, h.head, n)
      sizeAt(k) == h.size[Walk(h, h.head)[k]]
      largest == {k \in fitting : \A j \in fitting : sizeAt(k) >= sizeAt(j)}
  IN  IF fitting = {} THEN NoFit ELSE FromHead(h, Min(largest))

FirstFit(h, n) ==
  IF Fitting(h, h.head, n) = {} THEN NoFit
  ELSE FromHead(h, Min(Fitting(h, h.head, n)))

(* Null also when node is the head, or is not on the list.                 *)
FindPrevNode(h, node) ==
  LET at == {k \in Steps : Walk(h, h.head)[k] = node}
  IN  IF node = Null \/ at = {} THEN Null ELSE FromHead(h, Min(at)).prev

(* Mutant: nextFit gives up at the end of the list.                        *)
NextFit_NoWrap(h, n) ==
  LET ahead == Fitting(h, h.nextFree, n)
      k == Min(ahead)
  IN  IF ahead = {} THEN NoFit
      ELSE [node |-> Walk(h, h.nextFree)[k],
            prev |-> IF k = 0 THEN FindPrevNode(h, h.nextFree)
                              ELSE Walk(h, h.nextFree)[k - 1]]

(* From nextFreeBlock to the end of the list, then from the head up to     *)
(* nextFreeBlock.                                                          *)
NextFit(h, n) ==
  LET ahead == Fitting(h, h.nextFree, n)
      wrapped == {k \in Fitting(h, h.head, n) :
                    \A j \in 0 .. k : Walk(h, h.head)[j] # h.nextFree}
      k == Min(ahead)
  IN  IF ahead # {}
        THEN [node |-> Walk(h, h.nextFree)[k],
              prev |-> IF k = 0 THEN FindPrevNode(h, h.nextFree)
                                ELSE Walk(h, h.nextFree)[k - 1]]
      ELSE IF wrapped # {} THEN FromHead(h, Min(wrapped))
      ELSE NoFit

Strategies == {"BEST_FIT", "WORST_FIT", "FIRST_FIT", "NEXT_FIT"}

(* The switch of MyMalloc.                                                 *)
Search(h, n, strategy) ==
  CASE strategy = "BEST_FIT" -> BestFit(h, n)
    [] strategy = "WORST_FIT" -> WorstFit(h, n)
    [] strategy = "FIRST_FIT" -> FirstFit(h, n)
    [] strategy = "NEXT_FIT" -> NextFit(h, n)
    [] OTHER -> NoFit

-----------------------------------------------------------------------------
(* The marks after the bytes from x up to y were written with other data:  *)
(* a magic number there is gone, and an isFreed there is taken for one     *)
(* that is not 1 any more.                                                 *)
Overwritten(mark, x, y) ==
  LET hits(from, to) == x < to /\ from < y
  IN  [a \in Addrs |->
         IF hits(a + MagicAt, a + FreedAt) THEN "none"
         ELSE IF hits(a + FreedAt, a + Header) /\ mark[a] = "freed" THEN "valid"
         ELSE mark[a]]

(* Mutant: nextFreeBlock is not moved off a block that is given away.      *)
Split_KeepsNextFree(h, found, n) ==
  LET node == found.node
      divides == h.size[node] > n + Header
      rest == node + Header + n
      after == IF divides THEN rest ELSE h.next[node]
      g == IF divides THEN [h EXCEPT !.size[rest] = h.size[node] - n - Header,
                                     !.size[node] = n,
                                     !.next[rest] = h.next[node],
                                     !.mark = Overwritten(@, rest, rest + MagicAt)] ELSE h
  IN  IF found.prev = Null THEN [g EXCEPT !.head = after]
                           ELSE [g EXCEPT !.next[found.prev] = after]

(* Mutant: the header of the remainder is forgotten.                       *)
Split_NoHeader(h, found, n) ==
  LET node == found.node
      divides == h.size[node] > n + Header
      rest == node + Header + n
      after == IF divides THEN rest ELSE h.next[node]
      g == IF divides THEN [h EXCEPT !.size[rest] = h.size[node] - n,
                                     !.size[node] = n,
                                     !.next[rest] = h.next[node],
                                     !.mark = Overwritten(@, rest, rest + MagicAt)] ELSE h
      u == IF found.prev = Null THEN [g EXCEPT !.head = after]
                                ELSE [g EXCEPT !.next[found.prev] = after]
  IN  [u EXCEPT !.nextFree = IF after = Null THEN u.head ELSE after]

(* The node found is taken off the list; if it is larger than n and a      *)
(* header, the remainder takes its place there: a size and a next, written *)
(* over what lay there, but no magic number and no isFreed of its own.     *)
(* Links that are written again later cover what these have covered.       *)
Split(h, found, n) ==
  LET node == found.node
      divides == h.size[node] > n + Header
      rest == node + Header + n
      after == IF divides THEN rest ELSE h.next[node]
      g == IF divides THEN [h EXCEPT !.size[rest] = h.size[node] - n - Header,
                                     !.size[node] = n,
                                     !.next[rest] = h.next[node],
                                     !.mark = Overwritten(@, rest, rest + MagicAt)] ELSE h
      u == IF found.prev = Null THEN [g EXCEPT !.head = after]
                                ELSE [g EXCEPT !.next[found.prev] = after]
  IN  [u EXCEPT !.nextFree = IF after = Null THEN u.head ELSE after]

(* The marks after magicNumber and isFreed = 0 were written at a.          *)
Stamped(mark, a) ==
  [Overwritten(mark, a + MagicAt, a + Header) EXCEPT ![a] = "valid"]

(* Mutant: isFreed is not reset when the block was used before.            *)
GiveAway_StillFreed(h, found, n) ==
  [Split(h, found, n) EXCEPT
     !.mark = IF @[found.node] = "freed" THEN @ ELSE Stamped(@, found.node),
     !.next[found.node] = Null]

(* The end of each search: split, and the magic number and isFreed = 0.    *)
GiveAway(h, found, n) ==
  [Split(h, found, n) EXCEPT !.mark = Stamped(@, found.node),
                             !.next[found.node] = Null]

(* Mutant: the header between the two blocks is lost.                      *)
Absorb_NoHeader(h, b, n) ==
  [h EXCEPT !.size[b] = @ + h.size[n], !.next[b] = h.next[n]]

(* b absorbs the block that follows it.                                    *)
Absorb(h, b, n) ==
  [h EXCEPT !.size[b] = @ + Header + h.size[n], !.next[b] = h.next[n]]

(* Drops the sizes and links of headers that are neither used nor listed.  *)
Forget(h, used) ==
  LET listed == Listed(h)
  IN  [h EXCEPT !.size = [a \in Addrs |-> IF a \in listed \cup used THEN @[a] ELSE 0],
                !.next = [a \in Addrs |-> IF a \in listed THEN @[a] ELSE Null]]

(* The heap after the freed block b is merged with its neighbours on the   *)
(* list, and the pointer that is returned.                                 *)
CoalesceFreeList(h, b, prev, next) ==
  LET meets(x, y) == End(h, x) = y
      joined(heap, merged) == [heap |-> heap, merged |-> merged]
  IN  IF prev = Null
        THEN joined(IF meets(b, next) THEN Absorb(h, b, next) ELSE h, b)
      ELSE IF next = Null
        THEN joined(IF meets(prev, b) THEN Absorb(h, prev, b) ELSE h, prev)
      ELSE IF meets(b, next) /\ meets(prev, b)
        THEN joined(Absorb(Absorb(h, b, next), prev, b), prev)
      ELSE IF meets(b, next) THEN joined(Absorb(h, b, next), prev)
      ELSE IF meets(prev, b) THEN joined(Absorb(h, prev, b), b)
      ELSE joined(h, Null)

=============================================================================
