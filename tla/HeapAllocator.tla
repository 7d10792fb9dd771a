----------------------------- MODULE HeapAllocator -----------------------------
(***************************************************************************)
(* sharedMalloc/src/heapAllocator.c as its callers see it: InitMyMalloc,   *)
(* MyMalloc, MyFree and unInitMyMalloc, each one step because it holds the *)
(* mutex throughout (SharedHeap looks at the mutex).  Callers write where  *)
(* they like in the blocks they were given, but forge no Node there.  They *)
(* free what they hold, or pass MyFree a pointer that it refuses; one that *)
(* it would wrongly accept is not passed to it.  DumpFreeList changes      *)
(* nothing and is left out.                                                *)
(***************************************************************************)
EXTENDS FreeList

CONSTANTS
  FreeListSize,  \* sizeof(FreeList)
  MutexSize,     \* sizeof(pthread_mutex_t)
  Sizes          \* the sizes callers ask for

ASSUME AllocatorAssumption ==
  /\ FreeListSize \in Nat
  /\ MutexSize \in Nat
  /\ Capacity > 3 * Header + FreeListSize + MutexSize
  /\ Sizes \subseteq Nat

VARIABLES
  mapped,  \* heapBlockHeader is not NULL
  heap,    \* the mapping, a HeapValue
  held,    \* the blocks handed out to callers and not freed
  up       \* FALSE once a NULL pointer was followed

vars == <<mapped, heap, held, up>>

(* The two blocks that InitMyMalloc takes for itself, at fixed offsets.    *)
Internal == {0, Header + FreeListSize}

First == 2 * Header + FreeListSize + MutexSize

(* The pages mmap returns.                                                 *)
ZeroPages ==
  [head |-> Null, nextFree |-> Null, size |-> [a \in Addrs |-> 0],
   next |-> [a \in Addrs |-> Null], mark |-> [a \in Addrs |-> "none"]]

OneNode ==
  [ZeroPages EXCEPT !.head = 0, !.nextFree = 0, !.size[0] = Capacity - Header]

Init ==
  /\ mapped = FALSE
  /\ heap = ZeroPages
  /\ held = {}
  /\ up = TRUE

-----------------------------------------------------------------------------
(* One node over all the pages; the shared FreeList and the mutex are the  *)
(* first two blocks taken from it.                                         *)
InitMyMalloc ==
  /\ up
  /\ ~ mapped
  /\ mapped' = TRUE
  /\ LET g == GiveAway(OneNode, FirstFit(OneNode, FreeListSize), FreeListSize)
     IN  heap' = GiveAway(g, FirstFit(g, MutexSize), MutexSize)
  /\ UNCHANGED <<held, up>>

(* The search succeeds: the caller gets the block.                         *)
MyMalloc(n, strategy) ==
  LET found == Search(heap, n, strategy)
  IN  /\ up
      /\ mapped
      /\ found.node # Null
      /\ heap' = GiveAway(heap, found, n)
      /\ held' = held \cup {found.node}
      /\ UNCHANGED <<mapped, up>>

(* MyMalloc returns NULL.                                                  *)
MyMallocFails ==
  /\ up
  /\ mapped => ~ \A n \in Sizes, s \in Strategies : Search(heap, n, s).node # Null
  /\ UNCHANGED vars

(* Mutant: MyFree puts every block at the front of the list.               *)
StopsAt_First(b) == IF heap.head = Null THEN NoFit ELSE FromHead(heap, 0)

(* Where the loop of MyFree stops for the block b, and the node before:    *)
(* at the first node above b, or else at the last node.                    *)
StopsAt(b) ==
  LET stops == {k \in Steps : LET node == Walk(heap, heap.head)[k]
                              IN  node # Null /\ (node > b \/ heap.next[node] = Null)}
  IN  IF heap.head = Null THEN NoFit ELSE FromHead(heap, Min(stops))

(* The checks of MyFree on the pointer behind the header at b.             *)
Accepts(b) == b \in Addrs /\ heap.mark[b] = "valid"

(* Mutant: isFreed is not set.                                             *)
Insert_KeepsMark(b, stop) ==
  LET linked == IF stop.prev = Null
                  THEN [heap EXCEPT !.next[b] = heap.head, !.head = b]
                  ELSE [heap EXCEPT !.next[stop.prev] = b, !.next[b] = stop.node]
      c == CoalesceFreeList(linked, b, stop.prev, stop.node)
  IN  [heap |-> Forget(IF heap.head = Null THEN linked ELSE c.heap,
                       Internal \cup (held \ {b})),
       crash |-> FALSE]

(* MyFree after its checks and its loop, with what it does when it follows *)
(* the pointer that coalesceFreeList returned.                             *)
Insert(b, stop) ==
  LET h == [heap EXCEPT !.mark[b] = "freed"]
      linked == IF stop.prev = Null
                  THEN [h EXCEPT !.next[b] = h.head, !.head = b]
                  ELSE [h EXCEPT !.next[stop.prev] = b, !.next[b] = stop.node]
      c == CoalesceFreeList(linked, b, stop.prev, stop.node)
      follows == stop.node = h.nextFree
      moves == follows /\ c.merged # Null /\ c.heap.next[c.merged] # stop.node
  IN  IF h.head = Null
        THEN [heap |-> linked, crash |-> FALSE]
        ELSE [heap |-> Forget(IF moves THEN [c.heap EXCEPT !.nextFree = c.merged]
                                       ELSE c.heap,
                              Internal \cup (held \ {b})),
              crash |-> follows /\ c.merged = Null]

MyFree(b) ==
  /\ up
  /\ mapped
  /\ b \in held
  /\ Accepts(b)
  /\ LET inserted == Insert(b, StopsAt(b))
     IN  heap' = inserted.heap /\ up' = ~ inserted.crash
  /\ held' = held \ {b}
  /\ UNCHANGED mapped

(* MyFree returns -1.                                                      *)
MyFreeFails ==
  /\ up
  /\ mapped => {b \in Addrs \cup {Null} : ~ Accepts(b)} # {}
  /\ UNCHANGED vars

(* A caller writes a byte of a block it was given.                         *)
Write(b, x) ==
  /\ up
  /\ mapped
  /\ b \in held
  /\ b + Header <= x /\ x < End(heap, b)
  /\ heap' = [heap EXCEPT !.mark = Overwritten(@, x, x + 1)]
  /\ UNCHANGED <<mapped, held, up>>

UnInitMyMalloc ==
  /\ up
  /\ mapped
  /\ mapped' = FALSE
  /\ heap' = ZeroPages
  /\ held' = {}
  /\ UNCHANGED up

Crashed == ~ up /\ UNCHANGED vars

Next ==
  \/ InitMyMalloc \/ UnInitMyMalloc \/ Crashed
  \/ \E n \in Sizes, s \in Strategies : MyMalloc(n, s)
  \/ \E b \in Addrs : MyFree(b)
  \/ \E b, x \in Addrs : Write(b, x)
  \/ MyMallocFails \/ MyFreeFails

Spec == Init /\ [][Next]_vars

-----------------------------------------------------------------------------
TypeOK ==
  /\ mapped \in BOOLEAN
  /\ heap \in HeapValue
  /\ held \subseteq Addrs
  /\ up \in BOOLEAN

Chunks == Internal \cup held \cup Listed(heap)

(* Blocks in use and free blocks tile the mapping: none overlap, so no two *)
(* callers share a byte and no header lies in a caller's block, and        *)
(* nothing between them is lost, however blocks were split and merged.     *)
Tiled ==
  mapped => /\ Internal \cap Listed(heap) = {} /\ held \cap (Internal \cup Listed(heap)) = {}
            /\ \A c, d \in Chunks : c < d => End(heap, c) <= d
            /\ \A c \in Chunks : End(heap, c) \in Chunks \cup {Capacity}

(* The list ends, and nextFreeBlock is a node of it, or NULL.              *)
ListSound ==
  /\ \E k \in Steps : Walk(heap, heap.head)[k] = Null
  /\ heap.nextFree \in Listed(heap) \cup {Null}

(* MyFree takes back every block in use: neither a remainder that is cut   *)
(* from a block, nor a header left behind at the same place or at one that *)
(* overlaps, nor what callers write spoils the mark of another block.      *)
InUseAccepted ==
  mapped => \A b \in Internal \cup held : Accepts(b)

(* MyFree compares a block only with its neighbours on the list, and puts  *)
(* it before the last node even if it is the highest.  The disorder does   *)
(* not spread: all nodes but the last one are in the order of their        *)
(* addresses, and no two of them are adjacent; a pair of blocks that is    *)
(* left unmerged is always one with the last node.                         *)
OrderedUpToLast ==
  mapped => LET node == Walk(heap, heap.head)
            IN  \A j, k \in Steps :
                  j < k /\ node[k] # Null /\ heap.next[node[k]] # Null
                    => End(heap, node[j]) < node[k]

(* Under each strategy MyMalloc fails only if no free block is as large as *)
(* was asked for, it unlinks the block from its true predecessor, and the  *)
(* best and worst fit are that among all blocks wherever they are listed.  *)
SearchComplete ==
  mapped => \A n \in Sizes, s \in Strategies :
    LET found == Search(heap, n, s)
        fitting == {b \in Listed(heap) : heap.size[b] >= n}
    IN  /\ found.node = Null <=> fitting = {}
        /\ found.node # Null =>
             /\ IF found.prev = Null THEN found.node = heap.head
                ELSE found.prev \in Listed(heap) /\ heap.next[found.prev] = found.node
             /\ \A b \in fitting :
                  /\ s = "BEST_FIT" => heap.size[found.node] <= heap.size[b]
                  /\ s = "WORST_FIT" => heap.size[found.node] >= heap.size[b]

(* main.c, invalidPointerTest: a pointer that was just freed is refused,   *)
(* and one that is refused stays so while its block is on the free list,   *)
(* whatever is cut, merged and written around it.  (Not for longer: where  *)
(* the block was merged, its header is a place like any other.)            *)
DoubleFreeRefused ==
  [][LET freed == held \ held'
         waiting == {b \in Listed(heap) : ~ Accepts(b)} \cap Listed(heap)'
     IN  \A b \in freed \cup waiting : ~ Accepts(b)']_vars

-----------------------------------------------------------------------------
Block(a) == [addr |-> a, size |-> heap.size[a]]

Promise == INSTANCE AbstractHeap
             WITH free <- {Block(a) : a \in Listed(heap)},
                  live <- {Block(a) : a \in held},
                  alive <- up

(* The linked list implements a set of free blocks and a set of blocks in  *)
(* use: a call moves one block between them, cut or merged, and touches no *)
(* other.                                                                  *)
ImplementsAbstractHeap == Promise!Spec

(* heapAllocator.c, MyFree: "Returns 0 if the memory block is successfully *)
(* freed, -1 otherwise".                                                   *)
FreeReturns == up

=============================================================================
