------------------------------ MODULE AbstractHeap ------------------------------
(***************************************************************************)
(* What sharedMalloc promises, without headers, marks or a linked list: a  *)
(* set of free blocks and a set of live ones, each an offset and a size.   *)
(* An allocation takes a free block that is large enough; a release gives  *)
(* one back, and may merge it with free blocks next to it.                 *)
(***************************************************************************)
EXTENDS Integers

CONSTANTS
  Capacity, Header,
  First,       \* the offset of the first block for callers
  Sizes

VARIABLES
  mapped,      \* there is a heap
  free, live,  \* the two sets of blocks
  alive        \* FALSE once the program has crashed

promiseVars == <<mapped, free, live, alive>>

Behind(b) == b.addr + Header + b.size

(* The whole block where the rest is too small for a block of its own.     *)
Cut(b, n) == IF b.size > n + Header THEN n ELSE b.size

Rest(b, n) ==
  {[addr |-> b.addr + Header + n, size |-> b.size - n - Header] :
     x \in {y \in {b} : b.size > n + Header}}

Init ==
  /\ mapped = FALSE
  /\ free = {}
  /\ live = {}
  /\ alive = TRUE

Map ==
  /\ alive
  /\ ~ mapped
  /\ mapped' = TRUE
  /\ free' = {[addr |-> First, size |-> Capacity - First - Header]}
  /\ UNCHANGED <<live, alive>>

(* Any block that is large enough, whole or cut.                           *)
Alloc(b, n) ==
  /\ alive
  /\ mapped
  /\ b.size >= n
  /\ free' = (free \ {b}) \cup Rest(b, n)
  /\ live' = live \cup {[b EXCEPT !.size = Cut(b, n)]}
  /\ UNCHANGED <<mapped, alive>>

(* The block is merged with none, one or both of its neighbours; the call  *)
(* may end the program.                                                    *)
Release(b) ==
  /\ alive
  /\ mapped
  /\ live' = live \ {b}
  /\ \E merged \in SUBSET {c \in free : Behind(c) = b.addr \/ Behind(b) = c.addr} :
       LET from == CHOOSE a \in {c.addr : c \in merged \cup {b}} :
                     \A c \in merged \cup {b} : a <= c.addr
           to == CHOOSE e \in {Behind(c) : c \in merged \cup {b}} :
                   \A c \in merged \cup {b} : Behind(c) <= e
       IN  free' = (free \ merged) \cup {[addr |-> from, size |-> to - from - Header]}
  /\ alive' \in BOOLEAN
  /\ UNCHANGED mapped

Unmap ==
  /\ alive
  /\ mapped
  /\ mapped' = FALSE
  /\ free' = {}
  /\ live' = {}
  /\ UNCHANGED alive

Next ==
  \/ Map \/ Unmap
  \/ \E b \in free, n \in Sizes : Alloc(b, n)
  \/ \E b \in live : Release(b)

Spec == Init /\ [][Next]_promiseVars

=============================================================================
