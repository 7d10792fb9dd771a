------------------------------- MODULE SharedHeap -------------------------------
(***************************************************************************)
(* Several threads, of one process or of several, call MyMalloc and MyFree *)
(* on one heap.  The mutex lies in the heap and is initialised without     *)
(* PTHREAD_PROCESS_SHARED, so it is a private mutex of whoever uses it:    *)
(* glibc locks it with a plain store in a process of one thread, unlocks   *)
(* it there without waking anybody, and wakes only its own process's       *)
(* waiters otherwise.  That is the outcome the build produces for what     *)
(* POSIX leaves undefined.  Between lock and unlock a call first reads the *)
(* heap and then writes it.  What callers write in their blocks is left    *)
(* out here; HeapAllocator has it.                                         *)
(***************************************************************************)
EXTENDS FreeList

CONSTANTS
  FreeListSize, MutexSize, Sizes,
  Mallocs,     \* the calls of MyMalloc that are made
  Threads,
  ProcessOf,   \* the process of each thread
  MaxCalls     \* the number of calls each thread makes

ASSUME SharedAssumption ==
  /\ FreeListSize \in Nat
  /\ MutexSize \in Nat
  /\ Capacity > 3 * Header + FreeListSize + MutexSize
  /\ Sizes \subseteq Nat

ASSUME MallocsAssumption ==
  Mallocs \subseteq [op : {"malloc"}, size : Sizes, strategy : Strategies]

VARIABLES
  mapped, heap, held, up,
  word,        \* the mutex: 0 free, 1 locked, 2 locked and maybe waited for
  born,        \* the threads there are so far
  pc, call, found,
  calls        \* how many calls each thread has begun

threadVars == <<word, born, pc, call, found, calls>>
vars == <<mapped, heap, held, up, threadVars>>

Atomic == INSTANCE HeapAllocator

NoCall == [op |-> "none"]

FreeNull == [op |-> "free", block |-> Null]

Frees == {[op |-> "free", block |-> b] : b \in held}

PC == {"idle", "lock", "store", "contend", "futex_wait", "asleep", "search",
       "update", "unlock", "wake"}

Init ==
  /\ Atomic!Init
  /\ word = 0
  /\ born = {}
  /\ pc = [t \in Threads |-> "idle"]
  /\ call = [t \in Threads |-> NoCall]
  /\ found = [t \in Threads |-> NoFit]
  /\ calls = [t \in Threads |-> 0]

(* By the first process, before it forks others.                           *)
InitMyMalloc == Atomic!InitMyMalloc /\ UNCHANGED threadVars

Siblings(t) == {s \in born : ProcessOf[s] = ProcessOf[t]}

(* The first thread of a process comes with the process, the others are    *)
(* created by one that is not in a call at that time.                      *)
Begin(t) ==
  /\ up
  /\ mapped
  /\ t \notin born
  /\ Siblings(t) = {} \/ \E s \in Siblings(t) : pc[s] = "idle"
  /\ born' = born \cup {t}
  /\ UNCHANGED <<mapped, heap, held, up, word, pc, call, found, calls>>

Step(t, from, to) ==
  /\ up
  /\ pc[t] = from
  /\ pc' = [pc EXCEPT ![t] = to]

(* A caller frees what it or another caller holds, once, or passes NULL.   *)
Call(t) ==
  /\ t \in born
  /\ calls[t] < MaxCalls
  /\ Step(t, "idle", "lock")
  /\ calls' = [calls EXCEPT ![t] = @ + 1]
  /\ \E c \in Mallocs \cup (Frees \ {call[s] : s \in Threads}) \cup {FreeNull} :
       call' = [call EXCEPT ![t] = c]
  /\ UNCHANGED <<mapped, heap, held, up, word, born, found>>

-----------------------------------------------------------------------------
(* pthread_mutex_lock and pthread_mutex_unlock.                            *)
SingleThreaded(t) == Siblings(t) \subseteq {t}

Lock(t) ==
  /\ IF word # 0 THEN Step(t, "lock", "contend") /\ UNCHANGED word
     ELSE IF SingleThreaded(t) THEN Step(t, "lock", "store") /\ UNCHANGED word
     ELSE Step(t, "lock", "search") /\ word' = 1
  /\ UNCHANGED <<mapped, heap, held, up, born, call, found, calls>>

Store(t) ==
  /\ Step(t, "store", "search")
  /\ word' = 1
  /\ UNCHANGED <<mapped, heap, held, up, born, call, found, calls>>

Contend(t) ==
  /\ Step(t, "contend", IF word = 0 THEN "search" ELSE "futex_wait")
  /\ word' = 2
  /\ UNCHANGED <<mapped, heap, held, up, born, call, found, calls>>

FutexWait(t) ==
  /\ Step(t, "futex_wait", IF word = 2 THEN "asleep" ELSE "contend")
  /\ UNCHANGED <<mapped, heap, held, up, word, born, call, found, calls>>

(* The caller has its result when unlock is done with the word.            *)
Unlock(t) ==
  /\ Step(t, "unlock", IF word = 2 /\ ~ SingleThreaded(t) THEN "wake" ELSE "idle")
  /\ word' = 0
  /\ call' = [call EXCEPT ![t] = NoCall]
  /\ found' = [found EXCEPT ![t] = NoFit]
  /\ UNCHANGED <<mapped, heap, held, up, born, calls>>

Wake(t) ==
  LET sleepers == {s \in Threads : pc[s] = "asleep" /\ ProcessOf[s] = ProcessOf[t]}
  IN  /\ up
      /\ pc[t] = "wake"
      /\ IF sleepers = {} THEN pc' = [pc EXCEPT ![t] = "idle"]
         ELSE \E s \in sleepers : pc' = [pc EXCEPT ![t] = "idle", ![s] = "contend"]
      /\ UNCHANGED <<mapped, heap, held, up, word, born, call, found, calls>>

-----------------------------------------------------------------------------
(* What the search of the strategy, or the loop of MyFree, finds.          *)
WhatIsThere(t) ==
  IF call[t].op = "malloc" THEN Search(heap, call[t].size, call[t].strategy)
                           ELSE Atomic!StopsAt(call[t].block)

Refused(t) == call[t].op = "free" /\ ~ Atomic!Accepts(call[t].block)

(* Mutant: MyFree returns from its checks without unlocking.               *)
Refuse_KeepsLock(t) ==
  /\ Refused(t)
  /\ Step(t, "search", "idle")
  /\ call' = [call EXCEPT ![t] = NoCall]
  /\ UNCHANGED <<mapped, heap, held, up, word, born, found, calls>>

(* MyFree refuses its pointer: it goes on to unlock, and returns -1.       *)
Refuse(t) ==
  /\ Refused(t)
  /\ Step(t, "search", "unlock")
  /\ UNCHANGED <<mapped, heap, held, up, word, born, call, found, calls>>

(* Mutant: the mutex is released before the heap is written.               *)
Read_Unlocks(t) ==
  /\ ~ Refused(t)
  /\ Step(t, "search", "update")
  /\ word' = 0
  /\ found' = [found EXCEPT ![t] = WhatIsThere(t)]
  /\ UNCHANGED <<mapped, heap, held, up, born, call, calls>>

(* The call reads.                                                         *)
Read(t) ==
  /\ ~ Refused(t)
  /\ Step(t, "search", "update")
  /\ found' = [found EXCEPT ![t] = WhatIsThere(t)]
  /\ UNCHANGED <<mapped, heap, held, up, word, born, call, calls>>

(* The call writes, with what it has read.                                 *)
UpdateMalloc(t) ==
  /\ call[t].op = "malloc"
  /\ Step(t, "update", "unlock")
  /\ IF found[t].node = Null THEN UNCHANGED <<heap, held>>
     ELSE /\ heap' = GiveAway(heap, found[t], call[t].size)
          /\ held' = held \cup {found[t].node}
  /\ UNCHANGED <<mapped, up, word, born, call, found, calls>>

UpdateFree(t) ==
  LET inserted == Atomic!Insert(call[t].block, found[t])
  IN  /\ call[t].op = "free"
      /\ up
      /\ pc[t] = "update"
      /\ pc' = [pc EXCEPT ![t] = "unlock"]
      /\ heap' = inserted.heap
      /\ up' = ~ inserted.crash
      /\ held' = held \ {call[t].block}
      /\ UNCHANGED <<mapped, word, born, call, found, calls>>

(* All the calls are made, or the program has crashed.                     *)
Stopped ==
  /\ ~ up \/ \A t \in Threads : pc[t] = "idle" /\ calls[t] = MaxCalls
  /\ UNCHANGED vars

Proceed(t) ==
  \/ Lock(t) \/ Store(t) \/ Contend(t) \/ FutexWait(t)
  \/ Refuse(t) \/ Read(t) \/ UpdateMalloc(t) \/ UpdateFree(t) \/ Unlock(t) \/ Wake(t)

Next ==
  \/ InitMyMalloc
  \/ \E t \in Threads : Begin(t) \/ Call(t) \/ Proceed(t)
  \/ Stopped

Spec == Init /\ [][Next]_vars

(* The scheduler runs every thread that can run.                           *)
FairSpec == Spec /\ \A t \in Threads : WF_vars(Proceed(t))

-----------------------------------------------------------------------------
Locked(t) == pc[t] \in {"search", "update", "unlock"}

(* README.md: "myMalloc and myFree functions are thread safe".  Of the     *)
(* threads of one process, which is all this is stated for, never two are  *)
(* between lock and unlock.  In threads of different processes it is       *)
(* false: two lone threads may both be in Store.                           *)
Exclusion == \A s, t \in Threads : Locked(s) /\ Locked(t) => s = t

(* What a call writes rests on what it has read: the block it has found,   *)
(* and the block before, are still what it would find when it writes.      *)
NothingStale == \A t \in Threads : pc[t] = "update" => found[t] = WhatIsThere(t)

(* The calls of all threads together are those of a heap used by one       *)
(* caller at a time.                                                       *)
ImplementsHeapAllocator == Atomic!Spec

(* A call returns, unless the program crashes, also one whose pointer is   *)
(* refused: every way out of MyFree unlocks, and no waiter is forgotten.   *)
EveryCallReturns == \A t \in Threads : pc[t] # "idle" ~> (pc[t] = "idle" \/ ~ up)

=============================================================================
