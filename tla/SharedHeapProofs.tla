---------------------------- MODULE SharedHeapProofs ----------------------------
(***************************************************************************)
(* Proofs about SharedHeap, for any number of threads and any heap: the    *)
(* mutex excludes the threads of one process from each other, and what a   *)
(* call has read is still true when it writes.  Both rest on the threads   *)
(* being of one process; glibc's private mutex excludes no others.         *)
(***************************************************************************)
EXTENDS SharedHeap, TLAPS

OneProcessOnly == \A s, t \in Threads : ProcessOf[s] = ProcessOf[t]

(* Before there is a heap there are no threads that use it.                *)
ThreadsTyped ==
  /\ born \subseteq Threads
  /\ ~ mapped => born = {}
  /\ pc \in [Threads -> PC]
  /\ found \in [Threads -> {found[t] : t \in Threads}]
  /\ call \in [Threads -> {call[t] : t \in Threads}]
  /\ \A t \in Threads : pc[t] # "idle" => t \in born

(* The word is not 0 while a thread is between lock and unlock; a thread   *)
(* that is about to store 1 into it without an atomic instruction is the   *)
(* only one there is.                                                      *)
WordInv ==
  /\ \A t \in Threads : Locked(t) => word # 0
  /\ \A t \in Threads : pc[t] = "store" => word = 0 /\ born = {t}

MutexInv == ThreadsTyped /\ WordInv /\ Exclusion /\ NothingStale

(* In one process the siblings of a thread are all the threads.            *)
LEMMA OneFamily ==
  ASSUME OneProcessOnly, ThreadsTyped, NEW t \in Threads
  PROVE  Siblings(t) = born
BY DEF OneProcessOnly, ThreadsTyped, Siblings

(* What a thread finds depends on the heap and its own call only.          *)
LEMMA SameFind ==
  ASSUME UNCHANGED heap, NEW t \in Threads, call'[t] = call[t]
  PROVE  WhatIsThere(t)' = WhatIsThere(t)
BY DEF WhatIsThere, Atomic!StopsAt

(* At first there are no threads that use the heap.                        *)
LEMMA MutexInit == Init => MutexInv
BY DEF Init, MutexInv, ThreadsTyped, WordInv, Exclusion, NothingStale, Locked, PC, Atomic!Init

-----------------------------------------------------------------------------
(* A step of one thread between two places that leaves the heap and the    *)
(* calls of the others alone preserves what the others have found.         *)
LEMMA OthersKeep ==
  ASSUME MutexInv, NEW t \in Threads, NEW to \in PC, UNCHANGED heap,
         pc' = [pc EXCEPT ![t] = to],
         \A s \in Threads \ {t} : call'[s] = call[s] /\ found'[s] = found[s],
         to = "update" => found'[t] = WhatIsThere(t)'
  PROVE  NothingStale'
<1> SUFFICES ASSUME NEW s \in Threads, pc'[s] = "update" PROVE found'[s] = WhatIsThere(s)'
  BY DEF NothingStale
<1>1. CASE s = t
  BY <1>1 DEF MutexInv, ThreadsTyped
<1>2. CASE s # t
  <2>1. pc[s] = "update" /\ call'[s] = call[s] /\ found'[s] = found[s]
    BY <1>2 DEF MutexInv, ThreadsTyped
  <2> QED
    BY <2>1, SameFind DEF MutexInv, NothingStale
<1> QED
  BY <1>1, <1>2

(* A step outside the mutex: nobody locks or unlocks.                      *)
LEMMA Outside ==
  ASSUME MutexInv, NEW t \in Threads, NEW to \in {"idle", "lock", "contend", "futex_wait", "asleep"},
         t \in born, ~ Locked(t), pc' = [pc EXCEPT ![t] = to],
         UNCHANGED <<mapped, heap, word, born, found>>,
         call' \in [Threads -> {call'[s] : s \in Threads}],
         \A s \in Threads \ {t} : call'[s] = call[s]
  PROVE  MutexInv'
<1>1. to \in PC /\ to \notin {"search", "update", "unlock", "store"}
  BY DEF PC
<1>2. ThreadsTyped'
  BY <1>1 DEF MutexInv, ThreadsTyped
<1>3. WordInv' /\ Exclusion'
  BY <1>1 DEF MutexInv, ThreadsTyped, WordInv, Exclusion, Locked
<1>4. NothingStale'
  BY <1>1, OthersKeep
<1> QED
  BY <1>2, <1>3, <1>4 DEF MutexInv

(* The heap appears before there are threads, and a thread is created when *)
(* none of its process is about to store into the word.                    *)
LEMMA InvBegin ==
  ASSUME OneProcessOnly, MutexInv, InitMyMalloc \/ \E t \in Threads : Begin(t)
  PROVE  MutexInv'
<1>1. CASE InitMyMalloc
  <2>1. UNCHANGED threadVars /\ born = {}
    BY <1>1 DEF InitMyMalloc, Atomic!InitMyMalloc, MutexInv, ThreadsTyped
  <2>2. \A t \in Threads : pc[t] = "idle"
    BY <2>1 DEF MutexInv, ThreadsTyped
  <2> QED
    BY <2>1, <2>2 DEF threadVars, MutexInv, ThreadsTyped, WordInv, Exclusion, NothingStale, Locked
<1>2. ASSUME NEW t \in Threads, Begin(t) PROVE MutexInv'
  <2>1. /\ t \notin born /\ born' = born \cup {t} /\ mapped /\ mapped' = mapped
        /\ born = {} \/ \E s \in born : pc[s] = "idle"
        /\ UNCHANGED <<heap, word, pc, call, found>>
    BY <1>2, OneFamily DEF Begin, MutexInv
  <2>2. \A s \in Threads : pc[s] # "store"
    BY <2>1 DEF MutexInv, ThreadsTyped, WordInv
  <2>3. NothingStale'
    BY <2>1, SameFind DEF MutexInv, NothingStale
  <2>4. ThreadsTyped'
    BY <2>1 DEF MutexInv, ThreadsTyped
  <2>5. WordInv' /\ Exclusion'
    BY <2>1, <2>2 DEF MutexInv, WordInv, Exclusion, Locked
  <2> QED
    BY <2>3, <2>4, <2>5 DEF MutexInv
<1> QED
  BY <1>1, <1>2

(* A call begins outside the mutex.                                        *)
LEMMA InvCall ==
  ASSUME MutexInv, NEW t \in Threads, Call(t)
  PROVE  MutexInv'
<1>1. /\ pc[t] = "idle" /\ pc' = [pc EXCEPT ![t] = "lock"] /\ t \in born
      /\ UNCHANGED <<mapped, heap, word, born, found>>
  BY DEF Call, Step
<1>2. PICK c : call' = [call EXCEPT ![t] = c]
  BY DEF Call
<1>3. /\ call' \in [Threads -> {call'[s] : s \in Threads}]
      /\ \A s \in Threads \ {t} : call'[s] = call[s]
  BY <1>2 DEF MutexInv, ThreadsTyped
<1> QED
  BY <1>1, <1>3, Outside DEF Locked

(* A thread gets the mutex only if the word is 0, and so nobody has it.    *)
LEMMA InvAcquire ==
  ASSUME OneProcessOnly, MutexInv, NEW t \in Threads, Lock(t) \/ Store(t) \/ Contend(t)
  PROVE  MutexInv'
<1>1. /\ t \in born /\ UNCHANGED <<mapped, heap, born, call, found>>
      /\ pc[t] \in {"lock", "store", "contend"}
  BY DEF Lock, Store, Contend, Step, MutexInv, ThreadsTyped
<1>2. ~ Locked(t) /\ (SingleThreaded(t) => born = {t})
  BY <1>1, OneFamily DEF Locked, SingleThreaded, MutexInv
<1>3. ASSUME word = 0, pc' = [pc EXCEPT ![t] = "search"], word' # 0 PROVE MutexInv'
  <2>1. \A s \in Threads : ~ Locked(s)
    BY <1>3 DEF MutexInv, WordInv
  <2>2. \A s \in Threads : pc'[s] # "store"
    BY <1>1, <1>3 DEF MutexInv, ThreadsTyped, WordInv
  <2>3. ThreadsTyped'
    BY <1>1, <1>3 DEF MutexInv, ThreadsTyped, PC
  <2>4. WordInv' /\ Exclusion'
    BY <1>3, <2>1, <2>2 DEF MutexInv, ThreadsTyped, WordInv, Exclusion, Locked
  <2>5. NothingStale'
    BY <1>1, <1>3, OthersKeep DEF PC
  <2> QED
    BY <2>3, <2>4, <2>5 DEF MutexInv
<1>4. CASE Lock(t) /\ word # 0
  <2>1. pc' = [pc EXCEPT ![t] = "contend"] /\ word' = word
    BY <1>4 DEF Lock, Step
  <2> QED
    BY <1>1, <1>2, <2>1, Outside DEF MutexInv, ThreadsTyped
<1>5. CASE Lock(t) /\ word = 0 /\ SingleThreaded(t)
  <2>1. pc' = [pc EXCEPT ![t] = "store"] /\ word' = 0 /\ born = {t}
    BY <1>2, <1>5 DEF Lock, Step
  <2>2. ThreadsTyped'
    BY <1>1, <2>1 DEF MutexInv, ThreadsTyped, PC
  <2>3. WordInv' /\ Exclusion'
    BY <1>1, <1>5, <2>1 DEF MutexInv, ThreadsTyped, WordInv, Exclusion, Locked
  <2>4. NothingStale'
    BY <1>1, <2>1, OthersKeep DEF PC
  <2> QED
    BY <2>2, <2>3, <2>4 DEF MutexInv
<1>6. CASE Lock(t) /\ word = 0 /\ ~ SingleThreaded(t)
  BY <1>3, <1>6 DEF Lock, Step
<1>7. CASE Store(t)
  <2>1. pc[t] = "store" /\ pc' = [pc EXCEPT ![t] = "search"] /\ word' = 1
    BY <1>7 DEF Store, Step
  <2> QED
    BY <1>3, <2>1 DEF MutexInv, WordInv
<1>8. CASE Contend(t) /\ word = 0
  BY <1>3, <1>8 DEF Contend, Step
<1>9. CASE Contend(t) /\ word # 0
  <2>1. pc' = [pc EXCEPT ![t] = "futex_wait"] /\ word' = 2 /\ pc[t] = "contend"
    BY <1>9 DEF Contend, Step
  <2>2. ThreadsTyped'
    BY <1>1, <2>1 DEF MutexInv, ThreadsTyped, PC
  <2>3. WordInv' /\ Exclusion'
    <3>1. \A s \in Threads : (Locked(s)' <=> Locked(s)) /\ (pc'[s] = "store" => pc[s] = "store")
      BY <2>1 DEF MutexInv, ThreadsTyped, Locked
    <3>2. \A s \in Threads : pc[s] # "store"
      BY <1>9 DEF MutexInv, WordInv
    <3> QED
      BY <2>1, <3>1, <3>2 DEF MutexInv, WordInv, Exclusion
  <2>4. NothingStale'
    BY <1>1, <2>1, OthersKeep DEF PC
  <2> QED
    BY <2>2, <2>3, <2>4 DEF MutexInv
<1> QED
  BY <1>4, <1>5, <1>6, <1>7, <1>8, <1>9

(* Going to sleep, and waking another thread up.                           *)
LEMMA InvWait ==
  ASSUME MutexInv, NEW t \in Threads, FutexWait(t) \/ Wake(t)
  PROVE  MutexInv'
<1>1. /\ t \in born /\ UNCHANGED <<mapped, heap, word, born, call, found>>
      /\ pc[t] \in {"futex_wait", "wake"} /\ pc \in [Threads -> PC]
  BY DEF FutexWait, Wake, Step, MutexInv, ThreadsTyped
<1>2. CASE FutexWait(t)
  <2>1. PICK to \in {"asleep", "contend"} : pc' = [pc EXCEPT ![t] = to]
    BY <1>2 DEF FutexWait, Step
  <2> QED
    BY <1>1, <2>1, Outside DEF Locked, MutexInv, ThreadsTyped
<1>3. CASE Wake(t)
  <2>1. \A s \in Threads : pc'[s] = pc[s] \/ (pc'[s] \in {"idle", "contend"} /\ ~ Locked(s) /\ s \in born)
    BY <1>1, <1>3 DEF Wake, Locked, MutexInv, ThreadsTyped
  <2>2. pc' \in [Threads -> PC]
    BY <1>1, <1>3 DEF Wake, PC
  <2>3. ThreadsTyped'
    BY <1>1, <2>1, <2>2 DEF MutexInv, ThreadsTyped
  <2>4. WordInv' /\ Exclusion'
    BY <1>1, <2>1 DEF MutexInv, WordInv, Exclusion, Locked
  <2>5. NothingStale'
    BY <1>1, <2>1, SameFind DEF MutexInv, NothingStale
  <2> QED
    BY <2>3, <2>4, <2>5 DEF MutexInv
<1> QED
  BY <1>2, <1>3

-----------------------------------------------------------------------------
(* The steps of the thread that has the mutex.  The others have found      *)
(* nothing yet that they would write.                                      *)
LEMMA Holder ==
  ASSUME MutexInv, NEW t \in Threads, Locked(t)
  PROVE  /\ t \in born /\ word # 0 /\ pc \in [Threads -> PC]
         /\ \A s \in Threads \ {t} : ~ Locked(s)
         /\ \A s \in Threads : pc[s] # "store"
BY DEF MutexInv, ThreadsTyped, WordInv, Exclusion, Locked

(* The thread that reads keeps what it finds.                              *)
LEMMA InvRead ==
  ASSUME MutexInv, NEW t \in Threads, Read(t)
  PROVE  MutexInv'
<1>1. /\ pc[t] = "search" /\ pc' = [pc EXCEPT ![t] = "update"]
      /\ found' = [found EXCEPT ![t] = WhatIsThere(t)]
      /\ UNCHANGED <<mapped, heap, word, born, call>>
  BY DEF Read, Step
<1>2. ThreadsTyped'
  BY <1>1 DEF MutexInv, ThreadsTyped, PC
<1>3. WordInv' /\ Exclusion'
  BY <1>1 DEF MutexInv, ThreadsTyped, WordInv, Exclusion, Locked
<1>4. NothingStale'
  <2>1. found'[t] = WhatIsThere(t)'
    BY <1>1, SameFind DEF MutexInv, ThreadsTyped
  <2>2. \A s \in Threads \ {t} : found'[s] = found[s]
    BY <1>1 DEF MutexInv, ThreadsTyped
  <2> QED
    BY <1>1, <2>1, <2>2, OthersKeep DEF PC
<1> QED
  BY <1>2, <1>3, <1>4 DEF MutexInv

(* A thread whose pointer is refused has found nothing.                    *)
LEMMA InvRefuse ==
  ASSUME MutexInv, NEW t \in Threads, Refuse(t)
  PROVE  MutexInv'
<1>1. /\ pc[t] = "search" /\ pc' = [pc EXCEPT ![t] = "unlock"]
      /\ UNCHANGED <<mapped, heap, word, born, call, found>>
  BY DEF Refuse, Step
<1>2. ThreadsTyped'
  BY <1>1 DEF MutexInv, ThreadsTyped, PC
<1>3. WordInv' /\ Exclusion'
  BY <1>1 DEF MutexInv, ThreadsTyped, WordInv, Exclusion, Locked
<1>4. NothingStale'
  BY <1>1, OthersKeep DEF PC
<1> QED
  BY <1>2, <1>3, <1>4 DEF MutexInv

(* When the thread that has the mutex writes, nobody else holds something  *)
(* it has found.                                                           *)
LEMMA InvUpdate ==
  ASSUME MutexInv, NEW t \in Threads, UpdateMalloc(t) \/ UpdateFree(t)
  PROVE  MutexInv'
<1>1. /\ pc[t] = "update" /\ pc' = [pc EXCEPT ![t] = "unlock"]
      /\ UNCHANGED <<mapped, word, born, call, found>>
  BY DEF UpdateMalloc, UpdateFree, Step
<1>2. \A s \in Threads : pc'[s] # "update"
  BY <1>1, Holder DEF Locked
<1>3. ThreadsTyped'
  BY <1>1 DEF MutexInv, ThreadsTyped, PC
<1>4. WordInv' /\ Exclusion'
  BY <1>1 DEF MutexInv, ThreadsTyped, WordInv, Exclusion, Locked
<1> QED
  BY <1>2, <1>3, <1>4 DEF MutexInv, NothingStale

(* After unlock nobody is in the mutex.                                    *)
LEMMA InvUnlock ==
  ASSUME MutexInv, NEW t \in Threads, Unlock(t)
  PROVE  MutexInv'
<1>1. PICK to \in {"idle", "wake"} : pc' = [pc EXCEPT ![t] = to]
  BY DEF Unlock, Step
<1>2. /\ pc[t] = "unlock" /\ word' = 0 /\ UNCHANGED <<mapped, heap, born>>
      /\ call' = [call EXCEPT ![t] = NoCall] /\ found' = [found EXCEPT ![t] = NoFit]
  BY DEF Unlock, Step
<1>3. /\ t \in born /\ pc \in [Threads -> PC]
      /\ \A s \in Threads : ~ Locked(s)' /\ pc'[s] # "store"
  BY <1>1, <1>2, Holder DEF Locked
<1>4. ThreadsTyped'
  BY <1>1, <1>2, <1>3 DEF MutexInv, ThreadsTyped, PC
<1>5. WordInv' /\ Exclusion' /\ NothingStale'
  BY <1>3 DEF WordInv, Exclusion, NothingStale, Locked
<1> QED
  BY <1>4, <1>5 DEF MutexInv

-----------------------------------------------------------------------------
(* Every step preserves the invariant.                                     *)
LEMMA MutexStep ==
  ASSUME OneProcessOnly, MutexInv, [Next]_vars
  PROVE  MutexInv'
<1>1. CASE InitMyMalloc \/ \E t \in Threads : Begin(t)
  BY <1>1, InvBegin
<1>2. ASSUME NEW t \in Threads, Call(t) \/ Proceed(t) PROVE MutexInv'
  BY <1>2, InvCall, InvAcquire, InvWait, InvRefuse, InvRead, InvUpdate, InvUnlock DEF Proceed
<1>3. CASE UNCHANGED vars
  <2>1. UNCHANGED <<mapped, heap, word, born, pc, call, found>>
    BY <1>3 DEF vars, threadVars
  <2> QED
    BY <2>1, SameFind DEF MutexInv, ThreadsTyped, WordInv, Exclusion, NothingStale, Locked
<1> QED
  BY <1>1, <1>2, <1>3 DEF Next, Stopped

(* The invariant about the word and the threads holds in one process.      *)
THEOREM MutexInvariant ==
  ASSUME OneProcessOnly
  PROVE  Spec => []MutexInv
<1>1. MutexInv /\ [Next]_vars => MutexInv'
  BY MutexStep
<1> QED
  BY <1>1, MutexInit, PTL DEF Spec

(* Never two threads of one process between lock and unlock, however many  *)
(* there are and although a lone thread takes the mutex without an atomic  *)
(* instruction.                                                            *)
THEOREM ExclusionHolds == OneProcessOnly => (Spec => []Exclusion)
<1> SUFFICES ASSUME OneProcessOnly PROVE Spec => []Exclusion
  OBVIOUS
<1>1. MutexInv => Exclusion
  BY DEF MutexInv
<1> QED
  BY <1>1, MutexInvariant, PTL

(* No call of MyMalloc or MyFree writes with a block in hand that another  *)
(* call has since taken, merged or moved.                                  *)
THEOREM NothingStaleHolds == OneProcessOnly => (Spec => []NothingStale)
<1> SUFFICES ASSUME OneProcessOnly PROVE Spec => []NothingStale
  OBVIOUS
<1>1. MutexInv => NothingStale
  BY DEF MutexInv
<1> QED
  BY <1>1, MutexInvariant, PTL

-----------------------------------------------------------------------------
(* The calls of all threads together are those of one caller at a time.    *)
(* HeapAllocator is instantiated with its proofs for that; what it says of *)
(* the list is the same under the names of each instance.                  *)
HA == INSTANCE HeapAllocatorProofs

(* The searches of the four strategies.                                    *)
LEMMA SameFitting ==
  /\ \A h, a : Walk(h, a) = HA!Walk(h, a) /\ Atomic!Walk(h, a) = HA!Walk(h, a)
  /\ \A h, a, n : Fitting(h, a, n) = HA!Fitting(h, a, n)
  /\ \A h, a, n : Atomic!Fitting(h, a, n) = HA!Fitting(h, a, n)
<1>1. \A h, a : Walk(h, a) = HA!Walk(h, a) /\ Atomic!Walk(h, a) = HA!Walk(h, a)
  BY DEF Walk, Atomic!Walk, HA!Walk, Successor, Atomic!Successor, HA!Successor
<1> QED
  BY <1>1 DEF Fitting, Atomic!Fitting, HA!Fitting, Steps, Atomic!Steps, HA!Steps

(* bestFit,                                                                *)
LEMMA SameBestFit ==
  \A h, n : BestFit(h, n) = HA!BestFit(h, n) /\ Atomic!BestFit(h, n) = HA!BestFit(h, n)
BY DEF BestFit, Atomic!BestFit, HA!BestFit, Walk, Atomic!Walk, HA!Walk, Successor,
       Atomic!Successor, HA!Successor, FromHead, Atomic!FromHead, HA!FromHead, Steps,
       Atomic!Steps, HA!Steps, NoFit, Atomic!NoFit, HA!NoFit, Min, Atomic!Min, HA!Min,
       Fitting, Atomic!Fitting, HA!Fitting

(* worstFit,                                                               *)
LEMMA SameWorstFit ==
  \A h, n : WorstFit(h, n) = HA!WorstFit(h, n) /\ Atomic!WorstFit(h, n) = HA!WorstFit(h, n)
BY DEF WorstFit, Atomic!WorstFit, HA!WorstFit, Walk, Atomic!Walk, HA!Walk, Successor,
       Atomic!Successor, HA!Successor, FromHead, Atomic!FromHead, HA!FromHead, Steps,
       Atomic!Steps, HA!Steps, NoFit, Atomic!NoFit, HA!NoFit, Min, Atomic!Min, HA!Min,
       Fitting, Atomic!Fitting, HA!Fitting

(* firstFit,                                                               *)
LEMMA SameFirstFit ==
  \A h, n : FirstFit(h, n) = HA!FirstFit(h, n) /\ Atomic!FirstFit(h, n) = HA!FirstFit(h, n)
BY DEF FirstFit, Atomic!FirstFit, HA!FirstFit, Walk, Atomic!Walk, HA!Walk, Successor,
       Atomic!Successor, HA!Successor, FromHead, Atomic!FromHead, HA!FromHead, Steps,
       Atomic!Steps, HA!Steps, NoFit, Atomic!NoFit, HA!NoFit, Min, Atomic!Min, HA!Min,
       Fitting, Atomic!Fitting, HA!Fitting

(* and nextFit.                                                            *)
LEMMA SameNextFit ==
  \A h, n : NextFit(h, n) = HA!NextFit(h, n) /\ Atomic!NextFit(h, n) = HA!NextFit(h, n)
BY DEF NextFit, Atomic!NextFit, HA!NextFit, Walk, Atomic!Walk, HA!Walk, Successor,
       Atomic!Successor, HA!Successor, FromHead, Atomic!FromHead, HA!FromHead, Steps,
       Atomic!Steps, HA!Steps, NoFit, Atomic!NoFit, HA!NoFit, Min, Atomic!Min, HA!Min,
       Fitting, Atomic!Fitting, HA!Fitting, FindPrevNode, Atomic!FindPrevNode,
       HA!FindPrevNode

(* What a call of MyMalloc writes: the marks under a new header,           *)
LEMMA SameOverwritten ==
  ASSUME NEW m, NEW x, NEW y
  PROVE  /\ Overwritten(m, x, y) = HA!Overwritten(m, x, y)
         /\ Atomic!Overwritten(m, x, y) = HA!Overwritten(m, x, y)
BY DEF Overwritten, HA!Overwritten, Atomic!Overwritten, Addrs, HA!Addrs, Atomic!Addrs

(* its own mark;                                                           *)
LEMMA SameStamped ==
  ASSUME NEW m, NEW a
  PROVE  Stamped(m, a) = HA!Stamped(m, a) /\ Atomic!Stamped(m, a) = HA!Stamped(m, a)
<1>1. \A x, y : /\ Overwritten(m, x, y) = HA!Overwritten(m, x, y)
                /\ Atomic!Overwritten(m, x, y) = HA!Overwritten(m, x, y)
  BY SameOverwritten
<1> QED
  BY <1>1 DEF Stamped, HA!Stamped, Atomic!Stamped

LEMMA SameSplit ==
  ASSUME NEW h, NEW f, NEW n
  PROVE  Split(h, f, n) = HA!Split(h, f, n) /\ Atomic!Split(h, f, n) = HA!Split(h, f, n)
BY Zenon DEF Split, Atomic!Split, HA!Split, Overwritten, HA!Overwritten, Atomic!Overwritten,
             Addrs, HA!Addrs, Atomic!Addrs

(* the block is split off and marked.                                      *)
LEMMA SameGiveAway ==
  ASSUME NEW h, NEW f, NEW n
  PROVE  /\ GiveAway(h, f, n) = HA!GiveAway(h, f, n)
         /\ Atomic!GiveAway(h, f, n) = HA!GiveAway(h, f, n)
<1>1. \A m, a : Stamped(m, a) = HA!Stamped(m, a) /\ Atomic!Stamped(m, a) = HA!Stamped(m, a)
  BY SameStamped
<1> QED
  BY <1>1, SameSplit DEF GiveAway, HA!GiveAway, Atomic!GiveAway

(* The switch of MyMalloc.                                                 *)
LEMMA SameSearch ==
  ASSUME NEW h, NEW n, NEW s
  PROVE  Search(h, n, s) = HA!Search(h, n, s) /\ Atomic!Search(h, n, s) = HA!Search(h, n, s)
BY SameBestFit, SameWorstFit, SameFirstFit, SameNextFit
   DEF Search, HA!Search, Atomic!Search, NoFit, HA!NoFit, Atomic!NoFit

(* The loop of MyFree,                                                     *)
LEMMA SameStopsAt ==
  ASSUME NEW b PROVE Atomic!StopsAt(b) = HA!StopsAt(b)
BY DEF Atomic!StopsAt, HA!StopsAt, Atomic!Walk, HA!Walk, Atomic!Successor, HA!Successor,
       Atomic!FromHead, HA!FromHead, Atomic!Steps, HA!Steps, Atomic!NoFit, HA!NoFit,
       Atomic!Min, HA!Min

(* the headers it leaves behind,                                           *)
LEMMA SameForget ==
  ASSUME NEW h, NEW used PROVE Atomic!Forget(h, used) = HA!Forget(h, used)
BY DEF Atomic!Forget, HA!Forget, Atomic!Listed, HA!Listed, Atomic!Addrs, HA!Addrs,
       Atomic!Walk, HA!Walk, Atomic!Successor, HA!Successor, Atomic!Steps, HA!Steps

(* the merge with the neighbours                                           *)
LEMMA SameCoalesce ==
  ASSUME NEW h, NEW b, NEW p, NEW n
  PROVE  Atomic!CoalesceFreeList(h, b, p, n) = HA!CoalesceFreeList(h, b, p, n)
<1>1. \A g, a : Atomic!End(g, a) = HA!End(g, a)
  BY DEF Atomic!End, HA!End
<1>2. \A g, a, c : Atomic!Absorb(g, a, c) = HA!Absorb(g, a, c)
  BY DEF Atomic!Absorb, HA!Absorb
<1> QED
  BY <1>1, <1>2 DEF Atomic!CoalesceFreeList, HA!CoalesceFreeList

(* and the whole of what it writes.                                        *)
LEMMA SameInsert ==
  ASSUME NEW b, NEW stop PROVE Atomic!Insert(b, stop) = HA!Insert(b, stop)
<1>1. \A h, used : Atomic!Forget(h, used) = HA!Forget(h, used)
  BY SameForget
<1>2. \A h, x, p, n : Atomic!CoalesceFreeList(h, x, p, n) = HA!CoalesceFreeList(h, x, p, n)
  BY SameCoalesce
<1> QED
  <2> DEFINE h == [heap EXCEPT !.mark[b] = "freed"]
             used == Atomic!Internal \cup (held \ {b})
             linked == IF stop.prev = Null
                         THEN [h EXCEPT !.next[b] = h.head, !.head = b]
                         ELSE [h EXCEPT !.next[stop.prev] = b, !.next[b] = stop.node]
             c == Atomic!CoalesceFreeList(linked, b, stop.prev, stop.node)
             d == HA!CoalesceFreeList(linked, b, stop.prev, stop.node)
             follows == stop.node = h.nextFree
             Result(g, e) ==
               IF h.head = Null
                 THEN [heap |-> linked, crash |-> FALSE]
                 ELSE [heap |-> g, crash |-> follows /\ e.merged = Null]
             Moved(e) ==
               IF follows /\ e.merged # Null /\ e.heap.next[e.merged] # stop.node
                 THEN [e.heap EXCEPT !.nextFree = e.merged] ELSE e.heap
  <2>1. Atomic!Insert(b, stop) = Result(Atomic!Forget(Moved(c), used), c)
    BY Zenon DEF Atomic!Insert
  <2>2. HA!Insert(b, stop) = Result(HA!Forget(Moved(d), used), d)
    BY Zenon DEF HA!Insert, HA!Internal, Atomic!Internal
  <2>3. c = d
    BY <1>2
  <2> HIDE DEF c, d, used, Moved, Result
  <2> QED
    BY <1>1, <2>1, <2>2, <2>3

(* What InitMyMalloc writes.                                               *)
LEMMA SameStart ==
  /\ Atomic!OneNode = HA!OneNode
  /\ Atomic!ZeroPages = HA!ZeroPages
BY DEF Atomic!OneNode, HA!OneNode, Atomic!ZeroPages, HA!ZeroPages, Atomic!Addrs, HA!Addrs

-----------------------------------------------------------------------------
(* A call that has not written yet.                                        *)
Pending(t) ==
  pc[t] \in {"lock", "store", "contend", "futex_wait", "asleep", "search", "update"}

(* The block of a free that has not written yet is held, and no other such *)
(* call has it; a free of NULL does not get to write.                      *)
CallInv ==
  /\ Null \notin held
  /\ \A t \in Threads : Pending(t) => call[t] \in Mallocs \cup Frees \cup {FreeNull}
  /\ \A t \in Threads : pc[t] = "update" => call[t] # FreeNull
  /\ \A s, t \in Threads :
       Pending(s) /\ Pending(t) /\ call[s] \in Frees /\ call[s] = call[t] => s = t

SharedInv == MutexInv /\ CallInv /\ HA!HeapInv

(* What a step of a thread is for HeapAllocator.                           *)
HeapStep ==
  \/ Atomic!InitMyMalloc
  \/ \E n \in Sizes, s \in Strategies : Atomic!MyMalloc(n, s)
  \/ \E b \in Addrs : Atomic!MyFree(b)
  \/ UNCHANGED <<mapped, heap, held, up>>

(* A write of MyMalloc is all of MyMalloc, because what it has found is    *)
(* what it would find now.                                                 *)
LEMMA MallocStep ==
  ASSUME SharedInv, NEW t \in Threads, UpdateMalloc(t)
  PROVE  HeapStep
<1> DEFINE n == call[t].size
<1> DEFINE s == call[t].strategy
<1>1. /\ up /\ pc[t] = "update" /\ call[t].op = "malloc" /\ UNCHANGED <<mapped, up>>
      /\ t \in born
  BY DEF UpdateMalloc, Step, SharedInv, MutexInv, ThreadsTyped
<1>2. mapped
  BY <1>1 DEF SharedInv, MutexInv, ThreadsTyped
<1>3. call[t] \in Mallocs
  BY <1>1 DEF SharedInv, CallInv, Pending, Frees, FreeNull
<1>4. n \in Sizes /\ s \in Strategies
  BY <1>3, MallocsAssumption
<1>5. found[t] = Search(heap, n, s)
  BY <1>1 DEF SharedInv, MutexInv, NothingStale, WhatIsThere
<1>6. CASE found[t].node = Null
  BY <1>1, <1>6 DEF UpdateMalloc, HeapStep
<1>7. CASE found[t].node # Null
  <2>1. heap' = GiveAway(heap, found[t], n) /\ held' = held \cup {found[t].node}
    BY <1>7 DEF UpdateMalloc
  <2>2. found[t] = Atomic!Search(heap, n, s)
    BY <1>5, SameSearch
  <2>3. heap' = Atomic!GiveAway(heap, found[t], n)
    BY <2>1, SameGiveAway
  <2>4. Atomic!MyMalloc(n, s)
    BY <1>1, <1>2, <1>7, <2>1, <2>2, <2>3 DEF Atomic!MyMalloc
  <2> QED
    BY <1>4, <2>4 DEF HeapStep
<1> QED
  BY <1>6, <1>7

(* A block that a caller holds is one that MyFree takes back.              *)
LEMMA HeldAccepted ==
  ASSUME HA!HeapInv, mapped, NEW b \in held
  PROVE  b \in Addrs /\ Atomic!Accepts(b)
<1>1. b \in HA!Addrs /\ HA!Accepts(b)
  BY HA!InUseMarked, SharedAssumption, HeapAssumption
<1> QED
  BY <1>1 DEF Addrs, HA!Addrs, Atomic!Addrs, HA!Accepts, Atomic!Accepts

(* A write of MyFree is all of MyFree.                                     *)
LEMMA FreeStep ==
  ASSUME SharedInv, NEW t \in Threads, UpdateFree(t)
  PROVE  /\ call[t] \in Frees
         /\ Atomic!MyFree(call[t].block)
         /\ HeapStep
<1> DEFINE b == call[t].block
<1>1. /\ up /\ pc[t] = "update" /\ call[t].op = "free" /\ mapped' = mapped
      /\ held' = held \ {b}
      /\ heap' = Atomic!Insert(b, found[t]).heap
      /\ up' = ~ Atomic!Insert(b, found[t]).crash
  BY DEF UpdateFree
<1>2. mapped
  BY <1>1 DEF SharedInv, MutexInv, ThreadsTyped
<1>3. call[t] \in Frees
  BY <1>1, MallocsAssumption DEF SharedInv, CallInv, Pending
<1>4. b \in held
  BY <1>3 DEF Frees
<1>5. b \in Addrs /\ Atomic!Accepts(b)
  BY <1>2, <1>4, HeldAccepted DEF SharedInv
<1>6. found[t] = Atomic!StopsAt(b)
  BY <1>1 DEF SharedInv, MutexInv, NothingStale, WhatIsThere
<1>7. Atomic!MyFree(b)
  BY <1>1, <1>2, <1>4, <1>5, <1>6 DEF Atomic!MyFree
<1> QED
  BY <1>3, <1>5, <1>7 DEF HeapStep

(* Every step of the threads is a step of one caller at a time.            *)
LEMMA StepsAreAtomic ==
  ASSUME SharedInv, [Next]_vars
  PROVE  HeapStep
<1>1. CASE InitMyMalloc
  BY <1>1 DEF InitMyMalloc, HeapStep
<1>2. ASSUME NEW t \in Threads, Begin(t) \/ Call(t) PROVE HeapStep
  BY <1>2 DEF Begin, Call, HeapStep
<1>3. ASSUME NEW t \in Threads, Proceed(t) PROVE HeapStep
  <2>1. CASE UpdateMalloc(t) \/ UpdateFree(t)
    BY <2>1, MallocStep, FreeStep
  <2>2. CASE Lock(t) \/ Store(t) \/ Contend(t) \/ FutexWait(t)
    BY <2>2 DEF Lock, Store, Contend, FutexWait, HeapStep
  <2>3. CASE Refuse(t) \/ Read(t) \/ Unlock(t) \/ Wake(t)
    BY <2>3 DEF Refuse, Read, Unlock, Wake, HeapStep
  <2> QED
    BY <1>3, <2>1, <2>2, <2>3 DEF Proceed
<1>4. CASE UNCHANGED vars
  BY <1>4 DEF vars, HeapStep
<1> QED
  BY <1>1, <1>2, <1>3, <1>4 DEF Next, Stopped

(* A step of HeapAllocator under either name is one under the other.       *)
LEMMA HeapSteps ==
  ASSUME HeapStep
  PROVE  [Atomic!Next]_(Atomic!vars) /\ [HA!Next]_(HA!vars)
<1>1. Strategies = HA!Strategies /\ Strategies = Atomic!Strategies
  BY DEF Strategies, HA!Strategies, Atomic!Strategies
<1>2. CASE Atomic!InitMyMalloc
  <2>1. HA!InitMyMalloc
    <3>1. \A h, n : Atomic!FirstFit(h, n) = HA!FirstFit(h, n)
      BY SameFirstFit
    <3>2. \A h, f, n : Atomic!GiveAway(h, f, n) = HA!GiveAway(h, f, n)
      BY SameGiveAway
    <3> QED
      BY <1>2, <3>1, <3>2, SameStart DEF Atomic!InitMyMalloc, HA!InitMyMalloc
  <2> QED
    BY <1>2, <2>1 DEF Atomic!Next, HA!Next
<1>3. ASSUME NEW n \in Sizes, NEW s \in Strategies, Atomic!MyMalloc(n, s)
      PROVE  Atomic!Next /\ HA!Next
  <2>1. HA!MyMalloc(n, s)
    BY <1>3, SameSearch, SameGiveAway DEF Atomic!MyMalloc, HA!MyMalloc
  <2> QED
    BY <1>1, <1>3, <2>1 DEF Atomic!Next, HA!Next
<1>4. ASSUME NEW b \in Addrs, Atomic!MyFree(b)
      PROVE  Atomic!Next /\ HA!Next
  <2>1. HA!MyFree(b)
    BY <1>4, SameStopsAt, SameInsert
       DEF Atomic!MyFree, HA!MyFree, Atomic!Accepts, HA!Accepts, Atomic!Addrs, HA!Addrs
  <2>2. b \in HA!Addrs /\ b \in Atomic!Addrs
    BY DEF Addrs, HA!Addrs, Atomic!Addrs
  <2> QED
    BY <1>4, <2>1, <2>2 DEF Atomic!Next, HA!Next
<1>5. CASE UNCHANGED <<mapped, heap, held, up>>
  BY <1>5 DEF Atomic!vars, HA!vars
<1> QED
  BY <1>2, <1>3, <1>4, <1>5 DEF HeapStep

-----------------------------------------------------------------------------
(* At first nothing is mapped and no call is pending.                      *)
LEMMA SharedInit == Init => SharedInv
<1> SUFFICES ASSUME Init PROVE SharedInv
  OBVIOUS
<1>1. CallInv
  BY DEF Init, CallInv, Pending, Atomic!Init
<1>2. HA!HeapInv
  BY SameStart DEF Init, Atomic!Init, HA!HeapInv
<1> QED
  BY <1>1, <1>2, MutexInit DEF SharedInv

(* A step that leaves what is held alone, and after which no call is       *)
(* pending that was not.                                                   *)
LEMMA CallsKeep ==
  ASSUME CallInv, UNCHANGED held,
         \A s \in Threads : Pending(s)' => Pending(s) /\ call'[s] = call[s],
         \A s \in Threads : pc'[s] = "update" => pc[s] = "update" \/ call[s] # FreeNull
  PROVE  CallInv'
<1>1. Frees' = Frees
  BY DEF Frees
<1>2. \A s \in Threads : pc'[s] = "update" => Pending(s)'
  BY DEF Pending
<1> QED
  BY <1>1, <1>2 DEF CallInv

(* A new free is of a block that no other call has.                        *)
LEMMA CallInvCall ==
  ASSUME SharedInv, NEW t \in Threads, Call(t)
  PROVE  CallInv'
<1>1. /\ pc[t] = "idle" /\ pc' = [pc EXCEPT ![t] = "lock"] /\ held' = held
      /\ pc \in [Threads -> PC] /\ call \in [Threads -> {call[s] : s \in Threads}]
  BY DEF Call, Step, SharedInv, MutexInv, ThreadsTyped
<1>2. PICK c \in Mallocs \cup (Frees \ {call[s] : s \in Threads}) \cup {FreeNull} :
        call' = [call EXCEPT ![t] = c]
  BY DEF Call
<1>3. call'[t] = c /\ \A s \in Threads \ {t} : call'[s] = call[s] /\ (Pending(s)' => Pending(s))
  BY <1>1, <1>2 DEF Pending
<1>4. Frees' = Frees
  BY <1>1 DEF Frees
<1>5. \A m \in Mallocs : m \notin Frees
  BY MallocsAssumption DEF Frees
<1>n. FreeNull \notin Frees
  BY DEF SharedInv, CallInv, Frees, FreeNull
<1>6. \A s \in Threads \ {t} : ~ (call'[s] \in Frees /\ call'[s] = call'[t])
  BY <1>2, <1>3, <1>5, <1>n
<1>7. /\ Null \notin held'
      /\ \A s \in Threads : Pending(s)' => call'[s] \in Mallocs \cup Frees \cup {FreeNull}
      /\ \A s \in Threads : pc'[s] = "update" => call'[s] # FreeNull
  BY <1>1, <1>2, <1>3 DEF SharedInv, CallInv
<1>8. \A s, u \in Threads :
        Pending(s)' /\ Pending(u)' /\ call'[s] \in Frees /\ call'[s] = call'[u] => s = u
  BY <1>3, <1>6 DEF SharedInv, CallInv
<1> QED
  BY <1>4, <1>7, <1>8 DEF CallInv

(* The block a free gives back is no other call's.                         *)
LEMMA CallInvUpdate ==
  ASSUME SharedInv, NEW t \in Threads, UpdateMalloc(t) \/ UpdateFree(t)
  PROVE  CallInv'
<1>1. /\ pc[t] = "update" /\ pc' = [pc EXCEPT ![t] = "unlock"] /\ call' = call
      /\ pc \in [Threads -> PC]
  BY DEF UpdateMalloc, UpdateFree, Step, SharedInv, MutexInv, ThreadsTyped
<1>2. \A s \in Threads : /\ Pending(s)' => Pending(s) /\ s # t
                         /\ pc'[s] = "update" => pc[s] = "update"
  BY <1>1 DEF Pending
<1>3. CASE UpdateMalloc(t)
  <2>1. held \subseteq held' /\ Null \notin held'
    BY <1>3 DEF UpdateMalloc, SharedInv, CallInv
  <2>2. Frees \subseteq Frees'
    BY <2>1 DEF Frees
  <2>3. \A m \in Mallocs \cup {FreeNull} : m \notin Frees'
    BY <2>1, MallocsAssumption DEF Frees, FreeNull
  <2> QED
    BY <1>1, <1>2, <2>1, <2>2, <2>3 DEF SharedInv, CallInv
<1>4. CASE UpdateFree(t)
  <2>1. held' = held \ {call[t].block} /\ call[t] \in Frees
    BY <1>4, FreeStep DEF UpdateFree
  <2>2. Frees' = Frees \ {call[t]}
    BY <2>1 DEF Frees
  <2>3. Pending(t)
    BY <1>1 DEF Pending
  <2>4. \A s \in Threads : Pending(s)' /\ call[s] \in Frees => call[s] # call[t]
    BY <1>2, <2>1, <2>3 DEF SharedInv, CallInv
  <2> QED
    BY <1>1, <1>2, <2>1, <2>2, <2>4 DEF SharedInv, CallInv
<1> QED
  BY <1>3, <1>4

(* No step lets two frees have one block, or a free a block that is not    *)
(* held.                                                                   *)
LEMMA CallInvStep ==
  ASSUME SharedInv, [Next]_vars
  PROVE  CallInv'
<1> USE DEF SharedInv
<1>1. CASE InitMyMalloc \/ \E t \in Threads : Begin(t)
  <2>1. UNCHANGED <<held, pc, call>>
    BY <1>1 DEF InitMyMalloc, Atomic!InitMyMalloc, Begin, threadVars
  <2> QED
    BY <2>1, CallsKeep DEF Pending
<1>2. ASSUME NEW t \in Threads, Call(t) PROVE CallInv'
  BY <1>2, CallInvCall
<1>3. ASSUME NEW t \in Threads, Proceed(t) PROVE CallInv'
  <2> pc \in [Threads -> PC] /\ call \in [Threads -> {call[s] : s \in Threads}]
    BY DEF MutexInv, ThreadsTyped
  <2>1. CASE UpdateMalloc(t) \/ UpdateFree(t)
    BY <2>1, CallInvUpdate
  <2>2. CASE Lock(t) \/ Store(t) \/ Contend(t) \/ FutexWait(t) \/ Refuse(t)
    <3>1. UNCHANGED <<held, call>> /\ Pending(t)
      BY <2>2 DEF Lock, Store, Contend, FutexWait, Refuse, Step, Pending
    <3>2. PICK to : pc' = [pc EXCEPT ![t] = to] /\ to # "update"
      BY <2>2 DEF Lock, Store, Contend, FutexWait, Refuse, Step
    <3> QED
      BY <3>1, <3>2, CallsKeep DEF Pending
  <2>5. CASE Read(t)
    <3>1. UNCHANGED <<held, call>> /\ Pending(t) /\ pc' = [pc EXCEPT ![t] = "update"] /\ ~ Refused(t)
      BY <2>5 DEF Read, Step, Pending
    <3>2. call[t] # FreeNull
      BY <3>1, HeapAssumption DEF Refused, FreeNull, Atomic!Accepts, Atomic!Addrs
    <3> QED
      BY <3>1, <3>2, CallsKeep DEF Pending
  <2>3. CASE Unlock(t)
    <3>1. PICK to \in {"idle", "wake"} : pc' = [pc EXCEPT ![t] = to]
      BY <2>3 DEF Unlock, Step
    <3>2. held' = held /\ call' = [call EXCEPT ![t] = NoCall]
      BY <2>3 DEF Unlock
    <3> QED
      BY <3>1, <3>2, CallsKeep DEF Pending
  <2>4. CASE Wake(t)
    <3>1. UNCHANGED <<held, call>>
      BY <2>4 DEF Wake
    <3>2. \A s \in Threads : (Pending(s)' => Pending(s)) /\ (pc'[s] = "update" => pc[s] = "update")
      BY <2>4 DEF Wake, Pending
    <3> QED
      BY <3>1, <3>2, CallsKeep
  <2> QED
    BY <1>3, <2>1, <2>2, <2>3, <2>4, <2>5 DEF Proceed
<1>4. CASE UNCHANGED vars
  <2>1. UNCHANGED <<held, pc, call>>
    BY <1>4 DEF vars, threadVars
  <2> QED
    BY <2>1, CallsKeep DEF Pending
<1> QED
  BY <1>1, <1>2, <1>3, <1>4 DEF Next, Stopped

(* A step keeps the heap sound, because it is one of HeapAllocator.        *)
LEMMA SharedStep ==
  ASSUME OneProcessOnly, SharedInv, [Next]_vars
  PROVE  SharedInv'
<1>1. MutexInv'
  BY MutexStep DEF SharedInv
<1>2. HeapStep
  BY StepsAreAtomic
<1>3. [HA!Next]_(HA!vars)
  BY <1>2, HeapSteps
<1>4. HA!HeapInv /\ [HA!Next]_(HA!vars) => HA!HeapInv'
  BY HA!HeapInvInductive, SharedAssumption, HeapAssumption
<1> QED
  BY <1>1, <1>3, <1>4, CallInvStep DEF SharedInv

(* The threads of one process, in whatever order they call MyMalloc and    *)
(* MyFree and are scheduled between the reads and the writes, use the heap *)
(* as one caller would: all that HeapAllocator promises holds for them.    *)
THEOREM ImplementsHeapAllocatorHolds == OneProcessOnly => (Spec => ImplementsHeapAllocator)
<1> SUFFICES ASSUME OneProcessOnly PROVE Spec => ImplementsHeapAllocator
  OBVIOUS
<1>1. Init => Atomic!Init
  BY DEF Init
<1>2. SharedInv /\ [Next]_vars => SharedInv'
  BY SharedStep
<1>3. SharedInv /\ [Next]_vars => [Atomic!Next]_(Atomic!vars)
  BY StepsAreAtomic, HeapSteps
<1> QED
  BY <1>1, <1>2, <1>3, SharedInit, PTL DEF Spec, ImplementsHeapAllocator, Atomic!Spec

(* And so the blocks that threads of one process hold never overlap, and   *)
(* with the free ones they are all of the mapping.                         *)
THEOREM ThreadsShareNoByte == OneProcessOnly => (Spec => [](HA!Tiled) /\ HA!ImplementsAbstractHeap)
<1> SUFFICES ASSUME OneProcessOnly PROVE Spec => [](HA!Tiled) /\ HA!ImplementsAbstractHeap
  OBVIOUS
<1>1. Init => HA!Init
  BY SameStart DEF Init, Atomic!Init, HA!Init
<1>2. SharedInv /\ [Next]_vars => SharedInv'
  BY SharedStep
<1>3. SharedInv /\ [Next]_vars => [HA!Next]_(HA!vars)
  BY StepsAreAtomic, HeapSteps
<1>4. HA!Spec => [](HA!Tiled)
  BY HA!TilingCorrect, SharedAssumption, HeapAssumption
<1>5. HA!Spec => HA!ImplementsAbstractHeap
  BY HA!ImplementsHeap, SharedAssumption, HeapAssumption
<1> QED
  BY <1>1, <1>2, <1>3, <1>4, <1>5, SharedInit, PTL DEF Spec, HA!Spec

=============================================================================
