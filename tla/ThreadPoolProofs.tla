--------------------------- MODULE ThreadPoolProofs ---------------------------
(***************************************************************************)
(* Proofs about ThreadPool for every number of slots, threads and          *)
(* descriptors.                                                            *)
(***************************************************************************)
EXTENDS ThreadPool, FiniteSetTheorems, SequenceTheorems,
        WellFoundedInduction, TLAPS

-----------------------------------------------------------------------------
(* Indices around the ring.                                                *)

(* NextSlot is the successor, back to 0 after the last slot.               *)
LEMMA NextSlotValue ==
  ASSUME NEW i \in Slots
  PROVE  /\ NextSlot(i) = IF i = NBuffer - 1 THEN 0 ELSE i + 1
         /\ NextSlot(i) \in Slots
BY QueueAssumption, Z3 DEF NextSlot, Slots

(* PrevSlot is the predecessor, back to the last slot before 0.            *)
LEMMA PrevSlotValue ==
  ASSUME NEW i \in Slots
  PROVE  /\ PrevSlot(i) = IF i = 0 THEN NBuffer - 1 ELSE i - 1
         /\ PrevSlot(i) \in Slots
BY QueueAssumption, Z3 DEF PrevSlot, Slots

(* Indices are reduced after at most one turn around the ring.             *)
LEMMA OneTurn ==
  ASSUME NEW x \in 0 .. 2 * NBuffer - 1
  PROVE  x % NBuffer = IF x < NBuffer THEN x ELSE x - NBuffer
BY QueueAssumption, SMT

-----------------------------------------------------------------------------
(* Counting the workers that hold a token of fill or of empty.             *)

(* The workers that hold a token of fill or of empty are finitely many.    *)
LEMMA TokensFinite ==
  /\ IsFiniteSet(Taking) /\ Cardinality(Taking) \in Nat
  /\ IsFiniteSet(Taken) /\ Cardinality(Taken) \in Nat
<1>1. Taking \in SUBSET Workers /\ Taken \in SUBSET Workers
  BY DEF Taking, Taken
<1> QED
  BY <1>1, WorkersAssumption, FS_Subset, FS_CardinalityType

(* A worker that moves from one call to the next changes the two counts by *)
(* its own membership only.                                                *)
LEMMA TokensAfterStep ==
  ASSUME NEW w \in Workers, NEW to, pc \in [Workers -> WorkerPC],
         pc' = [pc EXCEPT ![w] = to]
  PROVE  /\ Cardinality(Taking') = Cardinality(Taking)
                                   - One(pc[w] \in {"wait_mutex", "take"})
                                   + One(to \in {"wait_mutex", "take"})
         /\ Cardinality(Taken') = Cardinality(Taken)
                                   - One(pc[w] \in {"post_mutex", "post_empty"})
                                   + One(to \in {"post_mutex", "post_empty"})
<1>1. Taking' = IF to \in {"wait_mutex", "take"} THEN Taking \cup {w} ELSE Taking \ {w}
  BY DEF Taking
<1>2. Taken' = IF to \in {"post_mutex", "post_empty"} THEN Taken \cup {w} ELSE Taken \ {w}
  BY DEF Taken
<1>3. w \in Taking <=> pc[w] \in {"wait_mutex", "take"}
  BY DEF Taking
<1>4. w \in Taken <=> pc[w] \in {"post_mutex", "post_empty"}
  BY DEF Taken
<1>5. /\ Cardinality(Taking \cup {w}) = IF w \in Taking THEN Cardinality(Taking)
                                                        ELSE Cardinality(Taking) + 1
      /\ Cardinality(Taking \ {w}) = IF w \in Taking THEN Cardinality(Taking) - 1
                                                     ELSE Cardinality(Taking)
  BY TokensFinite, FS_AddElement, FS_RemoveElement
<1>6. /\ Cardinality(Taken \cup {w}) = IF w \in Taken THEN Cardinality(Taken)
                                                      ELSE Cardinality(Taken) + 1
      /\ Cardinality(Taken \ {w}) = IF w \in Taken THEN Cardinality(Taken) - 1
                                                   ELSE Cardinality(Taken)
  BY TokensFinite, FS_AddElement, FS_RemoveElement
<1>7. Cardinality(Taking') = Cardinality(Taking) - One(w \in Taking)
                             + One(to \in {"wait_mutex", "take"})
  BY <1>1, <1>5, TokensFinite DEF One
<1>8. Cardinality(Taken') = Cardinality(Taken) - One(w \in Taken)
                             + One(to \in {"post_mutex", "post_empty"})
  BY <1>2, <1>6, TokensFinite DEF One
<1> QED
  BY <1>3, <1>4, <1>7, <1>8 DEF One

-----------------------------------------------------------------------------
(* Types, the mutex and the accounts of the semaphores hold together: the  *)
(* bounds of count, empty and fill follow from the accounts, the accounts  *)
(* from each thread being at one call at a time, and mutex never exceeds 1 *)
(* because only the thread inside posts it.                                *)
ControlInv == TypeOK /\ MutualExclusion /\ SemaphoresAccount

(* The start of main establishes the control invariant: every token is in  *)
(* empty, and the mutex is free.                                           *)
LEMMA ControlInit == Init => ControlInv
<1> SUFFICES ASSUME Init PROVE ControlInv
  OBVIOUS
<1> USE DEF Init, QueueInit
<1>1. TypeOK
  BY QueueAssumption DEF TypeOK, QueueTypeOK, Slots, Slot, NoJob, MainPC, WorkerPC
<1>2. MutualExclusion
  BY DEF MutualExclusion, MainInCS, InCS
<1>3. Taking = {} /\ Taken = {}
  BY DEF Taking, Taken
<1>4. SemaphoresAccount
  BY <1>3, FS_EmptySet, QueueAssumption
     DEF SemaphoresAccount, MainPutting, MainPut, One
<1> QED
  BY <1>1, <1>2, <1>4 DEF ControlInv

(* What a slot removal does to the queue's types.                          *)
LEMMA RemoveSlotTypes ==
  ASSUME QueueTypeOK, NEW i \in Slots, RemoveSlot(i), count > 0
  PROVE  QueueTypeOK'
<1>1. head' \in Slots /\ tail' \in Slots
  BY NextSlotValue, PrevSlotValue DEF RemoveSlot, QueueTypeOK
<1>2. count' \in 0 .. NBuffer
  BY QueueAssumption DEF RemoveSlot, QueueTypeOK
<1>3. ShiftQueueLeft(i) \in [Slots -> Slot]
  <2>1. \A j \in Slots : NextSlot(j) \in Slots /\ queue[j] \in Slot
    BY NextSlotValue DEF QueueTypeOK
  <2>2. \A j \in Slots : /\ queue[NextSlot(j)] \in Slot
                         /\ [queue[j] EXCEPT !.connfd = NoFd] \in Slot
    BY <2>1 DEF QueueTypeOK, Slot
  <2> QED
    BY <2>1, <2>2 DEF ShiftQueueLeft
<1>4. [queue EXCEPT ![i].connfd = NoFd] \in [Slots -> Slot]
  BY DEF QueueTypeOK, Slot
<1>5. queue' \in [Slots -> Slot]
  BY <1>3, <1>4 DEF RemoveSlot
<1> QED
  BY <1>1, <1>2, <1>5 DEF QueueTypeOK

(* Main's steps leave the workers' calls alone, and so both counts.        *)
LEMMA ControlMainStep ==
  ASSUME ControlInv, MainNext
  PROVE  ControlInv'
<1> USE DEF ControlInv
<1>1. Cardinality(Taking) \in Nat /\ Cardinality(Taken) \in Nat
  BY TokensFinite
<1>2. ASSUME pc' = pc
      PROVE  Cardinality(Taking') = Cardinality(Taking) /\ Cardinality(Taken') = Cardinality(Taken)
  BY <1>2 DEF Taking, Taken
<1>3. ASSUME ProcessExit PROVE ControlInv'
  <2>1. UNCHANGED <<queueVars, empty, fill, mutex, mainpc, connfd, pc, job, open>>
    BY <1>3 DEF ProcessExit
  <2>2. Taking' = Taking /\ Taken' = Taken
    BY <2>1 DEF Taking, Taken
  <2> QED
    BY <1>3, <2>1, <2>2
       DEF ProcessExit, queueVars, TypeOK, QueueTypeOK, MutualExclusion,
           SemaphoresAccount, MainInCS, InCS, MainPutting, MainPut
<1> USE DEF TypeOK, QueueTypeOK, MainPC
<1>4. ASSUME NEW fd \in Fds, Accept(fd) PROVE ControlInv'
  <2>1. TypeOK' BY <1>4 DEF Accept, MainStep, queueVars
  <2>2. MutualExclusion'
    BY <1>4 DEF Accept, MainStep, queueVars, MutualExclusion, MainInCS, InCS
  <2>3. SemaphoresAccount'
    BY <1>2, <1>4 DEF Accept, MainStep, queueVars, SemaphoresAccount, MainPutting, MainPut, One
  <2> QED BY <2>1, <2>2, <2>3
<1>5. ASSUME WaitEmpty PROVE ControlInv'
  <2>1. TypeOK' BY <1>5, QueueAssumption DEF WaitEmpty, MainStep, queueVars
  <2>2. MutualExclusion'
    BY <1>5 DEF WaitEmpty, MainStep, queueVars, MutualExclusion, MainInCS, InCS
  <2>3. SemaphoresAccount'
    BY <1>1, <1>2, <1>5, QueueAssumption
       DEF WaitEmpty, MainStep, queueVars, SemaphoresAccount, MainPutting, MainPut, One
  <2> QED BY <2>1, <2>2, <2>3
<1>6. ASSUME MainWaitMutex PROVE ControlInv'
  <2>1. TypeOK' BY <1>6 DEF MainWaitMutex, MainStep, queueVars
  <2>2. MutualExclusion'
    BY <1>6 DEF MainWaitMutex, MainStep, queueVars, MutualExclusion, MainInCS, InCS
  <2>3. SemaphoresAccount'
    BY <1>2, <1>6 DEF MainWaitMutex, MainStep, queueVars, SemaphoresAccount, MainPutting, MainPut, One
  <2> QED BY <2>1, <2>2, <2>3
<1>7. ASSUME NEW r \in Requests, ReadLine(r) PROVE ControlInv'
  <2>1. TypeOK' BY <1>7 DEF ReadLine, MainStep, FillTail, Slot
  <2>2. MutualExclusion'
    BY <1>7 DEF ReadLine, MainStep, MutualExclusion, MainInCS, InCS
  <2>3. SemaphoresAccount'
    BY <1>2, <1>7 DEF ReadLine, MainStep, FillTail, SemaphoresAccount, MainPutting, MainPut, One
  <2> QED BY <2>1, <2>2, <2>3
<1>8. ASSUME ReadHeaders PROVE ControlInv'
  <2>1. TypeOK' BY <1>8 DEF ReadHeaders, MainStep, queueVars
  <2>2. MutualExclusion'
    BY <1>8 DEF ReadHeaders, MainStep, queueVars, MutualExclusion, MainInCS, InCS
  <2>3. SemaphoresAccount'
    BY <1>2, <1>8 DEF ReadHeaders, MainStep, queueVars, SemaphoresAccount, MainPutting, MainPut, One
  <2> QED BY <2>1, <2>2, <2>3
<1>9. ASSUME Publish PROVE ControlInv'
  <2>1. count + 1 <= NBuffer
    BY <1>1, <1>9, QueueAssumption DEF Publish, MainStep, SemaphoresAccount, MainPutting, One
  <2>2. TypeOK'
    BY <1>9, <2>1, NextSlotValue, QueueAssumption DEF Publish, PublishTail, MainStep, Slot
  <2>3. MutualExclusion'
    BY <1>9 DEF Publish, MainStep, MutualExclusion, MainInCS, InCS
  <2>4. SemaphoresAccount'
    BY <1>1, <1>2, <1>9, QueueAssumption
       DEF Publish, PublishTail, MainStep, SemaphoresAccount, MainPutting, MainPut, One
  <2> QED BY <2>2, <2>3, <2>4
<1>10. ASSUME MainPostMutex PROVE ControlInv'
  <2>1. mutex = 0
    BY <1>10 DEF MainPostMutex, MainStep, MutualExclusion, MainInCS
  <2>2. TypeOK' BY <1>10, <2>1 DEF MainPostMutex, MainStep, queueVars
  <2>3. MutualExclusion'
    BY <1>10 DEF MainPostMutex, MainStep, queueVars, MutualExclusion, MainInCS, InCS
  <2>4. SemaphoresAccount'
    BY <1>2, <1>10 DEF MainPostMutex, MainStep, queueVars, SemaphoresAccount, MainPutting, MainPut, One
  <2> QED BY <2>2, <2>3, <2>4
<1>11. ASSUME PostFill PROVE ControlInv'
  <2>1. fill + 1 <= NBuffer
    BY <1>1, <1>11, QueueAssumption DEF PostFill, MainStep, SemaphoresAccount, MainPut, One
  <2>2. TypeOK' BY <1>11, <2>1, QueueAssumption DEF PostFill, MainStep, queueVars
  <2>3. MutualExclusion'
    BY <1>11 DEF PostFill, MainStep, queueVars, MutualExclusion, MainInCS, InCS
  <2>4. SemaphoresAccount'
    BY <1>1, <1>2, <1>11, QueueAssumption
       DEF PostFill, MainStep, queueVars, SemaphoresAccount, MainPutting, MainPut, One
  <2> QED BY <2>2, <2>3, <2>4
<1> QED
  BY <1>3, <1>4, <1>5, <1>6, <1>7, <1>8, <1>9, <1>10, <1>11
     DEF MainNext, AcceptFails, ReadFails

(* A worker's step moves one worker, whose old and new call decide how the *)
(* two counts change.                                                      *)
LEMMA ControlWorkerStep ==
  ASSUME ControlInv, NEW w \in Workers, WorkerNext(w)
  PROVE  ControlInv'
<1> USE DEF ControlInv
<1>1. Cardinality(Taking) \in Nat /\ Cardinality(Taken) \in Nat
  BY TokensFinite
<1>2. ASSUME NEW from, NEW to, WorkerStep(w, from, to)
      PROVE  /\ Cardinality(Taking') = Cardinality(Taking)
                  - One(from \in {"wait_mutex", "take"}) + One(to \in {"wait_mutex", "take"})
             /\ Cardinality(Taken') = Cardinality(Taken)
                  - One(from \in {"post_mutex", "post_empty"}) + One(to \in {"post_mutex", "post_empty"})
  BY <1>2, TokensAfterStep DEF TypeOK, WorkerStep
<1>3. ASSUME ProcessExit PROVE ControlInv'
  <2>1. UNCHANGED <<queueVars, empty, fill, mutex, mainpc, connfd, pc, job, open>>
    BY <1>3 DEF ProcessExit
  <2>2. Taking' = Taking /\ Taken' = Taken
    BY <2>1 DEF Taking, Taken
  <2> QED
    BY <1>3, <2>1, <2>2
       DEF ProcessExit, queueVars, TypeOK, QueueTypeOK, MutualExclusion,
           SemaphoresAccount, MainInCS, InCS, MainPutting, MainPut
<1>a. /\ pc[w] \in {"wait_mutex", "take"} => Cardinality(Taking) > 0
      /\ pc[w] \in {"post_mutex", "post_empty"} => Cardinality(Taken) > 0
  <2>1. Taking = {} <=> Cardinality(Taking) = 0
    BY TokensFinite, FS_EmptySet
  <2>2. Taken = {} <=> Cardinality(Taken) = 0
    BY TokensFinite, FS_EmptySet
  <2> QED
    BY <1>1, <2>1, <2>2 DEF Taking, Taken
<1> USE DEF TypeOK, WorkerPC
<1>4. ASSUME WaitFill(w) PROVE ControlInv'
  <2>1. TypeOK' BY <1>4, QueueAssumption DEF WaitFill, WorkerStep, queueVars, QueueTypeOK
  <2>2. MutualExclusion'
    BY <1>4 DEF WaitFill, WorkerStep, queueVars, MutualExclusion, MainInCS, InCS
  <2>t. /\ Cardinality(Taking') = Cardinality(Taking) + 1
        /\ Cardinality(Taken') = Cardinality(Taken)
    <3>1. WorkerStep(w, "wait_fill", "wait_mutex")
      BY <1>4 DEF WaitFill
    <3> QED
      BY <1>1, <1>2, <3>1 DEF One
  <2>3. SemaphoresAccount'
    BY <1>1, <2>t, <1>4, QueueAssumption
       DEF WaitFill, WorkerStep, queueVars, QueueTypeOK, SemaphoresAccount, MainPutting, MainPut, One
  <2> QED BY <2>1, <2>2, <2>3
<1>5. ASSUME WaitMutex(w) PROVE ControlInv'
  <2>1. TypeOK' BY <1>5 DEF WaitMutex, WorkerStep, queueVars, QueueTypeOK
  <2>2. MutualExclusion'
    BY <1>5 DEF WaitMutex, WorkerStep, queueVars, MutualExclusion, MainInCS, InCS
  <2>t. /\ Cardinality(Taking') = Cardinality(Taking)
        /\ Cardinality(Taken') = Cardinality(Taken)
    <3>1. WorkerStep(w, "wait_mutex", "take")
      BY <1>5 DEF WaitMutex
    <3> QED
      BY <1>1, <1>2, <3>1 DEF One
  <2>3. SemaphoresAccount'
    BY <1>1, <2>t, <1>5, QueueAssumption
       DEF WaitMutex, WorkerStep, queueVars, QueueTypeOK, SemaphoresAccount, MainPutting, MainPut, One
  <2> QED BY <2>1, <2>2, <2>3
<1>6. ASSUME Take(w) PROVE ControlInv'
  <2>1. PICK i \in Slots : job' = [job EXCEPT ![w] = queue[i]] /\ RemoveSlot(i)
    BY <1>6 DEF Take
  <2>2. count > 0
    BY <1>a, <1>6, <1>1, QueueAssumption
       DEF Take, WorkerStep, QueueTypeOK, SemaphoresAccount, MainPut, One
  <2>3. QueueTypeOK'
    BY <2>1, <2>2, RemoveSlotTypes
  <2>4. TypeOK' BY <1>6, <2>1, <2>3 DEF Take, WorkerStep, QueueTypeOK
  <2>5. MutualExclusion'
    BY <1>6 DEF Take, WorkerStep, MutualExclusion, MainInCS, InCS
  <2>6. count' = count - 1
    BY <2>1 DEF RemoveSlot
  <2>t. /\ Cardinality(Taking') = Cardinality(Taking) - 1
        /\ Cardinality(Taken') = Cardinality(Taken) + 1
    <3>1. WorkerStep(w, "take", "post_mutex")
      BY <1>6 DEF Take
    <3> QED
      BY <1>1, <1>2, <3>1 DEF One
  <2>7. SemaphoresAccount'
    BY <1>1, <2>t, <1>6, <2>6, QueueAssumption
       DEF Take, WorkerStep, QueueTypeOK, SemaphoresAccount, MainPutting, MainPut, One
  <2> QED BY <2>4, <2>5, <2>7
<1>7. ASSUME PostMutex(w) PROVE ControlInv'
  <2>1. mutex = 0
    BY <1>7 DEF PostMutex, WorkerStep, MutualExclusion, InCS
  <2>2. TypeOK' BY <1>7, <2>1 DEF PostMutex, WorkerStep, queueVars, QueueTypeOK
  <2>3. MutualExclusion'
    BY <1>7 DEF PostMutex, WorkerStep, queueVars, MutualExclusion, MainInCS, InCS
  <2>t. /\ Cardinality(Taking') = Cardinality(Taking)
        /\ Cardinality(Taken') = Cardinality(Taken)
    <3>1. WorkerStep(w, "post_mutex", "post_empty")
      BY <1>7 DEF PostMutex
    <3> QED
      BY <1>1, <1>2, <3>1 DEF One
  <2>4. SemaphoresAccount'
    BY <1>1, <2>t, <1>7, QueueAssumption
       DEF PostMutex, WorkerStep, queueVars, QueueTypeOK, SemaphoresAccount, MainPutting, MainPut, One
  <2> QED BY <2>2, <2>3, <2>4
<1>8. ASSUME PostEmpty(w) PROVE ControlInv'
  <2>1. empty + 1 <= NBuffer
    BY <1>a, <1>8, <1>1, QueueAssumption
       DEF PostEmpty, WorkerStep, QueueTypeOK, SemaphoresAccount, MainPutting, One
  <2>2. TypeOK' BY <1>8, <2>1, QueueAssumption DEF PostEmpty, WorkerStep, queueVars, QueueTypeOK
  <2>3. MutualExclusion'
    BY <1>8 DEF PostEmpty, WorkerStep, queueVars, MutualExclusion, MainInCS, InCS
  <2>t. /\ Cardinality(Taking') = Cardinality(Taking)
        /\ Cardinality(Taken') = Cardinality(Taken) - 1
    <3>1. WorkerStep(w, "post_empty", "handle")
      BY <1>8 DEF PostEmpty
    <3> QED
      BY <1>1, <1>2, <3>1 DEF One
  <2>4. SemaphoresAccount'
    BY <1>1, <2>t, <1>8, QueueAssumption
       DEF PostEmpty, WorkerStep, queueVars, QueueTypeOK, SemaphoresAccount, MainPutting, MainPut, One
  <2> QED BY <2>2, <2>3, <2>4
<1>9. ASSUME Handle(w) PROVE ControlInv'
  <2>1. TypeOK' BY <1>9 DEF Handle, WorkerStep, queueVars, QueueTypeOK
  <2>2. MutualExclusion'
    BY <1>9 DEF Handle, WorkerStep, queueVars, MutualExclusion, MainInCS, InCS
  <2>t. /\ Cardinality(Taking') = Cardinality(Taking)
        /\ Cardinality(Taken') = Cardinality(Taken)
    <3>1. WorkerStep(w, "handle", "close")
      BY <1>9 DEF Handle
    <3> QED
      BY <1>1, <1>2, <3>1 DEF One
  <2>3. SemaphoresAccount'
    BY <1>1, <2>t, <1>9, QueueAssumption
       DEF Handle, WorkerStep, queueVars, QueueTypeOK, SemaphoresAccount, MainPutting, MainPut, One
  <2> QED BY <2>1, <2>2, <2>3
<1>10. ASSUME Close(w), job[w].connfd \in open PROVE ControlInv'
  <2>1. /\ WorkerStep(w, "close", "wait_fill")
        /\ open' = open \ {job[w].connfd}
        /\ job' = [job EXCEPT ![w] = NoJob]
        /\ UNCHANGED <<queueVars, empty, fill, mutex>>
    BY <1>10 DEF Close
  <2>2. NoJob \in Slot
    BY QueueAssumption DEF NoJob, Slot
  <2>3. TypeOK' BY <2>1, <2>2 DEF WorkerStep, queueVars, QueueTypeOK
  <2>4. MutualExclusion'
    BY <2>1 DEF WorkerStep, queueVars, MutualExclusion, MainInCS, InCS
  <2>t. /\ Cardinality(Taking') = Cardinality(Taking)
        /\ Cardinality(Taken') = Cardinality(Taken)
    <3>1. WorkerStep(w, "close", "wait_fill")
      BY <2>1
    <3> QED
      BY <1>1, <1>2, <3>1 DEF One
  <2>5. SemaphoresAccount'
    BY <1>1, <2>t, <2>1, QueueAssumption
       DEF WorkerStep, queueVars, QueueTypeOK, SemaphoresAccount, MainPutting, MainPut, One
  <2> QED BY <2>3, <2>4, <2>5
<1> QED
  BY <1>3, <1>4, <1>5, <1>6, <1>7, <1>8, <1>9, <1>10
     DEF WorkerNext, TakeNothing, HandleFails, Close

(* A step that changes nothing keeps the control invariant.                *)
LEMMA ControlStutter ==
  ASSUME ControlInv, UNCHANGED vars
  PROVE  ControlInv'
<1>1. Taking' = Taking /\ Taken' = Taken
  BY DEF vars, poolVars, Taking, Taken
<1> QED
  BY <1>1 DEF ControlInv, vars, poolVars, queueVars, TypeOK, QueueTypeOK, MutualExclusion,
              SemaphoresAccount, MainInCS, InCS, MainPutting, MainPut

(* Every step of main and of the workers keeps the control invariant.      *)
LEMMA ControlStep == ControlInv /\ [Next]_vars => ControlInv'
BY ControlMainStep, ControlWorkerStep, ControlStutter DEF Next, Exited

(* Types, mutual exclusion and the accounts of the semaphores hold         *)
(* together in every reachable state; none of the three is inductive       *)
(* alone.                                                                  *)
THEOREM ControlInvariant == Spec => []ControlInv
BY ControlInit, ControlStep, PTL DEF Spec

(* The types hold, whatever the constants.                                 *)
THEOREM TypeCorrect == Spec => []TypeOK
BY ControlInvariant, PTL DEF ControlInv

(* The semaphore mutex makes queue_put's and thread_handle's accesses to   *)
(* the ring atomic, for any number of workers.                             *)
THEOREM MutualExclusionHolds == Spec => []MutualExclusion
BY ControlInvariant, PTL DEF ControlInv

(* The tokens of empty and fill and the counter count never drift apart,   *)
(* for any buffer size and any number of workers.                          *)
THEOREM SemaphoresAccountHolds == Spec => []SemaphoresAccount
BY ControlInvariant, PTL DEF ControlInv

-----------------------------------------------------------------------------
(* The ring seen from a slot h: the slot p positions after it, and the     *)
(* position of a slot i.  Queue positions are the ones seen from head.     *)
At(h, p) == (h + p) % NBuffer
Pos(h, i) == (i - h + NBuffer) % NBuffer

(* The slot at a position, without the remainder.                          *)
LEMMA AtValue ==
  ASSUME NEW h \in Slots, NEW p \in 0 .. NBuffer
  PROVE  /\ At(h, p) = IF h + p < NBuffer THEN h + p ELSE h + p - NBuffer
         /\ At(h, p) \in Slots
<1>1. /\ h \in 0 .. NBuffer - 1 /\ NBuffer \in Nat /\ NBuffer > 0
      /\ h + p \in 0 .. 2 * NBuffer - 1
  BY QueueAssumption DEF Slots
<1>2. (h + p) % NBuffer = IF h + p < NBuffer THEN h + p ELSE h + p - NBuffer
  BY <1>1, Z3
<1> QED
  BY <1>1, <1>2 DEF At, Slots

(* The position of a slot, without the remainder.                          *)
LEMMA PosValue ==
  ASSUME NEW h \in Slots, NEW i \in Slots
  PROVE  /\ Pos(h, i) = IF i >= h THEN i - h ELSE i - h + NBuffer
         /\ Pos(h, i) \in 0 .. NBuffer - 1
<1>1. /\ h \in 0 .. NBuffer - 1 /\ i \in 0 .. NBuffer - 1 /\ NBuffer \in Nat /\ NBuffer > 0
  BY QueueAssumption DEF Slots
<1>2. (i - h + NBuffer) % NBuffer = IF i >= h THEN i - h ELSE i - h + NBuffer
  BY <1>1, Z3
<1> QED
  BY <1>1, <1>2 DEF Pos

(* The two are inverse to each other.                                      *)
LEMMA AtPos ==
  ASSUME NEW h \in Slots
  PROVE  /\ \A i \in Slots : At(h, Pos(h, i)) = i
         /\ \A p \in 0 .. NBuffer - 1 : Pos(h, At(h, p)) = p
<1>1. h \in 0 .. NBuffer - 1 /\ NBuffer \in Nat /\ NBuffer > 0
  BY QueueAssumption DEF Slots
<1>2. ASSUME NEW i \in Slots PROVE At(h, Pos(h, i)) = i
  <2>1. Pos(h, i) \in 0 .. NBuffer
    BY <1>1, PosValue
  <2>2. /\ Pos(h, i) = IF i >= h THEN i - h ELSE i - h + NBuffer
        /\ At(h, Pos(h, i)) = IF h + Pos(h, i) < NBuffer THEN h + Pos(h, i)
                                                        ELSE h + Pos(h, i) - NBuffer
    BY <2>1, PosValue, AtValue
  <2> QED
    BY <1>1, <2>1, <2>2 DEF Slots
<1>3. ASSUME NEW p \in 0 .. NBuffer - 1 PROVE Pos(h, At(h, p)) = p
  <2>1. p \in 0 .. NBuffer
    BY <1>1
  <2>2. /\ At(h, p) = IF h + p < NBuffer THEN h + p ELSE h + p - NBuffer
        /\ At(h, p) \in Slots
    BY <2>1, AtValue
  <2>3. Pos(h, At(h, p)) = IF At(h, p) >= h THEN At(h, p) - h ELSE At(h, p) - h + NBuffer
    BY <2>2, PosValue
  <2> QED
    BY <1>1, <2>2, <2>3
<1> QED
  BY <1>2, <1>3

(* Removing the slot at position p moves the requests behind it up by one  *)
(* position and leaves the ones before it: the ring stays contiguous.  The *)
(* two cases of the code, at the head and elsewhere, agree in this.        *)
LEMMA RemoveSlotEffect ==
  ASSUME QueueTypeOK, Contiguous, NEW i \in Slots, Used(i), RemoveSlot(i)
  PROVE  /\ Contiguous'
         /\ \A p \in 0 .. count - 2 :
              queue'[At(head', p)] = queue[IF p < Pos(head, i) THEN At(head, p)
                                                              ELSE At(head, p + 1)]
<1> DEFINE N == NBuffer
<1>0. /\ N \in Nat /\ N > 0 /\ head \in 0 .. N - 1 /\ tail \in 0 .. N - 1
      /\ count \in 0 .. N /\ i \in 0 .. N - 1
      /\ head \in Slots /\ tail \in Slots
  BY QueueAssumption DEF QueueTypeOK, Slots
<1>1. /\ tail = At(head, count) /\ \A j \in Slots : Used(j) <=> Pos(head, j) < count
      /\ Pos(head, i) \in 0 .. N - 1 /\ Pos(head, i) < count /\ count > 0
  <2>1. tail = At(head, count) /\ \A j \in Slots : Used(j) <=> Pos(head, j) < count
    BY DEF Contiguous, At, Pos
  <2>2. Pos(head, i) \in 0 .. N - 1
    BY <1>0, PosValue
  <2> QED
    BY <1>0, <2>1, <2>2
<1>2. QueueTypeOK' /\ count' = count - 1
  BY <1>1, RemoveSlotTypes DEF RemoveSlot
<1>3. CASE i = head
  <2>1. /\ queue' = [queue EXCEPT ![head].connfd = NoFd]
        /\ head' = NextSlot(head) /\ tail' = tail
    BY <1>3 DEF RemoveSlot
  <2>2. head' = (IF head = N - 1 THEN 0 ELSE head + 1) /\ head' \in Slots
    BY <1>0, <2>1, NextSlotValue
  <2>3. Pos(head, head) = 0
    BY <1>0, PosValue
  <2>4. \A p \in 0 .. N - 1 : At(head', p) = At(head, p + 1)
    <3> SUFFICES ASSUME NEW p \in 0 .. N - 1 PROVE At(head', p) = At(head, p + 1)
      OBVIOUS
    <3>1. At(head', p) = IF head' + p < N THEN head' + p ELSE head' + p - N
      BY <1>0, <2>2, AtValue
    <3>2. At(head, p + 1) = IF head + (p + 1) < N THEN head + (p + 1) ELSE head + (p + 1) - N
      BY <1>0, AtValue
    <3> QED
      BY <1>0, <2>2, <3>1, <3>2
  <2>5. tail' = At(head', count')
    BY <1>0, <1>1, <1>2, <2>1, <2>4
  <2>6. \A j \in Slots : Pos(head', j) = IF j = head THEN N - 1 ELSE Pos(head, j) - 1
    <3> SUFFICES ASSUME NEW j \in Slots
                 PROVE  Pos(head', j) = IF j = head THEN N - 1 ELSE Pos(head, j) - 1
      OBVIOUS
    <3>1. Pos(head', j) = IF j >= head' THEN j - head' ELSE j - head' + N
      BY <2>2, PosValue
    <3>2. Pos(head, j) = IF j >= head THEN j - head ELSE j - head + N
      BY <1>0, PosValue
    <3> QED
      BY <1>0, <2>2, <3>1, <3>2 DEF Slots
  <2>7. \A j \in Slots : Used(j)' <=> j # head /\ Used(j)
    BY <2>1, <1>0 DEF Used, QueueTypeOK, Slot
  <2>8. \A j \in Slots : Used(j)' <=> Pos(head', j) < count'
    <3> SUFFICES ASSUME NEW j \in Slots PROVE Used(j)' <=> Pos(head', j) < count'
      OBVIOUS
    <3>1. Pos(head, j) \in 0 .. N - 1
      BY <1>0, PosValue
    <3> QED
      BY <1>0, <1>1, <1>2, <2>6, <2>7, <3>1
  <2>9. Contiguous'
    BY <2>5, <2>8 DEF Contiguous, At, Pos
  <2>10. \A p \in 0 .. count - 2 : queue'[At(head', p)] = queue[At(head, p + 1)]
    <3> SUFFICES ASSUME NEW p \in 0 .. count - 2
                 PROVE  queue'[At(head', p)] = queue[At(head, p + 1)]
      OBVIOUS
    <3>1. p + 1 \in 0 .. N - 1 /\ p \in 0 .. N - 1
      BY <1>0
    <3>2. At(head, p + 1) \in Slots /\ Pos(head, At(head, p + 1)) = p + 1
      BY <1>0, <3>1, AtValue, AtPos
    <3>3. At(head, p + 1) # head
      BY <2>3, <3>1, <3>2
    <3> QED
      BY <2>1, <2>4, <3>1, <3>2, <3>3 DEF QueueTypeOK
  <2> QED
    BY <1>3, <2>3, <2>9, <2>10
<1>4. CASE i # head
  <2> DEFINE last == PrevSlot(tail)
             shifted(j) == IF i <= last THEN i <= j /\ j < last ELSE i <= j \/ j < last
  <2>1. /\ queue' = ShiftQueueLeft(i) /\ tail' = last
        /\ head' = IF last = head THEN NextSlot(head) ELSE head
    BY <1>4 DEF RemoveSlot
  <2>2. Pos(head, i) > 0 /\ count > 1
    <3>1. Pos(head, i) = IF i >= head THEN i - head ELSE i - head + N
      BY <1>0, PosValue
    <3> QED
      BY <1>0, <1>1, <1>4, <3>1
  <2>3. last = At(head, count - 1) /\ last \in Slots
    <3>1. tail = IF head + count < N THEN head + count ELSE head + count - N
      BY <1>0, <1>1, AtValue
    <3>2. At(head, count - 1) = IF head + (count - 1) < N THEN head + (count - 1)
                                                          ELSE head + (count - 1) - N
      BY <1>0, <2>2, AtValue
    <3>3. last = (IF tail = 0 THEN N - 1 ELSE tail - 1) /\ last \in Slots
      BY <1>0, PrevSlotValue
    <3> QED
      BY <1>0, <2>2, <3>1, <3>2, <3>3
  <2>4. Pos(head, last) = count - 1
    BY <1>0, <2>2, <2>3, AtPos
  <2> HIDE DEF last
  <2>5. last # head
    <3>1. Pos(head, head) = 0
      BY <1>0, PosValue
    <3> QED
      BY <1>0, <2>2, <2>4, <3>1
  <2>6. head' = head /\ tail' = At(head, count - 1)
    BY <2>1, <2>3, <2>5
  <2>7. ASSUME NEW j \in Slots
        PROVE  /\ Pos(head, j) \in 0 .. N - 1
               /\ j = last <=> Pos(head, j) = count - 1
               /\ shifted(j) <=> Pos(head, i) <= Pos(head, j) /\ Pos(head, j) < count - 1
    <3>1. /\ Pos(head, j) = IF j >= head THEN j - head ELSE j - head + N
          /\ Pos(head, j) \in 0 .. N - 1
      BY <1>0, PosValue
    <3>2. Pos(head, i) = IF i >= head THEN i - head ELSE i - head + N
      BY <1>0, PosValue
    <3>3. Pos(head, last) = IF last >= head THEN last - head ELSE last - head + N
      BY <1>0, <2>3, PosValue
    <3>4. j \in 0 .. N - 1 /\ last \in 0 .. N - 1
      BY <2>3 DEF Slots
    <3>5. j = last <=> Pos(head, j) = count - 1
      BY <1>0, <2>4, <3>1, <3>3, <3>4
    <3>6. shifted(j) <=> Pos(head, i) <= Pos(head, j) /\ Pos(head, j) < count - 1
      BY <1>0, <1>1, <2>2, <2>4, <3>1, <3>2, <3>3, <3>4
    <3> QED
      BY <3>1, <3>5, <3>6
  <2>8. ASSUME NEW j \in Slots
        PROVE  queue'[j] = IF Pos(head, j) = count - 1 THEN [queue[j] EXCEPT !.connfd = NoFd]
                           ELSE IF Pos(head, i) <= Pos(head, j) /\ Pos(head, j) < count - 1
                             THEN queue[NextSlot(j)]
                           ELSE queue[j]
    <3>1. queue'[j] = IF j = last THEN [queue[j] EXCEPT !.connfd = NoFd]
                      ELSE IF shifted(j) THEN queue[NextSlot(j)] ELSE queue[j]
      BY <2>1 DEF ShiftQueueLeft, last
    <3> HIDE DEF shifted
    <3> QED
      BY <2>7, <3>1
  <2>9. ASSUME NEW j \in Slots, Pos(head, j) < count - 1
        PROVE  NextSlot(j) \in Slots /\ Pos(head, NextSlot(j)) = Pos(head, j) + 1
    <3>1. NextSlot(j) = (IF j = N - 1 THEN 0 ELSE j + 1) /\ NextSlot(j) \in Slots
      BY NextSlotValue
    <3>2. /\ Pos(head, j) = IF j >= head THEN j - head ELSE j - head + N
          /\ Pos(head, j) \in 0 .. N - 1
      BY <1>0, PosValue
    <3>3. Pos(head, NextSlot(j)) = IF NextSlot(j) >= head THEN NextSlot(j) - head
                                                          ELSE NextSlot(j) - head + N
      BY <1>0, <3>1, PosValue
    <3>4. j \in 0 .. N - 1
      BY DEF Slots
    <3> QED
      BY <1>0, <2>9, <3>1, <3>2, <3>3, <3>4
  <2>10. \A j \in Slots : Used(j)' <=> Pos(head, j) < count - 1
    <3> SUFFICES ASSUME NEW j \in Slots PROVE Used(j)' <=> Pos(head, j) < count - 1
      OBVIOUS
    <3>1. Pos(head, j) \in 0 .. N - 1
      BY <2>7
    <3>2. CASE Pos(head, j) = count - 1
      <4>1. queue'[j] = [queue[j] EXCEPT !.connfd = NoFd]
        BY <2>8, <3>2
      <4>2. queue'[j].connfd = NoFd
        BY <4>1 DEF QueueTypeOK, Slot
      <4>3. ~ Used(j)'
        BY <4>2 DEF Used
      <4> QED
        BY <1>0, <3>1, <3>2, <4>3
    <3>3. CASE Pos(head, i) <= Pos(head, j) /\ Pos(head, j) < count - 1
      <4>1. NextSlot(j) \in Slots /\ Pos(head, NextSlot(j)) = Pos(head, j) + 1
        BY <2>9, <3>3
      <4>a. Pos(head, NextSlot(j)) < count
        BY <1>0, <3>1, <3>3, <4>1
      <4>2. Used(NextSlot(j))
        BY <1>1, <4>1, <4>a
      <4>3. Pos(head, j) # count - 1
        BY <1>0, <3>1, <3>3
      <4>4. queue'[j] = queue[NextSlot(j)]
        BY <2>8, <3>3, <4>3
      <4> QED
        BY <3>3, <4>2, <4>4 DEF Used
    <3>4. CASE Pos(head, j) # count - 1 /\ ~ (Pos(head, i) <= Pos(head, j) /\ Pos(head, j) < count - 1)
      <4>1. queue'[j] = queue[j]
        BY <2>8, <3>4
      <4>2. Used(j)' <=> Pos(head, j) < count
        BY <1>1, <4>1 DEF Used
      <4> QED
        BY <1>0, <3>1, <3>4, <4>2
    <3> QED
      BY <3>2, <3>3, <3>4
  <2>11. Contiguous'
    BY <1>2, <2>6, <2>10 DEF Contiguous, At, Pos
  <2>12. ASSUME NEW p \in 0 .. count - 2
         PROVE  queue'[At(head, p)] = queue[IF p < Pos(head, i) THEN At(head, p) ELSE At(head, p + 1)]
    <3>1. p \in 0 .. N - 1 /\ p + 1 \in 0 .. N - 1
      BY <1>0
    <3>2. /\ At(head, p) \in Slots /\ Pos(head, At(head, p)) = p
          /\ At(head, p + 1) \in Slots /\ Pos(head, At(head, p + 1)) = p + 1
      BY <1>0, <3>1, AtValue, AtPos
    <3>3. NextSlot(At(head, p)) \in Slots /\ Pos(head, NextSlot(At(head, p))) = p + 1
      <4>1. Pos(head, At(head, p)) < count - 1
        BY <1>0, <3>2
      <4> QED
        BY <2>9, <3>2, <4>1
    <3>4. NextSlot(At(head, p)) = At(head, p + 1)
      BY <1>0, <3>2, <3>3, AtPos
    <3> DEFINE j == At(head, p)
    <3>5. j \in Slots /\ Pos(head, j) = p /\ NextSlot(j) = At(head, p + 1)
      BY <3>2, <3>4
    <3> HIDE DEF j
    <3>6. Pos(head, j) # count - 1 /\ Pos(head, j) < count - 1
      BY <1>0, <3>5
    <3>7. queue'[j] = IF Pos(head, i) <= p THEN queue[At(head, p + 1)] ELSE queue[j]
      BY <2>8, <3>5, <3>6
    <3>8. Pos(head, i) <= p <=> ~ (p < Pos(head, i))
      BY <1>0, <1>1
    <3> QED
      BY <3>7, <3>8 DEF j
  <2> QED
    BY <2>6, <2>11, <2>12
<1> QED
  BY <1>3, <1>4

(* Where the contents of each slot come from: a removal neither loses nor  *)
(* doubles a request.                                                      *)
LEMMA RemoveSlotMoves ==
  ASSUME QueueTypeOK, Contiguous, NEW i \in Slots, Used(i), RemoveSlot(i)
  PROVE  \E f :
           /\ \A j \in Slots : Used(j)' => /\ f[j] \in Slots \ {i} /\ Used(f[j])
                                           /\ queue'[j] = queue[f[j]]
           /\ \A j, k \in Slots : Used(j)' /\ Used(k)' /\ f[j] = f[k] => j = k
           /\ \A k \in Slots \ {i} : Used(k) => \E j \in Slots : Used(j)' /\ f[j] = k
<1> DEFINE N == NBuffer
           p0 == Pos(head, i)
           source(p) == IF p < p0 THEN At(head, p) ELSE At(head, p + 1)
           f == [j \in Slots |-> source(Pos(head', j))]
<1>1. /\ N \in Nat /\ N > 0 /\ head \in Slots /\ count \in 0 .. N
      /\ p0 \in 0 .. N - 1 /\ p0 < count
      /\ \A j \in Slots : Used(j) <=> Pos(head, j) < count
  <2>1. head \in Slots /\ count \in 0 .. N /\ N \in Nat /\ N > 0
    BY QueueAssumption DEF QueueTypeOK
  <2>2. \A j \in Slots : Used(j) <=> Pos(head, j) < count
    BY DEF Contiguous, Pos
  <2>3. p0 \in 0 .. N - 1
    BY <2>1, PosValue
  <2> QED
    BY <2>1, <2>2, <2>3
<1>2. QueueTypeOK' /\ Contiguous' /\ count' = count - 1
  BY <1>1, RemoveSlotTypes, RemoveSlotEffect DEF RemoveSlot
<1>3. /\ head' \in Slots
      /\ \A j \in Slots : Used(j)' <=> Pos(head', j) < count - 1
  BY <1>2 DEF QueueTypeOK, Contiguous, Pos
<1>4. \A p \in 0 .. count - 2 : queue'[At(head', p)] = queue[source(p)]
  BY RemoveSlotEffect
<1>5. ASSUME NEW p \in 0 .. count - 2
      PROVE  /\ source(p) \in Slots
             /\ Pos(head, source(p)) = IF p < p0 THEN p ELSE p + 1
  <2>1. p \in 0 .. N - 1 /\ p + 1 \in 0 .. N - 1 /\ p \in 0 .. N /\ p + 1 \in 0 .. N
    BY <1>1
  <2>2. /\ At(head, p) \in Slots /\ Pos(head, At(head, p)) = p
        /\ At(head, p + 1) \in Slots /\ Pos(head, At(head, p + 1)) = p + 1
    BY <1>1, <2>1, AtValue, AtPos
  <2> QED
    BY <2>2
<1> HIDE DEF source, p0
<1>6. ASSUME NEW j \in Slots, Used(j)'
      PROVE  /\ Pos(head', j) \in 0 .. count - 2
             /\ f[j] \in Slots
             /\ Pos(head, f[j]) = IF Pos(head', j) < p0 THEN Pos(head', j) ELSE Pos(head', j) + 1
             /\ queue'[j] = queue[f[j]]
  <2>1. Pos(head', j) \in 0 .. count - 2 /\ At(head', Pos(head', j)) = j
    <3>1. Pos(head', j) \in 0 .. N - 1 /\ Pos(head', j) < count - 1
      BY <1>3, <1>6, PosValue
    <3>2. At(head', Pos(head', j)) = j
      BY <1>3, AtPos
    <3> QED
      BY <1>1, <3>1, <3>2
  <2>2. f[j] = source(Pos(head', j))
    OBVIOUS
  <2> QED
    BY <1>4, <1>5, <2>1, <2>2
<1>7. ASSUME NEW j \in Slots, Used(j)' PROVE f[j] \in Slots \ {i} /\ Used(f[j])
  <2>1. Pos(head, f[j]) # p0 /\ Pos(head, f[j]) < count
    BY <1>1, <1>6, <1>7
  <2> QED
    BY <1>1, <1>6, <1>7, <2>1 DEF p0
<1>8. ASSUME NEW j \in Slots, NEW k \in Slots, Used(j)', Used(k)', f[j] = f[k]
      PROVE  j = k
  <2>1. Pos(head', j) = Pos(head', k)
    <3>1. Pos(head', j) \in Int /\ Pos(head', k) \in Int /\ p0 \in Int
      BY <1>1, <1>6, <1>8
    <3>2. (IF Pos(head', j) < p0 THEN Pos(head', j) ELSE Pos(head', j) + 1)
             = (IF Pos(head', k) < p0 THEN Pos(head', k) ELSE Pos(head', k) + 1)
      BY <1>6, <1>8
    <3> QED
      BY <3>1, <3>2
  <2> QED
    BY <1>3, <2>1, AtPos
<1>9. ASSUME NEW k \in Slots \ {i}, Used(k) PROVE \E j \in Slots : Used(j)' /\ f[j] = k
  <2>1. /\ Pos(head, k) \in 0 .. N - 1 /\ Pos(head, k) < count
        /\ At(head, Pos(head, k)) = k /\ At(head, p0) = i
    BY <1>1, <1>9, PosValue, AtPos DEF p0
  <2>2. Pos(head, k) # p0
    BY <2>1
  <2> DEFINE p == IF Pos(head, k) < p0 THEN Pos(head, k) ELSE Pos(head, k) - 1
  <2>3. p \in 0 .. count - 2 /\ p \in 0 .. N - 1 /\ p \in 0 .. N /\ p < count - 1
    BY <1>1, <2>1, <2>2
  <2>4. Pos(head, k) = IF p < p0 THEN p ELSE p + 1
    BY <1>1, <2>1, <2>2
  <2> HIDE DEF p
  <2>5. source(p) = k
    BY <2>1, <2>4 DEF source
  <2>6. PICK j \in Slots : j = At(head', p)
    BY <1>3, <2>3, AtValue
  <2>7. Pos(head', j) = p
    BY <1>3, <2>3, <2>6, AtPos
  <2>8. Used(j)'
    BY <1>3, <2>3, <2>7
  <2>9. f[j] = k
    BY <2>5, <2>7
  <2> QED
    BY <2>8, <2>9
<1> HIDE DEF f
<1> QED
  BY <1>6, <1>7, <1>8, <1>9

-----------------------------------------------------------------------------
(* Main and the workers hold real descriptors while they own a request,    *)
(* and a worker that serves nobody has no job.                             *)
OwnInv ==
  /\ MainOwns => connfd \in Fds
  /\ \A w \in Workers : IF Serving(w) THEN job[w].connfd \in Fds ELSE job[w] = NoJob

(* The ring is written in three places only.                               *)
LEMMA QueueChanges ==
  ASSUME [Next]_vars
  PROVE  \/ UNCHANGED queueVars
         \/ \E r \in Requests : ReadLine(r)
         \/ Publish
         \/ \E w \in Workers : Take(w)
<1>1. ProcessExit => UNCHANGED queueVars
  BY DEF ProcessExit
<1>2. ASSUME NEW fd \in Fds PROVE Accept(fd) => UNCHANGED queueVars
  BY DEF Accept
<1>3. WaitEmpty \/ MainWaitMutex \/ ReadHeaders \/ MainPostMutex \/ PostFill => UNCHANGED queueVars
  BY DEF WaitEmpty, MainWaitMutex, ReadHeaders, MainPostMutex, PostFill
<1>4. ASSUME NEW w \in Workers
      PROVE  WaitFill(w) \/ WaitMutex(w) \/ PostMutex(w) \/ PostEmpty(w) \/ Handle(w)
               => UNCHANGED queueVars
  BY DEF WaitFill, WaitMutex, PostMutex, PostEmpty, Handle
<1>5. ASSUME NEW w \in Workers PROVE Close(w) => UNCHANGED queueVars
  BY <1>1 DEF Close
<1>6. MainNext => UNCHANGED queueVars \/ (\E r \in Requests : ReadLine(r)) \/ Publish
  BY <1>1, <1>2, <1>3 DEF MainNext, AcceptFails, ReadFails
<1>7. ASSUME NEW w \in Workers PROVE WorkerNext(w) => UNCHANGED queueVars \/ Take(w)
  BY <1>1, <1>4, <1>5 DEF WorkerNext, TakeNothing, HandleFails
<1>8. UNCHANGED vars => UNCHANGED queueVars
  BY DEF vars
<1> QED
  BY <1>6, <1>7, <1>8 DEF Next, Exited

(* While main puts a request, slot tail is empty and the buffer not full.  *)
LEMMA TailFree ==
  ASSUME ControlInv, Contiguous, MainPutting
  PROVE  ~ Used(tail) /\ count < NBuffer
<1>1. count < NBuffer
  BY TokensFinite, QueueAssumption
     DEF ControlInv, TypeOK, QueueTypeOK, SemaphoresAccount, One
<1>2. count \in 0 .. NBuffer - 1 /\ head \in Slots /\ tail \in Slots
  BY <1>1, QueueAssumption DEF ControlInv, TypeOK, QueueTypeOK
<1>3. tail = At(head, count) /\ (Used(tail) <=> Pos(head, tail) < count)
  BY <1>2 DEF Contiguous, At, Pos
<1>4. Pos(head, tail) = count
  BY <1>2, <1>3, AtPos
<1> QED
  BY <1>1, <1>2, <1>3, <1>4

(* A worker that has passed fill and mutex only ever takes a filled slot.  *)
LEMMA TargetUsed ==
  ASSUME ControlInv, Contiguous, NEW w \in Workers, pc[w] = "take",
         NEW i \in Slots, IsTarget(i)
  PROVE  Used(i) /\ count > 0
<1>1. count > 0
  <2>1. Taking # {}
    BY DEF Taking
  <2>2. Cardinality(Taking) > 0
    BY <2>1, TokensFinite, FS_EmptySet
  <2> QED
    BY <2>2, TokensFinite, QueueAssumption
       DEF ControlInv, TypeOK, QueueTypeOK, SemaphoresAccount, MainPut, One
<1>2. head \in Slots /\ count \in 0 .. NBuffer
  BY DEF ControlInv, TypeOK, QueueTypeOK
<1>3. Pos(head, head) = 0
  BY <1>2, PosValue, QueueAssumption DEF Slots
<1>4. Used(head)
  BY <1>1, <1>2, <1>3 DEF Contiguous, Pos
<1> QED
  BY <1>1, <1>4 DEF IsTarget, Candidates

(* The empty ring is contiguous.                                           *)
LEMMA ContiguousInit == Init => Contiguous
<1> SUFFICES ASSUME Init PROVE Contiguous
  OBVIOUS
<1>1. /\ QueueTypeOK /\ head = 0 /\ tail = 0 /\ count = 0 /\ head \in Slots
      /\ \A i \in Slots : ~ Used(i)
  BY ControlInit, QueueAssumption DEF ControlInv, TypeOK, QueueTypeOK, Init, QueueInit, Used
<1>2. At(head, 0) = 0
  BY <1>1, AtValue, QueueAssumption
<1>3. \A i \in Slots : ~ (Pos(head, i) < count)
  BY <1>1, PosValue, QueueAssumption
<1> QED
  BY <1>1, <1>2, <1>3 DEF Contiguous, At, Pos

(* The ring stays contiguous: it changes only where queue_put fills and    *)
(* publishes tail and where thread_handle removes its target.              *)
LEMMA ContiguousStep == ControlInv /\ Contiguous /\ OwnInv /\ [Next]_vars => Contiguous'
<1> SUFFICES ASSUME ControlInv, Contiguous, OwnInv, [Next]_vars PROVE Contiguous'
  OBVIOUS
<1>0. QueueTypeOK /\ QueueTypeOK' /\ head \in Slots /\ NBuffer \in Nat /\ NBuffer > 0
  BY ControlStep, QueueAssumption DEF ControlInv, TypeOK, QueueTypeOK
<1>1. CASE UNCHANGED queueVars
  BY <1>1 DEF queueVars, Contiguous, Used
<1>2. ASSUME NEW r \in Requests, ReadLine(r) PROVE Contiguous'
  <2>1. \A i \in Slots : queue'[i].connfd = queue[i].connfd
    BY <1>0, <1>2 DEF ReadLine, FillTail, QueueTypeOK, Slot
  <2> QED
    BY <1>2, <2>1 DEF ReadLine, FillTail, Contiguous, Used
<1>3. CASE Publish
  <2>1. MainOwns /\ MainPutting
    BY <1>3 DEF Publish, MainStep, MainOwns, MainPutting
  <2>2. connfd # NoFd
    BY <2>1, QueueAssumption DEF OwnInv
  <2>3. /\ queue' = [queue EXCEPT ![tail].connfd = connfd]
        /\ tail' = NextSlot(tail) /\ count' = count + 1 /\ head' = head
    BY <1>3 DEF Publish, PublishTail
  <2>4. count \in 0 .. NBuffer - 1 /\ tail \in Slots
    BY <1>0, <2>1, TailFree DEF QueueTypeOK
  <2>5. tail = At(head, count) /\ \A i \in Slots : Used(i) <=> Pos(head, i) < count
    BY DEF Contiguous, At, Pos
  <2>6. tail' = At(head', count')
    <3>1. tail = IF head + count < NBuffer THEN head + count ELSE head + count - NBuffer
      BY <1>0, <2>4, <2>5, AtValue
    <3>2. At(head, count + 1) = IF head + (count + 1) < NBuffer THEN head + (count + 1)
                                                                ELSE head + (count + 1) - NBuffer
      BY <1>0, <2>4, AtValue
    <3>3. NextSlot(tail) = IF tail = NBuffer - 1 THEN 0 ELSE tail + 1
      BY <2>4, NextSlotValue
    <3>4. NextSlot(tail) = At(head, count + 1)
      BY <1>0, <2>4, <3>1, <3>2, <3>3 DEF Slots
    <3> QED
      BY <2>3, <3>4
  <2>7. \A i \in Slots : Used(i)' <=> Pos(head', i) < count'
    <3> SUFFICES ASSUME NEW i \in Slots PROVE Used(i)' <=> Pos(head, i) < count + 1
      BY <2>3
    <3>1. Pos(head, i) \in 0 .. NBuffer - 1
      BY <1>0, PosValue
    <3>2. Pos(head, i) = count <=> i = tail
      BY <1>0, <2>4, <2>5, AtPos
    <3>3. Used(i)' <=> i = tail \/ Used(i)
      BY <1>0, <2>2, <2>3, <2>4 DEF QueueTypeOK, Used, Slot
    <3> QED
      BY <1>0, <2>4, <2>5, <3>1, <3>2, <3>3
  <2> QED
    BY <2>6, <2>7 DEF Contiguous, At, Pos
<1>4. ASSUME NEW w \in Workers, Take(w) PROVE Contiguous'
  <2>1. PICK i \in Slots : IsTarget(i) /\ RemoveSlot(i)
    BY <1>4 DEF Take
  <2>2. Used(i)
    BY <1>4, <2>1, TargetUsed DEF Take, WorkerStep
  <2> QED
    BY <1>0, <2>1, <2>2, RemoveSlotEffect
<1> QED
  BY <1>1, <1>2, <1>3, <1>4, QueueChanges

-----------------------------------------------------------------------------
(* Ownership of the open connections.                                      *)
Queued == {queue[i].connfd : i \in {j \in Slots : Used(j)}}
Served == {job[w].connfd : w \in {v \in Workers : Serving(v)}}

PoolInv == ControlInv /\ Contiguous /\ OwnInv /\ OwnedOnce

(* A step that moves no descriptor.                                        *)
Neutral ==
  /\ MainOwns' = MainOwns
  /\ MainOwns => connfd' = connfd
  /\ \A w \in Workers : Serving(w)' = Serving(w)
  /\ job' = job
  /\ open' = open
  /\ \A i \in Slots : queue'[i].connfd = queue[i].connfd

(* A step that moves no descriptor keeps the ownership of descriptors.     *)
LEMMA OwnNeutral ==
  ASSUME OwnInv, OwnedOnce, Neutral
  PROVE  OwnInv' /\ OwnedOnce'
<1>1. OwnInv'
  BY DEF OwnInv, Neutral
<1>2. \A i \in Slots : Used(i)' <=> Used(i)
  BY DEF Neutral, Used
<1>3. Queued' = Queued /\ Served' = Served
  BY <1>2 DEF Neutral, Queued, Served
<1>4. (IF MainOwns THEN {connfd} ELSE {})' = IF MainOwns THEN {connfd} ELSE {}
  BY DEF Neutral
<1>5. open' = (IF MainOwns' THEN {connfd'} ELSE {}) \cup Queued' \cup Served'
  BY <1>3, <1>4 DEF Neutral, OwnedOnce, Queued, Served
<1>6. OwnedOnce'
  BY <1>2, <1>5 DEF OwnedOnce, Neutral, Queued, Served
<1> QED
  BY <1>1, <1>6

(* All steps but accept, publish, take and close move no descriptor.       *)
LEMMA NeutralSteps ==
  ASSUME ControlInv, [Next]_vars
  PROVE  \/ Neutral
         \/ \E fd \in Fds : Accept(fd)
         \/ Publish
         \/ \E w \in Workers : Take(w) \/ (Close(w) /\ job[w].connfd \in open)
<1> USE DEF MainOwns, Serving
<1>1. ProcessExit => Neutral
  BY DEF ProcessExit, Neutral, queueVars
<1>2. WaitEmpty \/ MainWaitMutex \/ ReadHeaders \/ MainPostMutex \/ PostFill => Neutral
  BY DEF WaitEmpty, MainWaitMutex, ReadHeaders, MainPostMutex, PostFill, MainStep,
         Neutral, queueVars
<1>3. ASSUME NEW r \in Requests, ReadLine(r) PROVE Neutral
  <2>1. \A i \in Slots : queue'[i].connfd = queue[i].connfd
    BY <1>3 DEF ReadLine, FillTail, ControlInv, TypeOK, QueueTypeOK, Slot
  <2> QED
    BY <1>3, <2>1 DEF ReadLine, MainStep, Neutral
<1>4. ASSUME NEW w \in Workers,
             WaitFill(w) \/ WaitMutex(w) \/ PostMutex(w) \/ PostEmpty(w) \/ Handle(w)
      PROVE  Neutral
  <2>1. pc \in [Workers -> WorkerPC]
    BY DEF ControlInv, TypeOK
  <2>2. \A v \in Workers : Serving(v)' = Serving(v)
    BY <1>4, <2>1 DEF WaitFill, WaitMutex, PostMutex, PostEmpty, Handle, WorkerStep
  <2> QED
    BY <1>4, <2>2
       DEF WaitFill, WaitMutex, PostMutex, PostEmpty, Handle, WorkerStep, Neutral, queueVars
<1>5. ASSUME NEW w \in Workers, Close(w) PROVE Neutral \/ job[w].connfd \in open
  BY <1>1, <1>5 DEF Close
<1>6. UNCHANGED vars => Neutral
  BY DEF vars, poolVars, queueVars, Neutral
<1> QED
  BY <1>1, <1>2, <1>3, <1>4, <1>5, <1>6
     DEF Next, MainNext, WorkerNext, AcceptFails, ReadFails, TakeNothing, HandleFails, Exited

(* At the start nobody holds a descriptor.                                 *)
LEMMA OwnInit == Init => OwnInv /\ OwnedOnce
<1> SUFFICES ASSUME Init PROVE OwnInv /\ OwnedOnce
  OBVIOUS
<1> USE DEF Init, MainOwns, Serving
<1>1. OwnInv
  BY DEF OwnInv
<1>2. \A i \in Slots : ~ Used(i)
  BY DEF QueueInit, Used
<1>3. OwnedOnce
  BY <1>2 DEF OwnedOnce
<1> QED
  BY <1>1, <1>3

(* accept gives main a descriptor that nobody holds.                       *)
LEMMA OwnAccept ==
  ASSUME PoolInv, NEW fd \in Fds, Accept(fd)
  PROVE  OwnInv' /\ OwnedOnce'
<1>1. /\ fd \notin open /\ open' = open \cup {fd} /\ connfd' = fd
      /\ ~ MainOwns /\ MainOwns'
      /\ queue' = queue /\ job' = job /\ pc' = pc
  BY DEF Accept, MainStep, MainOwns, queueVars
<1>2. /\ \A w \in Workers : Serving(w)' <=> Serving(w)
      /\ \A i \in Slots : Used(i)' <=> Used(i)
  BY <1>1 DEF Serving, Used
<1>3. Queued' = Queued /\ Served' = Served
  BY <1>1, <1>2 DEF Queued, Served
<1>4. open = Queued \cup Served
  BY <1>1 DEF PoolInv, OwnedOnce, Queued, Served
<1>5. open' = {connfd'} \cup Queued' \cup Served'
  BY <1>1, <1>3, <1>4
<1>6. \A i \in Slots : queue[i].connfd # fd
  BY <1>1, <1>4, QueueAssumption DEF Queued, Used
<1>7. \A w \in Workers : Serving(w) => job[w].connfd # fd
  BY <1>1, <1>4 DEF Served
<1>8. OwnInv'
  BY <1>1, <1>2 DEF PoolInv, OwnInv
<1>9. OwnedOnce'
  BY <1>1, <1>2, <1>5, <1>6, <1>7 DEF PoolInv, OwnedOnce, Queued, Served
<1> QED
  BY <1>8, <1>9

(* queue_put passes main's descriptor to slot tail, which was empty.       *)
LEMMA OwnPublish ==
  ASSUME PoolInv, Publish
  PROVE  OwnInv' /\ OwnedOnce'
<1>1. /\ MainOwns /\ MainPutting /\ ~ MainOwns'
      /\ queue' = [queue EXCEPT ![tail].connfd = connfd]
      /\ job' = job /\ pc' = pc /\ open' = open /\ connfd \in Fds
      /\ queue \in [Slots -> Slot] /\ tail \in Slots
  BY DEF Publish, PublishTail, MainStep, MainOwns, MainPutting, PoolInv, OwnInv,
         ControlInv, TypeOK, QueueTypeOK
<1>2. ~ Used(tail)
  BY <1>1, TailFree DEF PoolInv
<1>3. \A w \in Workers : Serving(w)' <=> Serving(w)
  BY <1>1 DEF Serving
<1>4. \A i \in Slots : queue'[i].connfd = IF i = tail THEN connfd ELSE queue[i].connfd
  BY <1>1 DEF Slot
<1>5. \A i \in Slots : Used(i)' <=> i = tail \/ Used(i)
  BY <1>1, <1>4, QueueAssumption DEF Used
<1>6. Served' = Served
  BY <1>1, <1>3 DEF Served
<1>7. Queued' = Queued \cup {connfd}
  <2>1. \A x \in Queued' : x \in Queued \cup {connfd}
    BY <1>4, <1>5 DEF Queued
  <2>2. \A x \in Queued : x \in Queued'
    <3> SUFFICES ASSUME NEW i \in Slots, Used(i) PROVE queue[i].connfd \in Queued'
      BY DEF Queued
    <3>1. Used(i)' /\ queue'[i].connfd = queue[i].connfd
      BY <1>2, <1>4, <1>5
    <3> QED
      BY <3>1 DEF Queued
  <2>3. connfd \in Queued'
    <3>1. Used(tail)' <=> queue'[tail'].connfd # NoFd
      BY DEF Used
    <3>2. PICK i \in Slots : i = tail
      BY <1>1
    <3>3. Used(i)' /\ queue'[i].connfd = connfd
      BY <1>4, <1>5, <3>2
    <3> QED
      BY <3>3 DEF Queued
  <2> QED
    BY <2>1, <2>2, <2>3
<1>8. OwnInv'
  BY <1>1, <1>3 DEF PoolInv, OwnInv
<1>9. open' = Queued' \cup Served'
  BY <1>1, <1>6, <1>7 DEF PoolInv, OwnedOnce, Queued, Served
<1>10. OwnedOnce'
  BY <1>1, <1>2, <1>3, <1>4, <1>5, <1>9 DEF PoolInv, OwnedOnce, Queued, Served
<1> QED
  BY <1>8, <1>10

(* A worker closes the descriptor it holds, and nobody else holds it.      *)
LEMMA OwnClose ==
  ASSUME PoolInv, NEW w \in Workers, Close(w), job[w].connfd \in open
  PROVE  OwnInv' /\ OwnedOnce'
<1>1. /\ pc[w] = "close" /\ pc' = [pc EXCEPT ![w] = "wait_fill"]
      /\ open' = open \ {job[w].connfd} /\ job' = [job EXCEPT ![w] = NoJob]
      /\ queue' = queue /\ mainpc' = mainpc /\ connfd' = connfd
      /\ pc \in [Workers -> WorkerPC] /\ job \in [Workers -> Slot]
  BY DEF Close, WorkerStep, queueVars, PoolInv, ControlInv, TypeOK
<1>2. /\ Serving(w) /\ \A v \in Workers : Serving(v)' <=> v # w /\ Serving(v)
      /\ MainOwns' <=> MainOwns
      /\ \A i \in Slots : Used(i)' <=> Used(i)
      /\ \A v \in Workers : v # w => job'[v] = job[v]
  BY <1>1 DEF Serving, MainOwns, Used
<1>3. OwnInv'
  BY <1>1, <1>2 DEF PoolInv, OwnInv
<1>4. Queued' = Queued /\ job[w].connfd \notin Queued
  BY <1>1, <1>2 DEF Queued, PoolInv, OwnedOnce
<1>5. Served' = Served \ {job[w].connfd}
  BY <1>2 DEF Served, PoolInv, OwnedOnce
<1>6. (IF MainOwns THEN {connfd} ELSE {})' = (IF MainOwns THEN {connfd} ELSE {}) \ {job[w].connfd}
  BY <1>1, <1>2 DEF PoolInv, OwnedOnce
<1>7. open' = (IF MainOwns THEN {connfd} ELSE {})' \cup Queued' \cup Served'
  BY <1>1, <1>4, <1>5, <1>6 DEF PoolInv, OwnedOnce, Queued, Served
<1>8. OwnedOnce'
  BY <1>1, <1>2, <1>7 DEF PoolInv, OwnedOnce, Queued, Served
<1> QED
  BY <1>3, <1>8

(* A worker takes over the descriptor of its target; the shift moves the   *)
(* descriptors of the other slots, and drops and doubles none.             *)
LEMMA OwnTake ==
  ASSUME PoolInv, NEW w \in Workers, Take(w)
  PROVE  OwnInv' /\ OwnedOnce'
<1>1. PICK i \in Slots : /\ IsTarget(i) /\ job' = [job EXCEPT ![w] = queue[i]]
                         /\ RemoveSlot(i)
  BY DEF Take
<1>2. /\ pc[w] = "take" /\ pc' = [pc EXCEPT ![w] = "post_mutex"]
      /\ open' = open /\ mainpc' = mainpc /\ connfd' = connfd
      /\ pc \in [Workers -> WorkerPC] /\ job \in [Workers -> Slot]
      /\ queue \in [Slots -> Slot] /\ QueueTypeOK
  BY DEF Take, WorkerStep, PoolInv, ControlInv, TypeOK, QueueTypeOK
<1>3. Used(i) /\ queue[i].connfd \in Fds
  BY <1>1, <1>2, TargetUsed DEF PoolInv, Used, Slot
<1>4. PICK f : /\ \A j \in Slots : Used(j)' => /\ f[j] \in Slots \ {i} /\ Used(f[j])
                                             /\ queue'[j] = queue[f[j]]
               /\ \A j, k \in Slots : Used(j)' /\ Used(k)' /\ f[j] = f[k] => j = k
               /\ \A k \in Slots \ {i} : Used(k) => \E j \in Slots : Used(j)' /\ f[j] = k
  BY <1>1, <1>2, <1>3, RemoveSlotMoves DEF PoolInv
<1>5. /\ ~ Serving(w) /\ Serving(w)' /\ job'[w] = queue[i]
      /\ \A v \in Workers : v # w => (Serving(v)' <=> Serving(v)) /\ job'[v] = job[v]
      /\ MainOwns' <=> MainOwns
  BY <1>1, <1>2 DEF Serving, MainOwns
<1>6. OwnInv'
  BY <1>2, <1>3, <1>5 DEF PoolInv, OwnInv
<1>7. Queued' = Queued \ {queue[i].connfd}
  <2>1. ASSUME NEW x \in Queued' PROVE x \in Queued \ {queue[i].connfd}
    <3>1. PICK j \in Slots : Used(j)' /\ x = queue'[j].connfd
      BY <2>1 DEF Queued
    <3>2. f[j] \in Slots \ {i} /\ Used(f[j]) /\ x = queue[f[j]].connfd
      BY <1>4, <3>1
    <3> QED
      BY <1>3, <3>2 DEF Queued, PoolInv, OwnedOnce
  <2>2. ASSUME NEW x \in Queued \ {queue[i].connfd} PROVE x \in Queued'
    <3>1. PICK k \in Slots : Used(k) /\ x = queue[k].connfd /\ k # i
      BY <2>2 DEF Queued
    <3>2. PICK j \in Slots : Used(j)' /\ f[j] = k
      BY <1>4, <3>1
    <3>3. queue'[j].connfd = x
      BY <1>4, <3>1, <3>2
    <3> QED
      BY <3>2, <3>3 DEF Queued
  <2> QED
    BY <2>1, <2>2
<1>8. Served' = Served \cup {queue[i].connfd}
  <2>1. \A x \in Served' : x \in Served \cup {queue[i].connfd}
    BY <1>5 DEF Served
  <2>2. \A x \in Served : x \in Served'
    BY <1>5 DEF Served
  <2>3. queue[i].connfd \in Served'
    BY <1>5 DEF Served
  <2> QED
    BY <2>1, <2>2, <2>3
<1>9. queue[i].connfd \in Queued
  BY <1>3 DEF Queued
<1>10. open' = (IF MainOwns THEN {connfd} ELSE {})' \cup Queued' \cup Served'
  BY <1>2, <1>5, <1>7, <1>8, <1>9 DEF PoolInv, OwnedOnce, Queued, Served
<1>11. \A j, k \in Slots : Used(j)' /\ queue'[j].connfd = queue'[k].connfd => j = k
  <2> SUFFICES ASSUME NEW j \in Slots, NEW k \in Slots, Used(j)',
                      queue'[j].connfd = queue'[k].connfd
               PROVE  j = k
    OBVIOUS
  <2>1. Used(k)'
    BY DEF Used
  <2>2. f[j] = f[k]
    BY <1>4, <2>1 DEF PoolInv, OwnedOnce
  <2> QED
    BY <1>4, <2>1, <2>2
<1>12. \A u, v \in Workers :
         Serving(u)' /\ Serving(v)' /\ job'[u].connfd = job'[v].connfd => u = v
  BY <1>3, <1>5 DEF PoolInv, OwnedOnce
<1>13. \A j \in Slots, v \in Workers : Used(j)' /\ Serving(v)' => queue'[j].connfd # job'[v].connfd
  <2> SUFFICES ASSUME NEW j \in Slots, NEW v \in Workers, Used(j)', Serving(v)'
               PROVE  queue'[j].connfd # job'[v].connfd
    OBVIOUS
  <2>1. f[j] \in Slots /\ f[j] # i /\ Used(f[j]) /\ queue'[j].connfd = queue[f[j]].connfd
    BY <1>4
  <2> QED
    BY <1>3, <1>5, <2>1 DEF PoolInv, OwnedOnce
<1>14. MainOwns' => /\ \A j \in Slots : queue'[j].connfd # connfd'
                    /\ \A v \in Workers : Serving(v)' => job'[v].connfd # connfd'
  <2> SUFFICES ASSUME MainOwns
               PROVE  /\ \A j \in Slots : queue'[j].connfd # connfd
                      /\ \A v \in Workers : Serving(v)' => job'[v].connfd # connfd
    BY <1>2, <1>5
  <2>1. \A j \in Slots : queue'[j].connfd # connfd
    <3> SUFFICES ASSUME NEW j \in Slots PROVE queue'[j].connfd # connfd
      OBVIOUS
    <3>1. CASE Used(j)'
      BY <1>4, <3>1 DEF PoolInv, OwnedOnce
    <3>2. CASE ~ Used(j)'
      BY <3>2, QueueAssumption DEF Used, PoolInv, OwnInv
    <3> QED
      BY <3>1, <3>2
  <2>2. \A v \in Workers : Serving(v)' => job'[v].connfd # connfd
    BY <1>5 DEF PoolInv, OwnedOnce
  <2> QED
    BY <2>1, <2>2
<1>15. OwnedOnce'
  BY <1>10, <1>11, <1>12, <1>13, <1>14 DEF OwnedOnce, Queued, Served
<1> QED
  BY <1>6, <1>15

(* Every step keeps the control invariant, contiguity and ownership.       *)
LEMMA PoolStep == PoolInv /\ [Next]_vars => PoolInv'
<1> SUFFICES ASSUME PoolInv, [Next]_vars PROVE PoolInv'
  OBVIOUS
<1>1. ControlInv' /\ Contiguous'
  BY ControlStep, ContiguousStep DEF PoolInv
<1>2. OwnInv' /\ OwnedOnce'
  BY NeutralSteps, OwnNeutral, OwnAccept, OwnPublish, OwnTake, OwnClose DEF PoolInv
<1> QED
  BY <1>1, <1>2 DEF PoolInv

(* Control, contiguity and ownership hold together in every reachable      *)
(* state.                                                                  *)
THEOREM PoolInvariant == Spec => []PoolInv
<1>1. Init => PoolInv
  BY ControlInit, ContiguousInit, OwnInit DEF PoolInv
<1> QED
  BY <1>1, PoolStep, PTL DEF Spec

(* The filled slots stay an unbroken run from head to tail, whichever      *)
(* slots the scheduling policy empties.                                    *)
THEOREM ContiguousHolds == Spec => []Contiguous
BY PoolInvariant, PTL DEF PoolInv

(* queue_put never writes into a slot that holds a waiting request.        *)
THEOREM NoOverwriteHolds == Spec => []NoOverwrite
<1>1. PoolInv => NoOverwrite
  BY TailFree DEF PoolInv, NoOverwrite, MainPutting
<1> QED
  BY <1>1, PoolInvariant, PTL

(* Every open connection is in exactly one place, so none is dropped and   *)
(* none is served or closed twice.                                         *)
THEOREM OwnedOnceHolds == Spec => []OwnedOnce
BY PoolInvariant, PTL DEF PoolInv

-----------------------------------------------------------------------------
(* The descriptors in use.                                                 *)

(* A function takes no more values on a set than the set has elements.     *)
LEMMA ImageBound ==
  ASSUME NEW S, IsFiniteSet(S), NEW f
  PROVE  LET image == {f[x] : x \in S}
         IN  IsFiniteSet(image) /\ Cardinality(image) <= Cardinality(S)
<1> DEFINE image == {f[x] : x \in S}
           g == [x \in S |-> f[x]]
<1>1. g \in Surjection(S, image)
  BY DEF Surjection
<1> QED
  BY <1>1, FS_Surjection

(* Two finite sets together have no more elements than both.               *)
LEMMA UnionBound ==
  ASSUME NEW S, NEW T, IsFiniteSet(S), IsFiniteSet(T)
  PROVE  /\ IsFiniteSet(S \cup T)
         /\ Cardinality(S \cup T) <= Cardinality(S) + Cardinality(T)
<1>1. IsFiniteSet(S \cap T)
  BY FS_Subset, S \cap T \in SUBSET S
<1>2. /\ Cardinality(S) \in Nat /\ Cardinality(T) \in Nat
      /\ Cardinality(S \cap T) \in Nat
  BY <1>1, FS_CardinalityType
<1>3. /\ IsFiniteSet(S \cup T)
      /\ Cardinality(S \cup T) = Cardinality(S) + Cardinality(T) - Cardinality(S \cap T)
  BY FS_Union, Zenon
<1> QED
  BY <1>2, <1>3

(* What is open is what main, the slots and the workers hold.              *)
LEMMA OpenBound ==
  ASSUME OwnedOnce
  PROVE  /\ IsFiniteSet(open) /\ Cardinality(open) \in Nat
         /\ Cardinality(open) <= One(MainOwns) + NBuffer + Cardinality(Workers)
<1> DEFINE mine == IF MainOwns THEN {connfd} ELSE {}
           filled == {i \in Slots : Used(i)}
           busy == {w \in Workers : Serving(w)}
           atSlot == [i \in Slots |-> queue[i].connfd]
           atWorker == [w \in Workers |-> job[w].connfd]
           waiting == {atSlot[i] : i \in filled}
           served == {atWorker[w] : w \in busy}
<1>1. open = (mine \cup waiting) \cup served
  BY DEF OwnedOnce
<1>2. IsFiniteSet(mine) /\ Cardinality(mine) = One(MainOwns) /\ Cardinality(mine) \in Nat
  <2>1. MainOwns => mine = {connfd} /\ One(MainOwns) = 1
    BY DEF One
  <2>2. ~ MainOwns => mine = {} /\ One(MainOwns) = 0
    BY DEF One
  <2> HIDE DEF mine
  <2> QED
    BY <2>1, <2>2, FS_Singleton, FS_EmptySet
<1>3. IsFiniteSet(filled) /\ Cardinality(filled) <= NBuffer /\ Cardinality(filled) \in Nat
  <2>1. IsFiniteSet(Slots) /\ Cardinality(Slots) = NBuffer
    BY QueueAssumption, FS_Interval DEF Slots
  <2>2. filled \in SUBSET Slots
    OBVIOUS
  <2> QED
    BY <2>1, <2>2, FS_Subset, FS_CardinalityType
<1>4. /\ IsFiniteSet(busy) /\ Cardinality(busy) <= Cardinality(Workers)
      /\ Cardinality(busy) \in Nat
  <2>1. busy \in SUBSET Workers
    OBVIOUS
  <2> QED
    BY <2>1, WorkersAssumption, FS_Subset, FS_CardinalityType
<1> HIDE DEF mine, filled, busy, atSlot, atWorker
<1>5. IsFiniteSet(waiting) /\ Cardinality(waiting) <= Cardinality(filled)
  BY <1>3, ImageBound
<1>6. IsFiniteSet(served) /\ Cardinality(served) <= Cardinality(busy)
  BY <1>4, ImageBound
<1> HIDE DEF waiting, served
<1>7. /\ IsFiniteSet(mine \cup waiting)
      /\ Cardinality(mine \cup waiting) <= Cardinality(mine) + Cardinality(waiting)
  BY <1>2, <1>5, UnionBound
<1>8. Cardinality(open) <= Cardinality(mine \cup waiting) + Cardinality(served)
  BY <1>1, <1>6, <1>7, UnionBound
<1>9. /\ Cardinality(waiting) \in Nat /\ Cardinality(served) \in Nat
      /\ Cardinality(mine \cup waiting) \in Nat /\ Cardinality(Workers) \in Nat
      /\ IsFiniteSet(open) /\ Cardinality(open) \in Nat
  BY <1>1, <1>5, <1>6, <1>7, WorkersAssumption, UnionBound, FS_CardinalityType
<1> QED
  BY <1>2, <1>3, <1>4, <1>5, <1>6, <1>7, <1>8, <1>9, QueueAssumption

(* However the ring is shifted and whatever the workers are at, the open   *)
(* connections are no more than one for each slot, each worker and main:   *)
(* an open connection is always with one of them.                          *)
THEOREM DescriptorBoundHolds == Spec => []DescriptorBound
<1>1. OwnedOnce => DescriptorBound
  BY OpenBound, WorkersAssumption, FS_CardinalityType, QueueAssumption DEF DescriptorBound, One
<1> QED
  BY <1>1, OwnedOnceHolds, PTL

-----------------------------------------------------------------------------
(* The search of thread_handle.                                            *)

(* A non-empty set of natural numbers has a smallest element.              *)
LEMMA SmallestExists ==
  ASSUME NEW S \in SUBSET Nat, S # {}
  PROVE  \E m \in S : \A x \in S : m <= x
<1> DEFINE R == {ss \in Nat \X Nat : ss[1] < ss[2]}
<1>1. IsWellFoundedOn(R, Nat)
  BY NatLessThanWellFounded DEF OpToRel
<1> HIDE DEF R
<1>2. \E m \in S : \A x \in S : ~ (<<x, m>> \in R)
  BY <1>1, WFMin
<1>3. \A x, m \in S : ~ (<<x, m>> \in R) => m <= x
  BY DEF R
<1> QED
  BY <1>2, <1>3

(* Among the filled slots there is a best one under every policy: the      *)
(* first slot with the smallest key.                                       *)
LEMMA BestExists ==
  ASSUME QueueTypeOK, SchedPolicy # "FIFO",
         NEW u \in Slots, Used(u), KeyInRange(queue[u].req)
  PROVE  \E i \in Slots : IsTarget(i)
<1> DEFINE key(i) == IF SchedPolicy = "RFF" THEN LongMax - queue[i].req.st_mtime
                                            ELSE queue[i].req.st_size
           Keys == {key(i) : i \in Candidates}
<1>1. \A i \in Slots : /\ queue[i].req.st_size \in 0 .. LongMax
                       /\ queue[i].req.st_mtime \in Int
                       /\ queue[i].req.st_mtime <= LongMax
  BY QueueAssumption DEF QueueTypeOK, Slot
<1>2. LongMax \in Int
  BY QueueAssumption
<1>3. Candidates \in SUBSET Slots /\ u \in Candidates
  BY <1>1, <1>2 DEF Candidates, KeyInRange
<1>4. \A i \in Slots : key(i) \in Nat
  BY <1>1, <1>2
<1>5. \A i, j \in Slots : Preferred(i, j) <=> key(i) < key(j)
  BY <1>1, <1>2 DEF Preferred
<1> HIDE DEF key
<1>6. Keys \in SUBSET Nat /\ Keys # {}
  BY <1>3, <1>4
<1>7. PICK k \in Keys : \A x \in Keys : k <= x
  BY <1>6, SmallestExists
<1> DEFINE Best == {i \in Candidates : key(i) = k}
<1>8. Best \in SUBSET Nat /\ Best # {}
  BY <1>3, QueueAssumption DEF Slots
<1>9. PICK i \in Best : \A x \in Best : i <= x
  BY <1>8, SmallestExists
<1>10. ASSUME NEW j \in Candidates
       PROVE  IF j < i THEN Preferred(i, j) ELSE ~ Preferred(j, i)
  <2>1. i \in Slots /\ j \in Slots /\ key(i) = k /\ key(i) \in Nat /\ key(j) \in Nat
    BY <1>3, <1>4
  <2>2. key(i) <= key(j)
    BY <1>7, <2>1
  <2>3. key(j) = k => i <= j
    BY <1>9
  <2>4. i \in Int /\ j \in Int
    BY <2>1 DEF Slots
  <2>5. j < i => key(i) < key(j)
    BY <2>1, <2>2, <2>3, <2>4
  <2> QED
    BY <1>5, <2>1, <2>2, <2>5
<1> QED
  BY <1>3, <1>10 DEF IsTarget

(* So a worker inside the mutex finds its target.                          *)
LEMMA TargetExists == PoolInv => TargetFound
<1> DEFINE waiting == {i \in Slots : Used(i)}
<1> SUFFICES ASSUME PoolInv, NEW w \in Workers, pc[w] = "take"
             PROVE  /\ waiting # {}
                    /\ \A u \in waiting : KeyInRange(queue[u].req)
                                          => \E i \in waiting : IsTarget(i)
  BY DEF TargetFound
<1>1. head \in Slots /\ QueueTypeOK /\ ControlInv /\ Contiguous
  BY DEF PoolInv, ControlInv, TypeOK, QueueTypeOK
<1>2. \A i \in Slots : IsTarget(i) => Used(i)
  BY <1>1, TargetUsed
<1>3. Used(head)
  <2>1. Cardinality(Taking) > 0
    BY TokensFinite, FS_EmptySet DEF Taking
  <2>2. count > 0
    BY <1>1, <2>1, TokensFinite, QueueAssumption
       DEF ControlInv, TypeOK, QueueTypeOK, SemaphoresAccount, MainPut, One
  <2>3. Pos(head, head) = 0
    BY <1>1, PosValue, QueueAssumption DEF Slots
  <2> QED
    BY <1>1, <2>2, <2>3 DEF Contiguous, Pos
<1>4. CASE SchedPolicy = "FIFO"
  BY <1>1, <1>3, <1>4 DEF IsTarget
<1>5. CASE SchedPolicy # "FIFO"
  <2>1. ASSUME NEW u \in waiting, KeyInRange(queue[u].req)
        PROVE  \E i \in waiting : IsTarget(i)
    BY <1>1, <1>2, <1>5, <2>1, BestExists
  <2> QED
    BY <1>1, <1>3, <2>1
<1> QED
  BY <1>4, <1>5

(* A worker inside the mutex has a request to take, and finds one if any   *)
(* file asked for was modified since 1970 and is smaller than LONG_MAX.    *)
THEOREM TargetFoundHolds == Spec => []TargetFound
BY TargetExists, PoolInvariant, PTL

-----------------------------------------------------------------------------
(* The pool implements ServicePool.                                        *)
serving == [w \in Workers |-> job[w].connfd]

(* A waiting request, by its place in the line and by its slot.            *)
LEMMA PendingAt ==
  ASSUME QueueTypeOK, Contiguous
  PROVE  /\ \A k \in 1 .. count : /\ At(head, k - 1) \in Slots /\ Used(At(head, k - 1))
                                  /\ Pos(head, At(head, k - 1)) = k - 1
                                  /\ Pending[k] = queue[At(head, k - 1)]
         /\ \A i \in Slots : Used(i) => /\ Pos(head, i) + 1 \in 1 .. count
                                        /\ Pending[Pos(head, i) + 1] = queue[i]
<1>0. head \in Slots /\ count \in 0 .. NBuffer /\ NBuffer \in Nat /\ NBuffer > 0
  BY QueueAssumption DEF QueueTypeOK
<1>1. ASSUME NEW k \in 1 .. count
      PROVE  /\ At(head, k - 1) \in Slots /\ Used(At(head, k - 1))
             /\ Pos(head, At(head, k - 1)) = k - 1
             /\ Pending[k] = queue[At(head, k - 1)]
  <2>1. k - 1 \in 0 .. NBuffer - 1 /\ k - 1 \in 0 .. NBuffer /\ k - 1 < count
    BY <1>0
  <2>2. At(head, k - 1) \in Slots /\ Pos(head, At(head, k - 1)) = k - 1
    BY <1>0, <2>1, AtValue, AtPos
  <2>3. Used(At(head, k - 1))
    BY <2>1, <2>2 DEF Contiguous, Pos
  <2>4. head + k - 1 = head + (k - 1)
    BY <1>0 DEF Slots
  <2>5. Pending[k] = queue[At(head, k - 1)]
    BY <2>4 DEF Pending, InOrder, At
  <2> QED
    BY <2>2, <2>3, <2>5
<1>2. ASSUME NEW i \in Slots, Used(i)
      PROVE  /\ Pos(head, i) + 1 \in 1 .. count
             /\ Pending[Pos(head, i) + 1] = queue[i]
  <2>1. Pos(head, i) \in 0 .. NBuffer - 1 /\ Pos(head, i) < count
    BY <1>0, <1>2, PosValue DEF Contiguous, Pos
  <2>2. Pos(head, i) + 1 \in 1 .. count /\ (Pos(head, i) + 1) - 1 = Pos(head, i)
    BY <1>0, <2>1
  <2>3. At(head, Pos(head, i)) = i
    BY <1>0, AtPos
  <2> QED
    BY <1>1, <2>2, <2>3
<1> QED
  BY <1>1, <1>2

(* The line of waiting requests is a sequence of descriptors and requests. *)
LEMMA PendingSeq ==
  ASSUME QueueTypeOK, Contiguous
  PROVE  Pending \in Seq(Slot) /\ Len(Pending) = count /\ DOMAIN Pending = 1 .. count
<1>1. count \in Nat /\ Pending = [k \in 1 .. count |-> InOrder(k)]
  BY QueueAssumption DEF QueueTypeOK, Pending
<1>2. \A k \in 1 .. count : InOrder(k) \in Slot
  BY PendingAt, <1>1 DEF QueueTypeOK
<1>3. Pending \in [1 .. count -> Slot]
  BY <1>1, <1>2
<1> QED
  BY <1>1, <1>3

(* What a step can be, seen from the promise.                              *)
LEMMA PromiseSteps ==
  ASSUME [Next]_vars
  PROVE  \/ UNCHANGED queueVars /\ job' = job /\ up' = up
         \/ \E r \in Requests : ReadLine(r)
         \/ Publish
         \/ \E w \in Workers : Take(w) \/ (Close(w) /\ job[w].connfd \in open)
         \/ up /\ ProcessExit
<1>1. ASSUME NEW fd \in Fds, Accept(fd) PROVE UNCHANGED queueVars /\ job' = job /\ up' = up
  BY <1>1 DEF Accept, MainStep
<1>2. WaitEmpty \/ MainWaitMutex \/ ReadHeaders \/ MainPostMutex \/ PostFill
        => UNCHANGED queueVars /\ job' = job /\ up' = up
  BY DEF WaitEmpty, MainWaitMutex, ReadHeaders, MainPostMutex, PostFill, MainStep
<1>3. ASSUME NEW w \in Workers,
             WaitFill(w) \/ WaitMutex(w) \/ PostMutex(w) \/ PostEmpty(w) \/ Handle(w)
      PROVE  UNCHANGED queueVars /\ job' = job /\ up' = up
  BY <1>3 DEF WaitFill, WaitMutex, PostMutex, PostEmpty, Handle, WorkerStep
<1>4. UNCHANGED vars => UNCHANGED queueVars /\ job' = job /\ up' = up
  BY DEF vars, poolVars
<1>5. ASSUME NEW w \in Workers, Close(w), job[w].connfd \notin open
      PROVE  up /\ ProcessExit
  BY <1>5 DEF Close
<1> QED
  BY <1>1, <1>2, <1>3, <1>4, <1>5
     DEF Next, MainNext, WorkerNext, AcceptFails, ReadFails, TakeNothing, HandleFails, Exited

(* Filling slot tail before it is published is no step of the promise.     *)
LEMMA RefineReadLine ==
  ASSUME PoolInv, NEW r \in Requests, ReadLine(r)
  PROVE  Pending' = Pending /\ job' = job /\ up' = up
<1>1. /\ queue' = [queue EXCEPT ![tail].req = r] /\ head' = head /\ count' = count
      /\ job' = job /\ up' = up
      /\ MainPutting /\ QueueTypeOK /\ Contiguous /\ ControlInv
  BY DEF ReadLine, FillTail, MainStep, MainPutting, PoolInv, ControlInv, TypeOK
<1>2. ~ Used(tail)
  BY <1>1, TailFree
<1>3. \A k \in 1 .. count : InOrder(k)' = InOrder(k)
  <2> SUFFICES ASSUME NEW k \in 1 .. count PROVE InOrder(k)' = InOrder(k)
    OBVIOUS
  <2>1. head + k - 1 = head + (k - 1)
    BY <1>1, QueueAssumption DEF QueueTypeOK, Slots
  <2>2. At(head, k - 1) \in Slots /\ Used(At(head, k - 1))
    BY <1>1, PendingAt
  <2>3. At(head, k - 1) # tail
    BY <1>2, <2>2
  <2>4. queue'[At(head, k - 1)] = queue[At(head, k - 1)]
    BY <1>1, <2>2, <2>3 DEF QueueTypeOK
  <2>5. InOrder(k)' = queue'[At(head, k - 1)] /\ InOrder(k) = queue[At(head, k - 1)]
    BY <1>1, <2>1 DEF InOrder, At
  <2> QED
    BY <2>4, <2>5
<1> QED
  BY <1>1, <1>3 DEF Pending

(* Publishing slot tail appends the request to the line.                   *)
LEMMA RefinePublish ==
  ASSUME PoolInv, Publish
  PROVE  Promise!Put(connfd, queue[tail].req)
<1>1. /\ queue' = [queue EXCEPT ![tail].connfd = connfd] /\ head' = head /\ count' = count + 1
      /\ job' = job /\ up' = up /\ up
      /\ MainPutting /\ MainOwns /\ QueueTypeOK /\ Contiguous /\ ControlInv /\ connfd \in Fds
      /\ NBuffer \in Nat /\ NBuffer > 0
  BY QueueAssumption
     DEF Publish, PublishTail, MainStep, MainPutting, MainOwns, PoolInv, ControlInv, TypeOK, OwnInv
<1>2. ~ Used(tail) /\ count < NBuffer /\ tail \in Slots /\ head \in Slots /\ count \in Nat
  BY <1>1, TailFree DEF QueueTypeOK
<1>3. Pending \in Seq(Slot) /\ Len(Pending) = count /\ DOMAIN Pending = 1 .. count
  BY <1>1, PendingSeq
<1>4. ~ Promise!Waiting(connfd)
  <2> SUFFICES ASSUME NEW k \in 1 .. count PROVE Pending[k].connfd # connfd
    BY <1>3 DEF Promise!Waiting
  <2>1. At(head, k - 1) \in Slots /\ Pending[k] = queue[At(head, k - 1)]
    BY <1>1, PendingAt
  <2> QED
    BY <1>1, <2>1 DEF PoolInv, OwnedOnce
<1>5. \A w \in Workers : serving[w] # connfd
  BY <1>1, QueueAssumption DEF serving, PoolInv, OwnInv, OwnedOnce, NoJob
<1> DEFINE new == [connfd |-> connfd, req |-> queue[tail].req]
<1>6. new \in Slot
  BY <1>1, <1>2 DEF QueueTypeOK, Slot
<1>7. \A k \in 1 .. count + 1 : InOrder(k)' = IF k = count + 1 THEN new ELSE Pending[k]
  <2> SUFFICES ASSUME NEW k \in 1 .. count + 1
               PROVE  InOrder(k)' = IF k = count + 1 THEN new ELSE Pending[k]
    OBVIOUS
  <2>0. head + k - 1 = head + (k - 1)
    BY <1>2 DEF Slots
  <2>1. InOrder(k)' = queue'[At(head, k - 1)]
    BY <1>1, <2>0 DEF InOrder, At
  <2>2. CASE k = count + 1
    <3>1. At(head, k - 1) = tail
      BY <1>2, <2>2 DEF PoolInv, Contiguous, At
    <3>2. queue'[tail] = new
      BY <1>1, <1>2 DEF QueueTypeOK, Slot
    <3> QED
      BY <2>1, <2>2, <3>1, <3>2
  <2>3. CASE k # count + 1
    <3>1. k \in 1 .. count
      BY <1>2, <2>3
    <3>2. /\ At(head, k - 1) \in Slots /\ Used(At(head, k - 1))
          /\ Pending[k] = queue[At(head, k - 1)]
      BY <1>1, <3>1, PendingAt
    <3>3. queue'[At(head, k - 1)] = queue[At(head, k - 1)]
      BY <1>1, <1>2, <3>2 DEF QueueTypeOK
    <3> QED
      BY <2>1, <2>3, <3>2, <3>3
  <2> QED
    BY <2>2, <2>3
<1>8. Pending' = Append(Pending, new)
  <2> HIDE DEF new
  <2>1. Pending' = [k \in 1 .. count + 1 |-> InOrder(k)']
    BY <1>1 DEF Pending
  <2>2. Pending' = [k \in 1 .. count + 1 |-> IF k = count + 1 THEN new ELSE Pending[k]]
    BY <1>7, <2>1
  <2>3. /\ Append(Pending, new) \in Seq(Slot) /\ Len(Append(Pending, new)) = count + 1
        /\ \A k \in 1 .. count : Append(Pending, new)[k] = Pending[k]
        /\ Append(Pending, new)[count + 1] = new
    BY <1>2, <1>3, <1>6
  <2>4. Pending' \in Seq(Slot) /\ Len(Pending') = count + 1
    <3>1. \A k \in 1 .. count : Pending[k] \in Slot
      BY <1>3
    <3>2. Pending' \in [1 .. count + 1 -> Slot]
      BY <1>2, <1>6, <2>2, <3>1
    <3> QED
      BY <1>2, <3>2
  <2>5. \A k \in 1 .. count + 1 : Append(Pending, new)[k] = Pending'[k]
    BY <1>2, <2>2, <2>3
  <2> QED
    BY <2>3, <2>4, <2>5, SeqEqual
<1> QED
  BY <1>1, <1>2, <1>3, <1>4, <1>5, <1>8 DEF Promise!Put, serving

(* Removing the target takes the request at its position out of the line,  *)
(* which the policy allows.                                                *)
LEMMA RefineTake ==
  ASSUME PoolInv, NEW w \in Workers, Take(w)
  PROVE  \E k \in DOMAIN Pending : Promise!Take(w, k)
<1>1. PICK i \in Slots : /\ IsTarget(i) /\ job' = [job EXCEPT ![w] = queue[i]]
                         /\ RemoveSlot(i)
  BY DEF Take
<1>2. /\ pc[w] = "take" /\ up /\ up' = up
      /\ job \in [Workers -> Slot] /\ QueueTypeOK /\ Contiguous /\ ControlInv
      /\ head \in Slots /\ count \in 0 .. NBuffer /\ NBuffer \in Nat /\ NBuffer > 0
      /\ count' = count - 1
  BY <1>1, QueueAssumption
     DEF Take, WorkerStep, PoolInv, ControlInv, TypeOK, QueueTypeOK, RemoveSlot
<1>3. Used(i) /\ count > 0
  BY <1>1, <1>2, TargetUsed
<1>4. PICK n \in 1 .. count : Pending[n] = queue[i] /\ Pos(head, i) = n - 1
  <2>1. Pos(head, i) \in 0 .. NBuffer - 1
    BY <1>2, PosValue
  <2>2. PICK n \in 1 .. count : n = Pos(head, i) + 1
    BY <1>2, <1>3, PendingAt
  <2>3. Pending[n] = queue[i]
    BY <1>2, <1>3, <2>2, PendingAt
  <2>4. Pos(head, i) = n - 1
    BY <2>1, <2>2
  <2> QED
    BY <2>3, <2>4
<1>5. Pending \in Seq(Slot) /\ Len(Pending) = count /\ DOMAIN Pending = 1 .. count
  BY <1>2, PendingSeq
<1>6. serving[w] = NoFd
  BY <1>2 DEF serving, PoolInv, OwnInv, Serving, NoJob
<1>7. Promise!Allowed(n)
  <2>1. CASE SchedPolicy = "FIFO"
    <3>1. i = head /\ Pos(head, head) = 0
      BY <1>1, <1>2, <2>1, PosValue DEF IsTarget, Slots
    <3>2. n = 1
      BY <1>2, <1>4, <3>1
    <3> QED
      BY <2>1, <3>2 DEF Promise!Allowed
  <2>2. CASE SchedPolicy = "SFF"
    <3> SUFFICES ASSUME NEW k \in 1 .. count
                 PROVE  Pending[n].req.st_size <= Pending[k].req.st_size
      BY <1>5, <2>2 DEF Promise!Allowed
    <3>1. PICK j \in Slots : Used(j) /\ Pending[k] = queue[j]
      BY <1>2, PendingAt
    <3>2. queue[i].req.st_size \in Int /\ queue[j].req.st_size \in Int /\ LongMax \in Int
      BY <1>2, QueueAssumption DEF QueueTypeOK, Slot
    <3>3. i \in Int /\ j \in Int
      BY DEF Slots
    <3>4. i \in Candidates /\ queue[i].req.st_size < LongMax
      BY <1>1, <2>2 DEF IsTarget, Candidates
    <3>5. CASE j \in Candidates
      <4>1. IF j < i THEN Preferred(i, j) ELSE ~ Preferred(j, i)
        BY <1>1, <2>2, <3>5 DEF IsTarget
      <4> QED
        BY <1>4, <2>2, <3>1, <3>2, <4>1 DEF Preferred
    <3>6. CASE j \notin Candidates
      <4>1. ~ (queue[j].req.st_size < LongMax)
        BY <2>2, <3>1, <3>6 DEF Candidates
      <4> QED
        BY <1>4, <3>1, <3>2, <3>4, <4>1
    <3> QED
      BY <3>5, <3>6
  <2>3. CASE SchedPolicy = "RFF"
    <3> SUFFICES ASSUME NEW k \in 1 .. count
                 PROVE  Pending[n].req.st_mtime >= Pending[k].req.st_mtime
      BY <1>5, <2>3 DEF Promise!Allowed
    <3>1. PICK j \in Slots : Used(j) /\ Pending[k] = queue[j]
      BY <1>2, PendingAt
    <3>2. queue[i].req.st_mtime \in Int /\ queue[j].req.st_mtime \in Int
      BY <1>2, QueueAssumption DEF QueueTypeOK, Slot
    <3>3. i \in Candidates /\ queue[i].req.st_mtime > -1
      BY <1>1, <2>3 DEF IsTarget, Candidates
    <3>4. CASE j \in Candidates
      <4>1. IF j < i THEN Preferred(i, j) ELSE ~ Preferred(j, i)
        BY <1>1, <2>3, <3>4 DEF IsTarget
      <4> QED
        BY <1>4, <2>3, <3>1, <3>2, <4>1 DEF Preferred
    <3>5. CASE j \notin Candidates
      <4>1. ~ (queue[j].req.st_mtime > -1)
        BY <2>3, <3>1, <3>5 DEF Candidates
      <4> QED
        BY <1>4, <3>1, <3>2, <3>3, <4>1
    <3> QED
      BY <3>4, <3>5
  <2> QED
    BY <2>1, <2>2, <2>3, QueueAssumption
<1>8. \A k \in 1 .. count - 1 : InOrder(k)' = IF k < n THEN Pending[k] ELSE Pending[k + 1]
  <2> SUFFICES ASSUME NEW k \in 1 .. count - 1
               PROVE  InOrder(k)' = IF k < n THEN Pending[k] ELSE Pending[k + 1]
    OBVIOUS
  <2>0. k - 1 \in 0 .. count - 2 /\ k \in 1 .. count /\ k + 1 \in 1 .. count
        /\ k + 1 - 1 = (k - 1) + 1
    BY <1>2
  <2>1. head' \in Slots
    BY <1>1, <1>2, <1>3, RemoveSlotTypes DEF QueueTypeOK
  <2>2. head' + k - 1 = head' + (k - 1)
    BY <2>1 DEF Slots
  <2>3. InOrder(k)' = queue'[At(head', k - 1)]
    BY <2>2 DEF InOrder, At
  <2>4. queue'[At(head', k - 1)] = queue[IF k - 1 < Pos(head, i) THEN At(head, k - 1)
                                                                  ELSE At(head, (k - 1) + 1)]
    BY <1>1, <1>2, <1>3, <2>0, RemoveSlotEffect
  <2>5. Pending[k] = queue[At(head, k - 1)] /\ Pending[k + 1] = queue[At(head, (k - 1) + 1)]
    BY <1>2, <2>0, PendingAt
  <2>6. k - 1 < Pos(head, i) <=> k < n
    BY <1>2, <1>4
  <2> QED
    BY <2>3, <2>4, <2>5, <2>6
<1>9. Pending' = Promise!Without(n)
  BY <1>2, <1>5, <1>8 DEF Pending, Promise!Without
<1>10. [v \in Workers |-> job[v].connfd]'
         = [[v \in Workers |-> job[v].connfd] EXCEPT ![w] = Pending[n].connfd]
  BY <1>1, <1>2, <1>4
<1>11. Promise!Take(w, n)
  BY <1>2, <1>6, <1>7, <1>9, <1>10 DEF Promise!Take, serving
<1>12. n \in DOMAIN Pending
  BY <1>4, <1>5
<1> QED
  BY <1>11, <1>12

(* Closing the descriptor ends the worker's service of it.                 *)
LEMMA RefineClose ==
  ASSUME PoolInv, NEW w \in Workers, Close(w), job[w].connfd \in open
  PROVE  Promise!Done(w)
<1>1. /\ UNCHANGED queueVars /\ job' = [job EXCEPT ![w] = NoJob] /\ up /\ up' = up
      /\ Serving(w) /\ job \in [Workers -> Slot]
  BY DEF Close, WorkerStep, PoolInv, ControlInv, TypeOK, Serving
<1>2. job[w].connfd # NoFd
  BY <1>1, QueueAssumption DEF PoolInv, OwnInv
<1>3. Pending' = Pending
  BY <1>1 DEF queueVars, Pending, InOrder
<1>4. [v \in Workers |-> job[v].connfd]' = [[v \in Workers |-> job[v].connfd] EXCEPT ![w] = NoFd]
  BY <1>1 DEF NoJob
<1> QED
  BY <1>1, <1>2, <1>3, <1>4 DEF Promise!Done

(* Every step of the pool is a step of the promise, or none.               *)
LEMMA RefineStep == PoolInv /\ [Next]_vars => [Promise!Next]_(Promise!promiseVars)
<1> SUFFICES ASSUME PoolInv, [Next]_vars PROVE [Promise!Next]_(Promise!promiseVars)
  OBVIOUS
<1>1. CASE UNCHANGED queueVars /\ job' = job /\ up' = up
  BY <1>1 DEF queueVars, Pending, InOrder, Promise!promiseVars
<1>2. ASSUME NEW r \in Requests, ReadLine(r) PROVE UNCHANGED Promise!promiseVars
  BY <1>2, RefineReadLine DEF Promise!promiseVars
<1>3. CASE Publish
  <2>1. connfd \in Fds /\ queue[tail].req \in Requests
    BY <1>3 DEF Publish, MainStep, MainOwns, PoolInv, OwnInv, ControlInv, TypeOK, QueueTypeOK, Slot
  <2> QED
    BY <1>3, <2>1, RefinePublish DEF Promise!Next
<1>4. ASSUME NEW w \in Workers, Take(w) PROVE Promise!Next
  BY <1>4, RefineTake DEF Promise!Next
<1>5. ASSUME NEW w \in Workers, Close(w), job[w].connfd \in open PROVE Promise!Next
  BY <1>5, RefineClose DEF Promise!Next
<1>6. CASE up /\ ProcessExit
  <2>1. Promise!Halt
    BY <1>6 DEF ProcessExit, Promise!Halt, queueVars, Pending, InOrder
  <2> QED
    BY <2>1 DEF Promise!Next
<1> QED
  BY <1>1, <1>2, <1>3, <1>4, <1>5, <1>6, PromiseSteps

(* The ring with its shifting, its two semaphores and its mutex implements *)
(* a bounded list from which each worker takes a request that the          *)
(* scheduling policy allows, for any number of slots, workers and clients. *)
THEOREM ImplementsPool == Spec => ImplementsServicePool
<1>1. Init => Promise!Init
  <2> SUFFICES ASSUME Init PROVE Promise!Init
    OBVIOUS
  <2>1. Pending = <<>>
    BY DEF Init, QueueInit, Pending
  <2> QED
    BY <2>1 DEF Init, NoJob, Promise!Init
<1> QED
  BY <1>1, RefineStep, PoolInvariant, PTL DEF Spec, ImplementsServicePool, Promise!Spec

=============================================================================
