----------------------------- MODULE RequestQueue -----------------------------
(***************************************************************************)
(* The circular buffer of multiThreadedWebServer/server.c: an array of     *)
(* request_t slots with the indices head and tail and the counter count,   *)
(* the choice of the slot a worker takes under each scheduling policy, and *)
(* the removal of a slot that is not at the head (shift_queue_left).       *)
(*                                                                         *)
(* A slot keeps its fields when it is vacated: only connfd becomes -1.     *)
(* The fields of request_t other than connfd are one value here, req, of   *)
(* which the queue looks at the two sort keys st_size and st_mtime only.   *)
(***************************************************************************)
EXTENDS Integers

CONSTANTS
  NBuffer,      \* nbuffer: the number of slots
  SchedPolicy,  \* sched_policy: "FIFO", "SFF" or "RFF"
  Fds,          \* the descriptors accept() can return
  NoFd,         \* -1, the connfd of an empty slot
  Requests,     \* the values of the fields of a request_t other than connfd
  ZeroRequest,  \* what a slot that was never filled holds (fresh zero pages)
  LongMax       \* LONG_MAX, the starting point of the search for the smallest

ASSUME QueueAssumption ==
  /\ NBuffer \in Nat \ {0}
  /\ SchedPolicy \in {"FIFO", "SFF", "RFF"}
  /\ NoFd \notin Fds
  /\ ZeroRequest \in Requests
  /\ LongMax \in Int
  /\ \A r \in Requests : r.st_size \in 0 .. LongMax
                         /\ r.st_mtime \in Int /\ r.st_mtime <= LongMax

(* A file that the searches can find under every policy: modified since    *)
(* 1970, and smaller than LONG_MAX.                                        *)
KeyInRange(r) == r.st_size < LongMax /\ r.st_mtime >= 0

VARIABLES queue, head, tail, count

queueVars == <<queue, head, tail, count>>

Slots == 0 .. NBuffer - 1

Slot == [connfd : Fds \cup {NoFd}, req : Requests]

NextSlot(i) == (i + 1) % NBuffer

PrevSlot(i) == (i - 1 + NBuffer) % NBuffer

Used(i) == queue[i].connfd # NoFd

QueueInit ==
  /\ queue = [i \in Slots |-> [connfd |-> NoFd, req |-> ZeroRequest]]
  /\ head = 0
  /\ tail = 0
  /\ count = 0

-----------------------------------------------------------------------------
(* The slot a worker takes.  The loops run over the slots in index order,  *)
(* compare strictly, and start from latest = -1 and smallest = LONG_MAX.   *)

(* Mutant: the search does not skip empty slots.                           *)
Candidates_AnySlot ==
  {i \in Slots : IF SchedPolicy = "RFF" THEN queue[i].req.st_mtime > -1
                                        ELSE queue[i].req.st_size < LongMax}

Candidates ==
  {i \in Slots : Used(i) /\ IF SchedPolicy = "RFF"
                              THEN queue[i].req.st_mtime > -1
                              ELSE queue[i].req.st_size < LongMax}

(* Mutant: the comparisons of the two loops are swapped.                   *)
Preferred_Swapped(i, j) ==
  IF SchedPolicy = "RFF"
    THEN queue[i].req.st_mtime < queue[j].req.st_mtime
    ELSE queue[i].req.st_size > queue[j].req.st_size

Preferred(i, j) ==
  IF SchedPolicy = "RFF"
    THEN queue[i].req.st_mtime > queue[j].req.st_mtime
    ELSE queue[i].req.st_size < queue[j].req.st_size

IsTarget(i) ==
  IF SchedPolicy = "FIFO"
    THEN i = head
    ELSE /\ i \in Candidates
         /\ \A j \in Candidates : IF j < i THEN Preferred(i, j)
                                           ELSE ~ Preferred(j, i)

-----------------------------------------------------------------------------
(* Mutant: the shift stops one slot early and loses a request.             *)
ShiftQueueLeft_StopsEarly(start) ==
  LET last == PrevSlot(PrevSlot(tail))
      shifted(i) == IF start <= last THEN start <= i /\ i < last
                                     ELSE start <= i \/ i < last
  IN  [i \in Slots |-> IF i = last THEN [queue[i] EXCEPT !.connfd = NoFd]
                       ELSE IF shifted(i) THEN queue[NextSlot(i)]
                       ELSE queue[i]]

(* The queue after the slots from start on, in ring order, have each taken *)
(* the contents of their successor, up to the last filled slot, which is   *)
(* left with its old fields and connfd = -1.                               *)
ShiftQueueLeft(start) ==
  LET last == PrevSlot(tail)
      shifted(i) == IF start <= last THEN start <= i /\ i < last
                                     ELSE start <= i \/ i < last
  IN  [i \in Slots |-> IF i = last THEN [queue[i] EXCEPT !.connfd = NoFd]
                       ELSE IF shifted(i) THEN queue[NextSlot(i)]
                       ELSE queue[i]]

(* queue_put while it fills slot tail: everything but connfd.              *)
FillTail(r) ==
  /\ queue' = [queue EXCEPT ![tail].req = r]
  /\ UNCHANGED <<head, tail, count>>

(* queue_put publishes the slot.                                           *)
PublishTail(fd) ==
  /\ queue' = [queue EXCEPT ![tail].connfd = fd]
  /\ tail' = NextSlot(tail)
  /\ count' = count + 1
  /\ UNCHANGED head

(* Mutant: the vacated slot keeps its descriptor.                          *)
RemoveSlot_KeepsDescriptor(target) ==
  /\ IF target = head
       THEN /\ head' = NextSlot(head)
            /\ UNCHANGED <<queue, tail>>
       ELSE /\ queue' = ShiftQueueLeft(target)
            /\ head' = head
            /\ tail' = PrevSlot(tail)
  /\ count' = count - 1

(* Mutant: the slots after target are not moved up.                        *)
RemoveSlot_NoShift(target) ==
  /\ queue' = [queue EXCEPT ![target].connfd = NoFd]
  /\ head' = NextSlot(head)
  /\ count' = count - 1
  /\ UNCHANGED tail

(* thread_handle vacates the slot target.                                  *)
RemoveSlot(target) ==
  /\ IF target = head
       THEN /\ queue' = [queue EXCEPT ![target].connfd = NoFd]
            /\ head' = NextSlot(head)
            /\ UNCHANGED tail
       ELSE /\ queue' = ShiftQueueLeft(target)
            /\ head' = IF PrevSlot(tail) = head THEN NextSlot(head) ELSE head
            /\ tail' = PrevSlot(tail)
  /\ count' = count - 1

-----------------------------------------------------------------------------
(* The k-th waiting request in ring order, counting from head.             *)
InOrder(k) == queue[(head + k - 1) % NBuffer]

(* The requests that wait, in the order their slots follow head.           *)
Pending == [k \in 1 .. count |-> InOrder(k)]

QueueTypeOK ==
  /\ queue \in [Slots -> Slot]
  /\ head \in Slots
  /\ tail \in Slots
  /\ count \in 0 .. NBuffer

(* The filled slots are the count slots from head on, without a gap, and   *)
(* tail is the slot after them: what queue_put and shift_queue_left rely   *)
(* on without a check.                                                     *)
Contiguous ==
  /\ tail = (head + count) % NBuffer
  /\ \A i \in Slots : Used(i) <=> (i - head + NBuffer) % NBuffer < count

=============================================================================
