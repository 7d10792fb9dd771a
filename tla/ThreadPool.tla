------------------------------ MODULE ThreadPool ------------------------------
(***************************************************************************)
(* The threads of multiThreadedWebServer/server.c around the request       *)
(* queue: the main thread accepts a connection and runs queue_put, every   *)
(* worker runs thread_handle, and the three semaphores empty, fill and     *)
(* mutex order them.  A program counter names the call its thread makes    *)
(* next.  What requestHandle does inside is opaque here (WebServer opens   *)
(* it up): it returns, or it ends the whole process, because every wrapper *)
(* of blg312e.c turns an error of its system call into exit().             *)
(***************************************************************************)
EXTENDS RequestQueue, FiniteSets

CONSTANT Workers   \* the nthreads threads of the pool

ASSUME WorkersAssumption == IsFiniteSet(Workers)

VARIABLES
  empty, fill, mutex,  \* the values of the three semaphores
  mainpc, connfd,      \* the main thread and its local connfd
  pc, job,             \* the workers, and each one's local connfd and request
  open,                \* the connected descriptors open in the process
  up                   \* FALSE once the process has exited

poolVars == <<empty, fill, mutex, mainpc, connfd, pc, job, open, up>>
vars == <<queueVars, poolVars>>

MainPC == {"accept", "wait_empty", "wait_mutex", "read_line", "read_headers",
           "publish", "post_mutex", "post_fill"}

WorkerPC == {"wait_fill", "wait_mutex", "take", "post_mutex", "post_empty",
             "handle", "close"}

NoJob == [connfd |-> NoFd, req |-> ZeroRequest]

Init ==
  /\ QueueInit
  /\ empty = NBuffer
  /\ fill = 0
  /\ mutex = 1
  /\ mainpc = "accept"
  /\ connfd = NoFd
  /\ pc = [w \in Workers |-> "wait_fill"]
  /\ job = [w \in Workers |-> NoJob]
  /\ open = {}
  /\ up = TRUE

-----------------------------------------------------------------------------
(* The process ends: a wrapper of blg312e.c called exit(), or a signal.    *)
ProcessExit ==
  /\ up' = FALSE
  /\ UNCHANGED <<queueVars, empty, fill, mutex, mainpc, connfd, pc, job, open>>

MainStep(from, to) ==
  /\ up
  /\ mainpc = from
  /\ mainpc' = to
  /\ UNCHANGED <<pc, job, up>>

WorkerStep(w, from, to) ==
  /\ up
  /\ pc[w] = from
  /\ pc' = [pc EXCEPT ![w] = to]
  /\ UNCHANGED <<mainpc, connfd, up>>

(* main: accept() returns some descriptor that is not open.                *)
Accept(fd) ==
  /\ fd \in Fds \ open
  /\ MainStep("accept", "wait_empty")
  /\ connfd' = fd
  /\ open' = open \cup {fd}
  /\ UNCHANGED <<queueVars, empty, fill, mutex>>

(* main: accept() fails for want of a descriptor.                          *)
AcceptFails ==
  /\ up
  /\ mainpc = "accept"
  /\ open = Fds
  /\ ProcessExit

(* Mutant: queue_put does not wait for an empty slot.                      *)
WaitEmpty_Unguarded ==
  /\ MainStep("wait_empty", "wait_mutex")
  /\ empty' = IF empty > 0 THEN empty - 1 ELSE 0
  /\ UNCHANGED <<queueVars, fill, mutex, connfd, open>>

(* queue_put: sem_wait(&empty), then sem_wait(&mutex).                     *)
WaitEmpty ==
  /\ empty > 0
  /\ MainStep("wait_empty", "wait_mutex")
  /\ empty' = empty - 1
  /\ UNCHANGED <<queueVars, fill, mutex, connfd, open>>

(* Mutant: queue_put does not take the mutex.                              *)
MainWaitMutex_Unguarded ==
  /\ MainStep("wait_mutex", "read_line")
  /\ mutex' = 0
  /\ UNCHANGED <<queueVars, empty, fill, connfd, open>>

MainWaitMutex ==
  /\ mutex > 0
  /\ MainStep("wait_mutex", "read_line")
  /\ mutex' = mutex - 1
  /\ UNCHANGED <<queueVars, empty, fill, connfd, open>>

(* queue_put reads the request line from the client into slot tail, parses *)
(* it and stats the file, holding the mutex.                               *)
ReadLine(r) ==
  /\ MainStep("read_line", "read_headers")
  /\ FillTail(r)
  /\ UNCHANGED <<empty, fill, mutex, connfd, open>>

(* requestReadhdrs, up to the empty line, still holding the mutex.         *)
ReadHeaders ==
  /\ MainStep("read_headers", "publish")
  /\ UNCHANGED <<queueVars, empty, fill, mutex, connfd, open>>

(* Rio_readlineb fails, and exits.                                         *)
ReadFails ==
  /\ up
  /\ mainpc \in {"read_line", "read_headers"}
  /\ ProcessExit

Publish ==
  /\ MainStep("publish", "post_mutex")
  /\ PublishTail(connfd)
  /\ UNCHANGED <<empty, fill, mutex, connfd, open>>

MainPostMutex ==
  /\ MainStep("post_mutex", "post_fill")
  /\ mutex' = mutex + 1
  /\ UNCHANGED <<queueVars, empty, fill, connfd, open>>

(* Mutant: queue_put does not announce the request.                        *)
PostFill_Missing ==
  /\ MainStep("post_fill", "accept")
  /\ connfd' = NoFd
  /\ UNCHANGED <<queueVars, empty, fill, mutex, open>>

(* sem_post(&fill), and main is back at accept(), which overwrites connfd. *)
PostFill ==
  /\ MainStep("post_fill", "accept")
  /\ fill' = fill + 1
  /\ connfd' = NoFd
  /\ UNCHANGED <<queueVars, empty, mutex, open>>

-----------------------------------------------------------------------------
(* Mutant: thread_handle does not wait for a filled slot.                  *)
WaitFill_Unguarded(w) ==
  /\ WorkerStep(w, "wait_fill", "wait_mutex")
  /\ fill' = fill - 1
  /\ UNCHANGED <<queueVars, empty, mutex, job, open>>

(* thread_handle: sem_wait(&fill), then sem_wait(&mutex).                  *)
WaitFill(w) ==
  /\ fill > 0
  /\ WorkerStep(w, "wait_fill", "wait_mutex")
  /\ fill' = fill - 1
  /\ UNCHANGED <<queueVars, empty, mutex, job, open>>

WaitMutex(w) ==
  /\ mutex > 0
  /\ WorkerStep(w, "wait_mutex", "take")
  /\ mutex' = mutex - 1
  /\ UNCHANGED <<queueVars, empty, fill, job, open>>

(* thread_handle chooses a slot, copies it and removes it.                 *)
Take(w) ==
  /\ WorkerStep(w, "take", "post_mutex")
  /\ \E i \in Slots : /\ IsTarget(i)
                      /\ job' = [job EXCEPT ![w] = queue[i]]
                      /\ RemoveSlot(i)
  /\ UNCHANGED <<empty, fill, mutex, open>>

(* The search leaves target = -1: the worker reads and writes queue[-1],   *)
(* memory before the array.  The process does not survive it.              *)
TakeNothing(w) ==
  /\ up
  /\ pc[w] = "take"
  /\ \A i \in Slots : ~ IsTarget(i)
  /\ ProcessExit

PostMutex(w) ==
  /\ WorkerStep(w, "post_mutex", "post_empty")
  /\ mutex' = mutex + 1
  /\ UNCHANGED <<queueVars, empty, fill, job, open>>

(* Mutant: thread_handle does not give the slot back.                      *)
PostEmpty_Missing(w) ==
  /\ WorkerStep(w, "post_empty", "handle")
  /\ UNCHANGED <<queueVars, empty, fill, mutex, job, open>>

PostEmpty(w) ==
  /\ WorkerStep(w, "post_empty", "handle")
  /\ empty' = empty + 1
  /\ UNCHANGED <<queueVars, fill, mutex, job, open>>

(* requestHandle returns.                                                  *)
Handle(w) ==
  /\ WorkerStep(w, "handle", "close")
  /\ UNCHANGED <<queueVars, empty, fill, mutex, job, open>>

(* requestHandle, or the client it writes to, ends the process.            *)
HandleFails(w) ==
  /\ up
  /\ pc[w] = "handle"
  /\ ProcessExit

(* Close(connfd); the locals of the loop body are dead from here on.       *)
(* close() fails with EBADF on a descriptor that is not open.              *)
Close(w) ==
  IF job[w].connfd \in open
    THEN /\ WorkerStep(w, "close", "wait_fill")
         /\ open' = open \ {job[w].connfd}
         /\ job' = [job EXCEPT ![w] = NoJob]
         /\ UNCHANGED <<queueVars, empty, fill, mutex>>
    ELSE /\ up
         /\ pc[w] = "close"
         /\ ProcessExit

-----------------------------------------------------------------------------
(* The process has exited and nothing runs any more.                       *)
Exited == ~ up /\ UNCHANGED vars

MainNext ==
  \/ \E fd \in Fds : Accept(fd)
  \/ AcceptFails \/ WaitEmpty \/ MainWaitMutex
  \/ \E r \in Requests : ReadLine(r)
  \/ ReadHeaders \/ ReadFails \/ Publish \/ MainPostMutex \/ PostFill

WorkerNext(w) ==
  \/ WaitFill(w) \/ WaitMutex(w) \/ Take(w) \/ TakeNothing(w) \/ PostMutex(w)
  \/ PostEmpty(w) \/ Handle(w) \/ HandleFails(w) \/ Close(w)

Next ==
  \/ MainNext
  \/ \E w \in Workers : WorkerNext(w)
  \/ Exited

Spec == Init /\ [][Next]_vars

(* The scheduler runs every thread that can run.  Nothing obliges a client *)
(* to connect, so Accept is not fair; ReadLine and ReadHeaders are, under  *)
(* the assumption that a client that connects sends its whole request.     *)
Fairness ==
  /\ WF_vars(WaitEmpty) /\ WF_vars(MainWaitMutex)
  /\ WF_vars(\E r \in Requests : ReadLine(r)) /\ WF_vars(ReadHeaders)
  /\ WF_vars(Publish) /\ WF_vars(MainPostMutex) /\ WF_vars(PostFill)
  /\ \A w \in Workers :
       /\ WF_vars(WaitFill(w)) /\ WF_vars(WaitMutex(w)) /\ WF_vars(Take(w))
       /\ WF_vars(PostMutex(w)) /\ WF_vars(PostEmpty(w))
       /\ WF_vars(Handle(w)) /\ WF_vars(Close(w))

FairSpec == Spec /\ Fairness

-----------------------------------------------------------------------------
(* Where a thread is with respect to the mutex.                            *)
MainInCS == mainpc \in {"read_line", "read_headers", "publish", "post_mutex"}
InCS(w) == pc[w] \in {"take", "post_mutex"}

(* main has paid empty and not yet raised count; raised it and not yet     *)
(* posted fill.  A worker has paid fill and not yet lowered count; lowered *)
(* it and not yet posted empty.                                            *)
MainPutting == mainpc \in {"wait_mutex", "read_line", "read_headers", "publish"}
MainPut == mainpc \in {"post_mutex", "post_fill"}
Taking == {w \in Workers : pc[w] \in {"wait_mutex", "take"}}
Taken == {w \in Workers : pc[w] \in {"post_mutex", "post_empty"}}

(* Who holds a descriptor: main from accept() until it is in the queue, a  *)
(* worker from the removal from the queue until close().                   *)
MainOwns == mainpc \in {"wait_empty", "wait_mutex", "read_line", "read_headers",
                       "publish"}
Serving(w) == pc[w] \in {"post_mutex", "post_empty", "handle", "close"}

One(b) == IF b THEN 1 ELSE 0

TypeOK ==
  /\ QueueTypeOK
  /\ empty \in 0 .. NBuffer
  /\ fill \in 0 .. NBuffer
  /\ mutex \in {0, 1}
  /\ mainpc \in MainPC
  /\ connfd \in Fds \cup {NoFd}
  /\ pc \in [Workers -> WorkerPC]
  /\ job \in [Workers -> Slot]
  /\ open \subseteq Fds
  /\ up \in BOOLEAN

(* Only one thread at a time is between sem_wait(&mutex) and               *)
(* sem_post(&mutex), so what it reads of the queue is still true when it   *)
(* writes it.                                                              *)
MutualExclusion ==
  /\ MainInCS => mutex = 0 /\ \A w \in Workers : ~ InCS(w)
  /\ \A v, w \in Workers : InCS(v) /\ InCS(w) => mutex = 0 /\ v = w

(* Every slot is accounted for: it is free for queue_put, paid for by it,  *)
(* filled, or vacated and not yet given back; and every filled slot is     *)
(* announced to the workers exactly once.  The semaphores and count are    *)
(* separate variables that are never compared in the code.                 *)
SemaphoresAccount ==
  /\ empty + One(MainPutting) + count + Cardinality(Taken) = NBuffer
  /\ fill + Cardinality(Taking) + One(MainPut) = count

(* queue_put writes into slot tail without looking at it: no request waits *)
(* there while it does, so none is overwritten.                            *)
NoOverwrite ==
  mainpc \in {"read_line", "read_headers", "publish"} => ~ Used(tail)

(* A worker that has come through both semaphores finds a request waiting, *)
(* and a slot to take unless all the files that are asked for were last    *)
(* modified before 1970 or are as large as LONG_MAX: a file that is out of *)
(* the range of the search hides no other one.                             *)
TargetFound ==
  \A w \in Workers : pc[w] = "take" =>
    LET waiting == {i \in Slots : Used(i)}
    IN  /\ waiting # {}
        /\ (\E i \in waiting : KeyInRange(queue[i].req)) => \E i \in waiting : IsTarget(i)

(* Every open connection is in exactly one place: in main's hands, in one  *)
(* slot of the queue, or with one worker.  So no connection is dropped     *)
(* when the queue is shifted, none is served twice, and close() is never   *)
(* called on a descriptor that was closed and reused.                      *)
OwnedOnce ==
  /\ open = (IF MainOwns THEN {connfd} ELSE {})
              \cup {queue[i].connfd : i \in {j \in Slots : Used(j)}}
              \cup {job[w].connfd : w \in {v \in Workers : Serving(v)}}
  /\ \A i, j \in Slots : Used(i) /\ queue[i].connfd = queue[j].connfd => i = j
  /\ \A v, w \in Workers : Serving(v) /\ Serving(w) /\ job[v].connfd = job[w].connfd => v = w
  /\ \A i \in Slots, w \in Workers : Used(i) /\ Serving(w) => queue[i].connfd # job[w].connfd
  /\ MainOwns => /\ \A i \in Slots : queue[i].connfd # connfd
                 /\ \A w \in Workers : Serving(w) => job[w].connfd # connfd

(* The descriptors in use are bounded by the buffer, the pool and main, so *)
(* a limit above that bound is never hit by accept().                      *)
DescriptorBound == Cardinality(open) <= NBuffer + Cardinality(Workers) + 1

-----------------------------------------------------------------------------
(* What the pool promises, with the queue as a sequence.                   *)
Promise == INSTANCE ServicePool
             WITH pending <- Pending,
                  serving <- [w \in Workers |-> job[w].connfd],
                  alive <- up

(* The circular buffer with its shifting, under the semaphores, implements *)
(* a bounded list of requests from which each worker takes one that the    *)
(* scheduling policy allows.                                               *)
ImplementsServicePool == Promise!Spec

(* README.md, FIFO: no request that is in the queue waits for ever, even   *)
(* though other clients keep connecting.                                   *)
EveryRequestServed ==
  \A fd \in Fds :
    (\E i \in Slots : queue[i].connfd = fd)
      ~> (~ up \/ \E w \in Workers : job[w].connfd = fd)

(* A connection that was accepted gets its place in the queue: main is not *)
(* blocked for ever by a full buffer.                                      *)
AcceptedIsQueued == MainOwns ~> (~ up \/ ~ MainOwns)

=============================================================================
