------------------------------ MODULE ServicePool ------------------------------
(***************************************************************************)
(* What the request queue and its thread pool promise (server.c, and the   *)
(* scheduling policies of README.md), without slots, indices, semaphores   *)
(* or threads' steps: at most NBuffer requests wait, in the order in which *)
(* they were put; a free worker takes one that the policy allows, and      *)
(* serves it until it is done.                                             *)
(***************************************************************************)
EXTENDS Integers, Sequences

CONSTANTS NBuffer, SchedPolicy, Fds, NoFd, Requests, Workers

VARIABLES
  pending,  \* the waiting requests, oldest first
  serving,  \* the connection each worker serves, or NoFd
  alive     \* FALSE once the process has exited

promiseVars == <<pending, serving, alive>>

Waiting(fd) == \E k \in DOMAIN pending : pending[k].connfd = fd

Without(i) ==
  [k \in 1 .. Len(pending) - 1 |-> IF k < i THEN pending[k] ELSE pending[k + 1]]

(* The requests that may be taken next: FIFO the oldest, SFF one for the   *)
(* smallest file, RFF one for the file that was modified last.             *)
Allowed(i) ==
  CASE SchedPolicy = "FIFO" -> i = 1
    [] SchedPolicy = "SFF" ->
         \A k \in DOMAIN pending : pending[i].req.st_size <= pending[k].req.st_size
    [] SchedPolicy = "RFF" ->
         \A k \in DOMAIN pending : pending[i].req.st_mtime >= pending[k].req.st_mtime

Init ==
  /\ pending = <<>>
  /\ serving = [w \in Workers |-> NoFd]
  /\ alive = TRUE

Put(fd, r) ==
  /\ alive
  /\ Len(pending) < NBuffer
  /\ ~ Waiting(fd)
  /\ \A w \in Workers : serving[w] # fd
  /\ pending' = Append(pending, [connfd |-> fd, req |-> r])
  /\ UNCHANGED <<serving, alive>>

Take(w, i) ==
  /\ alive
  /\ serving[w] = NoFd
  /\ Allowed(i)
  /\ pending' = Without(i)
  /\ serving' = [serving EXCEPT ![w] = pending[i].connfd]
  /\ UNCHANGED alive

Done(w) ==
  /\ alive
  /\ serving[w] # NoFd
  /\ serving' = [serving EXCEPT ![w] = NoFd]
  /\ UNCHANGED <<pending, alive>>

Halt ==
  /\ alive
  /\ alive' = FALSE
  /\ UNCHANGED <<pending, serving>>

Next ==
  \/ \E fd \in Fds, r \in Requests : Put(fd, r)
  \/ \E w \in Workers, i \in DOMAIN pending : Take(w, i)
  \/ \E w \in Workers : Done(w)
  \/ Halt

Spec == Init /\ [][Next]_promiseVars

=============================================================================
