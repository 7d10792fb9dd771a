---------------------------- MODULE WebServerProofs ----------------------------
(***************************************************************************)
(* Proofs about WebServer, for any clients, files, edits, number of slots  *)
(* and number of workers: it implements ThreadPool, so that all that is    *)
(* proved of the pool holds of the server; no CGI child is lost or reaped  *)
(* twice; and every client is answered about its own request.              *)
(***************************************************************************)
EXTENDS WebServer, ThreadPoolProofs

(* The types of the variables that WebServer adds, but for the bounds of   *)
(* the two counts.                                                         *)
Replies == [status : {0, 200, 403, 404, 501}, uri : Uris \cup {NoUri}]

PeersTyped ==
  /\ fs \in [Files -> Inodes \cup {Missing}]
  /\ client \in [Fds -> Clients \cup {NoClient}]
  /\ reply \in [Fds -> Replies]
  /\ stage \in [Workers -> Stages]
  /\ running \in Nat
  /\ exited \in Nat
  /\ looping \in BOOLEAN

(* The request r was sent by the client at descriptor fd, if that client   *)
(* sent a request line.                                                    *)
Asked(fd, r) ==
  client[fd].line = "whole" => r.uri = client[fd].uri /\ r.method = client[fd].method

(* What may stand in a slot as a method: nothing yet, or what a client sent. *)
Methods == {"", "GET", "POST"}

(* A request with another method and uri is a request.                     *)
Named(r, m, u) == [r EXCEPT !.method = m, !.uri = u]

(* sscanf finds two words.                                                 *)
LEMMA NamedRequest ==
  \A r \in Requests : \A m \in Methods : \A u \in Uris \cup {NoUri} :
    Named(r, m, u) \in Requests /\ Named(r, m, u).uri = u /\ Named(r, m, u).method = m
BY ServerAssumption DEF Named, Methods

(* stat fails, and leaves sbuf.                                            *)
LEMMA UnstattedRequest ==
  ASSUME NEW r \in Requests
  PROVE  LET unstatted == [r EXCEPT !.stat_return = -1]
         IN  unstatted \in Requests /\ unstatted.uri = r.uri /\ unstatted.method = r.method
BY ServerAssumption

(* stat fills sbuf.                                                        *)
LEMMA StattedRequest ==
  ASSUME NEW r \in Requests, NEW inode \in Inodes
  PROVE  LET statted == [r EXCEPT !.stat_return = 0, !.st_size = inode.st_size,
                                  !.st_mtime = inode.st_mtime, !.mode = inode.mode]
         IN  statted \in Requests /\ statted.uri = r.uri /\ statted.method = r.method
<1>1. inode.st_size \in Sizes /\ inode.st_mtime \in Times /\ inode.mode \in Modes
  BY DEF Inodes
<1> QED
  BY <1>1, ServerAssumption

(* What queue_put leaves in slot tail is a request, and the client's own   *)
(* if it sent one.                                                         *)
LEMMA ParsedRequest ==
  ASSUME PoolInv, PeersTyped, mainpc = "read_line"
  PROVE  /\ Parsed \in Requests
         /\ Asked(connfd, Parsed)
<1> DEFINE old == queue[tail].req
           c == client[connfd]
           words == IF c.line = "whole" THEN [old EXCEPT !.method = c.method, !.uri = c.uri]
                                        ELSE old
           inode == fs[FileOf[words.uri]]
<1>1. connfd \in Fds /\ old \in Requests
  BY QueueAssumption DEF PoolInv, OwnInv, MainOwns, ControlInv, TypeOK, QueueTypeOK, Slot
<1>2. c \in Clients \cup {NoClient}
  BY <1>1 DEF PeersTyped
<1>3. c.line = "whole" => c.method \in {"", "GET", "POST"} /\ c.uri \in Uris \cup {NoUri}
  <2>1. c \in ClientBehaviour \/ c = NoClient
    BY <1>2, ServerAssumption
  <2> HIDE DEF c
  <2>2. CASE c \in ClientBehaviour
    BY <2>2 DEF ClientBehaviour
  <2>3. CASE c = NoClient
    <3>1. c.line = "eof"
      BY <2>3 DEF NoClient
    <3> QED
      BY <3>1
  <2> QED
    BY <2>1, <2>2, <2>3
<1>4. Parsed = IF inode = Missing THEN [words EXCEPT !.stat_return = -1]
               ELSE [words EXCEPT !.stat_return = 0, !.st_size = inode.st_size,
                                  !.st_mtime = inode.st_mtime, !.mode = inode.mode]
  BY DEF Parsed
<1>5. words \in Requests /\ (c.line = "whole" => words.uri = c.uri /\ words.method = c.method)
  <2>1. CASE c.line = "whole"
    <3> DEFINE m == c.method
               u == c.uri
    <3>1. words = Named(old, m, u)
      BY <2>1 DEF Named
    <3>2. m \in Methods /\ u \in Uris \cup {NoUri}
      BY <1>3, <2>1 DEF Methods
    <3> HIDE DEF old, m, u, words
    <3>3. old \in Requests
      BY <1>1
    <3>4. words \in Requests /\ words.uri = u /\ words.method = m
      <4>1. Named(old, m, u) \in Requests /\ Named(old, m, u).uri = u /\ Named(old, m, u).method = m
        BY <3>2, <3>3, NamedRequest, Zenon
      <4> QED
        BY <3>1, <4>1, Zenon
    <3> QED
      BY <3>4 DEF m, u
  <2>2. CASE c.line # "whole"
    BY <1>1, <2>2
  <2> QED
    BY <2>1, <2>2
<1> HIDE DEF words
<1>6. inode \in Inodes \cup {Missing}
  BY <1>5, ServerAssumption DEF PeersTyped
<1> HIDE DEF c, inode
<1>7. Parsed \in Requests /\ Parsed.uri = words.uri /\ Parsed.method = words.method
  <2>1. CASE inode = Missing
    <3>1. Parsed = [words EXCEPT !.stat_return = -1]
      BY <1>4, <2>1
    <3> QED
      BY <1>5, <3>1, UnstattedRequest
  <2>2. CASE inode # Missing
    <3>1. Parsed = [words EXCEPT !.stat_return = 0, !.st_size = inode.st_size,
                                 !.st_mtime = inode.st_mtime, !.mode = inode.mode]
      BY <1>4, <2>2
    <3> QED
      BY <1>5, <1>6, <2>2, <3>1, StattedRequest
  <2> QED
    BY <2>1, <2>2
<1> QED
  BY <1>5, <1>7 DEF Asked, c

(* Every step of the server is a step of the pool, or none.                *)
LEMMA ServerStepIsPoolStep ==
  ASSUME PoolInv, PeersTyped, [ServerNext]_allVars
  PROVE  [Next]_vars
<1>1. ASSUME NEW fd \in Fds, NEW c \in Clients, Connect(fd, c) PROVE Next
  BY <1>1 DEF Connect, Next, MainNext
<1>2. CASE ReadRequestLine
  <2>1. Parsed \in Requests
    BY <1>2, ParsedRequest DEF ReadRequestLine, ReadLine, MainStep
  <2> QED
    BY <1>2, <2>1 DEF ReadRequestLine, Next, MainNext
<1>3. CASE ReadHdrs \/ ReadReset
  BY <1>3 DEF ReadHdrs, ReadReset, Next, MainNext
<1>4. CASE ReadHdrsLoops
  BY <1>4 DEF ReadHdrsLoops
<1>5. CASE AcceptFails \/ WaitEmpty \/ MainWaitMutex \/ Publish \/ MainPostMutex \/ PostFill
  BY <1>5 DEF Next, MainNext
<1>6. ASSUME NEW w \in Workers, ServerWorker(w) PROVE [Next]_vars
  <2>1. CASE Refuse(w) \/ SendFile(w) \/ WaitChild(w)
    BY <2>1 DEF Refuse, SendFile, WaitChild, Next, WorkerNext
  <2>2. CASE Permit(w) \/ OpenAndMap(w) \/ RunCgi(w)
    BY <2>2 DEF Permit, OpenAndMap, RunCgi
  <2>3. CASE OpenFails(w) \/ SendFails(w) \/ HandleDies(w)
    BY <2>3 DEF OpenFails, SendFails, HandleDies, Next, WorkerNext
  <2>4. CASE Disconnect(w)
    BY <2>4 DEF Disconnect, Next, WorkerNext
  <2>5. CASE WaitFill(w) \/ WaitMutex(w) \/ Take(w) \/ TakeNothing(w) \/ PostMutex(w)
               \/ PostEmpty(w)
    BY <2>5 DEF Next, WorkerNext
  <2> QED
    BY <1>6, <2>1, <2>2, <2>3, <2>4, <2>5 DEF ServerWorker, WorkerServes
<1>7. CASE CgiExits
  BY <1>7 DEF CgiExits
<1>8. ASSUME NEW e \in Edits, Edit(e[1], e[2]) PROVE UNCHANGED vars
  BY <1>8 DEF Edit
<1>9. CASE ServerExited \/ UNCHANGED allVars
  BY <1>9 DEF ServerExited, allVars
<1> QED
  BY <1>1, <1>2, <1>3, <1>4, <1>5, <1>6, <1>7, <1>8, <1>9 DEF ServerNext, ServerMain, MainServes

-----------------------------------------------------------------------------
(* A worker that is past the first stage of requestHandle is in it, and    *)
(* its request was found good.                                             *)
StageInv ==
  \A w \in Workers : stage[w] # "start" => pc[w] = "handle" /\ Status(job[w].req) = 200

Waiters == {w \in Workers : stage[w] = "wait"}

ChildInv == running + exited = Cardinality(Waiters)

ServerInv == PoolInv /\ PeersTyped /\ StageInv /\ ChildInv

(* The server starts with no child and every worker outside requestHandle. *)
LEMMA ServerInvInit == ServerInit => ServerInv
<1> SUFFICES ASSUME ServerInit PROVE ServerInv
  OBVIOUS
<1>1. PoolInv
  BY ControlInit, ContiguousInit, OwnInit DEF ServerInit, PoolInv
<1>2. PeersTyped
  BY ServerAssumption DEF ServerInit, PeersTyped, NoReply, Replies, Stages
<1>3. StageInv
  BY DEF ServerInit, StageInv
<1>4. Waiters = {}
  BY DEF ServerInit, Waiters
<1>5. ChildInv
  BY <1>4, FS_EmptySet DEF ServerInit, ChildInv
<1> QED
  BY <1>1, <1>2, <1>3, <1>5 DEF ServerInv

(* How the number of waiting workers changes when one moves on.            *)
LEMMA WaitersAfterAdvance ==
  ASSUME NEW w \in Workers, NEW to \in Stages, stage \in [Workers -> Stages],
         stage' = [stage EXCEPT ![w] = to]
  PROVE  /\ Cardinality(Waiters) \in Nat
         /\ Cardinality(Waiters') = Cardinality(Waiters) - One(stage[w] = "wait")
                                                         + One(to = "wait")
         /\ stage[w] = "wait" => Cardinality(Waiters) > 0
<1>1. IsFiniteSet(Waiters) /\ Cardinality(Waiters) \in Nat
  <2>1. Waiters \subseteq Workers
    BY DEF Waiters
  <2> QED
    BY <2>1, WorkersAssumption, FS_Subset, FS_CardinalityType
<1>2. Waiters' = IF to = "wait" THEN Waiters \cup {w} ELSE Waiters \ {w}
  BY DEF Waiters
<1>3. w \in Waiters <=> stage[w] = "wait"
  BY DEF Waiters
<1>4. /\ Cardinality(Waiters \cup {w}) = IF w \in Waiters THEN Cardinality(Waiters)
                                                          ELSE Cardinality(Waiters) + 1
      /\ Cardinality(Waiters \ {w}) = IF w \in Waiters THEN Cardinality(Waiters) - 1
                                                       ELSE Cardinality(Waiters)
  BY <1>1, FS_AddElement, FS_RemoveElement
<1>5. w \in Waiters => Cardinality(Waiters) > 0
  BY <1>1, FS_EmptySet
<1> QED
  BY <1>1, <1>2, <1>3, <1>4, <1>5 DEF One

(* A step that leaves the stages, and the calls and jobs of the workers    *)
(* that are past the first one, as they are.                               *)
LEMMA StagesKept ==
  ASSUME StageInv, ChildInv, stage' = stage, running' + exited' = running + exited,
         \A w \in Workers : stage[w] # "start" => pc'[w] = pc[w] /\ job'[w] = job[w]
  PROVE  StageInv' /\ ChildInv'
<1>1. Waiters' = Waiters
  BY DEF Waiters
<1> QED
  BY <1>1 DEF StageInv, ChildInv

(* Main reads, waits, publishes, accepts or exits: only client changes.    *)
LEMMA CoreMainStep ==
  ASSUME ServerInv, ServerMain
  PROVE  PeersTyped' /\ StageInv' /\ ChildInv'
<1> USE DEF ServerInv, serverVars
<1>1. ASSUME NEW fd \in Fds, NEW c \in Clients, Connect(fd, c)
      PROVE  PeersTyped' /\ stage' = stage /\ running' = running /\ exited' = exited
                         /\ UNCHANGED <<pc, job>>
  BY <1>1 DEF Connect, Accept, MainStep, PeersTyped
<1>2. ASSUME ReadRequestLine \/ ReadHdrs \/ ReadReset
               \/ ((AcceptFails \/ WaitEmpty \/ MainWaitMutex \/ Publish \/ MainPostMutex
                      \/ PostFill) /\ UNCHANGED serverVars)
      PROVE  UNCHANGED serverVars /\ UNCHANGED <<pc, job>>
  BY <1>2 DEF ReadRequestLine, ReadHdrs, ReadReset, AcceptFails, WaitEmpty, MainWaitMutex,
              Publish, MainPostMutex, PostFill, ReadLine, ReadHeaders, ReadFails, MainStep,
              ProcessExit
<1>3. UNCHANGED serverVars => PeersTyped'
  BY DEF PeersTyped
<1>4. CASE ReadHdrsLoops
  <2>1. PeersTyped' /\ stage' = stage /\ running' = running /\ exited' = exited
          /\ UNCHANGED <<pc, job>>
    BY <1>4 DEF ReadHdrsLoops, vars, poolVars, PeersTyped
  <2> QED
    BY <2>1, StagesKept
<1>5. ASSUME stage' = stage, running' = running, exited' = exited, UNCHANGED <<pc, job>>
      PROVE  StageInv' /\ ChildInv'
  BY <1>5, StagesKept
<1> QED
  BY <1>1, <1>2, <1>3, <1>4, <1>5 DEF ServerMain, MainServes

(* A worker goes on in requestHandle, or outside it, and forks or reaps a  *)
(* child as it enters or leaves the wait.                                  *)
LEMMA CoreWorkerStep ==
  ASSUME ServerInv, NEW w \in Workers, ServerWorker(w)
  PROVE  PeersTyped' /\ StageInv' /\ ChildInv'
<1> USE DEF ServerInv, serverVars
<1>1. /\ pc \in [Workers -> WorkerPC] /\ job \in [Workers -> Slot]
      /\ stage \in [Workers -> Stages] /\ running \in Nat /\ exited \in Nat
  BY DEF PoolInv, ControlInv, TypeOK, PeersTyped
<1>2. ASSUME pc[w] # "handle", stage' = stage, running' = running, exited' = exited,
             \A v \in Workers \ {w} : pc'[v] = pc[v] /\ job'[v] = job[v]
      PROVE  StageInv' /\ ChildInv'
  <2>1. \A v \in Workers : stage[v] # "start" => pc'[v] = pc[v] /\ job'[v] = job[v]
    BY <1>2 DEF StageInv
  <2> QED
    BY <1>2, <2>1, StagesKept
<1>3. /\ job' = job
      /\ \/ stage' = [stage EXCEPT ![w] = "start"] /\ \A v \in Workers \ {w} : pc'[v] = pc[v]
         \/ /\ \E to \in Stages : stage' = [stage EXCEPT ![w] = to]
            /\ pc' = pc /\ pc[w] = "handle" /\ Status(job[w].req) = 200
      => StageInv'
  BY <1>1 DEF StageInv
<1>4. ASSUME NEW to \in Stages, stage' = [stage EXCEPT ![w] = to], NEW d \in {-1, 0, 1},
             d = IF to = "wait" THEN IF stage[w] = "wait" THEN 0 ELSE 1
                                ELSE IF stage[w] = "wait" THEN -1 ELSE 0,
             running' + exited' = running + exited + d
      PROVE  ChildInv'
  <2>1. /\ Cardinality(Waiters) \in Nat
        /\ Cardinality(Waiters') = Cardinality(Waiters) - One(stage[w] = "wait")
                                                        + One(to = "wait")
    BY <1>1, <1>4, WaitersAfterAdvance
  <2>2. Cardinality(Waiters') = Cardinality(Waiters) + d
    BY <1>4, <2>1 DEF One
  <2> QED
    BY <1>1, <1>4, <2>2 DEF ChildInv
<1>6. Serving(w) => job[w].connfd \in Fds /\ job[w].req \in Requests
  BY <1>1 DEF PoolInv, OwnInv, Slot
<1>7. ASSUME pc[w] = "handle", NEW status \in {200, 403, 404, 501}, Answer(w, status)
      PROVE  reply' \in [Fds -> Replies]
  <2>1. job[w].connfd \in Fds /\ job[w].req.uri \in Uris \cup {NoUri}
    BY <1>6, <1>7, ServerAssumption DEF Serving
  <2> DEFINE answer == [status |-> status, uri |-> job[w].req.uri]
  <2>2. answer \in Replies
    BY <2>1 DEF Replies
  <2>3. reply' = [reply EXCEPT ![job[w].connfd] = answer]
    BY <1>7 DEF Answer
  <2> HIDE DEF answer
  <2>4. reply \in [Fds -> Replies]
    BY DEF PeersTyped
  <2> QED
    BY <2>1, <2>2, <2>3, <2>4
<1>8. Status(job[w].req) \in {200, 403, 404, 501}
  BY DEF Status
<1>9. CASE Refuse(w)
  <2>1. /\ pc[w] = "handle" /\ stage[w] = "start" /\ Answer(w, Status(job[w].req))
        /\ UNCHANGED <<fs, client, stage, running, exited, looping, job>>
        /\ pc' = [pc EXCEPT ![w] = "close"]
    BY <1>9 DEF Refuse, AtStage, Handle, WorkerStep
  <2>2. reply' \in [Fds -> Replies]
    BY <1>7, <1>8, <2>1
  <2>3. \A v \in Workers : stage[v] # "start" => pc'[v] = pc[v] /\ job'[v] = job[v]
    BY <1>1, <2>1
  <2> QED
    BY <2>1, <2>2, <2>3, StagesKept DEF PeersTyped
<1>10. CASE Permit(w) \/ OpenAndMap(w)
  <2>1. /\ pc[w] = "handle" /\ UNCHANGED <<fs, client, reply, running, exited, looping, pc, job>>
        /\ Status(job[w].req) = 200 /\ stage[w] # "wait"
        /\ \E to \in {"run", "open", "send"} : stage' = [stage EXCEPT ![w] = to]
    BY <1>10 DEF Permit, OpenAndMap, Advance, AtStage, vars, poolVars, StageInv
  <2>2. PICK to \in {"run", "open", "send"} : stage' = [stage EXCEPT ![w] = to]
    BY <2>1
  <2>3. to \in Stages /\ to # "start" /\ to # "wait"
    BY DEF Stages
  <2>4. PeersTyped'
    BY <1>1, <2>1, <2>2, <2>3 DEF PeersTyped
  <2>5. StageInv'
    BY <1>3, <2>1, <2>2, <2>3
  <2>6. running' + exited' = running + exited + 0
    BY <1>1, <2>1
  <2>7. ChildInv'
    BY <1>4, <2>1, <2>2, <2>3, <2>6
  <2> QED
    BY <2>4, <2>5, <2>7
<1>11. CASE RunCgi(w)
  <2>1. /\ pc[w] = "handle" /\ UNCHANGED <<fs, client, exited, looping, pc, job>>
        /\ Status(job[w].req) = 200 /\ stage[w] = "run" /\ running' = running + 1
        /\ stage' = [stage EXCEPT ![w] = "wait"] /\ Answer(w, 200)
    BY <1>11 DEF RunCgi, Advance, AtStage, vars, poolVars, StageInv
  <2>2. reply' \in [Fds -> Replies]
    BY <1>7, <2>1
  <2>3. "wait" \in Stages
    BY DEF Stages
  <2>4. PeersTyped'
    BY <1>1, <2>1, <2>2, <2>3 DEF PeersTyped
  <2>5. StageInv'
    BY <1>3, <2>1, <2>3
  <2>6. running' + exited' = running + exited + 1
    BY <1>1, <2>1
  <2>7. ChildInv'
    BY <1>4, <2>1, <2>3, <2>6
  <2> QED
    BY <2>4, <2>5, <2>7
<1>12. CASE SendFile(w)
  <2>1. /\ pc[w] = "handle" /\ UNCHANGED <<fs, client, running, exited, looping, job>>
        /\ stage[w] = "send" /\ pc' = [pc EXCEPT ![w] = "close"]
        /\ stage' = [stage EXCEPT ![w] = "start"] /\ Answer(w, 200)
    BY <1>12 DEF SendFile, Advance, AtStage, Handle, WorkerStep
  <2>2. reply' \in [Fds -> Replies]
    BY <1>7, <2>1
  <2>3. "start" \in Stages
    BY DEF Stages
  <2>4. PeersTyped'
    BY <1>1, <2>1, <2>2, <2>3 DEF PeersTyped
  <2>5. StageInv'
    BY <1>1, <1>3, <2>1
  <2>6. running' + exited' = running + exited + 0
    BY <1>1, <2>1
  <2>7. ChildInv'
    BY <1>4, <2>1, <2>3, <2>6
  <2> QED
    BY <2>4, <2>5, <2>7
<1>13. CASE WaitChild(w)
  <2>1. /\ pc[w] = "handle" /\ UNCHANGED <<fs, client, reply, running, looping, job>>
        /\ stage[w] = "wait" /\ pc' = [pc EXCEPT ![w] = "close"]
        /\ stage' = [stage EXCEPT ![w] = "start"] /\ exited > 0 /\ exited' = exited - 1
    BY <1>13 DEF WaitChild, Advance, AtStage, Handle, WorkerStep
  <2>2. "start" \in Stages
    BY DEF Stages
  <2>3. PeersTyped'
    BY <1>1, <2>1, <2>2 DEF PeersTyped
  <2>4. StageInv'
    BY <1>1, <1>3, <2>1
  <2>5. running' + exited' = running + exited + (-1)
    BY <1>1, <2>1
  <2>6. ChildInv'
    BY <1>4, <2>1, <2>2, <2>5
  <2> QED
    BY <2>3, <2>4, <2>6
<1>14. CASE OpenFails(w) \/ SendFails(w) \/ HandleDies(w)
  <2>1. UNCHANGED serverVars /\ UNCHANGED <<pc, job>>
    BY <1>14 DEF OpenFails, SendFails, HandleDies, HandleFails, ProcessExit
  <2> QED
    BY <2>1, StagesKept DEF PeersTyped
<1>15. CASE Disconnect(w)
  <2>1. /\ pc[w] = "close" /\ UNCHANGED <<fs, stage, running, exited, looping>>
        /\ \A v \in Workers \ {w} : pc'[v] = pc[v] /\ job'[v] = job[v]
        /\ client' = [client EXCEPT ![job[w].connfd] = NoClient]
        /\ reply' = [reply EXCEPT ![job[w].connfd] = NoReply]
    BY <1>1, <1>15 DEF Disconnect, Close, WorkerStep, ProcessExit
  <2>2. NoReply \in Replies
    BY DEF NoReply, Replies
  <2>3. PeersTyped'
    BY <2>1, <2>2 DEF PeersTyped
  <2> QED
    BY <1>2, <2>1, <2>3
<1>16. CASE (WaitFill(w) \/ WaitMutex(w) \/ Take(w) \/ TakeNothing(w) \/ PostMutex(w)
               \/ PostEmpty(w)) /\ UNCHANGED serverVars
  <2>1. /\ pc[w] # "handle"
        /\ \A v \in Workers \ {w} : pc'[v] = pc[v] /\ job'[v] = job[v]
    BY <1>1, <1>16 DEF WaitFill, WaitMutex, Take, TakeNothing, PostMutex, PostEmpty,
                       WorkerStep, ProcessExit
  <2> QED
    BY <1>2, <1>16, <2>1 DEF PeersTyped
<1> QED
  BY <1>9, <1>10, <1>11, <1>12, <1>13, <1>14, <1>15, <1>16 DEF ServerWorker, WorkerServes

(* Children end, files change, or nothing happens.                         *)
LEMMA CoreOtherStep ==
  ASSUME ServerInv,
         CgiExits \/ (\E e \in Edits : Edit(e[1], e[2])) \/ ServerExited \/ UNCHANGED allVars
  PROVE  PeersTyped' /\ StageInv' /\ ChildInv'
<1> USE DEF ServerInv, serverVars, vars, poolVars
<1>1. CASE CgiExits
  <2>1. PeersTyped' /\ running' + exited' = running + exited /\ UNCHANGED <<stage, pc, job>>
    BY <1>1 DEF CgiExits, PeersTyped
  <2> QED
    BY <2>1, StagesKept
<1>2. ASSUME NEW e \in Edits, Edit(e[1], e[2]) PROVE PeersTyped' /\ StageInv' /\ ChildInv'
  <2>1. e[1] \in Files /\ e[2] \in Inodes \cup {Missing}
    BY ServerAssumption
  <2>2. PeersTyped' /\ UNCHANGED <<stage, running, exited, pc, job>>
    BY <1>2, <2>1 DEF Edit, PeersTyped
  <2> QED
    BY <2>2, StagesKept
<1>3. CASE ServerExited \/ UNCHANGED allVars
  <2>1. PeersTyped' /\ UNCHANGED <<stage, running, exited, pc, job>>
    BY <1>3 DEF ServerExited, allVars, PeersTyped
  <2> QED
    BY <2>1, StagesKept
<1> QED
  BY <1>1, <1>2, <1>3

(* Every step of the server keeps its invariant.                           *)
LEMMA ServerInvStep == ServerInv /\ [ServerNext]_allVars => ServerInv'
<1> SUFFICES ASSUME ServerInv, [ServerNext]_allVars PROVE ServerInv'
  OBVIOUS
<1>1. [Next]_vars
  BY ServerStepIsPoolStep DEF ServerInv
<1>2. PoolInv'
  BY <1>1, PoolStep DEF ServerInv
<1>3. PeersTyped' /\ StageInv' /\ ChildInv'
  BY CoreMainStep, CoreWorkerStep, CoreOtherStep DEF ServerNext
<1> QED
  BY <1>2, <1>3 DEF ServerInv

(* The pool's invariant, the types, the stages and the children hold       *)
(* together in every reachable state.                                      *)
THEOREM ServerInvariant == ServerSpec => []ServerInv
BY ServerInvInit, ServerInvStep, PTL DEF ServerSpec

(* With its clients, files and CGI programs the server is a thread pool:   *)
(* whatever is proved of ThreadPool holds of it.                           *)
THEOREM ServerImplementsPool == ServerSpec => Spec
<1>1. ServerInit => Init
  BY DEF ServerInit
<1>2. ServerInv /\ [ServerNext]_allVars => [Next]_vars
  BY ServerStepIsPoolStep DEF ServerInv
<1> QED
  BY <1>1, <1>2, ServerInvariant, PTL DEF ServerSpec, Spec

(* Every Wait(NULL) has a child: workers that take each other's children   *)
(* take as many as there are.                                              *)
THEOREM ChildrenMatchWaitsHolds == ServerSpec => []ChildrenMatchWaits
<1>1. ServerInv => ChildrenMatchWaits
  BY DEF ServerInv, ChildInv, ChildrenMatchWaits, Waiters
<1> QED
  BY <1>1, ServerInvariant, PTL

(* The types of the server, with the bounds of the two counts: there are   *)
(* never more children than workers.                                       *)
THEOREM ServerTypeCorrect == ServerSpec => []ServerTypeOK
<1>1. ServerInv => ServerTypeOK
  <2> SUFFICES ASSUME ServerInv PROVE ServerTypeOK
    OBVIOUS
  <2>1. /\ Cardinality(Waiters) \in Nat /\ Cardinality(Workers) \in Nat
        /\ Cardinality(Waiters) <= Cardinality(Workers)
    <3>1. Waiters \subseteq Workers
      BY DEF Waiters
    <3> QED
      BY <3>1, WorkersAssumption, FS_Subset, FS_CardinalityType
  <2>2. running \in 0 .. Cardinality(Workers) /\ exited \in 0 .. Cardinality(Workers)
    BY <2>1 DEF ServerInv, PeersTyped, ChildInv
  <2> QED
    BY <2>2 DEF ServerInv, PoolInv, ControlInv, PeersTyped, Replies, ServerTypeOK
<1> QED
  BY <1>1, ServerInvariant, PTL

-----------------------------------------------------------------------------
(* A client's own request stays with its descriptor on the way from        *)
(* queue_put through the ring to the worker, and a descriptor that is not  *)
(* open has no answer.                                                     *)
AskInv ==
  /\ mainpc \in {"read_headers", "publish"} => Asked(connfd, queue[tail].req)
  /\ \A i \in Slots : Used(i) => Asked(queue[i].connfd, queue[i].req)
  /\ \A w \in Workers : Serving(w) => Asked(job[w].connfd, job[w].req)
  /\ \A fd \in Fds \ open : reply[fd] = NoReply
  /\ AnswersOwnRequest

(* Nobody is connected at first, and nobody has an answer.                 *)
LEMMA AskInit == ServerInit => AskInv
BY DEF ServerInit, Init, QueueInit, AskInv, Used, Serving, AnswersOwnRequest

(* Steps that move no request and write no answer.                         *)
LEMMA AskUnmoved ==
  ASSUME AskInv, UNCHANGED <<client, reply, open, job, queue, tail>>,
         mainpc' \in {"read_headers", "publish"}
           => mainpc \in {"read_headers", "publish"} /\ connfd' = connfd,
         \A w \in Workers : Serving(w)' => Serving(w)
  PROVE  AskInv'
BY DEF AskInv, Asked, Used, AnswersOwnRequest

(* Somebody connects at a descriptor that no request in the server has.    *)
LEMMA AskConnect ==
  ASSUME ServerInv, AskInv, NEW fd \in Fds, NEW c \in Clients, Connect(fd, c)
  PROVE  AskInv'
<1>1. /\ fd \notin open /\ open' = open \cup {fd} /\ client' = [client EXCEPT ![fd] = c]
      /\ mainpc' = "wait_empty" /\ UNCHANGED <<pc, job, queue, reply>>
      /\ client \in [Fds -> Clients \cup {NoClient}]
  BY DEF Connect, Accept, MainStep, queueVars, ServerInv, PeersTyped
<1>2. \A i \in Slots : Used(i) => queue[i].connfd # fd
  BY <1>1 DEF ServerInv, PoolInv, OwnedOnce
<1>3. \A w \in Workers : Serving(w) => job[w].connfd # fd
  BY <1>1 DEF ServerInv, PoolInv, OwnedOnce
<1>4. \A e \in Fds : e # fd => client'[e] = client[e]
  BY <1>1
<1>5. \A i \in Slots : Used(i) => queue[i].connfd \in Fds
  BY DEF ServerInv, PoolInv, ControlInv, TypeOK, QueueTypeOK, Slot, Used
<1>6. \A w \in Workers : Serving(w) => job[w].connfd \in Fds
  BY DEF ServerInv, PoolInv, OwnInv
<1>7. \A i \in Slots : Used(i)' => Asked(queue[i].connfd, queue[i].req)'
  BY <1>1, <1>2, <1>4, <1>5 DEF AskInv, Asked, Used
<1>8. \A w \in Workers : Serving(w)' => Asked(job[w].connfd, job[w].req)'
  BY <1>1, <1>3, <1>4, <1>6 DEF AskInv, Asked, Serving
<1>9. AnswersOwnRequest'
  BY <1>1, <1>4 DEF AskInv, AnswersOwnRequest
<1> QED
  BY <1>1, <1>7, <1>8, <1>9 DEF AskInv

(* queue_put fills slot tail, where no request waits.                      *)
LEMMA AskRead ==
  ASSUME ServerInv, AskInv, ReadRequestLine
  PROVE  AskInv'
<1>1. /\ mainpc = "read_line" /\ queue' = [queue EXCEPT ![tail].req = Parsed] /\ tail' = tail
      /\ UNCHANGED <<pc, job, open, connfd, client, reply>>
  BY DEF ReadRequestLine, ReadLine, MainStep, FillTail, serverVars
<1>2. tail \in Slots /\ queue \in [Slots -> Slot] /\ ~ Used(tail)
  BY <1>1, TailFree DEF ServerInv, PoolInv, ControlInv, TypeOK, QueueTypeOK, MainPutting
<1>3. Asked(connfd, Parsed)
  BY <1>1, ParsedRequest DEF ServerInv
<1>4. queue'[tail].req = Parsed
  BY <1>1, <1>2 DEF Slot
<1>5. \A i \in Slots : Used(i)' => Used(i) /\ queue'[i] = queue[i]
  BY <1>1, <1>2 DEF Slot, Used
<1>6. Asked(connfd, queue[tail].req)'
  BY <1>1, <1>3, <1>4 DEF Asked
<1>7. \A i \in Slots : Used(i)' => Asked(queue[i].connfd, queue[i].req)'
  BY <1>1, <1>5 DEF AskInv, Asked
<1>8. \A w \in Workers : Serving(w)' => Asked(job[w].connfd, job[w].req)'
  BY <1>1 DEF AskInv, Asked, Serving
<1> QED
  BY <1>1, <1>6, <1>7, <1>8 DEF AskInv, AnswersOwnRequest

(* queue_put puts its descriptor to the request it read.                   *)
LEMMA AskPublish ==
  ASSUME ServerInv, AskInv, Publish, UNCHANGED serverVars
  PROVE  AskInv'
<1>1. /\ mainpc = "publish" /\ mainpc' = "post_mutex"
      /\ queue' = [queue EXCEPT ![tail].connfd = connfd]
      /\ UNCHANGED <<pc, job, open, client, reply>>
      /\ tail \in Slots /\ queue \in [Slots -> Slot]
  BY DEF Publish, MainStep, PublishTail, serverVars, ServerInv, PoolInv, ControlInv, TypeOK,
         QueueTypeOK
<1>2. queue'[tail].connfd = connfd /\ queue'[tail].req = queue[tail].req
  BY <1>1 DEF Slot
<1>3. \A i \in Slots \ {tail} : queue'[i] = queue[i]
  BY <1>1
<1>4. ASSUME NEW i \in Slots, Used(i)' PROVE Asked(queue[i].connfd, queue[i].req)'
  <2>1. CASE i = tail
    BY <1>1, <1>2, <2>1 DEF AskInv, Asked
  <2>2. CASE i # tail
    BY <1>1, <1>3, <1>4, <2>2 DEF AskInv, Asked, Used
  <2> QED
    BY <2>1, <2>2
<1>5. \A w \in Workers : Serving(w)' => Asked(job[w].connfd, job[w].req)'
  BY <1>1 DEF AskInv, Asked, Serving
<1> QED
  BY <1>1, <1>4, <1>5 DEF AskInv, AnswersOwnRequest

(* A worker takes a slot over as it is, and the shift moves the others as  *)
(* they are.                                                               *)
LEMMA AskTake ==
  ASSUME ServerInv, AskInv, NEW w \in Workers, Take(w), UNCHANGED serverVars
  PROVE  AskInv'
<1>1. PICK i \in Slots : IsTarget(i) /\ job' = [job EXCEPT ![w] = queue[i]] /\ RemoveSlot(i)
  BY DEF Take
<1>2. /\ pc[w] = "take" /\ pc' = [pc EXCEPT ![w] = "post_mutex"]
      /\ UNCHANGED <<mainpc, connfd, open, client, reply>>
      /\ job \in [Workers -> Slot] /\ pc \in [Workers -> WorkerPC]
  BY DEF Take, WorkerStep, serverVars, ServerInv, PoolInv, ControlInv, TypeOK
<1>3. ~ MainInCS
  BY <1>2 DEF ServerInv, PoolInv, ControlInv, MutualExclusion, InCS
<1>4. QueueTypeOK /\ Contiguous /\ Used(i)
  BY <1>1, <1>2, TargetUsed DEF ServerInv, PoolInv, ControlInv, TypeOK
<1>5. PICK f : \A j \in Slots : Used(j)' => /\ f[j] \in Slots \ {i} /\ Used(f[j])
                                            /\ queue'[j] = queue[f[j]]
  BY <1>1, <1>4, RemoveSlotMoves
<1>6. \A j \in Slots : Used(j)' => Asked(queue[j].connfd, queue[j].req)'
  BY <1>2, <1>5 DEF AskInv, Asked
<1>7. ASSUME NEW v \in Workers, Serving(v)' PROVE Asked(job[v].connfd, job[v].req)'
  <2>1. CASE v = w
    BY <1>1, <1>2, <1>4, <2>1 DEF AskInv, Asked
  <2>2. CASE v # w
    BY <1>1, <1>2, <1>7, <2>2 DEF AskInv, Asked, Serving
  <2> QED
    BY <2>1, <2>2
<1>8. mainpc' \notin {"read_headers", "publish"}
  BY <1>2, <1>3 DEF MainInCS
<1> QED
  BY <1>2, <1>6, <1>7, <1>8 DEF AskInv, AnswersOwnRequest

(* A worker answers the request that it took.                              *)
LEMMA AskAnswer ==
  ASSUME ServerInv, AskInv, NEW w \in Workers, NEW status, pc[w] = "handle", Answer(w, status),
         status = 501 <=> job[w].req.method # "GET",
         UNCHANGED <<client, open, job, queue, tail, mainpc, connfd>>,
         \A v \in Workers : Serving(v)' => Serving(v)
  PROVE  AskInv'
<1> DEFINE fd == job[w].connfd
           answer == [status |-> status, uri |-> job[w].req.uri]
<1>1. fd \in open /\ fd \in Fds /\ Serving(w)
  BY DEF ServerInv, PoolInv, OwnInv, OwnedOnce, Serving
<1>2. /\ reply \in [Fds -> Replies] /\ reply' = [reply EXCEPT ![fd] = answer]
      /\ answer.uri = job[w].req.uri /\ answer.status = status
  BY DEF Answer, ServerInv, PeersTyped
<1>3. Asked(fd, job[w].req)
  BY <1>1 DEF AskInv
<1> HIDE DEF answer
<1>4. \A e \in Fds : reply'[e] = IF e = fd THEN answer ELSE reply[e]
  BY <1>1, <1>2
<1>5. ASSUME NEW e \in Fds, reply'[e] # NoReply, client'[e].line = "whole"
      PROVE  /\ reply'[e].uri = client'[e].uri
             /\ reply'[e].status = 501 <=> client'[e].method # "GET"
  <2>1. CASE e = fd
    BY <1>2, <1>3, <1>4, <1>5, <2>1 DEF Asked
  <2>2. CASE e # fd
    BY <1>4, <1>5, <2>2 DEF AskInv, AnswersOwnRequest
  <2> QED
    BY <2>1, <2>2
<1>6. AnswersOwnRequest'
  BY <1>5 DEF AnswersOwnRequest
<1>7. \A e \in Fds \ open' : reply'[e] = NoReply
  BY <1>1, <1>4 DEF AskInv
<1> HIDE DEF fd
<1> QED
  BY <1>6, <1>7 DEF AskInv, Asked, Used

(* The connection is closed and its answer with it.                        *)
LEMMA AskDisconnect ==
  ASSUME ServerInv, AskInv, NEW w \in Workers, Disconnect(w)
  PROVE  AskInv'
<1>0. PICK fd \in Fds : fd = job[w].connfd /\ fd \in open
  <2>1. pc[w] = "close"
    BY DEF Disconnect, Close, WorkerStep
  <2> QED
    BY <2>1 DEF ServerInv, PoolInv, OwnInv, OwnedOnce, Serving
<1>1. /\ client' = [client EXCEPT ![fd] = NoClient] /\ reply' = [reply EXCEPT ![fd] = NoReply]
  BY <1>0 DEF Disconnect
<1>2. fd \in open /\ fd \in Fds
  BY <1>0
<1>3. /\ open' = open \ {fd} /\ job' = [job EXCEPT ![w] = NoJob]
      /\ pc' = [pc EXCEPT ![w] = "wait_fill"] /\ UNCHANGED <<mainpc, connfd, queue, tail>>
  BY <1>0 DEF Disconnect, Close, WorkerStep, queueVars
<1>4. /\ client \in [Fds -> Clients \cup {NoClient}] /\ reply \in [Fds -> Replies]
      /\ pc \in [Workers -> WorkerPC] /\ job \in [Workers -> Slot]
  BY DEF ServerInv, PoolInv, ControlInv, TypeOK, PeersTyped
<1>5. /\ \A e \in Fds \ {fd} : client'[e] = client[e]
      /\ \A e \in Fds \ {fd} : reply'[e] = reply[e]
      /\ client'[fd] = NoClient /\ reply'[fd] = NoReply
  BY <1>1, <1>2, <1>4
<1>5a. NoClient.line # "whole"
  BY DEF NoClient
<1>6. connfd \in Fds \/ mainpc \notin {"read_headers", "publish"}
  BY DEF ServerInv, PoolInv, OwnInv, MainOwns
<1>7. \A i \in Slots : Used(i) => queue[i].connfd \in Fds
  BY DEF ServerInv, PoolInv, ControlInv, TypeOK, QueueTypeOK, Slot, Used
<1>8. \A v \in Workers : Serving(v)' => /\ v # w /\ Serving(v)
                                        /\ job'[v] = job[v] /\ job[v].connfd \in Fds
  BY <1>3, <1>4 DEF Serving, ServerInv, PoolInv, OwnInv
<1>9. mainpc' \in {"read_headers", "publish"} => Asked(connfd, queue[tail].req)'
  BY <1>3, <1>5, <1>5a, <1>6 DEF AskInv, Asked
<1>10. \A i \in Slots : Used(i)' => Asked(queue[i].connfd, queue[i].req)'
  BY <1>3, <1>5, <1>5a, <1>7 DEF AskInv, Asked, Used
<1>11. \A v \in Workers : Serving(v)' => Asked(job[v].connfd, job[v].req)'
  BY <1>5, <1>5a, <1>8 DEF AskInv, Asked
<1>12. \A e \in Fds \ open' : reply'[e] = NoReply
  BY <1>3, <1>5 DEF AskInv
<1>13. AnswersOwnRequest'
  BY <1>5, <1>5a DEF AskInv, AnswersOwnRequest
<1> QED
  BY <1>9, <1>10, <1>11, <1>12, <1>13 DEF AskInv

(* 501 is the answer to exactly the methods that are not GET.              *)
LEMMA StatusOfMethod ==
  ASSUME NEW r
  PROVE  Status(r) = 501 <=> r.method # "GET"
BY DEF Status

(* Every step keeps requests and answers with their clients.               *)
LEMMA AskStep == ServerInv /\ AskInv /\ [ServerNext]_allVars => AskInv'
<1> SUFFICES ASSUME ServerInv, AskInv, [ServerNext]_allVars PROVE AskInv'
  OBVIOUS
<1>1. CASE ReadHdrs \/ ReadHdrsLoops \/ ReadReset
             \/ ((AcceptFails \/ WaitEmpty \/ MainWaitMutex \/ MainPostMutex \/ PostFill)
                    /\ UNCHANGED serverVars)
  <2>1. /\ UNCHANGED <<client, reply, open, job, queue, tail, pc>>
        /\ mainpc' \in {"read_headers", "publish"}
             => mainpc \in {"read_headers", "publish"} /\ connfd' = connfd
    BY <1>1 DEF ReadHdrs, ReadHdrsLoops, ReadReset, AcceptFails, WaitEmpty, MainWaitMutex,
                MainPostMutex, PostFill, ReadHeaders, ReadFails, MainStep, ProcessExit,
                serverVars, vars, poolVars, queueVars
  <2> QED
    BY <2>1, AskUnmoved DEF Serving
<1>2. CASE ServerMain
  BY <1>1, <1>2, AskConnect, AskRead, AskPublish DEF ServerMain, MainServes
<1>3. ASSUME NEW w \in Workers, ServerWorker(w) PROVE AskInv'
  <2>1. pc \in [Workers -> WorkerPC]
    BY DEF ServerInv, PoolInv, ControlInv, TypeOK
  <2>2. CASE Refuse(w) \/ SendFile(w) \/ RunCgi(w)
    <3>1. /\ pc[w] = "handle" /\ UNCHANGED <<client, open, job, queue, tail, mainpc, connfd>>
          /\ pc' = pc \/ pc' = [pc EXCEPT ![w] = "close"]
      BY <2>2 DEF Refuse, SendFile, RunCgi, Advance, AtStage, Handle, WorkerStep, vars,
                  poolVars, queueVars
    <3>2. \E status : Answer(w, status) /\ (status = 501 <=> job[w].req.method # "GET")
      <4>1. CASE Refuse(w)
        BY <4>1, StatusOfMethod DEF Refuse
      <4>2. CASE SendFile(w) \/ RunCgi(w)
        <5>1. Answer(w, 200) /\ stage[w] # "start"
          BY <4>2 DEF SendFile, RunCgi, Advance, AtStage
        <5>2. Status(job[w].req) = 200
          BY <5>1 DEF ServerInv, StageInv
        <5> QED
          BY <5>1, <5>2, StatusOfMethod
      <4> QED
        BY <2>2, <4>1, <4>2
    <3>3. \A v \in Workers : Serving(v)' => Serving(v)
      BY <2>1, <3>1 DEF Serving
    <3> QED
      BY <3>1, <3>2, <3>3, AskAnswer
  <2>3. CASE Permit(w) \/ OpenAndMap(w) \/ OpenFails(w) \/ SendFails(w) \/ HandleDies(w)
               \/ WaitChild(w)
               \/ ((WaitFill(w) \/ WaitMutex(w) \/ TakeNothing(w) \/ PostMutex(w) \/ PostEmpty(w))
                      /\ UNCHANGED serverVars)
    <3>1. /\ UNCHANGED <<client, reply, open, job, queue, tail, mainpc, connfd>>
          /\ \/ pc' = pc
             \/ \E to \in {"wait_mutex", "take"} : pc' = [pc EXCEPT ![w] = to]
             \/ /\ pc[w] \in {"post_mutex", "post_empty", "handle"}
                /\ \E to \in WorkerPC : pc' = [pc EXCEPT ![w] = to]
      BY <2>3 DEF Permit, OpenAndMap, OpenFails, SendFails, HandleDies, WaitChild, WaitFill,
                  WaitMutex, TakeNothing, PostMutex, PostEmpty, Advance, AtStage, Handle,
                  HandleFails, ProcessExit, WorkerStep, serverVars, vars, poolVars, queueVars,
                  WorkerPC
    <3>2. \A v \in Workers : Serving(v)' => Serving(v)
      BY <2>1, <3>1 DEF Serving
    <3> QED
      BY <3>1, <3>2, AskUnmoved
  <2> QED
    BY <1>3, <2>2, <2>3, AskTake, AskDisconnect DEF ServerWorker, WorkerServes
<1>4. CASE CgiExits \/ (\E e \in Edits : Edit(e[1], e[2])) \/ ServerExited \/ UNCHANGED allVars
  <2>1. UNCHANGED <<client, reply, open, job, queue, tail, pc, mainpc, connfd>>
    BY <1>4 DEF CgiExits, Edit, ServerExited, allVars, serverVars, vars, poolVars, queueVars
  <2> QED
    BY <2>1, AskUnmoved DEF Serving
<1> QED
  BY <1>2, <1>3, <1>4 DEF ServerNext

(* A client that sent a request line is answered about the uri it named,   *)
(* with 501 exactly if its method was not GET, whatever other clients      *)
(* send, however the ring is shifted and files change.                     *)
THEOREM AnswersOwnRequestHolds == ServerSpec => []AnswersOwnRequest
<1>1. AskInv => AnswersOwnRequest
  BY DEF AskInv
<1> QED
  BY <1>1, AskInit, AskStep, ServerInvariant, PTL DEF ServerSpec

-----------------------------------------------------------------------------
(* From the answer until close() a worker's connection keeps its answer.   *)
Done(w) == pc[w] = "close" \/ (pc[w] = "handle" /\ stage[w] = "wait")
DoneInv == \A w \in Workers : Done(w) => reply[job[w].connfd] # NoReply

(* An answer is never the absence of one.                                  *)
LEMMA DoneAnswer ==
  ASSUME ServerInv, DoneInv, NEW w \in Workers, NEW status \in {200, 403, 404, 501},
         pc[w] = "handle", Answer(w, status), job' = job,
         \A v \in Workers \ {w} : Done(v)' => Done(v)
  PROVE  DoneInv'
<1> DEFINE fd == job[w].connfd
           answer == [status |-> status, uri |-> job[w].req.uri]
<1>1. fd \in Fds
  BY DEF ServerInv, PoolInv, OwnInv, Serving
<1>2. reply' = [reply EXCEPT ![fd] = answer] /\ reply \in [Fds -> Replies]
  BY DEF Answer, ServerInv, PeersTyped
<1>3. answer # NoReply
  <2>1. answer.status # NoReply.status
    BY DEF NoReply
  <2> QED
    BY <2>1
<1> HIDE DEF answer
<1>4. reply'[fd] # NoReply /\ \A e : e # fd => reply'[e] = reply[e]
  BY <1>1, <1>2, <1>3
<1> QED
  BY <1>4 DEF DoneInv

(* Whatever the status of a request, there is an answer to it.             *)
LEMMA StatusRange ==
  ASSUME NEW r
  PROVE  Status(r) \in {200, 403, 404, 501}
BY DEF Status

(* Every step keeps the answers of the workers that are done.              *)
LEMMA DoneStep == ServerInv /\ DoneInv /\ [ServerNext]_allVars => DoneInv'
<1> SUFFICES ASSUME ServerInv, DoneInv, [ServerNext]_allVars PROVE DoneInv'
  OBVIOUS
<1>0. /\ pc \in [Workers -> WorkerPC] /\ job \in [Workers -> Slot]
      /\ stage \in [Workers -> Stages]
  BY DEF ServerInv, PoolInv, ControlInv, TypeOK, PeersTyped
<1>1. CASE UNCHANGED <<reply, job, pc, stage>>
  BY <1>1 DEF DoneInv, Done
<1>2. CASE ServerMain
  <2>1. UNCHANGED <<reply, job, pc, stage>>
    BY <1>2 DEF ServerMain, MainServes, ReadRequestLine, ReadHdrs, ReadHdrsLoops, ReadReset,
                Connect, Accept, AcceptFails, WaitEmpty, MainWaitMutex, ReadLine, ReadHeaders,
                ReadFails, Publish, MainPostMutex, PostFill, MainStep, ProcessExit, serverVars,
                vars, poolVars
  <2> QED
    BY <1>1, <2>1
<1>3. ASSUME NEW w \in Workers, ServerWorker(w) PROVE DoneInv'
  <2>1. CASE Refuse(w) \/ SendFile(w) \/ RunCgi(w)
    <3>1. /\ pc[w] = "handle" /\ job' = job
          /\ pc' = pc \/ pc' = [pc EXCEPT ![w] = "close"]
          /\ stage' = stage \/ \E s \in Stages : stage' = [stage EXCEPT ![w] = s]
      BY <2>1 DEF Refuse, SendFile, RunCgi, Advance, AtStage, Handle, WorkerStep, vars,
                  poolVars, Stages
    <3>2. PICK status \in {200, 403, 404, 501} : Answer(w, status)
      BY <2>1, StatusRange DEF Refuse, SendFile, RunCgi
    <3>3. \A v \in Workers \ {w} : Done(v)' => Done(v)
      BY <1>0, <3>1 DEF Done
    <3> QED
      BY <3>1, <3>2, <3>3, DoneAnswer
  <2>2. CASE Permit(w) \/ OpenAndMap(w) \/ OpenFails(w) \/ SendFails(w) \/ HandleDies(w)
               \/ ((WaitFill(w) \/ WaitMutex(w) \/ TakeNothing(w) \/ PostMutex(w) \/ PostEmpty(w))
                      /\ UNCHANGED serverVars)
    <3>1. /\ UNCHANGED <<reply, job>>
          /\ \/ /\ pc' = pc
                /\ \/ stage' = stage
                   \/ \E s \in {"open", "run", "send"} : stage' = [stage EXCEPT ![w] = s]
             \/ /\ \E to \in {"wait_mutex", "take", "post_empty"} : pc' = [pc EXCEPT ![w] = to]
                /\ stage' = stage
             \/ /\ pc[w] = "post_empty" /\ pc' = [pc EXCEPT ![w] = "handle"]
                /\ stage' = stage
      BY <2>2 DEF Permit, OpenAndMap, OpenFails, SendFails, HandleDies, WaitFill, WaitMutex,
                  TakeNothing, PostMutex, PostEmpty, Advance, AtStage, HandleFails, ProcessExit,
                  WorkerStep, serverVars, vars, poolVars
    <3>2. pc[w] # "handle" => stage[w] = "start"
      BY DEF ServerInv, StageInv
    <3>3. \A v \in Workers : Done(v)' => Done(v)
      BY <1>0, <3>1, <3>2 DEF Done
    <3> QED
      BY <3>1, <3>3 DEF DoneInv
  <2>3. CASE WaitChild(w)
    <3>1. /\ pc[w] = "handle" /\ stage[w] = "wait" /\ UNCHANGED <<reply, job>>
          /\ pc' = [pc EXCEPT ![w] = "close"] /\ stage' = [stage EXCEPT ![w] = "start"]
      BY <2>3 DEF WaitChild, Advance, AtStage, Handle, WorkerStep
    <3>2. \A v \in Workers : Done(v)' => Done(v)
      BY <1>0, <3>1 DEF Done
    <3> QED
      BY <3>1, <3>2 DEF DoneInv
  <2>4. CASE Take(w) /\ UNCHANGED serverVars
    <3>1. /\ pc' = [pc EXCEPT ![w] = "post_mutex"] /\ UNCHANGED <<reply, stage>>
          /\ \E s : job' = [job EXCEPT ![w] = s]
      BY <2>4 DEF Take, WorkerStep, serverVars
    <3>2. \A v \in Workers : Done(v)' => v # w /\ Done(v) /\ job'[v] = job[v]
      BY <1>0, <3>1 DEF Done
    <3> QED
      BY <3>1, <3>2 DEF DoneInv
  <2>5. CASE Disconnect(w)
    <3> DEFINE fd == job[w].connfd
    <3>1. pc[w] = "close" /\ fd \in open
      <4>1. pc[w] = "close"
        BY <2>5 DEF Disconnect, Close, WorkerStep
      <4> QED
        BY <4>1 DEF ServerInv, PoolInv, OwnInv, OwnedOnce, Serving
    <3>2. /\ reply' = [reply EXCEPT ![fd] = NoReply] /\ pc' = [pc EXCEPT ![w] = "wait_fill"]
          /\ job' = [job EXCEPT ![w] = NoJob] /\ stage' = stage
      BY <2>5, <3>1 DEF Disconnect, Close, WorkerStep
    <3>3. \A v \in Workers : Done(v)' => v # w /\ Done(v) /\ job'[v] = job[v]
      BY <1>0, <3>2 DEF Done
    <3>4. \A v \in Workers : v # w /\ Done(v) => job[v].connfd # fd
      BY <3>1 DEF Done, ServerInv, PoolInv, OwnedOnce, Serving
    <3>5. \A e : e # fd => reply'[e] = reply[e]
      BY <3>2 DEF ServerInv, PeersTyped
    <3> HIDE DEF fd
    <3> QED
      BY <3>3, <3>4, <3>5 DEF DoneInv
  <2> QED
    BY <1>3, <2>1, <2>2, <2>3, <2>4, <2>5 DEF ServerWorker, WorkerServes
<1>4. CASE CgiExits \/ (\E e \in Edits : Edit(e[1], e[2])) \/ ServerExited \/ UNCHANGED allVars
  <2>1. UNCHANGED <<reply, job, pc, stage>>
    BY <1>4 DEF CgiExits, Edit, ServerExited, allVars, serverVars, vars, poolVars
  <2> QED
    BY <1>1, <2>1
<1> QED
  BY <1>2, <1>3, <1>4 DEF ServerNext

(* requestHandle answers on each of its paths, and since no two workers    *)
(* have one connection, nothing takes the answer back before close().      *)
THEOREM ClosedAnsweredHolds == ServerSpec => []ClosedAnswered
<1>1. ServerInit => DoneInv
  BY DEF ServerInit, Init, DoneInv, Done
<1>2. DoneInv => ClosedAnswered
  BY DEF DoneInv, Done, ClosedAnswered
<1> QED
  BY <1>1, <1>2, DoneStep, ServerInvariant, PTL DEF ServerSpec

=============================================================================
