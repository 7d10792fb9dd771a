--------------------------- MODULE ClientProgramProofs ---------------------------
(***************************************************************************)
(* Proofs about ClientProgram, for any number of threads, workers, slots   *)
(* and descriptors: a thread that has read the end of its connection has   *)
(* its whole answer, and no request of client.c ends the server.           *)
(***************************************************************************)
EXTENDS ClientProgram, WebServerProofs

(* Every step here is one of the server, or none.                          *)
LEMMA ProgramStepIsServerStep == [ProgramNext]_everyVar => [ServerNext]_allVars
<1> SUFFICES ASSUME [ProgramNext]_everyVar PROVE [ServerNext]_allVars
  OBVIOUS
<1>1. ASSUME NEW u \in Uris, Dial(u) \/ Hangup(u) PROVE UNCHANGED allVars
  BY <1>1 DEF Dial, Hangup
<1>2. ASSUME NEW u \in Uris, NEW fd \in Fds, Answered(u, fd) PROVE ServerNext
  <2>1. Asks(u) \in Clients
    BY ClientAssumption
  <2> QED
    BY <1>2, <2>1 DEF Answered, ServerNext, ServerMain
<1>3. ASSUME NEW w \in Workers, Spawn(w) PROVE ServerNext
  BY <1>3 DEF Spawn, ServerNext, ServerWorker
<1>4. ASSUME NEW p \in programs, ProgramExits(p) PROVE ServerNext
  BY <1>4 DEF ProgramExits, ServerNext
<1>5. ASSUME MainServes \/ \E w \in Workers : WorkerServes(w) PROVE ServerNext
  BY <1>5 DEF ServerNext, ServerMain, ServerWorker
<1>6. CASE UNCHANGED everyVar
  BY <1>6 DEF everyVar
<1> QED
  BY <1>1, <1>2, <1>3, <1>4, <1>5, <1>6 DEF ProgramNext

(* So what holds of the server with any clients holds with these.          *)
THEOREM ProgramIsServer == ProgramSpec => ServerSpec
<1>1. ProgramInit => ServerInit
  BY DEF ProgramInit
<1> QED
  BY <1>1, ProgramStepIsServerStep, PTL DEF ProgramSpec, ServerSpec

(* What is proved of the server, of the server with this client program.   *)
LEMMA ServerFacts == ProgramSpec => [](ServerInv /\ AskInv)
BY ProgramIsServer, ServerInvariant, AskInit, AskStep, PTL DEF ServerSpec

-----------------------------------------------------------------------------
(* The connections that are open belong to different threads, which have   *)
(* not hung up while the server runs.                                      *)
ClientInv ==
  /\ thread \in [Uris -> {"created", "calling", "connected", "done"}]
  /\ \A fd \in open : \E u \in Uris : client[fd] = Asks(u)
  /\ \A c, d \in open : client[c].uri = client[d].uri => c = d
  /\ up => \A fd \in open : thread[client[fd].uri] = "connected"

(* A program holds the connection it answers, and the worker that started  *)
(* it is past that, if it has not closed the connection.                   *)
HolderInv ==
  /\ IsFiniteSet(programs) /\ Cardinality(programs) = running
  /\ \A p \in programs : /\ p.answers \in Uris /\ p.answers \in p.holds
                         /\ thread[p.answers] = "connected"
  /\ up => \A p \in programs, fd \in open :
             client[fd].uri = p.answers => \E w \in Workers : Done(w) /\ job[w].connfd = fd

(* An open connection is one that Asks for a uri.                          *)
LEMMA AsksFacts ==
  ASSUME ClientInv, NEW fd \in open
  PROVE  /\ client[fd].uri \in Uris /\ client[fd].line = "whole" /\ client[fd].stays = TRUE
         /\ client[fd].method = "GET" /\ client[fd].headers = "complete"
<1>1. PICK u \in Uris : client[fd] = Asks(u)
  BY DEF ClientInv
<1> QED
  BY <1>1 DEF Asks

(* A worker serves what the client of its connection asked for.            *)
LEMMA ServedRequest ==
  ASSUME ServerInv, AskInv, ClientInv, NEW w \in Workers, Serving(w)
  PROVE  /\ job[w].connfd \in open /\ job[w].connfd \in Fds
         /\ job[w].req.uri = client[job[w].connfd].uri /\ job[w].req.uri \in Uris
         /\ client[job[w].connfd].stays = TRUE
<1>1. job[w].connfd \in open /\ job[w].connfd \in Fds
  BY DEF ServerInv, PoolInv, OwnedOnce, OwnInv
<1>2. Asked(job[w].connfd, job[w].req)
  BY DEF AskInv
<1> QED
  BY <1>1, <1>2, AsksFacts DEF Asked

(* Steps that open and close no connection and start and end no program.   *)
Quiet ==
  /\ UNCHANGED <<open, client, running>>
  /\ up' => up /\ \A v \in Workers : Done(v) => Done(v)' /\ job'[v] = job[v]

(* Main's steps are Quiet, but for accept().                               *)
LEMMA MainQuiet == ASSUME MainServes PROVE Quiet
<1>1. CASE ReadRequestLine
  BY <1>1 DEF ReadRequestLine, ReadLine, MainStep, serverVars, Quiet, Done
<1>2. CASE ReadHdrs
  BY <1>2 DEF ReadHdrs, ReadHeaders, MainStep, serverVars, Quiet, Done
<1>3. CASE ReadHdrsLoops
  BY <1>3 DEF ReadHdrsLoops, vars, poolVars, Quiet, Done
<1>4. CASE ReadReset
  BY <1>4 DEF ReadReset, ReadFails, ProcessExit, serverVars, Quiet
<1>5. CASE AcceptFails /\ UNCHANGED serverVars
  BY <1>5 DEF AcceptFails, ProcessExit, serverVars, Quiet
<1>6. CASE (WaitEmpty \/ MainWaitMutex \/ Publish \/ MainPostMutex \/ PostFill) /\ UNCHANGED serverVars
  BY <1>6 DEF WaitEmpty, MainWaitMutex, Publish, MainPostMutex, PostFill, MainStep,
              serverVars, Quiet, Done
<1> QED
  BY <1>1, <1>2, <1>3, <1>4, <1>5, <1>6 DEF MainServes

(* A worker's are, but for Close and Fork.                                 *)
LEMMA WorkerQuiet ==
  ASSUME ServerInv, NEW w \in Workers, WorkerServes(w), ~ Disconnect(w)
  PROVE  Quiet
<1>1. /\ pc \in [Workers -> WorkerPC] /\ stage \in [Workers -> Stages] /\ job \in [Workers -> Slot]
      /\ stage[w] # "start" => pc[w] = "handle"
  BY DEF ServerInv, PoolInv, ControlInv, TypeOK, PeersTyped, StageInv
<1> DEFINE Kept(v) == Done(v) => Done(v)' /\ job'[v] = job[v]
<1>2. CASE OpenFails(w) \/ SendFails(w) \/ HandleDies(w)
  BY <1>2 DEF OpenFails, SendFails, HandleDies, HandleFails, ProcessExit, serverVars, Quiet
<1>3. CASE TakeNothing(w) /\ UNCHANGED serverVars
  BY <1>3 DEF TakeNothing, ProcessExit, serverVars, Quiet
<1>4. CASE (WaitFill(w) \/ WaitMutex(w) \/ PostMutex(w) \/ PostEmpty(w)) /\ UNCHANGED serverVars
  <2>1. /\ pc[w] \notin {"handle", "close"} /\ \A v \in Workers : v # w => pc'[v] = pc[v]
        /\ UNCHANGED <<job, open, client, running, stage>> /\ up
    BY <1>1, <1>4 DEF WaitFill, WaitMutex, PostMutex, PostEmpty, WorkerStep, serverVars
  <2> QED
    BY <2>1 DEF Quiet, Done
<1>5. CASE Take(w) /\ UNCHANGED serverVars
  <2>1. /\ pc[w] = "take" /\ \A v \in Workers : v # w => pc'[v] = pc[v]
        /\ UNCHANGED <<open, client, running, stage>> /\ up
    BY <1>1, <1>5 DEF Take, WorkerStep, serverVars
  <2>2. \A v \in Workers : v # w => job'[v] = job[v]
    BY <1>1, <1>5 DEF Take
  <2> QED
    BY <2>1, <2>2 DEF Quiet, Done
<1>6. CASE Refuse(w)
  BY <1>1, <1>6 DEF Refuse, AtStage, Handle, WorkerStep, Quiet, Done
<1>7. CASE Permit(w) \/ OpenAndMap(w)
  <2>1. /\ stage[w] \in {"start", "open"} /\ pc[w] = "handle"
        /\ \A v \in Workers : v # w => stage'[v] = stage[v]
        /\ UNCHANGED <<job, open, client, running, pc>> /\ up
    BY <1>1, <1>7 DEF Permit, OpenAndMap, Advance, AtStage, vars, poolVars
  <2> QED
    BY <2>1 DEF Quiet, Done
<1>8. CASE SendFile(w) \/ WaitChild(w)
  <2>1. /\ pc'[w] = "close"
        /\ \A v \in Workers : v # w => stage'[v] = stage[v] /\ pc'[v] = pc[v]
        /\ UNCHANGED <<job, open, client, running>> /\ up
    BY <1>1, <1>8 DEF SendFile, WaitChild, Advance, AtStage, Handle, WorkerStep
  <2> QED
    BY <2>1 DEF Quiet, Done
<1> QED
  BY <1>2, <1>3, <1>4, <1>5, <1>6, <1>7, <1>8 DEF WorkerServes

(* Both invariants are kept by steps that are Quiet,                       *)
LEMMA InvQuiet ==
  ASSUME ClientInv, HolderInv, Quiet, UNCHANGED programVars
  PROVE  ClientInv' /\ HolderInv'
<1>1. ClientInv'
  BY DEF ClientInv, Quiet, programVars
<1>2. HolderInv'
  BY DEF HolderInv, Quiet, programVars
<1> QED
  BY <1>1, <1>2

(* by Close, when the worker is Done with its connection,                  *)
LEMMA InvDisconnect ==
  ASSUME ServerInv, ClientInv, HolderInv, NEW w \in Workers, Disconnect(w), UNCHANGED programVars
  PROVE  ClientInv' /\ HolderInv'
<1> DEFINE fd == job[w].connfd
<1>1. pc[w] = "close" /\ up
  BY DEF Disconnect, Close, WorkerStep
<1>2. Serving(w) /\ fd \in open /\ fd \in Fds
  BY <1>1 DEF Serving, ServerInv, PoolInv, OwnInv, OwnedOnce
<1>3. /\ open' = open \ {fd} /\ up' = up /\ client' = [client EXCEPT ![fd] = NoClient]
      /\ pc' = [pc EXCEPT ![w] = "wait_fill"] /\ job' = [job EXCEPT ![w] = NoJob]
      /\ UNCHANGED <<stage, running>>
  BY <1>2 DEF Disconnect, Close, WorkerStep
<1>4. /\ client \in [Fds -> Clients \cup {NoClient}] /\ pc \in [Workers -> WorkerPC]
      /\ job \in [Workers -> Slot] /\ open \subseteq Fds
  BY DEF ServerInv, PoolInv, ControlInv, TypeOK, PeersTyped
<1>5. \A e \in open' : e \in open /\ client'[e] = client[e]
  BY <1>3, <1>4
<1>6. ClientInv'
  BY <1>3, <1>5 DEF ClientInv, programVars
<1>7. ASSUME NEW v \in Workers, Done(v), job[v].connfd # fd PROVE Done(v)' /\ job'[v] = job[v]
  BY <1>3, <1>4, <1>7 DEF Done
<1>8. HolderInv'
  <2>1. ASSUME NEW p \in programs, NEW e \in open', client'[e].uri = p.answers
        PROVE  \E v \in Workers : Done(v)' /\ job'[v].connfd = e
    <3>1. e \in open /\ e # fd /\ client[e].uri = p.answers
      BY <1>3, <1>5, <2>1
    <3>2. PICK v \in Workers : Done(v) /\ job[v].connfd = e
      BY <1>1, <3>1 DEF HolderInv
    <3> QED
      BY <1>7, <3>1, <3>2
  <2> QED
    BY <1>3, <2>1 DEF HolderInv, programVars
<1> QED
  BY <1>6, <1>8

(* by a thread that calls,                                                 *)
LEMMA InvDial ==
  ASSUME ClientInv, HolderInv, NEW u \in Uris, Dial(u)
  PROVE  ClientInv' /\ HolderInv'
<1>1. /\ thread[u] = "created" /\ thread' = [thread EXCEPT ![u] = "calling"]
      /\ UNCHANGED <<programs, open, client, running, pc, stage, job, up>>
  BY DEF Dial, allVars, vars, poolVars, serverVars
<1>2. \A v \in Uris : v # u => thread'[v] = thread[v]
  BY <1>1 DEF ClientInv
<1>3. ClientInv'
  BY <1>1, <1>2, AsksFacts DEF ClientInv
<1>4. HolderInv'
  BY <1>1, <1>2 DEF HolderInv, Done
<1> QED
  BY <1>3, <1>4

(* that reads the end of its connection,                                   *)
LEMMA InvHangup ==
  ASSUME ClientInv, HolderInv, NEW u \in Uris, Hangup(u)
  PROVE  ClientInv' /\ HolderInv'
<1>1. /\ thread' = [thread EXCEPT ![u] = "done"]
      /\ \A p \in programs : u \notin p.holds
      /\ up => u \notin Connections
      /\ UNCHANGED <<programs, open, client, running, pc, stage, job, up>>
  BY DEF Hangup, allVars, vars, poolVars, serverVars
<1>2. \A v \in Uris : v # u => thread'[v] = thread[v]
  BY <1>1 DEF ClientInv
<1>3. up => \A fd \in open : client[fd].uri # u
  BY <1>1 DEF Connections
<1>4. ClientInv'
  BY <1>1, <1>2, <1>3, AsksFacts DEF ClientInv
<1>5. HolderInv'
  BY <1>1, <1>2 DEF HolderInv, Done
<1> QED
  BY <1>4, <1>5

(* whose connection is accepted,                                           *)
LEMMA InvAnswered ==
  ASSUME ServerInv, ClientInv, HolderInv, NEW u \in Uris, NEW fd \in Fds, Answered(u, fd)
  PROVE  ClientInv' /\ HolderInv'
<1>1. /\ thread[u] = "calling" /\ thread' = [thread EXCEPT ![u] = "connected"]
      /\ fd \notin open /\ open' = open \cup {fd} /\ client' = [client EXCEPT ![fd] = Asks(u)]
      /\ UNCHANGED <<programs, running, pc, stage, job, up>> /\ up
  BY DEF Answered, Connect, Accept, MainStep
<1>2. /\ \A v \in Uris : v # u => thread'[v] = thread[v]
      /\ thread' \in [Uris -> {"created", "calling", "connected", "done"}] /\ thread'[u] = "connected"
  BY <1>1 DEF ClientInv
<1>3. /\ client'[fd] = Asks(u) /\ client'[fd].uri = u
      /\ \A e \in open : client'[e] = client[e] /\ e # fd
  BY <1>1 DEF ServerInv, PeersTyped, PoolInv, ControlInv, TypeOK, Asks
<1>4. \A e \in open : client[e].uri \in Uris /\ client[e].uri # u
  BY <1>1, AsksFacts DEF ClientInv
<1>5. ClientInv'
  <2>1. \A e \in open' : \E v \in Uris : client'[e] = Asks(v)
    BY <1>1, <1>3 DEF ClientInv
  <2>2. \A c, d \in open' : client'[c].uri = client'[d].uri => c = d
    BY <1>1, <1>3, <1>4 DEF ClientInv
  <2>3. \A e \in open' : thread'[client'[e].uri] = "connected"
    BY <1>1, <1>2, <1>3, <1>4 DEF ClientInv
  <2> QED
    BY <1>2, <2>1, <2>2, <2>3 DEF ClientInv
<1>6. HolderInv'
  <2>1. \A p \in programs : p.answers # u /\ p.answers \in Uris
    BY <1>1 DEF HolderInv
  <2>2. \A p \in programs : thread'[p.answers] = "connected"
    BY <1>2, <2>1 DEF HolderInv
  <2>3. ASSUME NEW p \in programs, NEW e \in open', client'[e].uri = p.answers
        PROVE  \E v \in Workers : Done(v)' /\ job'[v].connfd = e
    <3>1. e \in open /\ client[e].uri = p.answers
      BY <1>1, <1>3, <2>1, <2>3
    <3> QED
      BY <1>1, <3>1 DEF HolderInv, Done
  <2> QED
    BY <1>1, <2>2, <2>3 DEF HolderInv
<1> QED
  BY <1>5, <1>6

(* by Fork, since the program that starts is not taken for one that runs:  *)
(* the two would answer the same connection,                               *)
LEMMA InvSpawn ==
  ASSUME ServerInv, AskInv, ClientInv, HolderInv, NEW w \in Workers, Spawn(w)
  PROVE  ClientInv' /\ HolderInv'
<1> DEFINE fd == job[w].connfd
           u == job[w].req.uri
           q == Program(u, open)
<1>1. /\ up /\ pc[w] = "handle" /\ stage[w] = "run" /\ stage' = [stage EXCEPT ![w] = "wait"]
      /\ running' = running + 1 /\ programs' = programs \cup {q} /\ thread' = thread
      /\ UNCHANGED <<open, client, pc, job, up>>
  BY DEF Spawn, RunCgi, Advance, AtStage, vars, poolVars
<1>2. Serving(w) /\ fd \in open /\ u = client[fd].uri /\ u \in Uris
  BY <1>1, ServedRequest DEF Serving
<1>3. /\ stage'[w] = "wait" /\ \A v \in Workers : v # w => stage'[v] = stage[v]
  BY <1>1 DEF ServerInv, PeersTyped
<1>4. Done(w)' /\ ~ Done(w) /\ \A v \in Workers : Done(v) => Done(v)'
  BY <1>1, <1>3 DEF Done
<1>5. ClientInv'
  BY <1>1 DEF ClientInv
<1>6. q.answers = u /\ u \in q.holds /\ thread[u] = "connected"
  BY <1>1, <1>2 DEF Program, ClientInv
<1> HIDE DEF q
<1>7. \A p \in programs : p.answers # u
  <2> SUFFICES ASSUME NEW p \in programs, p.answers = u PROVE FALSE
    OBVIOUS
  <2>1. PICK v \in Workers : Done(v) /\ job[v].connfd = fd
    BY <1>1, <1>2 DEF HolderInv
  <2>2. Serving(v)
    BY <2>1 DEF Done, Serving
  <2>3. v = w
    BY <1>2, <2>1, <2>2 DEF ServerInv, PoolInv, OwnedOnce
  <2> QED
    BY <1>4, <2>1, <2>3
<1>8. q \notin programs
  BY <1>6, <1>7
<1>9. IsFiniteSet(programs') /\ Cardinality(programs') = running'
  BY <1>1, <1>8, FS_AddElement DEF HolderInv
<1>10. \A p \in programs' : /\ p.answers \in Uris /\ p.answers \in p.holds
                            /\ thread'[p.answers] = "connected"
  BY <1>1, <1>2, <1>6 DEF HolderInv
<1>11. ASSUME NEW p \in programs', NEW e \in open', client'[e].uri = p.answers
       PROVE  \E v \in Workers : Done(v)' /\ job'[v].connfd = e
  <2>1. e \in open /\ client[e].uri = p.answers
    BY <1>1, <1>11
  <2>2. CASE p \in programs
    <3>1. PICK v \in Workers : Done(v) /\ job[v].connfd = e
      BY <1>1, <2>1, <2>2 DEF HolderInv
    <3> QED
      BY <1>1, <1>4, <3>1
  <2>3. CASE p = q
    <3>1. e = fd
      BY <1>2, <1>6, <2>1, <2>3 DEF ClientInv
    <3> QED
      BY <1>1, <1>4, <3>1
  <2> QED
    BY <1>1, <2>2, <2>3
<1>12. HolderInv'
  BY <1>9, <1>10, <1>11 DEF HolderInv
<1> QED
  BY <1>5, <1>12

(* and by the end of a program.                                            *)
LEMMA InvExit ==
  ASSUME ServerInv, ClientInv, HolderInv, NEW p \in programs, ProgramExits(p)
  PROVE  ClientInv' /\ HolderInv'
<1>1. /\ running' = running - 1 /\ programs' = programs \ {p} /\ thread' = thread
      /\ UNCHANGED <<open, client, pc, stage, job, up>>
  BY DEF ProgramExits, CgiExits, vars, poolVars
<1>2. ClientInv'
  BY <1>1 DEF ClientInv
<1>3. IsFiniteSet(programs') /\ Cardinality(programs') = running'
  BY <1>1, FS_RemoveElement DEF HolderInv
<1>4. HolderInv'
  BY <1>1, <1>3 DEF HolderInv, Done
<1> QED
  BY <1>2, <1>4

(* A step of the server and its client program keeps both.                 *)
LEMMA ProgramStep ==
  ServerInv /\ AskInv /\ ClientInv /\ HolderInv /\ [ProgramNext]_everyVar => ClientInv' /\ HolderInv'
<1> SUFFICES ASSUME ServerInv, AskInv, ClientInv, HolderInv, [ProgramNext]_everyVar
             PROVE  ClientInv' /\ HolderInv'
  OBVIOUS
<1>1. ASSUME NEW u \in Uris, Dial(u) \/ Hangup(u) PROVE ClientInv' /\ HolderInv'
  BY <1>1, InvDial, InvHangup
<1>2. ASSUME NEW u \in Uris, NEW fd \in Fds, Answered(u, fd) PROVE ClientInv' /\ HolderInv'
  BY <1>2, InvAnswered
<1>3. ASSUME NEW w \in Workers, Spawn(w) PROVE ClientInv' /\ HolderInv'
  BY <1>3, InvSpawn
<1>4. ASSUME NEW p \in programs, ProgramExits(p) PROVE ClientInv' /\ HolderInv'
  BY <1>4, InvExit
<1>5. ASSUME MainServes, UNCHANGED programVars PROVE ClientInv' /\ HolderInv'
  BY <1>5, MainQuiet, InvQuiet
<1>6. ASSUME NEW w \in Workers, WorkerServes(w), UNCHANGED programVars PROVE ClientInv' /\ HolderInv'
  BY <1>6, WorkerQuiet, InvQuiet, InvDisconnect
<1>7. CASE UNCHANGED everyVar
  BY <1>7 DEF everyVar, allVars, vars, poolVars, serverVars, programVars, ClientInv, HolderInv, Done
<1> QED
  BY <1>1, <1>2, <1>3, <1>4, <1>5, <1>6, <1>7 DEF ProgramNext

(* No thread reads the end of its connection before its own CGI program    *)
(* has ended, whichever child the worker's Wait(NULL) reaped.              *)
THEOREM AnswerWholeHolds == ProgramSpec => []AnswerWhole
<1>1. ProgramInit => ClientInv /\ HolderInv
  BY FS_EmptySet DEF ProgramInit, ServerInit, Init, ClientInv, HolderInv
<1>2. ClientInv /\ HolderInv => AnswerWhole
  BY DEF HolderInv, AnswerWhole
<1> QED
  BY <1>1, <1>2, ProgramStep, ServerFacts, PTL DEF ProgramSpec

-----------------------------------------------------------------------------
(* The files stay as they were, and so does what stat said of them, in     *)
(* every slot of the ring and with every worker.                           *)
Known(r) ==
  /\ KeyInRange(r)
  /\ r.uri \in Uris /\ r.stat_return >= 0 =>
       LET inode == InitialFiles[FileOf[r.uri]]
       IN  inode # Missing /\ r.st_size = inode.st_size /\ r.mode = inode.mode

FilesInv ==
  /\ fs = InitialFiles
  /\ \A i \in Slots : Known(queue[i].req)
  /\ \A w \in Workers : Known(job[w].req)
  /\ \A w \in Workers : stage[w] \in {"open", "send"} => job[w].req.uri \notin DynamicUris

(* A slot that was never filled asks for no uri.                           *)
LEMMA ZeroKnown == Servable => Known(ZeroRequest)
BY ServerAssumption DEF Servable, Known

(* So FilesInv holds at first.                                             *)
LEMMA FilesInit == Servable /\ ProgramInit => FilesInv
<1> SUFFICES ASSUME Servable, ProgramInit PROVE FilesInv
  OBVIOUS
<1>1. \A i \in Slots : queue[i].req = ZeroRequest
  BY DEF ProgramInit, ServerInit, Init, QueueInit
<1>2. \A w \in Workers : job[w].req = ZeroRequest /\ stage[w] = "start"
  BY DEF ProgramInit, ServerInit, Init, NoJob
<1> QED
  BY <1>1, <1>2, ZeroKnown DEF FilesInv, ProgramInit, ServerInit

(* What queue_put leaves in slot tail is what stat says of the file that   *)
(* its client asks for.                                                    *)
LEMMA ParsedKnown ==
  ASSUME Servable, ServerInv, ClientInv, FilesInv, mainpc = "read_line"
  PROVE  Known(Parsed)
<1>1. connfd \in open
  BY DEF ServerInv, PoolInv, OwnedOnce, MainOwns
<1>2. tail \in Slots /\ queue[tail].req \in Requests
  BY DEF ServerInv, PoolInv, ControlInv, TypeOK, QueueTypeOK, Slot
<1>3. PICK u \in Uris : client[connfd] = Asks(u)
  BY <1>1 DEF ClientInv
<1> DEFINE old == queue[tail].req
           words == [old EXCEPT !.method = "GET", !.uri = u]
           inode == InitialFiles[FileOf[u]]
<1>4. /\ client[connfd].line = "whole" /\ client[connfd].method = "GET" /\ client[connfd].uri = u
  BY <1>3 DEF Asks
<1>5. PICK r \in Requests : r = old
  BY <1>2
<1>6. KeyInRange(r)
  BY <1>2, <1>5 DEF FilesInv, Known
<1>7. PICK q \in Requests : /\ q = words /\ q.uri = u
                            /\ q.st_size = r.st_size /\ q.st_mtime = r.st_mtime
  <2> HIDE DEF old
  <2> DEFINE q == Named(r, "GET", u)
  <2>1. q.uri = u /\ q.st_size = r.st_size /\ q.st_mtime = r.st_mtime
    BY ServerAssumption DEF Named
  <2>2. q \in Requests
    BY NamedRequest DEF Methods
  <2>3. q = words
    BY <1>5 DEF Named
  <2> HIDE DEF q, words
  <2> QED
    BY <2>1, <2>2, <2>3
<1>8. Parsed = IF inode = Missing THEN [q EXCEPT !.stat_return = -1]
               ELSE [q EXCEPT !.stat_return = 0, !.st_size = inode.st_size,
                              !.st_mtime = inode.st_mtime, !.mode = inode.mode]
  <2> DEFINE sent == [old EXCEPT !.method = client[connfd].method, !.uri = client[connfd].uri]
             found == fs[FileOf[sent.uri]]
  <2>1. Parsed = IF found = Missing THEN [sent EXCEPT !.stat_return = -1]
                 ELSE [sent EXCEPT !.stat_return = 0, !.st_size = found.st_size,
                                   !.st_mtime = found.st_mtime, !.mode = found.mode]
    BY <1>4 DEF Parsed
  <2>2. sent = q
    BY <1>4, <1>7
  <2>3. found = inode
    BY <1>7, <2>2 DEF FilesInv
  <2> HIDE DEF sent, found
  <2> QED
    BY <2>1, <2>2, <2>3
<1> HIDE DEF words, old
<1>9. CASE inode = Missing
  <2>1. /\ Parsed.stat_return = -1 /\ Parsed.st_size = r.st_size /\ Parsed.st_mtime = r.st_mtime
    BY <1>7, <1>8, <1>9, ServerAssumption
  <2> QED
    BY <1>6, <2>1 DEF Known, KeyInRange
<1>10. CASE inode # Missing
  <2>1. inode \in Inodes /\ KeyInRange(inode)
    BY <1>10, ServerAssumption DEF Servable
  <2>2. /\ Parsed.uri = u /\ Parsed.st_size = inode.st_size /\ Parsed.st_mtime = inode.st_mtime
        /\ Parsed.mode = inode.mode
    BY <1>7, <1>8, <1>10, ServerAssumption
  <2> QED
    BY <1>10, <2>1, <2>2 DEF Known, KeyInRange
<1> QED
  BY <1>9, <1>10

(* A removal moves requests from slot to slot.                             *)
LEMMA RemovalKnown ==
  ASSUME QueueTypeOK, NEW i \in Slots, RemoveSlot(i), \A j \in Slots : Known(queue[j].req)
  PROVE  \A j \in Slots : Known(queue'[j].req)
<1> SUFFICES ASSUME NEW j \in Slots PROVE \E k \in Slots : queue'[j].req = queue[k].req
  OBVIOUS
<1>1. NextSlot(j) \in Slots /\ queue \in [Slots -> Slot]
  BY NextSlotValue DEF QueueTypeOK
<1>2. CASE i = head
  <2>1. queue' = [queue EXCEPT ![i].connfd = NoFd]
    BY <1>2 DEF RemoveSlot
  <2> QED
    BY <1>1, <2>1 DEF Slot
<1>3. CASE i # head
  <2>1. queue' = ShiftQueueLeft(i)
    BY <1>3 DEF RemoveSlot
  <2>2. queue'[j] \in {[queue[j] EXCEPT !.connfd = NoFd], queue[NextSlot(j)], queue[j]}
    BY <2>1 DEF ShiftQueueLeft
  <2> QED
    BY <1>1, <2>2 DEF Slot
<1> QED
  BY <1>2, <1>3

(* Steps that move no request and bring no worker to open a file.          *)
Unmoved ==
  /\ UNCHANGED <<fs, queue, job>>
  /\ \A w \in Workers : stage'[w] \in {"open", "send"} =>
       stage[w] \in {"open", "send"} \/ job[w].req.uri \notin DynamicUris

(* They are all of main's but two,                                         *)
LEMMA MainUnmoved ==
  ASSUME MainServes, ~ ReadRequestLine, ~ (Publish /\ UNCHANGED serverVars)
  PROVE  Unmoved
<1>1. CASE ReadHdrs
  BY <1>1 DEF ReadHdrs, ReadHeaders, queueVars, MainStep, serverVars, Unmoved
<1>2. CASE ReadHdrsLoops
  BY <1>2 DEF ReadHdrsLoops, vars, poolVars, queueVars, Unmoved
<1>3. CASE ReadReset
  BY <1>3 DEF ReadReset, ReadFails, ProcessExit, queueVars, serverVars, Unmoved
<1>4. CASE (AcceptFails \/ WaitEmpty \/ MainWaitMutex \/ MainPostMutex \/ PostFill)
             /\ UNCHANGED serverVars
  BY <1>4 DEF AcceptFails, ProcessExit, WaitEmpty, MainWaitMutex, MainPostMutex, PostFill,
              MainStep, queueVars, serverVars, Unmoved
<1> QED
  BY <1>1, <1>2, <1>3, <1>4 DEF MainServes

(* and all of a worker's but two.                                          *)
LEMMA WorkerUnmoved ==
  ASSUME PeersTyped, NEW w \in Workers, WorkerServes(w), ~ Disconnect(w),
         ~ (Take(w) /\ UNCHANGED serverVars)
  PROVE  Unmoved
<1>1. CASE (WaitFill(w) \/ WaitMutex(w) \/ TakeNothing(w) \/ PostMutex(w) \/ PostEmpty(w))
             /\ UNCHANGED serverVars
  BY <1>1 DEF WaitFill, WaitMutex, TakeNothing, PostMutex, PostEmpty, ProcessExit, queueVars,
              serverVars, Unmoved
<1>2. CASE OpenFails(w) \/ SendFails(w) \/ HandleDies(w)
  BY <1>2 DEF OpenFails, SendFails, HandleDies, HandleFails, ProcessExit, queueVars,
              serverVars, Unmoved
<1>3. CASE Refuse(w)
  BY <1>3 DEF Refuse, Handle, queueVars, Unmoved
<1>4. CASE Permit(w)
  BY <1>4 DEF Permit, Advance, vars, poolVars, queueVars, PeersTyped, Unmoved
<1>5. CASE OpenAndMap(w)
  BY <1>5 DEF OpenAndMap, Advance, AtStage, vars, poolVars, queueVars, PeersTyped, Unmoved
<1>6. CASE SendFile(w) \/ WaitChild(w)
  BY <1>6 DEF SendFile, WaitChild, Advance, Handle, queueVars, PeersTyped, Unmoved
<1> QED
  BY <1>1, <1>2, <1>3, <1>4, <1>5, <1>6 DEF WorkerServes

(* The four that move requests, and every step, keep FilesInv.             *)
LEMMA FilesStep ==
  Servable /\ ServerInv /\ ClientInv /\ FilesInv /\ [ProgramNext]_everyVar => FilesInv'
<1> SUFFICES ASSUME Servable, ServerInv, ClientInv, FilesInv, [ProgramNext]_everyVar
             PROVE  FilesInv'
  OBVIOUS
<1>0. /\ QueueTypeOK /\ queue \in [Slots -> Slot] /\ tail \in Slots
      /\ job \in [Workers -> Slot] /\ pc \in [Workers -> WorkerPC] /\ PeersTyped
      /\ \A w \in Workers : stage[w] # "start" => pc[w] = "handle"
  BY DEF ServerInv, PoolInv, ControlInv, TypeOK, QueueTypeOK, StageInv
<1>1. Unmoved => FilesInv'
  BY DEF Unmoved, FilesInv, Known
<1>2. UNCHANGED allVars => Unmoved
  BY DEF Unmoved, allVars, vars, queueVars, poolVars, serverVars
<1>3. CASE ReadRequestLine
  <2>1. /\ mainpc = "read_line" /\ queue' = [queue EXCEPT ![tail].req = Parsed]
        /\ UNCHANGED <<fs, job, stage>>
    BY <1>3 DEF ReadRequestLine, ReadLine, MainStep, FillTail, serverVars
  <2>2. Known(Parsed)
    BY <2>1, ParsedKnown
  <2>3. \A i \in Slots : queue'[i].req = IF i = tail THEN Parsed ELSE queue[i].req
    BY <1>0, <2>1 DEF Slot
  <2>4. \A i \in Slots : Known(queue'[i].req)
    BY <2>2, <2>3 DEF FilesInv
  <2> QED
    BY <2>1, <2>4 DEF FilesInv, Known
<1>4. CASE Publish /\ UNCHANGED serverVars
  <2>1. /\ queue' = [queue EXCEPT ![tail].connfd = connfd]
        /\ UNCHANGED <<fs, job, stage>>
    BY <1>4 DEF Publish, PublishTail, MainStep, serverVars
  <2>2. \A i \in Slots : queue'[i].req = queue[i].req
    BY <1>0, <2>1 DEF Slot
  <2> QED
    BY <2>1, <2>2 DEF FilesInv, Known
<1>5. ASSUME NEW w \in Workers, Take(w) /\ UNCHANGED serverVars PROVE FilesInv'
  <2>1. PICK i \in Slots : job' = [job EXCEPT ![w] = queue[i]] /\ RemoveSlot(i)
    BY <1>5 DEF Take
  <2>2. UNCHANGED <<fs, stage>> /\ stage[w] = "start"
    BY <1>0, <1>5 DEF Take, WorkerStep, serverVars
  <2>3. \A j \in Slots : Known(queue'[j].req)
    BY <1>0, <2>1, RemovalKnown DEF FilesInv
  <2>4. \A v \in Workers : job'[v] = IF v = w THEN queue[i] ELSE job[v]
    BY <1>0, <2>1
  <2> QED
    BY <2>2, <2>3, <2>4 DEF FilesInv, Known
<1>6. ASSUME NEW w \in Workers, Disconnect(w) PROVE FilesInv'
  <2>1. UNCHANGED <<fs, stage, queue>> /\ stage[w] = "start"
    BY <1>0, <1>6 DEF Disconnect, Close, WorkerStep, ProcessExit, queueVars
  <2>2. job' = job \/ job' = [job EXCEPT ![w] = NoJob]
    BY <1>6 DEF Disconnect, Close, ProcessExit
  <2>3. \A v \in Workers : job'[v] = job[v] \/ (v = w /\ job'[v].req = ZeroRequest)
    BY <1>0, <2>2 DEF NoJob
  <2> QED
    BY <2>1, <2>3, ZeroKnown DEF FilesInv, Known
<1>7. ASSUME NEW u \in Uris, NEW fd \in Fds, Answered(u, fd) PROVE Unmoved
  <2>1. Asks(u) \in Clients /\ Connect(fd, Asks(u))
    BY <1>7, ClientAssumption DEF Answered
  <2> QED
    BY <2>1 DEF Connect, Accept, MainStep, queueVars, Unmoved
<1>8. ASSUME NEW u \in Uris, Dial(u) \/ Hangup(u) PROVE Unmoved
  BY <1>2, <1>8 DEF Dial, Hangup
<1>9. ASSUME NEW w \in Workers, Spawn(w) PROVE Unmoved
  BY <1>0, <1>9 DEF Spawn, RunCgi, Advance, vars, poolVars, queueVars, PeersTyped, Unmoved
<1>10. ASSUME NEW p \in programs, ProgramExits(p) PROVE Unmoved
  BY <1>10 DEF ProgramExits, CgiExits, vars, poolVars, queueVars, Unmoved
<1>11. ASSUME MainServes PROVE FilesInv'
  BY <1>1, <1>3, <1>4, <1>11, MainUnmoved
<1>12. ASSUME NEW w \in Workers, WorkerServes(w) PROVE FilesInv'
  BY <1>0, <1>1, <1>5, <1>6, <1>12, WorkerUnmoved
<1>13. CASE UNCHANGED everyVar
  BY <1>1, <1>2, <1>13 DEF everyVar
<1> QED
  BY <1>1, <1>7, <1>8, <1>9, <1>10, <1>11, <1>12, <1>13 DEF ProgramNext

-----------------------------------------------------------------------------
(* None of the ways in which the server can end is open to it.             *)

(* accept() is called when no connection is main's, so that one descriptor *)
(* for each slot and each worker and one more are enough.                  *)
LEMMA DescriptorLeft ==
  ASSUME Servable, ServerInv
  PROVE  ~ AcceptFails
<1> SUFFICES ASSUME open = Fds, mainpc = "accept" PROVE FALSE
  BY DEF AcceptFails
<1>1. /\ IsFiniteSet(open) /\ Cardinality(open) \in Nat
      /\ Cardinality(open) <= One(MainOwns) + NBuffer + Cardinality(Workers)
  BY OpenBound DEF ServerInv, PoolInv
<1>2. One(MainOwns) = 0
  BY DEF MainOwns, One
<1>3. Cardinality(Fds) > NBuffer + Cardinality(Workers)
  BY <1>1 DEF Servable
<1>4. NBuffer \in Nat /\ Cardinality(Workers) \in Nat
  BY QueueAssumption, WorkersAssumption, FS_CardinalityType
<1> QED
  BY <1>1, <1>2, <1>3, <1>4

(* A client that main reads from stays.                                    *)
LEMMA NeverReset ==
  ASSUME ServerInv, ClientInv
  PROVE  ~ ReadReset
<1> SUFFICES ASSUME mainpc \in {"read_line", "read_headers"} PROVE client[connfd].stays = TRUE
  BY DEF ReadReset, ReadFails
<1>1. connfd \in open
  BY DEF ServerInv, PoolInv, OwnedOnce, MainOwns
<1> QED
  BY <1>1, AsksFacts

(* A worker that looks for a slot finds one.                               *)
LEMMA AlwaysTarget ==
  ASSUME ServerInv, FilesInv, NEW w \in Workers
  PROVE  ~ TakeNothing(w)
<1> SUFFICES ASSUME pc[w] = "take" PROVE \E i \in Slots : IsTarget(i)
  BY DEF TakeNothing
<1>1. TargetFound
  BY TargetExists DEF ServerInv
<1>2. PICK i \in Slots : Used(i)
  BY <1>1 DEF TargetFound
<1>3. KeyInRange(queue[i].req)
  BY DEF FilesInv, Known
<1> QED
  BY <1>1, <1>2, <1>3 DEF TargetFound

(* A permitted request is for a file that can be opened and mapped, and    *)
(* the file is as long as it was.                                          *)
LEMMA NeverShorter ==
  ASSUME Servable, ServerInv, AskInv, ClientInv, FilesInv, NEW w \in Workers
  PROVE  ~ OpenFails(w) /\ ~ SendFails(w)
<1> DEFINE r == job[w].req
           inode == InitialFiles[FileOf[r.uri]]
<1> SUFFICES ASSUME pc[w] = "handle", stage[w] \in {"open", "send"}
             PROVE  Mappable(r) /\ r.st_size = inode.st_size /\ inode.st_size \in Int
                    /\ fs = InitialFiles
  BY DEF OpenFails, SendFails, AtStage
<1>1. fs = InitialFiles /\ Known(r) /\ r.uri \notin DynamicUris
  BY DEF FilesInv
<1>2. r.uri \in Uris
  BY ServedRequest DEF Serving
<1>3. r \in Requests /\ Status(r) = 200
  BY DEF ServerInv, StageInv, PoolInv, ControlInv, TypeOK, Slot
<1>4. r.stat_return >= 0 /\ {"regular", "readable"} \subseteq r.mode
  <2>1. r.stat_return \in {0, -1}
    BY <1>3, ServerAssumption
  <2> HIDE DEF r
  <2> QED
    BY <1>1, <1>3, <2>1 DEF Status
<1>5. inode # Missing /\ r.st_size = inode.st_size /\ r.mode = inode.mode
  BY <1>1, <1>2, <1>4 DEF Known
<1>6. inode.st_size > 0
  BY <1>1, <1>2, <1>4, <1>5 DEF Servable
<1>7. r.st_size \in Int
  BY <1>3, QueueAssumption
<1> QED
  BY <1>1, <1>4, <1>5, <1>6, <1>7 DEF Mappable

(* The client that is answered stays, and Wait finds a child.              *)
LEMMA NeverDies ==
  ASSUME ServerInv, AskInv, ClientInv, NEW w \in Workers
  PROVE  ~ HandleDies(w)
<1> SUFFICES ASSUME pc[w] = "handle"
             PROVE  /\ client[job[w].connfd].stays = TRUE
                    /\ stage[w] = "wait" => running + exited # 0
  BY DEF HandleDies, HandleFails
<1>1. client[job[w].connfd].stays = TRUE
  BY ServedRequest DEF Serving
<1>2. ASSUME stage[w] = "wait" PROVE Waiters # {} /\ IsFiniteSet(Waiters)
  BY <1>2, WorkersAssumption, FS_Subset DEF Waiters
<1>3. stage[w] = "wait" => running + exited # 0
  BY <1>2, FS_EmptySet DEF ServerInv, ChildInv
<1> QED
  BY <1>1, <1>3

(* close() is called on a descriptor that is open.                         *)
LEMMA ClosesOpen ==
  ASSUME ServerInv, NEW w \in Workers, Disconnect(w)
  PROVE  up'
<1>1. CASE job[w].connfd \in open
  BY <1>1 DEF Disconnect, Close, WorkerStep
<1>2. CASE job[w].connfd \notin open
  <2>1. pc[w] = "close"
    BY <1>2 DEF Disconnect, Close
  <2> QED
    BY <1>2, <2>1 DEF ServerInv, PoolInv, OwnedOnce, Serving
<1> QED
  BY <1>1, <1>2

(* So no step ends the server.                                             *)
LEMMA UpStep ==
  Servable /\ ServerInv /\ AskInv /\ ClientInv /\ FilesInv /\ up /\ [ProgramNext]_everyVar => up'
<1> SUFFICES ASSUME Servable, ServerInv, AskInv, ClientInv, FilesInv, up, [ProgramNext]_everyVar
             PROVE  up'
  OBVIOUS
<1>1. ASSUME NEW u \in Uris, Dial(u) \/ Hangup(u) PROVE up'
  BY <1>1 DEF Dial, Hangup, allVars, vars, poolVars
<1>2. ASSUME NEW u \in Uris, NEW fd \in Fds, Answered(u, fd) PROVE up'
  BY <1>2 DEF Answered, Connect, Accept, MainStep
<1>3. ASSUME NEW w \in Workers, Spawn(w) PROVE up'
  BY <1>3 DEF Spawn, RunCgi, vars, poolVars
<1>4. ASSUME NEW p \in programs, ProgramExits(p) PROVE up'
  BY <1>4 DEF ProgramExits, CgiExits, vars, poolVars
<1>5. ASSUME MainServes PROVE up'
  <2>1. ~ AcceptFails /\ ~ ReadReset
    BY DescriptorLeft, NeverReset
  <2> QED
    BY <1>5, <2>1 DEF MainServes, ReadRequestLine, ReadLine, ReadHdrs, ReadHeaders,
         ReadHdrsLoops, WaitEmpty, MainWaitMutex, Publish, MainPostMutex, PostFill, MainStep,
         vars, poolVars
<1>6. ASSUME NEW w \in Workers, WorkerServes(w) PROVE up'
  <2>1. ~ TakeNothing(w) /\ ~ OpenFails(w) /\ ~ SendFails(w) /\ ~ HandleDies(w)
    BY AlwaysTarget, NeverShorter, NeverDies
  <2> QED
    BY <1>6, <2>1, ClosesOpen DEF WorkerServes, Refuse, Permit, OpenAndMap, SendFile, WaitChild,
         Handle, WaitFill, WaitMutex, Take, PostMutex, PostEmpty, WorkerStep, vars, poolVars
<1>7. CASE UNCHANGED everyVar
  BY <1>7 DEF everyVar, allVars, vars, poolVars
<1> QED
  BY <1>1, <1>2, <1>3, <1>4, <1>5, <1>6, <1>7 DEF ProgramNext

(* No request of client.c's threads ends the server, whatever they ask for *)
(* and in whatever order they are served: it does not run out of           *)
(* descriptors, find no slot, map an empty file, send a page that is gone, *)
(* wait without a child or close a descriptor twice.                       *)
THEOREM NothingStops == Servable => (ProgramSpec => []StaysUp)
<1>1. ProgramInit => ClientInv /\ HolderInv /\ up
  BY FS_EmptySet DEF ProgramInit, ServerInit, Init, ClientInv, HolderInv
<1> SUFFICES ASSUME Servable PROVE ProgramSpec => []StaysUp
  OBVIOUS
<1>2. ProgramInit => FilesInv
  BY FilesInit
<1>3. ServerInv /\ ClientInv /\ FilesInv /\ [ProgramNext]_everyVar => FilesInv'
  BY FilesStep
<1>4. ServerInv /\ AskInv /\ ClientInv /\ FilesInv /\ up /\ [ProgramNext]_everyVar => up'
  BY UpStep
<1>5. up => StaysUp
  BY DEF StaysUp
<1> QED
  BY <1>1, <1>2, <1>3, <1>4, <1>5, ProgramStep, ServerFacts, PTL DEF ProgramSpec

=============================================================================
