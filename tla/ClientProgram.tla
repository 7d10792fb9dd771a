---------------------------- MODULE ClientProgram ----------------------------
(***************************************************************************)
(* The web server with client.c, whose threads ask for one uri each, all   *)
(* different, and read until the connection ends.  It ends for the client  *)
(* when no process has it open: a CGI program that the server forks has a  *)
(* copy of every descriptor that is open at that moment, other workers'    *)
(* connections included, until it exits.                                   *)
(***************************************************************************)
EXTENDS WebServer

VARIABLES
  thread,   \* the thread that asks for each uri
  programs  \* the CGI programs that run, with the connections each one holds

programVars == <<thread, programs>>
everyVar == <<allVars, programVars>>

Asks(u) == [line |-> "whole", method |-> "GET", uri |-> u, headers |-> "complete", stays |-> TRUE]

ASSUME ClientAssumption == Clients = {Asks(u) : u \in Uris}

ProgramInit ==
  /\ ServerInit
  /\ thread = [u \in Uris |-> "created"]
  /\ programs = {}

-----------------------------------------------------------------------------
(* thread_func: Open_clientfd and clientSend, whether or not the server is *)
(* at accept().                                                            *)
Dial(u) ==
  /\ thread[u] = "created"
  /\ thread' = [thread EXCEPT ![u] = "calling"]
  /\ UNCHANGED <<allVars, programs>>

Answered(u, fd) ==
  /\ thread[u] = "calling"
  /\ Connect(fd, Asks(u))
  /\ thread' = [thread EXCEPT ![u] = "connected"]
  /\ UNCHANGED programs

(* The uris of the connections that the server has open.                   *)
Connections == {client[fd].uri : fd \in open}

Program(u, fds) == [answers |-> u, holds |-> {client[fd].uri : fd \in fds}]

(* Mutant: the child closes its connection before it starts the program.   *)
Spawn_ClosesOwn(w) ==
  /\ RunCgi(w)
  /\ programs' = programs \cup {Program(job[w].req.uri, open \ {job[w].connfd})}
  /\ UNCHANGED thread

(* requestServeDynamic: Fork copies the descriptors.                       *)
Spawn(w) ==
  /\ RunCgi(w)
  /\ programs' = programs \cup {Program(job[w].req.uri, open)}
  /\ UNCHANGED thread

ProgramExits(p) ==
  /\ CgiExits
  /\ programs' = programs \ {p}
  /\ UNCHANGED thread

(* clientPrint reads the end of the file, and the thread closes its end.   *)
Hangup(u) ==
  /\ thread[u] = "connected"
  /\ \A p \in programs : u \notin p.holds
  /\ up => u \notin Connections
  /\ thread' = [thread EXCEPT ![u] = "done"]
  /\ UNCHANGED <<allVars, programs>>

ProgramNext ==
  \/ \E u \in Uris : Dial(u) \/ Hangup(u)
  \/ \E u \in Uris, fd \in Fds : Answered(u, fd)
  \/ \E w \in Workers : Spawn(w)
  \/ \E p \in programs : ProgramExits(p)
  \/ (MainServes \/ \E w \in Workers : WorkerServes(w)) /\ UNCHANGED programVars

(* Main and the workers run on, CGI programs end, and the threads call,    *)
(* and see the end of a connection.                                        *)
ProgramFairness ==
  /\ WF_everyVar((MainServes /\ UNCHANGED programVars) \/ \E u \in Uris, fd \in Fds : Answered(u, fd))
  /\ \A w \in Workers : WF_everyVar(Spawn(w) \/ (WorkerServes(w) /\ UNCHANGED programVars))
  /\ WF_everyVar(\E p \in programs : ProgramExits(p))
  /\ \A u \in Uris : WF_everyVar(Dial(u)) /\ WF_everyVar(Hangup(u))

ProgramSpec == ProgramInit /\ [][ProgramNext]_everyVar /\ ProgramFairness

-----------------------------------------------------------------------------
(* What a server that client.c does not bring down needs: no page that it  *)
(* asks for is an empty file, which Mmap refuses; no file is as large as   *)
(* LONG_MAX or older than 1970, which the search for a slot would not      *)
(* find; what a fresh slot holds is no file either; and accept() finds a   *)
(* descriptor while every slot and worker has one.                         *)
Servable ==
  /\ \A f \in Files : InitialFiles[f] # Missing => KeyInRange(InitialFiles[f])
  /\ \A u \in Uris \ DynamicUris :
       LET inode == InitialFiles[FileOf[u]]
       IN  inode # Missing /\ {"regular", "readable"} \subseteq inode.mode => inode.st_size > 0
  /\ KeyInRange(ZeroRequest) /\ ZeroRequest.uri = NoUri
  /\ IsFiniteSet(Fds) => Cardinality(Fds) > NBuffer + Cardinality(Workers)

(* A thread that has read the end of its connection has its whole answer:  *)
(* its own CGI program has ended.  The worker's Wait does not say so, since *)
(* it may reap another worker's child and close the connection while its   *)
(* own program still writes; the program's inherited copy keeps it open.   *)
AnswerWhole ==
  /\ Cardinality(programs) = running
  /\ \A p \in programs : thread[p.answers] # "done"

(* client.c, main: every pthread_join returns, since every thread reads    *)
(* the end of its connection, however many CGI programs hold copies of it. *)
EveryThreadJoins == \A u \in Uris : <>(thread[u] = "done")

=============================================================================
