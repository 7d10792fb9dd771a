------------------------------- MODULE WebServer -------------------------------
(***************************************************************************)
(* The web server with its clients and its files: ThreadPool, with what    *)
(* queue_put reads from a connection and stats (server.c), what            *)
(* requestHandle answers (request.c), the files it serves and the CGI      *)
(* programs it forks.  Every step is a step of ThreadPool or leaves its    *)
(* variables alone.  A client is what it sends and whether it stays to     *)
(* read the answer.                                                        *)
(***************************************************************************)
EXTENDS ThreadPool

CONSTANTS
  Clients,     \* what a client may do, see ClientBehaviour
  Uris, NoUri, \* the uris, and the empty string of a slot never filled
  Files, FileOf, \* the files, and requestParseURI's filename for each uri
  DynamicUris, \* the uris that contain "cgi"
  Missing,     \* what stat finds where there is no file
  Sizes, Times, \* the values of st_size and st_mtime
  InitialFiles, \* the files at first
  Edits        \* <<file, inode>>: how somebody may change a file meanwhile

Modes == SUBSET {"regular", "readable", "runnable"}
Inodes == [st_size : Sizes, st_mtime : Times, mode : Modes]

(* line: a whole request line, or one with no word on it, or end of file   *)
(* before any.  headers: up to the empty line, or the end of file instead  *)
(* of the first header or of a later line.                                 *)
ClientBehaviour ==
  [line : {"whole", "empty", "eof"}, method : {"GET", "POST"}, uri : Uris,
   headers : {"complete", "none", "cut"}, stays : BOOLEAN]

ASSUME ServerAssumption ==
  /\ Clients \subseteq ClientBehaviour
  /\ NoUri \notin Uris
  /\ FileOf \in [Uris \cup {NoUri} -> Files]
  /\ DynamicUris \subseteq Uris
  /\ InitialFiles \in [Files -> Inodes \cup {Missing}]
  /\ Edits \subseteq Files \X (Inodes \cup {Missing})
  /\ Requests = [method : {"", "GET", "POST"}, uri : Uris \cup {NoUri},
                 stat_return : {0, -1}, st_size : Sizes, st_mtime : Times, mode : Modes]

VARIABLES
  fs,       \* the files
  client,   \* the client at the other end of each open connection
  reply,    \* what it has been sent
  stage,    \* how far each worker is in requestHandle
  running, exited,  \* how many CGI children run, and are not yet reaped
  looping   \* requestReadhdrs reads end of file for ever

serverVars == <<fs, client, reply, stage, running, exited, looping>>
allVars == <<vars, serverVars>>

NoClient == [line |-> "eof", headers |-> "none", stays |-> FALSE]
NoReply == [status |-> 0, uri |-> NoUri]

ServerInit ==
  /\ Init
  /\ fs = InitialFiles
  /\ client = [fd \in Fds |-> NoClient]
  /\ reply = [fd \in Fds |-> NoReply]
  /\ stage = [w \in Workers |-> "start"]
  /\ running = 0
  /\ exited = 0
  /\ looping = FALSE

-----------------------------------------------------------------------------
Connect(fd, c) ==
  /\ Accept(fd)
  /\ client' = [client EXCEPT ![fd] = c]
  /\ UNCHANGED <<fs, reply, stage, running, exited, looping>>

(* Mutant: a request line is scanned as it was left by the last request.   *)
Parsed_KeepsUri ==
  LET old == queue[tail].req
      c == client[connfd]
      words == IF c.line = "whole" THEN [old EXCEPT !.method = c.method] ELSE old
      inode == fs[FileOf[words.uri]]
  IN  IF inode = Missing THEN [words EXCEPT !.stat_return = -1]
      ELSE [words EXCEPT !.stat_return = 0, !.st_size = inode.st_size,
                         !.st_mtime = inode.st_mtime, !.mode = inode.mode]

(* The slot after sscanf, requestParseURI and stat.  A line with no words, *)
(* or none at all, leaves the method and uri of the slot's last request    *)
(* (at end of file sscanf reads its old line again), and a stat that fails *)
(* leaves its sbuf.                                                        *)
Parsed ==
  LET old == queue[tail].req
      c == client[connfd]
      words == IF c.line = "whole" THEN [old EXCEPT !.method = c.method, !.uri = c.uri]
                                   ELSE old
      inode == fs[FileOf[words.uri]]
  IN  IF inode = Missing THEN [words EXCEPT !.stat_return = -1]
      ELSE [words EXCEPT !.stat_return = 0, !.st_size = inode.st_size,
                         !.st_mtime = inode.st_mtime, !.mode = inode.mode]

ReadRequestLine ==
  /\ ReadLine(Parsed)
  /\ UNCHANGED serverVars

(* requestReadhdrs stops at the empty line.  At end of file its buffer     *)
(* keeps what it held: before the first line that is whatever was on the   *)
(* stack, perhaps the empty line of the request before, and afterwards a   *)
(* header, which it compares with the empty line for ever.                 *)
ReadHdrs ==
  /\ ~ looping
  /\ ReadHeaders
  /\ client[connfd].headers \in {"complete", "none"}
  /\ UNCHANGED serverVars

ReadHdrsLoops ==
  /\ up
  /\ mainpc = "read_headers"
  /\ ~ looping
  /\ client[connfd].headers \in {"none", "cut"}
  /\ looping' = TRUE
  /\ UNCHANGED <<vars, fs, client, reply, stage, running, exited>>

(* The connection is reset while it is read.                               *)
ReadReset ==
  /\ ~ looping
  /\ ReadFails
  /\ ~ client[connfd].stays
  /\ UNCHANGED serverVars

-----------------------------------------------------------------------------
(* requestHandle.                                                          *)
AtStage(w, s) == up /\ pc[w] = "handle" /\ stage[w] = s

Advance(w, from, to) ==
  /\ AtStage(w, from)
  /\ stage' = [stage EXCEPT ![w] = to]

Status(r) ==
  LET needed == {"regular", IF r.uri \in DynamicUris THEN "runnable" ELSE "readable"}
  IN  CASE r.method # "GET" -> 501
        [] r.method = "GET" /\ r.stat_return < 0 -> 404
        [] r.method = "GET" /\ r.stat_return >= 0 /\ ~ needed \subseteq r.mode -> 403
        [] OTHER -> 200

Answer(w, status) ==
  reply' = [reply EXCEPT ![job[w].connfd] =
              [status |-> status, uri |-> job[w].req.uri]]

(* Mutant: requestHandle returns without an error page.                    *)
Refuse_Silent(w) ==
  /\ AtStage(w, "start")
  /\ Status(job[w].req) # 200
  /\ Handle(w)
  /\ UNCHANGED serverVars

(* requestError, and requestHandle returns.                                *)
Refuse(w) ==
  /\ AtStage(w, "start")
  /\ Status(job[w].req) # 200
  /\ Handle(w)
  /\ Answer(w, Status(job[w].req))
  /\ UNCHANGED <<fs, client, stage, running, exited, looping>>

Permit(w) ==
  /\ Status(job[w].req) = 200
  /\ Advance(w, "start", IF job[w].req.uri \in DynamicUris THEN "run" ELSE "open")
  /\ UNCHANGED <<vars, fs, client, reply, running, exited, looping>>

(* requestServeStatic: Open, and Mmap over the size that stat found when   *)
(* the request was read.                                                   *)
Mappable(r) ==
  LET inode == fs[FileOf[r.uri]]
  IN  r.st_size > 0 /\ inode # Missing /\ {"regular", "readable"} \subseteq inode.mode

OpenAndMap(w) ==
  /\ Mappable(job[w].req)
  /\ Advance(w, "open", "send")
  /\ UNCHANGED <<vars, fs, client, reply, running, exited, looping>>

OpenFails(w) ==
  /\ AtStage(w, "open")
  /\ ~ Mappable(job[w].req)
  /\ HandleFails(w)
  /\ UNCHANGED serverVars

(* Rio_writen of the header and of the mapped file.                        *)
SendFile(w) ==
  /\ Advance(w, "send", "start")
  /\ Handle(w)
  /\ Answer(w, 200)
  /\ UNCHANGED <<fs, client, running, exited, looping>>

(* Pages of the mapping that the file no longer covers cannot be written.  *)
SendFails(w) ==
  /\ AtStage(w, "send")
  /\ LET inode == fs[FileOf[job[w].req.uri]]
     IN  inode # Missing /\ inode.st_size < job[w].req.st_size
  /\ HandleFails(w)
  /\ UNCHANGED serverVars

(* requestServeDynamic: the header and Fork.                               *)
RunCgi(w) ==
  /\ Advance(w, "run", "wait")
  /\ Answer(w, 200)
  /\ running' = running + 1
  /\ UNCHANGED <<vars, fs, client, exited, looping>>

(* The child ends, or could not execute the file.                          *)
CgiExits ==
  /\ running > 0
  /\ running' = running - 1
  /\ exited' = exited + 1
  /\ UNCHANGED <<vars, fs, client, reply, stage, looping>>

(* Mutant: a worker reaps every child that has ended.                      *)
WaitChild_All(w) ==
  /\ Advance(w, "wait", "start")
  /\ exited > 0
  /\ exited' = 0
  /\ Handle(w)
  /\ UNCHANGED <<fs, client, reply, running, looping>>

(* Wait(NULL) takes any child that has ended.                              *)
WaitChild(w) ==
  /\ Advance(w, "wait", "start")
  /\ exited > 0
  /\ exited' = exited - 1
  /\ Handle(w)
  /\ UNCHANGED <<fs, client, reply, running, looping>>

(* A write to a client that has gone fails, or raises SIGPIPE; Wait fails  *)
(* if there is no child.                                                   *)
HandleDies(w) ==
  /\ HandleFails(w)
  /\ \/ stage[w] = "start" /\ Status(job[w].req) # 200 /\ ~ client[job[w].connfd].stays
     \/ stage[w] \in {"send", "run"} /\ ~ client[job[w].connfd].stays
     \/ stage[w] = "wait" /\ running + exited = 0
  /\ UNCHANGED serverVars

Disconnect(w) ==
  /\ Close(w)
  /\ client' = [client EXCEPT ![job[w].connfd] = NoClient]
  /\ reply' = [reply EXCEPT ![job[w].connfd] = NoReply]
  /\ UNCHANGED <<fs, stage, running, exited, looping>>

Edit(f, inode) ==
  /\ up
  /\ fs[f] # inode
  /\ fs' = [fs EXCEPT ![f] = inode]
  /\ UNCHANGED <<vars, client, reply, stage, running, exited, looping>>

-----------------------------------------------------------------------------
MainServes ==
  \/ ReadRequestLine \/ ReadHdrs \/ ReadHdrsLoops \/ ReadReset
  \/ (AcceptFails \/ WaitEmpty \/ MainWaitMutex \/ Publish \/ MainPostMutex
        \/ PostFill) /\ UNCHANGED serverVars

ServerMain == MainServes \/ \E fd \in Fds, c \in Clients : Connect(fd, c)

WorkerServes(w) ==
  \/ Refuse(w) \/ Permit(w) \/ OpenAndMap(w) \/ OpenFails(w) \/ SendFile(w)
  \/ SendFails(w) \/ WaitChild(w) \/ HandleDies(w) \/ Disconnect(w)
  \/ (WaitFill(w) \/ WaitMutex(w) \/ Take(w) \/ TakeNothing(w) \/ PostMutex(w)
        \/ PostEmpty(w)) /\ UNCHANGED serverVars

ServerWorker(w) == WorkerServes(w) \/ RunCgi(w)

ServerExited == ~ up /\ UNCHANGED allVars

ServerNext ==
  \/ ServerMain
  \/ \E w \in Workers : ServerWorker(w)
  \/ CgiExits
  \/ \E e \in Edits : Edit(e[1], e[2])
  \/ ServerExited

ServerSpec == ServerInit /\ [][ServerNext]_allVars

(* Main runs on once a client has connected, since what is read is there   *)
(* or the connection ends; workers run, and CGI programs end.              *)
ServerFairness ==
  /\ WF_allVars(ServerMain /\ mainpc # "accept")
  /\ \A w \in Workers : WF_allVars(ServerWorker(w))
  /\ WF_allVars(CgiExits)

FairServer == ServerSpec /\ ServerFairness

-----------------------------------------------------------------------------
Stages == {"start", "open", "send", "run", "wait"}

ServerTypeOK ==
  /\ TypeOK
  /\ fs \in [Files -> Inodes \cup {Missing}]
  /\ client \in [Fds -> Clients \cup {NoClient}]
  /\ reply \in [Fds -> [status : {0, 200, 403, 404, 501}, uri : Uris \cup {NoUri}]]
  /\ stage \in [Workers -> Stages]
  /\ running \in 0 .. Cardinality(Workers)
  /\ exited \in 0 .. Cardinality(Workers)
  /\ looping \in BOOLEAN

(* A client that sent a request line is answered about that uri, and not   *)
(* about one that passed through its slot of the queue before or after;    *)
(* 501 exactly if its method was not GET.                                  *)
AnswersOwnRequest ==
  \A fd \in Fds : reply[fd] # NoReply /\ client[fd].line = "whole" =>
    /\ reply[fd].uri = client[fd].uri
    /\ reply[fd].status = 501 <=> client[fd].method # "GET"

(* server.c, queue_put: "Also reads the request line and headers from the  *)
(* connection file descriptor": what a connection is answered was asked on *)
(* that connection.                                                        *)
NothingBorrowed ==
  \A fd \in Fds : reply[fd].status = 200 => client[fd].line = "whole"

(* README.md: the server is "serving static files from a specified         *)
(* directory as well as dynamic content"; it does not stop over a request. *)
StaysUp == up

(* Every Wait(NULL) has a child to wait for, although it may take another  *)
(* worker's: as many are running or ended as there are workers waiting.    *)
ChildrenMatchWaits ==
  up => running + exited = Cardinality({w \in Workers : stage[w] = "wait"})

(* No worker closes a connection without an answer: requestHandle has sent *)
(* one on each of its paths, and no other worker's close or new connection *)
(* has taken it back.                                                      *)
ClosedAnswered ==
  \A w \in Workers : up /\ pc[w] = "close" => reply[job[w].connfd] # NoReply

(* README.md: "capable of handling multiple client requests concurrently": *)
(* a connection with a whole request gets an answer, whatever the other    *)
(* clients do.                                                             *)
EveryClientAnswered ==
  \A fd \in Fds : fd \in open /\ client[fd].headers = "complete"
                  ~> (reply[fd] # NoReply \/ ~ up)

=============================================================================
