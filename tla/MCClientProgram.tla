--------------------------- MODULE MCClientProgram ---------------------------
(* Instances of ClientProgram for TLC: threads that ask for a page, and    *)
(* twice for a CGI program with different arguments.                       *)
EXTENDS ClientProgram, TLC

CONSTANTS w1, w2, c1, c2, c3, c4, c5

MCUris == {"page", "program?1", "program?2"}
MCDynamic == {"program?1", "program?2"}
MCFiles == {"page", "program", "directory"}
MCFileOf ==
  [u \in MCUris \cup {""} |->
     IF u = "" THEN "directory" ELSE IF u = "page" THEN "page" ELSE "program"]

File(size, mode) == [st_size |-> size, st_mtime |-> 0, mode |-> mode]
MCInitialFiles ==
  [f \in MCFiles |-> File(1, {"regular", "readable", "runnable"})]

MCClients == {Asks(u) : u \in MCUris}

Zero == [method |-> "", uri |-> "", stat_return |-> 0, st_size |-> 0, st_mtime |-> 0, mode |-> {}]
MCRequests ==
  [method : {"", "GET", "POST"}, uri : MCUris \cup {""}, stat_return : {0, -1},
   st_size : Sizes, st_mtime : Times, mode : Modes]

(* The server can serve them.                                             *)
ASSUME ServableInstance == Servable

=============================================================================
