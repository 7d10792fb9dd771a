------------------------------ MODULE MCWebServer ------------------------------
(* Instances of WebServer for TLC: a page, a CGI program, a directory, and *)
(* a uri with no file; clients that do as they should, and others.         *)
EXTENDS WebServer, TLC

CONSTANTS w1, w2, c1, c2, c3, c4, c5

Page == "page"
Program == "program"
Absent == "absent"

MCUris == {Page, Program, Absent}
MCFiles == {Page, Program, Absent, "directory"}
MCDynamic == {Program}
MCFileOf == [u \in MCUris \cup {""} |-> IF u = "" THEN "directory" ELSE u]

File(size, mode) == [st_size |-> size, st_mtime |-> 0, mode |-> mode]
Readable == {"regular", "readable"}
Runnable == {"regular", "readable", "runnable"}

MCInitialFiles ==
  [f \in MCFiles |-> CASE f = Page -> File(2, Readable)
                      [] f = Program -> File(1, Runnable)
                      [] f = Absent -> Missing
                      [] f = "directory" -> File(1, {"readable", "runnable"})]

MCTimes == {0, -1}

NoEdits == {}
(* The page disappears, is replaced by a shorter one dated before 1970, and *)
(* comes back; the program loses its permission.                            *)
SomeEdits ==
  {<<Page, Missing>>, <<Page, [File(1, Readable) EXCEPT !.st_mtime = -1]>>,
   <<Page, File(2, Readable)>>, <<Program, File(1, Readable)>>}

Client(line, method, uri, headers, stays) ==
  [line |-> line, method |-> method, uri |-> uri, headers |-> headers, stays |-> stays]
Get(uri) == Client("whole", "GET", uri, "complete", TRUE)

Mixed == {Get(Page), Get(Program), Client("empty", "GET", Page, "complete", TRUE)}
HangsUp == {Get(Page), Client("whole", "GET", Page, "cut", TRUE)}
Everybody == {Get(Page), Get(Program), Client("whole", "GET", Page, "complete", FALSE),
              Client("eof", "GET", Page, "none", TRUE), Client("whole", "POST", Absent, "none", TRUE)}

Zero == [method |-> "", uri |-> "", stat_return |-> 0, st_size |-> 0, st_mtime |-> 0, mode |-> {}]
MCRequests ==
  [method : {"", "GET", "POST"}, uri : MCUris \cup {""}, stat_return : {0, -1},
   st_size : Sizes, st_mtime : Times, mode : Modes]

WorkersAndFds == Permutations(Workers) \cup Permutations(Fds)

=============================================================================
