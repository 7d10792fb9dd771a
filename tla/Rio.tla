---------------------------------- MODULE Rio ----------------------------------
(***************************************************************************)
(* The Rio package of multiThreadedWebServer/blg312e.c on both ends of one *)
(* direction of a connection.  One peer sends with rio_writen; the other   *)
(* reads with rio_readlineb and rio_readnb, which share the rio_t and its  *)
(* internal buffer.  write() takes as much as there is room for, or less;  *)
(* read() returns some of what has arrived.  (A call that is interrupted   *)
(* is made again, which changes nothing.)                                  *)
(***************************************************************************)
EXTENDS Naturals, Sequences

CONSTANTS
  Bytes, Newline,     \* the values of a byte, and the one that ends a line
  Streams,            \* what a peer may send
  MaxLine,            \* maxlen of rio_readlineb
  Counts,             \* the values of n for rio_readnb
  SocketSize,         \* how many bytes are under way at most
  RioSize             \* RIO_BUFSIZE

ASSUME RioAssumption ==
  /\ Streams \subseteq Seq(Bytes)
  /\ MaxLine \in Nat \ {0, 1}
  /\ Counts \subseteq Nat \ {0}
  /\ SocketSize \in Nat \ {0} /\ RioSize \in Nat \ {0}

VARIABLES
  unsent,       \* what rio_writen has yet to write
  sending,      \* the peer has not closed the connection
  socket,       \* what is under way
  rio_buf,      \* the unread bytes of the rio_t
  call, count,  \* the reader's call, and its n
  usrbuf,       \* what the call has read so far
  piece         \* what the last call read

vars == <<unsent, sending, socket, rio_buf, call, count, usrbuf, piece>>

Init ==
  /\ unsent \in Streams
  /\ sending = TRUE
  /\ socket = <<>>
  /\ rio_buf = <<>>
  /\ call = "none" /\ count = 0
  /\ usrbuf = <<>>
  /\ piece = <<>>

Less(a, b) == IF a < b THEN a ELSE b
Front(s, k) == SubSeq(s, 1, k)
From(s, k) == SubSeq(s, k + 1, Len(s))
EndsLine(s) == s # <<>> /\ s[Len(s)] = Newline

-----------------------------------------------------------------------------
(* rio_writen: a write() takes k bytes.                                    *)
Write(k) ==
  /\ sending
  /\ k <= Less(Len(unsent), SocketSize - Len(socket))
  /\ socket' = socket \o Front(unsent, k)
  /\ unsent' = From(unsent, k)
  /\ UNCHANGED <<sending, rio_buf, call, count, usrbuf, piece>>

(* The peer has sent everything, or ends before.                           *)
Close ==
  /\ sending
  /\ sending' = FALSE
  /\ unsent' = <<>>
  /\ UNCHANGED <<socket, rio_buf, call, count, usrbuf, piece>>

-----------------------------------------------------------------------------
CallLine ==
  /\ call = "none"
  /\ call' = "line"
  /\ usrbuf' = <<>>
  /\ UNCHANGED <<unsent, sending, socket, rio_buf, count, piece>>

CallBytes(n) ==
  /\ call = "none"
  /\ call' = "bytes" /\ count' = n
  /\ usrbuf' = <<>>
  /\ UNCHANGED <<unsent, sending, socket, rio_buf, piece>>

(* Mutant: the loop of rio_readlineb stores maxlen bytes.                  *)
Complete_OffByOne ==
  \/ /\ call = "line"
     /\ Len(usrbuf) = MaxLine \/ EndsLine(usrbuf)
  \/ call = "bytes" /\ Len(usrbuf) = count

(* The loops of rio_readlineb and rio_readnb end.                          *)
Complete ==
  \/ /\ call = "line"
     /\ Len(usrbuf) = MaxLine - 1 \/ EndsLine(usrbuf)
  \/ call = "bytes" /\ Len(usrbuf) = count

Reading == call \in {"line", "bytes"} /\ ~ Complete

(* Mutant: a call refills the buffer whatever is left in it.               *)
Refill_Always(k) ==
  /\ Reading
  /\ usrbuf = <<>>
  /\ k <= Less(Len(socket), RioSize)
  /\ rio_buf' = Front(socket, k)
  /\ socket' = From(socket, k)
  /\ UNCHANGED <<unsent, sending, call, count, usrbuf, piece>>

(* rio_read finds its buffer empty, and read() returns k bytes.            *)
Refill(k) ==
  /\ Reading
  /\ rio_buf = <<>>
  /\ k <= Less(Len(socket), RioSize)
  /\ rio_buf' = Front(socket, k)
  /\ socket' = From(socket, k)
  /\ UNCHANGED <<unsent, sending, call, count, usrbuf, piece>>

(* rio_read copies from its buffer: one byte for a line.                   *)
Copy ==
  /\ Reading
  /\ rio_buf # <<>>
  /\ LET wanted == IF call = "line" THEN 1 ELSE count - Len(usrbuf)
         cnt == Less(wanted, Len(rio_buf))
     IN  /\ usrbuf' = usrbuf \o Front(rio_buf, cnt)
         /\ rio_buf' = From(rio_buf, cnt)
  /\ UNCHANGED <<unsent, sending, socket, call, count, piece>>

(* Mutant: the end of the stream is seen between two lines only.           *)
AtEnd_BetweenLines ==
  Reading /\ usrbuf = <<>> /\ rio_buf = <<>> /\ socket = <<>> /\ ~ sending

(* read() returns 0.                                                       *)
AtEnd == Reading /\ rio_buf = <<>> /\ socket = <<>> /\ ~ sending

(* The value of rio_readlineb counts the byte that was not read when the   *)
(* line is too long or the stream ends within it.                          *)
ReturnValue ==
  IF call = "bytes" \/ usrbuf = <<>> \/ EndsLine(usrbuf)
    THEN Len(usrbuf) ELSE Len(usrbuf) + 1

(* The call returns; a reader makes no further one after a 0.              *)
Return ==
  /\ call \in {"line", "bytes"}
  /\ Complete \/ AtEnd
  /\ piece' = usrbuf
  /\ call' = IF ReturnValue = 0 THEN "ended" ELSE "none"
  /\ usrbuf' = <<>>
  /\ UNCHANGED <<unsent, sending, socket, rio_buf, count>>

(* read() fails: the call returns -1, on which the wrapper exits.          *)
ReadFails ==
  /\ Reading
  /\ rio_buf = <<>>
  /\ call' = "failed"
  /\ UNCHANGED <<unsent, sending, socket, rio_buf, count, usrbuf, piece>>

Writer == (\E k \in 1 .. SocketSize : Write(k)) \/ Close

Reader ==
  \/ CallLine \/ (\E n \in Counts : CallBytes(n))
  \/ (\E k \in 1 .. RioSize : Refill(k)) \/ Copy \/ Return

Next == Writer \/ Reader \/ ReadFails

(* The peer sends what it has and closes; the reader reads to the end.     *)
Spec == Init /\ [][Next]_vars /\ WF_vars(Writer) /\ WF_vars(Reader)

-----------------------------------------------------------------------------
TypeOK ==
  /\ unsent \in Seq(Bytes) /\ socket \in Seq(Bytes)
  /\ rio_buf \in Seq(Bytes) /\ usrbuf \in Seq(Bytes) /\ piece \in Seq(Bytes)
  /\ count \in Counts \cup {0}
  /\ Len(socket) <= SocketSize /\ Len(rio_buf) <= RioSize
  /\ sending \in BOOLEAN
  /\ call \in {"none", "line", "bytes", "ended", "failed"}
  /\ call = "line" => Len(usrbuf) < MaxLine
  /\ call = "bytes" => Len(usrbuf) <= count

(* However the kernel cuts the stream into reads and writes, and whatever  *)
(* is left in the internal buffer between calls, the calls return the      *)
(* stream's bytes once and in order, a line at a time, and 0, at which the *)
(* loops of clientPrint stop, only after all of them.                      *)
Promise ==
  INSTANCE LineStream WITH
    ahead <- usrbuf \o rio_buf \o socket \o unsent,
    state <- IF call \in {"ended", "failed"} THEN call ELSE "open"

ImplementsLineStream == Promise!Spec

(* A reader that calls until it gets 0 gets it, though the connection      *)
(* holds less than the peer sends.                                         *)
ReaderIsDone == <>(call \in {"ended", "failed"})

=============================================================================
