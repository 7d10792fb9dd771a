------------------------------- MODULE RioProofs -------------------------------
(***************************************************************************)
(* Proofs about Rio, for any stream and any sizes of buffers, lines and    *)
(* reads: the calls of the reader return the stream, cut as LineStream     *)
(* promises, however the system calls cut it.                              *)
(***************************************************************************)
EXTENDS Rio, SequenceTheorems, TLAPS

-----------------------------------------------------------------------------
(* Cutting a sequence in two and putting it together.                      *)
LEMMA CutParts ==
  ASSUME NEW s \in Seq(Bytes), NEW k \in 0 .. Len(s)
  PROVE  /\ Front(s, k) \in Seq(Bytes) /\ Len(Front(s, k)) = k
         /\ From(s, k) \in Seq(Bytes) /\ Len(From(s, k)) = Len(s) - k
         /\ \A i \in 1 .. k : Front(s, k)[i] = s[i]
<1>1. \A i \in 1 .. Len(s) : s[i] \in Bytes
  OBVIOUS
<1>2. /\ Front(s, k) \in Seq(Bytes) /\ Len(Front(s, k)) = k
      /\ \A i \in 1 .. k : Front(s, k)[i] = s[i]
  BY <1>1 DEF Front
<1>3. From(s, k) \in Seq(Bytes) /\ Len(From(s, k)) = Len(s) - k
  BY <1>1 DEF From
<1> QED
  BY <1>2, <1>3

(* A sequence is its first n elements and the others.                      *)
LEMMA CutJoined ==
  ASSUME NEW s \in Seq(Bytes), NEW k \in 0 .. Len(s)
  PROVE  Front(s, k) \o From(s, k) = s
<1>1. SubSeq(s, 1, k) \o SubSeq(s, k + 1, Len(s)) = SubSeq(s, 1, Len(s))
  <2>1. 1 \in 1 .. Len(s) + 1 /\ k \in 1 - 1 .. Len(s) /\ Len(s) \in k .. Len(s)
    OBVIOUS
  <2> QED
    BY <2>1, ConcatAdjacentSubSeq
<1>2. SubSeq(s, 1, Len(s)) = s
  BY SubSeqFull
<1> QED
  BY <1>1, <1>2 DEF Front, From

(* Two sequences put together can be cut apart again.                      *)
LEMMA JoinedCut ==
  ASSUME NEW s \in Seq(Bytes), NEW t \in Seq(Bytes)
  PROVE  /\ SubSeq(s \o t, 1, Len(s)) = s
         /\ SubSeq(s \o t, Len(s) + 1, Len(s \o t)) = t
<1>1. /\ s \o t \in Seq(Bytes) /\ Len(s \o t) = Len(s) + Len(t)
      /\ Len(s) \in Nat /\ Len(t) \in Nat
      /\ \A i \in 1 .. Len(s) : (s \o t)[i] = s[i]
      /\ \A i \in 1 .. Len(t) : (s \o t)[Len(s) + i] = t[i]
  OBVIOUS
<1> DEFINE u == s \o t
           first == SubSeq(u, 1, Len(s))
           second == SubSeq(u, Len(s) + 1, Len(u))
<1> HIDE DEF u
<1>2. Len(u) = Len(s) + Len(t) /\ u \in Seq(Bytes)
  BY <1>1 DEF u
<1>3. \A i \in 1 .. Len(u) : u[i] \in Bytes
  BY <1>2
<1>4. first = s
  <2>1. first \in Seq(Bytes) /\ Len(first) = Len(s) /\ \A i \in 1 .. Len(s) : first[i] = u[i]
    BY <1>1, <1>2, <1>3
  <2>2. \A i \in 1 .. Len(s) : first[i] = s[i]
    BY <1>1, <2>1 DEF u
  <2> HIDE DEF first
  <2> QED
    BY <2>1, <2>2, SeqEqual
<1>5. second = t
  <2>1. second \in Seq(Bytes) /\ Len(second) = Len(t)
    BY <1>1, <1>2, <1>3
  <2>2. \A i \in 1 .. Len(t) : second[i] = u[Len(s) + i]
    BY <1>1, <1>2
  <2>3. \A i \in 1 .. Len(t) : second[i] = t[i]
    BY <1>1, <2>2 DEF u
  <2> HIDE DEF second
  <2> QED
    BY <2>1, <2>3, SeqEqual
<1> QED
  BY <1>4, <1>5 DEF u

(* Sequences put together can be grouped at will.                          *)
LEMMA Grouped ==
  \A s, t, u \in Seq(Bytes) : (s \o t) \o u = s \o (t \o u)
BY ConcatAssociative

(* The elements of two sequences put together.                             *)
LEMMA Joined ==
  ASSUME NEW s \in Seq(Bytes), NEW t \in Seq(Bytes)
  PROVE  /\ s \o t \in Seq(Bytes) /\ Len(s \o t) = Len(s) + Len(t)
         /\ \A i \in 1 .. Len(s) : (s \o t)[i] = s[i]
         /\ \A i \in Len(s) + 1 .. Len(s) + Len(t) : (s \o t)[i] = t[i - Len(s)]
OBVIOUS

(* Of a buffer that is not empty at least one byte can be taken.           *)
LEMMA OneByte == \A n \in Nat \ {0} : Less(1, n) = 1
BY DEF Less

-----------------------------------------------------------------------------
(* A call starts with nothing and has not met a newline before its last    *)
(* byte, and nothing is unsent once the peer has closed.                   *)
CallInv ==
  /\ call = "none" => usrbuf = <<>>
  /\ call = "bytes" => count \in Counts
  /\ call = "line" => \A i \in 1 .. Len(usrbuf) - 1 : usrbuf[i] # Newline
  /\ ~ sending => unsent = <<>>

RioInv == TypeOK /\ CallInv

(* At first no call is made and everything is unsent.                      *)
LEMMA RioInit == Init => RioInv
BY RioAssumption DEF Init, RioInv, TypeOK, CallInv

(* A write moves bytes only where the socket has room for them.            *)
LEMMA InvWriter ==
  ASSUME RioInv, Writer
  PROVE  RioInv'
<1>1. ASSUME NEW k \in 1 .. SocketSize, Write(k) PROVE RioInv'
  <2>1. /\ unsent \in Seq(Bytes) /\ socket \in Seq(Bytes) /\ Len(socket) <= SocketSize
        /\ SocketSize \in Nat
    BY RioAssumption DEF RioInv, TypeOK
  <2>2. /\ sending /\ k <= Less(Len(unsent), SocketSize - Len(socket))
        /\ socket' = socket \o Front(unsent, k) /\ unsent' = From(unsent, k)
        /\ UNCHANGED <<sending, rio_buf, call, count, usrbuf, piece>>
    BY <1>1 DEF Write
  <2>3. k \in 0 .. Len(unsent) /\ k <= SocketSize - Len(socket)
    BY <2>1, <2>2 DEF Less
  <2>4. socket' \in Seq(Bytes) /\ Len(socket') <= SocketSize /\ unsent' \in Seq(Bytes)
    BY <2>1, <2>2, <2>3, CutParts, Joined
  <2> QED
    BY <2>2, <2>4 DEF RioInv, TypeOK, CallInv
<1>2. CASE Close
  <2>1. <<>> \in Seq(Bytes)
    OBVIOUS
  <2> QED
    BY <1>2, <2>1 DEF Close, RioInv, TypeOK, CallInv
<1> QED
  BY <1>1, <1>2 DEF Writer

(* A call starts with an empty buffer of its caller.                       *)
LEMMA InvCall ==
  ASSUME RioInv, CallLine \/ \E n \in Counts : CallBytes(n)
  PROVE  RioInv'
<1>1. <<>> \in Seq(Bytes) /\ Len(<<>>) = 0
  OBVIOUS
<1>2. CASE CallLine
  BY <1>1, <1>2, RioAssumption DEF CallLine, RioInv, TypeOK, CallInv
<1>3. ASSUME NEW n \in Counts, CallBytes(n) PROVE RioInv'
  BY <1>1, <1>3, RioAssumption DEF CallBytes, RioInv, TypeOK, CallInv
<1> QED
  BY <1>2, <1>3

(* rio_read fills its buffer from the socket.                              *)
LEMMA InvRefill ==
  ASSUME RioInv, NEW k \in 1 .. RioSize, Refill(k)
  PROVE  RioInv'
<1>1. /\ socket \in Seq(Bytes) /\ k <= Less(Len(socket), RioSize) /\ RioSize \in Nat
      /\ rio_buf' = Front(socket, k) /\ socket' = From(socket, k)
      /\ UNCHANGED <<unsent, sending, call, count, usrbuf, piece>>
  BY RioAssumption DEF Refill, RioInv, TypeOK
<1>2. k \in 0 .. Len(socket)
  BY <1>1 DEF Less
<1>3. /\ rio_buf' \in Seq(Bytes) /\ Len(rio_buf') <= RioSize
      /\ socket' \in Seq(Bytes) /\ Len(socket') = Len(socket) - k
  BY <1>1, <1>2, CutParts
<1>4. Len(socket') <= SocketSize
  BY <1>1, <1>2, <1>3, RioAssumption DEF RioInv, TypeOK
<1> QED
  BY <1>1, <1>3, <1>4 DEF RioInv, TypeOK, CallInv

(* What a copy takes from the buffer: at least a byte and no more than the *)
(* call still wants.                                                       *)
LEMMA CopyTakes ==
  ASSUME RioInv, Copy
  PROVE  \E cnt \in 1 .. Len(rio_buf) :
           /\ usrbuf' = usrbuf \o Front(rio_buf, cnt) /\ rio_buf' = From(rio_buf, cnt)
           /\ call = "line" => cnt = 1
           /\ call = "bytes" => Len(usrbuf) + cnt <= count
<1> DEFINE wanted == IF call = "line" THEN 1 ELSE count - Len(usrbuf)
           cnt == Less(wanted, Len(rio_buf))
<1>1. /\ Reading /\ rio_buf # <<>>
      /\ usrbuf' = usrbuf \o Front(rio_buf, cnt) /\ rio_buf' = From(rio_buf, cnt)
  BY DEF Copy
<1>2. rio_buf \in Seq(Bytes) /\ usrbuf \in Seq(Bytes)
  BY DEF RioInv, TypeOK
<1>3. Len(rio_buf) \in Nat \ {0} /\ Len(usrbuf) \in Nat
  BY <1>1, <1>2
<1>4. CASE call = "line"
  <2>1. wanted = 1 /\ cnt = Less(1, Len(rio_buf))
    BY <1>4
  <2>2. Less(1, Len(rio_buf)) = 1
    BY <1>3, OneByte
  <2>3. cnt = 1 /\ cnt \in 1 .. Len(rio_buf)
    BY <1>3, <2>1, <2>2
  <2> QED
    BY <1>1, <1>4, <2>3
<1>5. CASE call = "bytes"
  <2>1. count \in Nat /\ Len(usrbuf) < count
    <3>1. count \in Nat /\ Len(usrbuf) <= count
      BY <1>5, RioAssumption DEF RioInv, TypeOK, CallInv
    <3>2. Len(usrbuf) # count
      BY <1>1, <1>5 DEF Reading, Complete
    <3> QED
      BY <1>3, <3>1, <3>2
  <2>2. cnt \in 1 .. Len(rio_buf) /\ Len(usrbuf) + cnt <= count
    BY <1>3, <1>5, <2>1 DEF Less
  <2> QED
    BY <1>1, <1>5, <2>2
<1> QED
  BY <1>1, <1>4, <1>5 DEF Reading

(* rio_read copies out no more than its caller still wants.                *)
LEMMA InvCopy ==
  ASSUME RioInv, Copy
  PROVE  RioInv'
<1>1. PICK cnt \in 1 .. Len(rio_buf) :
        /\ usrbuf' = usrbuf \o Front(rio_buf, cnt) /\ rio_buf' = From(rio_buf, cnt)
        /\ call = "line" => cnt = 1
        /\ call = "bytes" => Len(usrbuf) + cnt <= count
  BY CopyTakes
<1>2. /\ Reading /\ UNCHANGED <<unsent, sending, socket, call, count, piece>>
      /\ rio_buf \in Seq(Bytes) /\ usrbuf \in Seq(Bytes) /\ cnt \in 0 .. Len(rio_buf)
  BY DEF Copy, RioInv, TypeOK
<1>3. /\ usrbuf' \in Seq(Bytes) /\ Len(usrbuf') = Len(usrbuf) + cnt
      /\ rio_buf' \in Seq(Bytes) /\ Len(rio_buf') = Len(rio_buf) - cnt
      /\ \A i \in 1 .. Len(usrbuf) : usrbuf'[i] = usrbuf[i]
  <2> DEFINE taken == Front(rio_buf, cnt)
             left == From(rio_buf, cnt)
  <2>1. /\ taken \in Seq(Bytes) /\ Len(taken) = cnt
        /\ left \in Seq(Bytes) /\ Len(left) = Len(rio_buf) - cnt
    BY <1>2, CutParts
  <2>2. usrbuf' = usrbuf \o taken /\ rio_buf' = left
    BY <1>1
  <2> HIDE DEF taken, left
  <2> QED
    BY <1>2, <2>1, <2>2, Joined
<1>4. Len(rio_buf') <= RioSize
  BY <1>1, <1>2, <1>3, RioAssumption DEF RioInv, TypeOK
<1>5. ASSUME call = "line"
      PROVE  /\ Len(usrbuf') < MaxLine
             /\ \A i \in 1 .. Len(usrbuf') - 1 : usrbuf'[i] # Newline
  <2>1. Len(usrbuf) # MaxLine - 1 /\ ~ EndsLine(usrbuf) /\ Len(usrbuf) < MaxLine
    BY <1>2, <1>5 DEF Reading, Complete, RioInv, TypeOK
  <2>2. Len(usrbuf) \in Nat /\ MaxLine \in Nat /\ Len(usrbuf') = Len(usrbuf) + 1
    BY <1>1, <1>2, <1>3, <1>5, RioAssumption
  <2>3. \A i \in 1 .. Len(usrbuf) : usrbuf[i] # Newline
    <3>1. usrbuf # <<>> => usrbuf[Len(usrbuf)] # Newline
      BY <2>1 DEF EndsLine
    <3>2. \A i \in 1 .. Len(usrbuf) - 1 : usrbuf[i] # Newline
      BY <1>5 DEF RioInv, CallInv
    <3>3. \A i \in 1 .. Len(usrbuf) : i \in 1 .. Len(usrbuf) - 1 \/ (i = Len(usrbuf) /\ usrbuf # <<>>)
      BY <1>2, <2>2
    <3> QED
      BY <3>1, <3>2, <3>3
  <2> QED
    BY <1>3, <2>1, <2>2, <2>3
<1>6. TypeOK'
  BY <1>1, <1>2, <1>3, <1>4, <1>5 DEF RioInv, TypeOK
<1>7. CallInv'
  BY <1>2, <1>5 DEF RioInv, CallInv, Reading
<1> QED
  BY <1>6, <1>7 DEF RioInv

(* A call that returns leaves the next one an empty buffer; one that fails *)
(* is the last.                                                            *)
LEMMA InvReturn ==
  ASSUME RioInv, Return \/ ReadFails
  PROVE  RioInv'
<1>1. <<>> \in Seq(Bytes) /\ Len(<<>>) = 0
  OBVIOUS
<1>2. CASE Return
  <2>1. /\ call' \in {"ended", "none"} /\ usrbuf' = <<>> /\ piece' = usrbuf
        /\ UNCHANGED <<unsent, sending, socket, rio_buf, count>>
    BY <1>2 DEF Return
  <2> QED
    BY <1>1, <2>1 DEF RioInv, TypeOK, CallInv
<1>3. CASE ReadFails
  BY <1>3 DEF ReadFails, RioInv, TypeOK, CallInv
<1> QED
  BY <1>2, <1>3

(* Every step of writer and reader preserves the invariant.                *)
LEMMA RioStep == RioInv /\ [Next]_vars => RioInv'
<1> SUFFICES ASSUME RioInv, [Next]_vars PROVE RioInv'
  OBVIOUS
<1>1. CASE UNCHANGED vars
  BY <1>1 DEF vars, RioInv, TypeOK, CallInv
<1> QED
  BY <1>1, InvWriter, InvCall, InvRefill, InvCopy, InvReturn DEF Next, Reader

(* A call has met no newline before its last byte, and stores no more than *)
(* it has room for, for any stream and any sizes.                          *)
THEOREM RioInvariant == Spec => []RioInv
BY RioInit, RioStep, PTL DEF Spec

(* Types: in particular a line never fills the caller's buffer of MaxLine  *)
(* bytes, so its final 0 fits, and a read returns no more than was asked.  *)
THEOREM RioTypeCorrect == Spec => []TypeOK
BY RioInvariant, PTL DEF RioInv

-----------------------------------------------------------------------------
(* What has not been returned yet, on its way from the peer's buffer       *)
(* through the kernel's and the rio_t's into the caller's.                 *)
Ahead == usrbuf \o rio_buf \o socket \o unsent

(* What is ahead of the caller is a sequence of bytes.                     *)
LEMMA AheadTyped ==
  ASSUME RioInv
  PROVE  /\ Ahead \in Seq(Bytes)
         /\ Ahead = usrbuf \o (rio_buf \o socket \o unsent)
         /\ rio_buf \o socket \o unsent \in Seq(Bytes)
<1>1. unsent \in Seq(Bytes) /\ socket \in Seq(Bytes) /\ rio_buf \in Seq(Bytes) /\ usrbuf \in Seq(Bytes)
  BY DEF RioInv, TypeOK
<1>2. /\ rio_buf \o socket \in Seq(Bytes) /\ usrbuf \o rio_buf \in Seq(Bytes)
      /\ socket \o unsent \in Seq(Bytes)
  BY <1>1
<1>3. (usrbuf \o rio_buf) \o socket = usrbuf \o (rio_buf \o socket)
  BY <1>1, Grouped, Zenon
<1>4. (usrbuf \o (rio_buf \o socket)) \o unsent = usrbuf \o ((rio_buf \o socket) \o unsent)
  <2> DEFINE t == rio_buf \o socket
  <2>1. t \in Seq(Bytes)
    BY <1>2
  <2> HIDE DEF t
  <2>2. (usrbuf \o t) \o unsent = usrbuf \o (t \o unsent)
    BY <1>1, <2>1, Grouped, Zenon
  <2> QED
    BY <2>2 DEF t
<1>5. /\ (rio_buf \o socket) \o unsent \in Seq(Bytes)
      /\ usrbuf \o ((rio_buf \o socket) \o unsent) \in Seq(Bytes)
  BY <1>1, <1>2
<1> QED
  BY <1>3, <1>4, <1>5 DEF Ahead

(* A step that moves the front of one buffer to the end of the one before. *)
LEMMA Moved ==
  ASSUME NEW s \in Seq(Bytes), NEW t \in Seq(Bytes), NEW k \in 0 .. Len(t)
  PROVE  (s \o Front(t, k)) \o From(t, k) = s \o t
<1>1. /\ Front(t, k) \in Seq(Bytes) /\ From(t, k) \in Seq(Bytes)
      /\ Front(t, k) \o From(t, k) = t
  BY CutParts, CutJoined
<1>2. (s \o Front(t, k)) \o From(t, k) = s \o (Front(t, k) \o From(t, k))
  BY <1>1, Grouped, Zenon
<1> QED
  BY <1>1, <1>2

(* To move bytes from one buffer to the next changes nothing of what is    *)
(* ahead.                                                                  *)
LEMMA SameAhead ==
  ASSUME RioInv, (\E k \in 1 .. SocketSize : Write(k)) \/ (\E k \in 1 .. RioSize : Refill(k)) \/ Copy
  PROVE  Ahead' = Ahead
<1>1. unsent \in Seq(Bytes) /\ socket \in Seq(Bytes) /\ rio_buf \in Seq(Bytes) /\ usrbuf \in Seq(Bytes)
  BY DEF RioInv, TypeOK
<1>2. usrbuf \o rio_buf \in Seq(Bytes)
  BY <1>1
<1>3. usrbuf \o rio_buf \o socket \in Seq(Bytes)
  BY <1>1, <1>2
<1>4. ASSUME NEW k \in 1 .. SocketSize, Write(k) PROVE Ahead' = Ahead
  <2>1. /\ k <= Less(Len(unsent), SocketSize - Len(socket))
        /\ socket' = socket \o Front(unsent, k) /\ unsent' = From(unsent, k)
        /\ UNCHANGED <<rio_buf, usrbuf>>
    BY <1>4 DEF Write
  <2>2. k \in 0 .. Len(unsent)
    BY <1>1, <2>1, RioAssumption DEF Less
  <2>3. Front(unsent, k) \in Seq(Bytes)
    BY <1>1, <2>2, CutParts
  <2>4. usrbuf \o rio_buf \o (socket \o Front(unsent, k))
          = (usrbuf \o rio_buf \o socket) \o Front(unsent, k)
    <3> DEFINE s == usrbuf \o rio_buf
               t == Front(unsent, k)
    <3>1. s \in Seq(Bytes) /\ socket \in Seq(Bytes) /\ t \in Seq(Bytes)
      BY <1>1, <1>2, <2>3
    <3> HIDE DEF s, t
    <3>2. (s \o socket) \o t = s \o (socket \o t)
      BY <3>1, Grouped, Zenon
    <3> QED
      BY <3>2, Zenon DEF s, t
  <2>5. ((usrbuf \o rio_buf \o socket) \o Front(unsent, k)) \o From(unsent, k)
          = (usrbuf \o rio_buf \o socket) \o unsent
    BY <1>1, <1>3, <2>2, Moved
  <2> QED
    BY <2>1, <2>4, <2>5 DEF Ahead
<1>5. ASSUME NEW k \in 1 .. RioSize, Refill(k) PROVE Ahead' = Ahead
  <2>1. /\ rio_buf = <<>> /\ k <= Less(Len(socket), RioSize)
        /\ rio_buf' = Front(socket, k) /\ socket' = From(socket, k)
        /\ UNCHANGED <<unsent, usrbuf>>
    BY <1>5 DEF Refill
  <2>2. k \in 0 .. Len(socket)
    BY <1>1, <2>1, RioAssumption DEF Less
  <2>3. (usrbuf \o Front(socket, k)) \o From(socket, k) = usrbuf \o socket
    BY <1>1, <2>2, Moved
  <2>4. usrbuf \o rio_buf = usrbuf
    BY <1>1, <2>1, ConcatEmptySeq
  <2> QED
    BY <2>1, <2>3, <2>4 DEF Ahead
<1>6. CASE Copy
  <2>1. PICK cnt \in 1 .. Len(rio_buf) :
          usrbuf' = usrbuf \o Front(rio_buf, cnt) /\ rio_buf' = From(rio_buf, cnt)
    BY <1>6, CopyTakes
  <2>2. (usrbuf \o Front(rio_buf, cnt)) \o From(rio_buf, cnt) = usrbuf \o rio_buf
    <3>1. cnt \in 0 .. Len(rio_buf)
      BY <1>1
    <3> QED
      BY <1>1, <3>1, Moved
  <2>3. UNCHANGED <<socket, unsent>>
    BY <1>6 DEF Copy
  <2> QED
    BY <2>1, <2>2, <2>3 DEF Ahead
<1> QED
  BY <1>4, <1>5, <1>6

(* The peer goes away: the rest of what it had to send is cut off.         *)
LEMMA RefineClose ==
  ASSUME RioInv, Close
  PROVE  Promise!CutOff
<1>1. usrbuf \o rio_buf \o socket \in Seq(Bytes) /\ unsent \in Seq(Bytes)
  <2>1. unsent \in Seq(Bytes) /\ socket \in Seq(Bytes) /\ rio_buf \in Seq(Bytes) /\ usrbuf \in Seq(Bytes)
    BY DEF RioInv, TypeOK
  <2>2. usrbuf \o rio_buf \in Seq(Bytes)
    BY <2>1
  <2> QED
    BY <2>1, <2>2
<1> DEFINE s == usrbuf \o rio_buf \o socket
<1>2. /\ unsent' = <<>> /\ UNCHANGED <<usrbuf, rio_buf, socket, call, piece>>
      /\ Ahead = s \o unsent /\ Ahead' = s \o <<>>
  BY DEF Close, Ahead
<1> HIDE DEF s
<1>3. s \in Seq(Bytes)
  BY <1>1 DEF s
<1>4. Len(Ahead) = Len(s) + Len(unsent) /\ Len(s) \in Nat /\ Len(unsent) \in Nat
  BY <1>1, <1>2, <1>3, Joined
<1>5. Ahead' = SubSeq(Ahead, 1, Len(s)) /\ Len(s) \in 0 .. Len(Ahead)
  BY <1>1, <1>2, <1>3, <1>4, JoinedCut, ConcatEmptySeq
<1>6. \E k \in 0 .. Len(Ahead) : Ahead' = SubSeq(Ahead, 1, k)
  BY <1>5
<1> QED
  BY <1>2, <1>6 DEF Promise!CutOff, Ahead

-----------------------------------------------------------------------------
(* The call returns what is at the front of what is ahead; less than was   *)
(* asked for only if there is no more.                                     *)
LEMMA RefineReturn ==
  ASSUME RioInv, Return
  PROVE  \/ \E k \in 1 .. MaxLine - 1 : Promise!ReturnLine(k)
         \/ \E n \in Counts : Promise!ReturnBytes(n)
         \/ Promise!ReturnEnd
<1> DEFINE rest == rio_buf \o socket \o unsent
           k == Len(usrbuf)
<1>1. /\ call \in {"line", "bytes"}
      /\ Complete \/ AtEnd
      /\ piece' = usrbuf /\ usrbuf' = <<>>
      /\ call' = IF ReturnValue = 0 THEN "ended" ELSE "none"
      /\ UNCHANGED <<unsent, sending, socket, rio_buf, count>>
  BY DEF Return
<1>2. usrbuf \in Seq(Bytes) /\ rest \in Seq(Bytes) /\ Ahead = usrbuf \o rest /\ Ahead \in Seq(Bytes)
  BY AheadTyped DEF RioInv, TypeOK
<1>3. Ahead' = rest
  <2>1. <<>> \o rio_buf = rio_buf
    BY ConcatEmptySeq DEF RioInv, TypeOK
  <2> QED
    BY <1>1, <2>1 DEF Ahead
<1>4. AtEnd => rest = <<>>
  <2>1. ASSUME AtEnd PROVE rio_buf = <<>> /\ socket = <<>> /\ unsent = <<>>
    BY <2>1 DEF AtEnd, RioInv, CallInv
  <2>2. <<>> \o <<>> \o <<>> = <<>>
    BY EmptySeq, ConcatEmptySeq
  <2> QED
    BY <2>1, <2>2
<1> HIDE DEF rest
<1>5. /\ k \in Nat /\ Len(rest) \in Nat /\ Len(Ahead) = k + Len(rest)
      /\ \A i \in 1 .. k : Ahead[i] = usrbuf[i]
  BY <1>2, Joined
<1>6. SubSeq(Ahead, 1, k) = usrbuf /\ SubSeq(Ahead, k + 1, Len(Ahead)) = rest
  BY <1>2, JoinedCut
<1>7. (usrbuf = <<>> <=> k = 0) /\ (usrbuf # <<>> <=> k \in 1 .. Len(Ahead))
  BY <1>2, <1>5
<1>8. ReturnValue = 0 <=> usrbuf = <<>>
  BY <1>5, <1>7 DEF ReturnValue, EndsLine
<1>9. ASSUME usrbuf # <<>> PROVE Promise!Return(k)
  <2>1. call' = "none"
    BY <1>1, <1>8, <1>9
  <2>2. piece' = SubSeq(Ahead, 1, k) /\ Ahead' = SubSeq(Ahead, k + 1, Len(Ahead))
    BY <1>1, <1>3, <1>6
  <2>3. /\ (IF call \in {"ended", "failed"} THEN call ELSE "open") = "open"
        /\ UNCHANGED (IF call \in {"ended", "failed"} THEN call ELSE "open")
    BY <1>1, <2>1
  <2> HIDE DEF k
  <2> QED
    BY <2>2, <2>3, Zenon DEF Promise!Return, Ahead
<1>10. CASE usrbuf = <<>>
  <2>1. AtEnd
    <3>1. MaxLine - 1 # 0 /\ (call = "bytes" => count # 0)
      BY RioAssumption DEF RioInv, CallInv
    <3> QED
      BY <1>1, <1>7, <1>10, <3>1 DEF Complete, EndsLine
  <2>2. Ahead = <<>> /\ Ahead' = <<>>
    BY <1>2, <1>3, <1>4, <1>10, <2>1, ConcatEmptySeq
  <2>3. call' = "ended" /\ piece' = <<>>
    BY <1>1, <1>8, <1>10
  <2>4. UNCHANGED Ahead
    BY <2>2
  <2>5. /\ (IF call \in {"ended", "failed"} THEN call ELSE "open") = "open"
        /\ (IF call \in {"ended", "failed"} THEN call ELSE "open")' = "ended"
    BY <1>1, <2>3
  <2>6. Promise!ReturnEnd
    BY <2>2, <2>3, <2>4, <2>5, Zenon DEF Promise!ReturnEnd, Ahead
  <2> QED
    BY <2>6
<1>11. CASE usrbuf # <<>> /\ call = "line"
  <2>1. k \in 1 .. MaxLine - 1
    BY <1>5, <1>7, <1>11, RioAssumption DEF RioInv, TypeOK
  <2>2. \A i \in 1 .. k - 1 : Ahead[i] # Newline
    BY <1>5, <1>11 DEF RioInv, CallInv
  <2>3. Ahead[k] = Newline \/ k = MaxLine - 1 \/ k = Len(Ahead)
    <3>1. CASE EndsLine(usrbuf)
      BY <1>5, <1>7, <1>11, <3>1 DEF EndsLine
    <3>2. CASE k = MaxLine - 1
      BY <3>2
    <3>3. CASE AtEnd
      BY <1>4, <1>5, <3>3
    <3> QED
      BY <1>1, <1>11, <3>1, <3>2, <3>3 DEF Complete
  <2>4. Promise!ReturnLine(k)
    BY <1>7, <1>9, <1>11, <2>2, <2>3 DEF Promise!ReturnLine, Ahead
  <2> QED
    BY <2>1, <2>4
<1>12. CASE usrbuf # <<>> /\ call = "bytes"
  <2>1. count \in Counts /\ count \in Nat /\ k <= count
    BY <1>12, RioAssumption DEF RioInv, TypeOK, CallInv
  <2>2. k = IF count <= Len(Ahead) THEN count ELSE Len(Ahead)
    <3>1. CASE k = count
      BY <1>5, <2>1, <3>1
    <3>2. CASE AtEnd
      BY <1>4, <1>5, <2>1, <3>2
    <3> QED
      BY <1>1, <1>12, <3>1, <3>2 DEF Complete
  <2>3. Ahead # <<>>
    BY <1>7, <1>12
  <2>4. Promise!ReturnBytes(count)
    BY <1>9, <1>12, <2>2, <2>3 DEF Promise!ReturnBytes, Ahead
  <2> QED
    BY <2>1, <2>4
<1>13. call = "line" \/ call = "bytes"
  BY <1>1
<1> QED
  BY <1>10, <1>11, <1>12, <1>13, Zenon

(* Every step is one of the promise, or changes nothing there.             *)
LEMMA RefineStep == RioInv /\ [Next]_vars => [Promise!Next]_(Promise!promiseVars)
<1> SUFFICES ASSUME RioInv, [Next]_vars PROVE [Promise!Next]_(Promise!promiseVars)
  OBVIOUS
<1>1. ASSUME (\E k \in 1 .. SocketSize : Write(k)) \/ (\E k \in 1 .. RioSize : Refill(k)) \/ Copy
      PROVE  UNCHANGED Promise!promiseVars
  <2>1. Ahead' = Ahead
    BY <1>1, SameAhead
  <2>2. UNCHANGED <<call, piece>>
    BY <1>1 DEF Write, Refill, Copy
  <2> QED
    BY <2>1, <2>2 DEF Promise!promiseVars, Ahead
<1>2. ASSUME CallLine \/ \E n \in Counts : CallBytes(n) PROVE UNCHANGED Promise!promiseVars
  <2>1. /\ call = "none" /\ call' \in {"line", "bytes"} /\ usrbuf' = <<>>
        /\ UNCHANGED <<unsent, socket, rio_buf, piece>>
    BY <1>2 DEF CallLine, CallBytes
  <2>2. usrbuf' = usrbuf
    BY <2>1 DEF RioInv, CallInv
  <2> QED
    BY <2>1, <2>2 DEF Promise!promiseVars
<1>3. CASE ReadFails
  <2>1. Promise!Reset
    BY <1>3 DEF ReadFails, Reading, Promise!Reset
  <2> QED
    BY <2>1 DEF Promise!Next
<1>4. CASE Close
  BY <1>4, RefineClose DEF Promise!Next
<1>5. CASE Return
  BY <1>5, RefineReturn DEF Promise!Next
<1>6. CASE UNCHANGED vars
  BY <1>6 DEF vars, Promise!promiseVars
<1> QED
  BY <1>1, <1>2, <1>3, <1>4, <1>5, <1>6 DEF Next, Writer, Reader

(* rio_readlineb and rio_readnb on one buffer implement a stream that is   *)
(* returned in order, once, a line or n bytes at a time.                   *)
THEOREM RioImplementsLineStream == Spec => ImplementsLineStream
<1>1. Init => Promise!Init
  BY DEF Init, Promise!Init
<1> QED
  BY <1>1, RioInvariant, RefineStep, PTL DEF Spec, ImplementsLineStream, Promise!Spec

=============================================================================
