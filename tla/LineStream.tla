------------------------------ MODULE LineStream ------------------------------
(***************************************************************************)
(* What the buffered reading functions of blg312e.c promise: a connection  *)
(* is a stream of bytes, and each call returns its next bytes: a line, up  *)
(* to its newline or as much of it as fits, or n bytes; less only if the   *)
(* stream ends.                                                            *)
(***************************************************************************)
EXTENDS Naturals, Sequences

CONSTANTS Newline, MaxLine, Counts

VARIABLES
  ahead,   \* the bytes that have not been returned
  piece,   \* what the last call returned
  state

promiseVars == <<ahead, piece, state>>

(* Any stream.                                                             *)
Init == piece = <<>> /\ state = "open"

Return(k) ==
  /\ state = "open"
  /\ piece' = SubSeq(ahead, 1, k)
  /\ ahead' = SubSeq(ahead, k + 1, Len(ahead))
  /\ UNCHANGED state

ReturnLine(k) ==
  /\ k \in 1 .. Len(ahead)
  /\ \A i \in 1 .. k - 1 : ahead[i] # Newline
  /\ ahead[k] = Newline \/ k = MaxLine - 1 \/ k = Len(ahead)
  /\ Return(k)

ReturnBytes(n) ==
  /\ ahead # <<>>
  /\ Return(IF n <= Len(ahead) THEN n ELSE Len(ahead))

ReturnEnd ==
  /\ state = "open"
  /\ ahead = <<>>
  /\ piece' = <<>>
  /\ state' = "ended"
  /\ UNCHANGED ahead

(* The other end goes away, with what it has not sent; or the connection   *)
(* is reset.                                                               *)
CutOff ==
  /\ \E k \in 0 .. Len(ahead) : ahead' = SubSeq(ahead, 1, k)
  /\ UNCHANGED <<piece, state>>

Reset ==
  /\ state = "open"
  /\ state' = "failed"
  /\ UNCHANGED <<ahead, piece>>

Next ==
  \/ \E k \in 1 .. MaxLine - 1 : ReturnLine(k)
  \/ \E n \in Counts : ReturnBytes(n)
  \/ ReturnEnd \/ CutOff \/ Reset

Spec == Init /\ [][Next]_promiseVars

=============================================================================
