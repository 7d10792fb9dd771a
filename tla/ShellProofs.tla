------------------------------ MODULE ShellProofs ------------------------------
(***************************************************************************)
(* Proofs about Shell, for any lines, any size of a pipe and any number of *)
(* children: what a child is given fits into its pipe, none is left behind *)
(* and nothing in the line's pipe; and if all that is written is text, the *)
(* shell implements Pipeline.                                              *)
(***************************************************************************)
EXTENDS Shell, NaturalsInduction, WellFoundedInduction, TLAPS

(* A non-empty set of positions has a first one.                           *)
LEMMA FirstPosition ==
  ASSUME NEW S \in SUBSET Nat, S # {}
  PROVE  \E m \in S : \A x \in S : m <= x
<1> DEFINE R == {ss \in Nat \X Nat : ss[1] < ss[2]}
<1>1. IsWellFoundedOn(R, Nat)
  BY NatLessThanWellFounded DEF OpToRel
<1> HIDE DEF R
<1>2. \E m \in S : \A x \in S : ~ (<<x, m>> \in R)
  BY <1>1, WFMin
<1>3. \A x, m \in S : ~ (<<x, m>> \in R) => m <= x
  BY DEF R
<1> QED
  BY <1>2, <1>3

(* strlen cuts a buffer, and never reads beyond it.                        *)
LEMMA TextBounds ==
  ASSUME NEW s \in Seq(Bytes)
  PROVE  Text(s) \in Seq(Bytes) /\ Len(Text(s)) <= Len(s)
<1> DEFINE zeros == {i \in DOMAIN s : s[i] = "nul"}
           first == CHOOSE i \in zeros : \A j \in zeros : i <= j
<1>1. CASE zeros = {}
  BY <1>1 DEF Text
<1>2. CASE zeros # {}
  <2>1. zeros \in SUBSET Nat
    OBVIOUS
  <2>2. \E i \in zeros : \A j \in zeros : i <= j
    BY <1>2, <2>1, FirstPosition, Zenon
  <2>3. first \in zeros
    BY <2>2
  <2> HIDE DEF first
  <2>4. first \in 1 .. Len(s)
    BY <2>3
  <2>5. /\ SubSeq(s, 1, first - 1) \in Seq(Bytes)
        /\ Len(SubSeq(s, 1, first - 1)) <= Len(s)
    BY <2>4
  <2>6. Text(s) = SubSeq(s, 1, first - 1)
    BY <1>2 DEF Text, first
  <2> QED
    BY <2>5, <2>6
<1> QED
  BY <1>1, <1>2

-----------------------------------------------------------------------------
(* A command that ends with ; is followed by another one of its block, one *)
(* that ends with | by another block, and the last command is in the last  *)
(* block.                                                                  *)
LEMMA NextCommand ==
  ASSUME NEW l \in Lines, NEW i \in DOMAIN l
  PROVE  /\ l[i] \in Commands /\ i \in Nat
         /\ l[i].then = ";" => i + 1 \in DOMAIN l /\ (IsLastBlock(l, i + 1) <=> IsLastBlock(l, i))
         /\ l[i].then = "|" => i + 1 \in DOMAIN l
         /\ l[i].then = "end" => IsLastBlock(l, i)
<1>1. l \in Seq(Commands) /\ \A j \in DOMAIN l : l[j].then = "end" <=> j = Len(l)
  BY ShellAssumption DEF WellFormed
<1>2. l[i] \in Commands /\ i \in 1 .. Len(l) /\ Len(l) \in Nat
  BY <1>1
<1>3. ASSUME l[i].then # "end" PROVE i + 1 \in DOMAIN l
  BY <1>1, <1>2, <1>3
<1>4. ASSUME l[i].then = ";" PROVE IsLastBlock(l, i + 1) <=> IsLastBlock(l, i)
  <2>1. \A j \in i .. Len(l) : j = i \/ j \in i + 1 .. Len(l)
    BY <1>2
  <2>2. \A j \in i + 1 .. Len(l) : j \in i .. Len(l)
    BY <1>2
  <2> QED
    BY <1>4, <2>1, <2>2 DEF IsLastBlock
<1>5. ASSUME l[i].then = "end" PROVE IsLastBlock(l, i)
  <2>1. \A j \in i .. Len(l) : j = i
    BY <1>1, <1>2, <1>5
  <2> QED
    BY <1>5, <2>1 DEF IsLastBlock
<1>6. i \in Nat
  BY <1>2
<1>7. /\ l[i].then = ";" => l[i].then # "end"
      /\ l[i].then = "|" => l[i].then # "end"
  OBVIOUS
<1> QED
  BY <1>2, <1>3, <1>4, <1>5, <1>6, <1>7, Zenon

-----------------------------------------------------------------------------
(* The shell waits only at the end of a block, and reads only at a pipe.   *)
PositionInv ==
  /\ pc = "wait" => line[pos].then # ";"
  /\ pc = "read" => line[pos].then = "|"

(* The children are those of the block at pos: they write into the pipe    *)
(* unless it is the last block, and then the pipe is empty.  One that has  *)
(* ended has written everything.                                           *)
OutputInv ==
  /\ \A i \in DOMAIN children :
       /\ children[i].toPipe <=> ~ IsLastBlock(line, pos)
       /\ Len(children[i].input) <= PipeSize
       /\ Ended(children[i]) => children[i].left = <<>>
  /\ InLine /\ IsLastBlock(line, pos) => pipe = <<>>

ShellInv == TypeOK /\ PositionInv /\ OutputInv /\ NoneLeftBehind /\ PipeDrained

(* At first the shell is at its prompt, with no child and nothing in the   *)
(* pipe.                                                                   *)
LEMMA ShellInit == Init => ShellInv
BY ShellAssumption
   DEF Init, ShellInv, TypeOK, PositionInv, OutputInv, NoneLeftBehind, PipeDrained, PCs, InLine

(* Within a line, the line is one of Lines and pos one of its commands.    *)
LEMMA Within ==
  ASSUME TypeOK, InLine
  PROVE  /\ line \in Lines /\ pos \in DOMAIN line /\ pos \in Nat
         /\ line[pos] \in Commands
<1>1. line \in Lines /\ pos \in DOMAIN line
  <2>1. pos \in DOMAIN line /\ line \in Lines \cup {<<>>}
    BY DEF TypeOK, InLine
  <2>2. DOMAIN <<>> = {}
    OBVIOUS
  <2> QED
    BY <2>1, <2>2
<1> QED
  BY <1>1, NextCommand

(* After a command the shell is at the next one of the same block, or at   *)
(* the end of the block.                                                   *)
LEMMA AfterCommand ==
  ASSUME TypeOK, pc = "command", Proceed, line' = line
  PROVE  /\ pos' \in DOMAIN line
         /\ IsLastBlock(line, pos') <=> IsLastBlock(line, pos)
         /\ \/ pc' = "command" /\ pos' = pos + 1
            \/ pc' = "wait" /\ pos' = pos /\ line[pos].then # ";"
<1>1. line \in Lines /\ pos \in DOMAIN line
  BY Within DEF InLine
<1>2. /\ line[pos].then = ";" => pos + 1 \in DOMAIN line
      /\ line[pos].then = ";" => (IsLastBlock(line, pos + 1) <=> IsLastBlock(line, pos))
  BY <1>1, NextCommand, Zenon
<1>3. \/ line[pos].then = ";" /\ pos' = pos + 1 /\ pc' = "command"
      \/ line[pos].then # ";" /\ pos' = pos /\ pc' = "wait"
  BY DEF Proceed
<1> QED
  BY <1>1, <1>2, <1>3, Zenon

(* What a new child is given fits into its pipe.                           *)
LEMMA NewChild ==
  ASSUME TypeOK, AtCommand({"program", "copy", "history"})
  PROVE  /\ Child(line[pos]) \in Children
         /\ Child(line[pos]).toPipe <=> ~ IsLastBlock(line, pos)
         /\ Len(Child(line[pos]).input) <= PipeSize
        /\ ~ Ended(Child(line[pos]))
<1> DEFINE given == IF IsFirstBlock(line, pos) THEN <<>> ELSE Text(output_buffer)
           c == line[pos]
<1>1. c \in Commands
  BY Within DEF AtCommand, InLine
<1>2. given \in Seq(Bytes) /\ Len(given) <= PipeSize
  <2>1. output_buffer \in Seq(Bytes) /\ Len(output_buffer) <= PipeSize
    BY DEF TypeOK
  <2>2. Text(output_buffer) \in Seq(Bytes) /\ Len(Text(output_buffer)) <= Len(output_buffer)
    BY <2>1, TextBounds
  <2>3. <<>> \in Seq(Bytes) /\ Len(<<>>) = 0 /\ PipeSize \in Nat
    BY ShellAssumption
  <2>4. Len(Text(output_buffer)) <= PipeSize
    BY <2>1, <2>2, <2>3
  <2> QED
    BY <2>2, <2>3, <2>4
<1>3. Writes(c, given) \in Seq(Bytes)
  <2>1. c.out \in Seq(Bytes)
    BY <1>1 DEF Commands
  <2>2. [i \in 1 .. Len(history) + 1 |-> "a"] \in Seq(Bytes)
    <3>1. Len(history) + 1 \in Nat
      BY DEF TypeOK
    <3> QED
      BY <3>1 DEF Bytes
  <2> HIDE DEF given, c
  <2> QED
    BY <1>2, <2>1, <2>2 DEF Writes
<1>4. Child(c) = [state |-> IF IsFirstBlock(line, pos) THEN "running" ELSE "filling",
                  input |-> given, left |-> Writes(c, given), toPipe |-> ~ IsLastBlock(line, pos)]
  BY DEF Child
<1>5. (~ IsLastBlock(line, pos)) \in BOOLEAN
  BY DEF IsLastBlock
<1> HIDE DEF given, c
<1>6. Child(c) \in Children
  BY <1>2, <1>3, <1>4, <1>5 DEF Children
<1>7. Child(c).toPipe = (~ IsLastBlock(line, pos)) /\ Child(c).input = given
  BY <1>4
<1>8. ~ Ended(Child(c))
  BY <1>4 DEF Ended
<1> QED
  BY <1>2, <1>6, <1>7, <1>8, Zenon DEF c

-----------------------------------------------------------------------------
(* The steps of the shell.                                                 *)

(* A command without a child.                                              *)
LEMMA InvBuiltin ==
  ASSUME ShellInv, ExecuteEmpty \/ ChangeDirectory
  PROVE  ShellInv'
<1>1. /\ pc = "command" /\ Proceed /\ UNCHANGED <<line, pipe, output_buffer, children, typed, terminal>>
      /\ history' = history \/ Remember
  BY DEF ExecuteEmpty, ChangeDirectory, AtCommand
<1>2. line \in Lines /\ pos \in Nat /\ line[pos] \in Commands
  BY <1>1, Within DEF ShellInv, InLine
<1>3. /\ pos' \in DOMAIN line /\ (IsLastBlock(line, pos') <=> IsLastBlock(line, pos))
      /\ \/ pc' = "command" /\ pos' = pos + 1
         \/ pc' = "wait" /\ pos' = pos /\ line[pos].then # ";"
  BY <1>1, AfterCommand DEF ShellInv
<1>4. history' \in Seq(Commands)
  <2>1. history \in Seq(Commands)
    BY DEF ShellInv, TypeOK
  <2>2. history' \in {history, Append(history, line[pos])}
    BY <1>1 DEF Remember
  <2> QED
    BY <1>2, <2>1, <2>2
<1>5. TypeOK'
  BY <1>1, <1>3, <1>4 DEF ShellInv, TypeOK, PCs
<1>6. PositionInv' /\ PipeDrained'
  BY <1>1, <1>3 DEF PositionInv, PipeDrained
<1>7. OutputInv'
  BY <1>1, <1>3 DEF ShellInv, OutputInv, InLine
<1>8. NoneLeftBehind'
  <2>1. Len(children) \in Nat /\ Len(children) < pos /\ children' = children
    BY <1>1 DEF ShellInv, TypeOK, NoneLeftBehind
  <2>2. pc' \in {"command", "wait"} /\ (pc' = "command" => pos' = pos + 1)
    BY <1>3, Zenon
  <2>3. pc' = "command" => Len(children') < pos'
    BY <1>2, <2>1, <2>2
  <2> QED
    BY <2>2, <2>3 DEF NoneLeftBehind
<1> QED
  BY <1>5, <1>6, <1>7, <1>8 DEF ShellInv

(* A command with a child.                                                 *)
LEMMA InvExecute ==
  ASSUME ShellInv, Execute
  PROVE  ShellInv'
<1> DEFINE child == Child(line[pos])
<1>1. /\ pc = "command" /\ Proceed /\ UNCHANGED <<line, pipe, output_buffer, typed, terminal>>
      /\ children' = Append(children, child) /\ Remember
  BY DEF Execute, AtCommand
<1>2. line \in Lines /\ pos \in Nat /\ line[pos] \in Commands
  BY <1>1, Within DEF ShellInv, InLine
<1>3. /\ pos' \in DOMAIN line /\ (IsLastBlock(line, pos') <=> IsLastBlock(line, pos))
      /\ \/ pc' = "command" /\ pos' = pos + 1
         \/ pc' = "wait" /\ pos' = pos /\ line[pos].then # ";"
  BY <1>1, AfterCommand DEF ShellInv
<1>4. /\ child \in Children /\ (child.toPipe <=> ~ IsLastBlock(line, pos))
      /\ Len(child.input) <= PipeSize /\ ~ Ended(child)
  BY NewChild DEF Execute, ShellInv
<1>5. history' \in Seq(Commands)
  BY <1>1, <1>2 DEF Remember, ShellInv, TypeOK
<1> HIDE DEF child
<1>6. children \in Seq(Children) /\ children' \in Seq(Children) /\ Len(children') = Len(children) + 1
  BY <1>1, <1>4 DEF ShellInv, TypeOK
<1>7. \A i \in DOMAIN children' : children'[i] = child
                                  \/ (i \in DOMAIN children /\ children'[i] = children[i])
  BY <1>1, <1>6
<1>8. TypeOK'
  BY <1>1, <1>3, <1>5, <1>6 DEF ShellInv, TypeOK, PCs
<1>9. PositionInv' /\ PipeDrained'
  BY <1>1, <1>3 DEF PositionInv, PipeDrained
<1>10. OutputInv'
  BY <1>1, <1>3, <1>4, <1>7 DEF ShellInv, OutputInv, InLine
<1>11. NoneLeftBehind'
  <2>1. Len(children) \in Nat /\ Len(children) < pos
    BY <1>1, <1>6 DEF ShellInv, NoneLeftBehind
  <2>2. pc' \in {"command", "wait"} /\ (pc' = "command" => pos' = pos + 1)
    BY <1>3, Zenon
  <2>3. pc' = "command" => Len(children') < pos'
    BY <1>2, <1>6, <2>1, <2>2
  <2> QED
    BY <2>2, <2>3 DEF NoneLeftBehind
<1> QED
  BY <1>8, <1>9, <1>10, <1>11 DEF ShellInv

(* waitForAllChildProcesses and the read that follows it at a pipe.        *)
LEMMA InvWait ==
  ASSUME ShellInv, Wait
  PROVE  ShellInv'
<1>1. /\ pc = "wait" /\ children' = <<>>
      /\ pc' = IF line[pos].then = "|" THEN "read" ELSE "prompt"
      /\ UNCHANGED <<line, pos, pipe, output_buffer, history, typed, terminal>>
  BY DEF Wait
<1>2. line \in Lines /\ pos \in DOMAIN line /\ line[pos] \in Commands
  BY <1>1, Within DEF ShellInv, InLine
<1>3. line[pos].then # "|" => IsLastBlock(line, pos)
  <2>1. line[pos].then \in {";", "|", "end"} /\ line[pos].then # ";"
    BY <1>1, <1>2 DEF Commands, ShellInv, PositionInv
  <2> QED
    BY <1>2, <2>1, NextCommand
<1>4. PipeDrained'
  BY <1>1, <1>3 DEF ShellInv, OutputInv, InLine, PipeDrained
<1>5. children' \in Seq(Children) /\ DOMAIN children' = {}
  BY <1>1
<1>6. TypeOK'
  BY <1>1, <1>2, <1>5 DEF ShellInv, TypeOK, PCs
<1>7. PositionInv' /\ OutputInv' /\ NoneLeftBehind'
  BY <1>1, <1>5 DEF ShellInv, PositionInv, OutputInv, NoneLeftBehind, InLine
<1> QED
  BY <1>4, <1>6, <1>7 DEF ShellInv

(* The read that empties the pipe into the output buffer.                  *)
LEMMA InvReadPipe ==
  ASSUME ShellInv, ReadPipe
  PROVE  ShellInv'
<1>1. /\ pc = "read" /\ pc' = "command" /\ pos' = pos + 1 /\ pipe' = <<>> /\ output_buffer' = pipe
      /\ UNCHANGED <<line, children, history, typed, terminal>>
  BY DEF ReadPipe
<1>2. line \in Lines /\ pos \in DOMAIN line /\ pos \in Nat
  BY <1>1, Within DEF ShellInv, InLine
<1>3. pos + 1 \in DOMAIN line
  BY <1>1, <1>2, NextCommand DEF ShellInv, PositionInv
<1>4. children = <<>>
  BY <1>1 DEF ShellInv, NoneLeftBehind
<1>5. DOMAIN children = {} /\ Len(children) = 0
  BY <1>4
<1>6. TypeOK'
  BY <1>1, <1>3, ShellAssumption DEF ShellInv, TypeOK, PCs
<1>7. PositionInv' /\ OutputInv' /\ PipeDrained'
  BY <1>1, <1>5 DEF PositionInv, OutputInv, PipeDrained
<1>8. NoneLeftBehind'
  <2>1. 0 < pos + 1
    BY <1>2
  <2> QED
    BY <1>1, <1>5, <2>1 DEF NoneLeftBehind
<1> QED
  BY <1>6, <1>7, <1>8 DEF ShellInv

(* A line begins.                                                          *)
LEMMA InvReadLine ==
  ASSUME ShellInv, NEW l \in Lines, ReadLine(l)
  PROVE  ShellInv'
<1>1. /\ pc = "prompt" /\ pc' = "command" /\ line' = l /\ pos' = 1 /\ pipe' = <<>>
      /\ typed < MaxLines /\ typed' = typed + 1
      /\ UNCHANGED <<output_buffer, children, history, terminal>>
  BY DEF ReadLine
<1>2. children = <<>>
  BY <1>1 DEF ShellInv, NoneLeftBehind
<1>3. DOMAIN children = {} /\ Len(children) = 0
  BY <1>2
<1>4. 1 \in DOMAIN l
  BY ShellAssumption DEF WellFormed
<1>5. typed' \in 0 .. MaxLines
  BY <1>1, ShellAssumption DEF ShellInv, TypeOK
<1>6. TypeOK'
  BY <1>1, <1>4, <1>5, ShellAssumption DEF ShellInv, TypeOK, PCs
<1>7. PositionInv' /\ OutputInv' /\ PipeDrained' /\ NoneLeftBehind'
  BY <1>1, <1>3 DEF PositionInv, OutputInv, PipeDrained, NoneLeftBehind
<1> QED
  BY <1>6, <1>7 DEF ShellInv

(* The shell ends, or begins to.                                           *)
LEMMA InvLeave ==
  ASSUME ShellInv, PipeFails \/ EndOfInput \/ ExecuteFails \/ Quit \/ QuitReturns
  PROVE  ShellInv'
<1>1. CASE PipeFails \/ EndOfInput
  <2>1. /\ pc = "prompt" /\ pc' \in {"failed", "exited"}
        /\ UNCHANGED <<line, pos, pipe, output_buffer, children, history, typed, terminal>>
    BY <1>1 DEF PipeFails, EndOfInput
  <2> QED
    BY <2>1 DEF ShellInv, TypeOK, PositionInv, OutputInv, PipeDrained, NoneLeftBehind, InLine, PCs
<1>2. CASE ExecuteFails \/ Quit
  <2>1. /\ pc = "command" /\ pc' \in {"failed", "quit"} /\ Remember
        /\ UNCHANGED <<line, pos, pipe, output_buffer, children, typed, terminal>>
    BY <1>2 DEF ExecuteFails, Quit, AtCommand
  <2>2. history' \in Seq(Commands)
    BY <2>1, Within DEF Remember, ShellInv, TypeOK, InLine
  <2> QED
    BY <2>1, <2>2
       DEF ShellInv, TypeOK, PositionInv, OutputInv, PipeDrained, NoneLeftBehind, InLine, PCs
<1>3. CASE QuitReturns
  <2>1. /\ pc = "quit" /\ pc' = "exited" /\ children' = <<>>
        /\ UNCHANGED <<line, pos, pipe, output_buffer, history, typed, terminal>>
    BY <1>3 DEF QuitReturns
  <2>2. children' \in Seq(Children) /\ DOMAIN children' = {}
    BY <2>1
  <2> QED
    BY <2>1, <2>2
       DEF ShellInv, TypeOK, PositionInv, OutputInv, PipeDrained, NoneLeftBehind, InLine, PCs
<1> QED
  BY <1>1, <1>2, <1>3

-----------------------------------------------------------------------------
(* A step of a child changes the child, and adds a byte to a pipe that has *)
(* room, if it is not in the last block.                                   *)
LEMMA InvChild ==
  ASSUME ShellInv, NEW i \in DOMAIN children, ChildNext(i)
  PROVE  ShellInv'
<1>1. children \in Seq(Children) /\ children[i] \in Children
  BY DEF ShellInv, TypeOK
<1>2. UNCHANGED <<pc, line, pos, output_buffer, history, typed, terminal>>
  BY DEF ChildNext, Fill, Put, End
<1>3. PICK c \in Children : /\ children' = [children EXCEPT ![i] = c]
                            /\ c.toPipe = children[i].toPipe /\ c.input = children[i].input
                            /\ Ended(c) => c.left = <<>>
  <2>1. CASE Fill(i)
    <3>1. [children[i] EXCEPT !.state = "running"] \in Children
      BY <1>1 DEF Children
    <3> QED
      BY <1>1, <2>1, <3>1 DEF Fill, Children, Ended
  <2>2. CASE End(i)
    <3>1. [children[i] EXCEPT !.state = "ended"] \in Children
      BY <1>1 DEF Children
    <3> QED
      BY <1>1, <2>2, <3>1 DEF End, Children, Ended
  <2>3. CASE Put(i)
    <3>1. children[i].left # <<>> /\ children' = [children EXCEPT ![i].left = Tail(@)]
      BY <2>3 DEF Put
    <3>2. Tail(children[i].left) \in Seq(Bytes)
      BY <1>1, <3>1 DEF Children
    <3>3. [children[i] EXCEPT !.left = Tail(@)] \in Children
      BY <1>1, <3>2 DEF Children
    <3>4. children[i].state = "running"
      BY <2>3 DEF Put
    <3> QED
      BY <1>1, <3>1, <3>3, <3>4 DEF Children, Ended
  <2> QED
    BY <2>1, <2>2, <2>3 DEF ChildNext
<1>4. /\ children' \in Seq(Children) /\ Len(children') = Len(children)
      /\ DOMAIN children' = DOMAIN children
  BY <1>1, <1>3
<1>5. \A j \in DOMAIN children : /\ children'[j].toPipe = children[j].toPipe
                                 /\ children'[j].input = children[j].input
                                 /\ children'[j] = children[j]
                                      \/ (Ended(children'[j]) => children'[j].left = <<>>)
  BY <1>1, <1>3
<1>6. \/ pipe' = pipe
      \/ /\ ~ IsLastBlock(line, pos)
         /\ pipe' \in Seq(Bytes) /\ Len(pipe') <= PipeSize
  <2>1. CASE Fill(i) \/ End(i)
    BY <2>1 DEF Fill, End
  <2>2. CASE Put(i) /\ children[i].toPipe
    <3>1. /\ Len(pipe) < PipeSize /\ pipe' = Append(pipe, Head(children[i].left))
          /\ children[i].left # <<>>
      BY <2>2 DEF Put
    <3>2. Head(children[i].left) \in Bytes
      BY <1>1, <3>1 DEF Children
    <3>3. pipe' \in Seq(Bytes) /\ Len(pipe') = Len(pipe) + 1 /\ Len(pipe) \in Nat
      BY <3>1, <3>2 DEF ShellInv, TypeOK
    <3>4. ~ IsLastBlock(line, pos)
      BY <2>2 DEF ShellInv, OutputInv
    <3> QED
      BY <3>1, <3>3, <3>4, ShellAssumption
  <2>3. CASE Put(i) /\ ~ children[i].toPipe
    BY <2>3 DEF Put
  <2> QED
    BY <2>1, <2>2, <2>3 DEF ChildNext
<1>7. pc \notin {"prompt", "read", "exited"}
  BY <1>1 DEF ShellInv, NoneLeftBehind
<1>8. TypeOK'
  BY <1>2, <1>4, <1>6 DEF ShellInv, TypeOK
<1>9. OutputInv'
  BY <1>2, <1>4, <1>5, <1>6 DEF ShellInv, OutputInv, InLine
<1>10. PositionInv' /\ PipeDrained' /\ NoneLeftBehind'
  BY <1>2, <1>4, <1>7 DEF ShellInv, PositionInv, PipeDrained, NoneLeftBehind
<1> QED
  BY <1>8, <1>9, <1>10 DEF ShellInv

(* Every step of the shell and of its children preserves the invariant.    *)
LEMMA ShellStep == ShellInv /\ [Next]_vars => ShellInv'
<1> SUFFICES ASSUME ShellInv, [Next]_vars PROVE ShellInv'
  OBVIOUS
<1>1. CASE ShellNext
  BY <1>1, InvReadLine, InvLeave, InvBuiltin, InvExecute, InvWait, InvReadPipe DEF ShellNext
<1>2. CASE \E i \in DOMAIN children : ChildNext(i)
  BY <1>2, InvChild
<1>3. CASE UNCHANGED vars
  BY <1>3 DEF vars, ShellInv, TypeOK, PositionInv, OutputInv, NoneLeftBehind, PipeDrained, InLine
<1> QED
  BY <1>1, <1>2, <1>3 DEF Next

(* Where in a line the shell is, which children it has and where they      *)
(* write, for any lines and any size of a pipe.                            *)
THEOREM ShellInvariant == Spec => []ShellInv
BY ShellInit, ShellStep, PTL DEF Spec

(* Types: in particular the pipe and the buffer never hold more than the   *)
(* size of a pipe, and the shell is at a command of its line.              *)
THEOREM ShellTypeCorrect == Spec => []TypeOK
BY ShellInvariant, PTL DEF ShellInv

(* A child never waits while it fills the pipe to itself, because what it  *)
(* is given came through a pipe of the same size.                          *)
THEOREM InputFitsHolds == Spec => []InputFits
<1>1. ShellInv => InputFits
  BY DEF ShellInv, OutputInv, InputFits
<1> QED
  BY <1>1, ShellInvariant, PTL

(* No child outlives its block, its line or the shell that quits, and      *)
(* there are never more of them than commands of the line so far.          *)
THEOREM NoneLeftBehindHolds == Spec => []NoneLeftBehind
BY ShellInvariant, PTL DEF ShellInv

(* Nothing is left in the pipe when a line is finished.                    *)
THEOREM PipeDrainedHolds == Spec => []PipeDrained
BY ShellInvariant, PTL DEF ShellInv

-----------------------------------------------------------------------------
(* If commands write text, then all that is handed on is text, and strlen  *)
(* cuts nothing off.                                                       *)
TextInv ==
  /\ IsText(pipe) /\ IsText(output_buffer)
  /\ \A i \in DOMAIN children : IsText(children[i].left)

(* strlen of a text is its length.                                         *)
LEMMA TextOfText ==
  ASSUME NEW s, IsText(s)
  PROVE  Text(s) = s
BY DEF Text, IsText

(* What a new child will write.                                            *)
LEMMA NewText ==
  ASSUME TextOnly, ShellInv, TextInv, AtCommand({"program", "copy", "history"})
  PROVE  IsText(Child(line[pos]).left)
<1> DEFINE given == IF IsFirstBlock(line, pos) THEN <<>> ELSE Text(output_buffer)
           c == line[pos]
<1>1. IsText(given)
  <2>1. IsText(<<>>)
    BY DEF IsText
  <2>2. IsText(Text(output_buffer))
    BY TextOfText DEF TextInv
  <2> QED
    BY <2>1, <2>2
<1>2. IsText(c.out)
  BY Within DEF AtCommand, InLine, ShellInv, TextOnly
<1>3. IsText([i \in 1 .. Len(history) + 1 |-> "a"]) /\ IsText(<<>>)
  BY DEF IsText
<1>4. Child(c).left = Writes(c, given)
  BY DEF Child
<1> HIDE DEF given, c
<1>5. Writes(c, given) \in {c.out, given, [i \in 1 .. Len(history) + 1 |-> "a"], <<>>}
  BY DEF Writes
<1>6. IsText(Writes(c, given))
  BY <1>1, <1>2, <1>3, <1>5
<1> QED
  BY <1>4, <1>6 DEF c

(* A step of a child moves one byte at most.                               *)
LEMMA TextChild ==
  ASSUME ShellInv, TextInv, NEW i \in DOMAIN children, ChildNext(i)
  PROVE  TextInv'
<1>1. /\ children \in Seq(Children) /\ children[i] \in Children /\ output_buffer' = output_buffer
      /\ pipe \in Seq(Bytes)
  BY DEF ShellInv, TypeOK, ChildNext, Fill, Put, End
<1>2. CASE Fill(i) \/ End(i)
  <2>1. pipe' = pipe
    BY <1>2 DEF Fill, End
  <2>2. PICK s : children' = [children EXCEPT ![i].state = s]
    BY <1>2 DEF Fill, End
  <2>3. /\ DOMAIN children' = DOMAIN children
        /\ \A j \in DOMAIN children : children'[j].left = children[j].left
    BY <1>1, <2>2 DEF Children
  <2> QED
    BY <1>1, <2>1, <2>3 DEF TextInv
<1>3. CASE Put(i)
  <2>1. /\ children[i].left # <<>>
        /\ children' = [children EXCEPT ![i].left = Tail(@)]
        /\ pipe' = IF children[i].toPipe THEN Append(pipe, Head(children[i].left)) ELSE pipe
    BY <1>3 DEF Put
  <2>2. /\ DOMAIN children' = DOMAIN children
        /\ \A j \in DOMAIN children :
             children'[j].left = IF j = i THEN Tail(children[i].left) ELSE children[j].left
    BY <1>1, <2>1 DEF Children
  <2>3. children[i].left \in Seq(Bytes) /\ IsText(children[i].left)
    BY <1>1 DEF Children, TextInv
  <2>4. IsText(Tail(children[i].left)) /\ Head(children[i].left) # "nul"
    BY <2>1, <2>3 DEF IsText
  <2>5. IsText(Append(pipe, Head(children[i].left)))
    BY <1>1, <2>4 DEF IsText, TextInv
  <2> QED
    BY <1>1, <2>1, <2>2, <2>4, <2>5 DEF TextInv
<1> QED
  BY <1>2, <1>3 DEF ChildNext

(* Every step hands on text.                                               *)
LEMMA TextStep ==
  ASSUME TextOnly, ShellInv, TextInv, [Next]_vars
  PROVE  TextInv'
<1>1. IsText(<<>>) /\ DOMAIN <<>> = {}
  BY DEF IsText
<1>2. ASSUME NEW l \in Lines, ReadLine(l) PROVE TextInv'
  BY <1>1, <1>2 DEF ReadLine, TextInv
<1>3. CASE PipeFails \/ EndOfInput \/ ExecuteEmpty \/ ChangeDirectory \/ ExecuteFails \/ Quit
  BY <1>3 DEF PipeFails, EndOfInput, ExecuteEmpty, ChangeDirectory, ExecuteFails, Quit, TextInv
<1>4. CASE Execute
  <2>1. /\ children' = Append(children, Child(line[pos])) /\ UNCHANGED <<pipe, output_buffer>>
        /\ children \in Seq(Children)
    BY <1>4 DEF Execute, ShellInv, TypeOK
  <2>2. IsText(Child(line[pos]).left)
    BY <1>4, NewText DEF Execute
  <2>3. \A i \in DOMAIN children' : children'[i] = Child(line[pos])
                                    \/ (i \in DOMAIN children /\ children'[i] = children[i])
    BY <2>1
  <2> QED
    BY <2>1, <2>2, <2>3 DEF TextInv
<1>5. CASE Wait \/ QuitReturns
  BY <1>1, <1>5 DEF Wait, QuitReturns, TextInv
<1>6. CASE ReadPipe
  BY <1>1, <1>6 DEF ReadPipe, TextInv
<1>7. ASSUME NEW i \in DOMAIN children, ChildNext(i) PROVE TextInv'
  BY <1>7, TextChild
<1>8. CASE UNCHANGED vars
  BY <1>8 DEF vars, TextInv
<1> QED
  BY <1>2, <1>3, <1>4, <1>5, <1>6, <1>7, <1>8 DEF Next, ShellNext

-----------------------------------------------------------------------------
(* The shell implements Pipeline.                                          *)

Jobs == [i \in DOMAIN children |-> [input |-> children[i].input, left |-> children[i].left]]

(* The two modules mean the same by the blocks of a line.                  *)
LEMMA SameLines ==
  /\ \A l, i : Promise!IsFirstBlock(l, i) <=> IsFirstBlock(l, i)
  /\ \A l, i : Promise!IsLastBlock(l, i) <=> IsLastBlock(l, i)
BY DEF Promise!IsFirstBlock, IsFirstBlock, Promise!IsLastBlock, IsLastBlock

(* Without children there are no jobs, and vice versa.                     *)
LEMMA NoJobs ==
  ASSUME children = <<>>
  PROVE  Jobs = <<>>
BY DEF Jobs

(* Children that have ended have written everything.                       *)
LEMMA AllEnded ==
  ASSUME ShellInv, \A i \in DOMAIN children : Ended(children[i])
  PROVE  \A i \in DOMAIN Jobs : Jobs[i].left = <<>>
BY DEF Jobs, ShellInv, OutputInv

(* A line that is read in begins the promise's line.                       *)
LEMMA RefineReadLine ==
  ASSUME ShellInv, NEW l \in Lines, ReadLine(l)
  PROVE  Promise!Submit(l)
<1>1. pipe = <<>>
  BY DEF ShellInv, PipeDrained, ReadLine
<1> QED
  BY <1>1 DEF ReadLine, Promise!Submit

(* The first child that is started, and each after it, is given what the   *)
(* block before has written.                                               *)
LEMMA RefineExecute ==
  ASSUME ShellInv, TextInv, Execute
  PROVE  Promise!Start
<1> DEFINE c == line[pos]
           given == IF IsFirstBlock(line, pos) THEN <<>> ELSE Text(output_buffer)
           job == [input |-> given, left |-> Writes(c, given)]
<1>1. /\ pc = "command" /\ c.kind \in {"program", "copy", "history"} /\ Proceed
      /\ UNCHANGED <<line, pipe, output_buffer, terminal>>
      /\ children' = Append(children, Child(c)) /\ Remember
  BY DEF Execute, AtCommand
<1>2. children \in Seq(Children) /\ Child(c) \in Children /\ c \in Commands /\ history \in Seq(Commands)
  BY <1>1, NewChild, Within DEF Execute, ShellInv, TypeOK, InLine
<1>3. Child(c).input = given /\ Child(c).left = Writes(c, given)
  BY DEF Child
<1>4. Jobs' = Append(Jobs, job)
  <2> HIDE DEF c, given
  <2>1. Jobs \in Seq([input : Seq(Bytes), left : Seq(Bytes)]) /\ Len(Jobs) = Len(children)
    <3> DEFINE Record == [input : Seq(Bytes), left : Seq(Bytes)]
    <3>1. DOMAIN children = 1 .. Len(children) /\ Len(children) \in Nat
      BY <1>2
    <3>2. \A i \in 1 .. Len(children) : Jobs[i] \in Record
      <4> SUFFICES ASSUME NEW i \in 1 .. Len(children) PROVE Jobs[i] \in Record
        OBVIOUS
      <4>1. children[i] \in Children
        BY <1>2
      <4>2. children[i].input \in Seq(Bytes) /\ children[i].left \in Seq(Bytes)
        BY <4>1 DEF Children
      <4> QED
        BY <3>1, <4>2 DEF Jobs
    <3>3. Jobs = [i \in 1 .. Len(children) |-> Jobs[i]]
      BY <3>1 DEF Jobs
    <3> HIDE DEF Record
    <3>4. Jobs \in Seq(Record) /\ Len(Jobs) = Len(children)
      BY <3>1, <3>2, <3>3
    <3> QED
      BY <3>4 DEF Record
  <2>2. DOMAIN children' = 1 .. Len(children) + 1 /\ Len(children) \in Nat
    BY <1>1, <1>2
  <2>3. \A i \in 1 .. Len(children) + 1 :
          children'[i] = IF i = Len(children) + 1 THEN Child(c) ELSE children[i]
    BY <1>1, <1>2
  <2>4. Jobs' = [i \in 1 .. Len(children) + 1 |->
                   IF i = Len(children) + 1 THEN job ELSE Jobs[i]]
    BY <1>2, <1>3, <2>2, <2>3 DEF Jobs
  <2> QED
    BY <2>1, <2>2, <2>4
<1>5. Promise!Job(c, given) = job
  <2> HIDE DEF c, given
  <2> QED
    BY DEF Promise!Job, Writes
<1>6. Promise!IsFirstBlock(line, pos) <=> IsFirstBlock(line, pos)
  BY SameLines
<1>7. Len(history') = Len(history) + 1
  BY <1>1, <1>2 DEF Remember
<1>8. Jobs' = IF Promise!Runs(c)
              THEN Append(Jobs, Promise!Job(c, IF Promise!IsFirstBlock(line, pos) THEN <<>>
                                               ELSE output_buffer))
              ELSE Jobs
  <2>1. Text(output_buffer) = output_buffer
    BY TextOfText DEF TextInv
  <2> QED
    BY <1>1, <1>4, <1>5, <1>6, <2>1 DEF Promise!Runs
<1> QED
  BY <1>1, <1>7, <1>8 DEF Promise!Start, Jobs, Proceed

(* A built-in of the shell is a command of the promise that runs no job.   *)
LEMMA RefineBuiltin ==
  ASSUME ShellInv, ExecuteEmpty \/ ChangeDirectory
  PROVE  Promise!Start
<1>1. /\ pc = "command" /\ Proceed
      /\ UNCHANGED <<line, pipe, output_buffer, children, terminal>>
  BY DEF ExecuteEmpty, ChangeDirectory, AtCommand
<1>2. line[pos] \in Commands /\ history \in Seq(Commands)
  BY <1>1, Within DEF ShellInv, TypeOK, InLine
<1>3. /\ line[pos].kind \in {"empty", "cd"}
      /\ Len(history') = Len(history) + (IF line[pos].kind = "empty" THEN 0 ELSE 1)
  <2>1. CASE ExecuteEmpty
    BY <1>2, <2>1 DEF ExecuteEmpty, AtCommand
  <2>2. CASE ChangeDirectory
    BY <1>2, <2>2 DEF ChangeDirectory, AtCommand, Remember
  <2> QED
    BY <2>1, <2>2
<1> QED
  BY <1>1, <1>3 DEF Promise!Start, Promise!Runs, Proceed

(* A line ends with an empty pipe.                                         *)
LEMMA RefineWait ==
  ASSUME ShellInv, Wait
  PROVE  Promise!Collect \/ Promise!Finish
<1>1. /\ pc = "wait" /\ children' = <<>>
      /\ pc' = IF line[pos].then = "|" THEN "read" ELSE "prompt"
      /\ UNCHANGED <<line, pos, pipe, output_buffer, history, terminal>>
  BY DEF Wait
<1>2. Promise!AllWritten
  BY AllEnded DEF Wait, Jobs, Promise!AllWritten
<1>3. DOMAIN children' = {}
  BY <1>1
<1>4. CASE line[pos].then = "|"
  BY <1>1, <1>2, <1>3, <1>4 DEF Promise!Collect
<1>5. CASE line[pos].then # "|"
  <2>1. line \in Lines /\ pos \in DOMAIN line /\ line[pos] \in Commands
    BY <1>1, Within DEF ShellInv, InLine
  <2>2. line[pos].then = "end"
    BY <1>1, <1>5, <2>1 DEF Commands, ShellInv, PositionInv
  <2>3. pipe = <<>>
    BY <1>1, <2>1, <2>2, NextCommand DEF ShellInv, OutputInv, InLine
  <2> QED
    BY <1>1, <1>2, <1>3, <2>2, <2>3 DEF Promise!Finish
<1> QED
  BY <1>4, <1>5

(* The shell's read of its pipe hands the block's output on.               *)
LEMMA RefineReadPipe ==
  ASSUME ShellInv, ReadPipe
  PROVE  Promise!Pass
<1>1. /\ pc = "read" /\ pc' = "command" /\ pos' = pos + 1 /\ pipe' = <<>> /\ output_buffer' = pipe
      /\ UNCHANGED <<line, children, history, typed, terminal>>
  BY DEF ReadPipe
<1>2. DOMAIN children = {}
  BY <1>1 DEF ShellInv, NoneLeftBehind
<1>3. line[pos].then = "|"
  BY <1>1 DEF ShellInv, PositionInv
<1> QED
  BY <1>1, <1>2, <1>3 DEF Promise!Pass

(* A shell that leaves its line, or ends, leaves it in the promise.        *)
LEMMA RefineLeave ==
  ASSUME ShellInv, PipeFails \/ EndOfInput \/ ExecuteFails \/ Quit \/ QuitReturns
  PROVE  Promise!Fail \/ Promise!Leave \/ Promise!Quit
<1>1. CASE PipeFails
  BY <1>1 DEF PipeFails, Promise!Fail
<1>2. CASE EndOfInput
  <2>1. pc = "prompt" /\ children = <<>>
    BY <1>2 DEF EndOfInput, ShellInv, NoneLeftBehind
  <2>2. DOMAIN children = {}
    BY <2>1
  <2> QED
    BY <1>2, <2>2 DEF EndOfInput, Promise!Leave, Promise!AllWritten
<1>3. CASE ExecuteFails \/ Quit
  <2>1. pc = "command" /\ Remember /\ history \in Seq(Commands)
    BY <1>3 DEF ExecuteFails, Quit, AtCommand, ShellInv, TypeOK
  <2>2. line[pos] \in Commands
    BY <2>1, Within DEF ShellInv, InLine
  <2>3. Len(history') = Len(history) + 1
    BY <2>1, <2>2 DEF Remember
  <2>4. CASE ExecuteFails
    BY <2>1, <2>3, <2>4 DEF ExecuteFails, Promise!Fail
  <2>5. CASE Quit
    BY <2>1, <2>3, <2>5 DEF Quit, AtCommand, Promise!Quit
  <2> QED
    BY <1>3, <2>4, <2>5
<1>4. CASE QuitReturns
  <2>1. Promise!AllWritten
    BY <1>4, AllEnded DEF QuitReturns, Jobs, Promise!AllWritten
  <2>2. DOMAIN children' = {}
    BY <1>4 DEF QuitReturns
  <2> QED
    BY <1>4, <2>1, <2>2 DEF QuitReturns, Promise!Leave
<1> QED
  BY <1>1, <1>2, <1>3, <1>4

(* Filling its own pipe and ending are a child's own affair.               *)
LEMMA RefineChild ==
  ASSUME ShellInv, NEW i \in DOMAIN children, ChildNext(i)
  PROVE  Promise!Put(i) \/ UNCHANGED Promise!promiseVars
<1>1. children \in Seq(Children) /\ children[i] \in Children
  BY DEF ShellInv, TypeOK
<1>2. CASE Fill(i) \/ End(i)
  <2>1. UNCHANGED <<pc, line, pos, pipe, output_buffer, history, terminal>>
    BY <1>2 DEF Fill, End
  <2>2. PICK s : children' = [children EXCEPT ![i].state = s]
    BY <1>2 DEF Fill, End
  <2>3. /\ DOMAIN children' = DOMAIN children
        /\ \A j \in DOMAIN children : /\ children'[j].input = children[j].input
                                       /\ children'[j].left = children[j].left
    BY <1>1, <2>2 DEF Children
  <2>4. Jobs' = Jobs
    BY <2>3 DEF Jobs
  <2> QED
    BY <2>1, <2>4 DEF Promise!promiseVars, Jobs
<1>3. CASE Put(i)
  <2>1. /\ children[i].left # <<>>
        /\ children' = [children EXCEPT ![i].left = Tail(@)]
        /\ pipe' = IF children[i].toPipe THEN Append(pipe, Head(children[i].left)) ELSE pipe
        /\ UNCHANGED <<pc, line, pos, output_buffer, history, terminal>>
    BY <1>3 DEF Put
  <2>2. children[i].toPipe <=> ~ Promise!IsLastBlock(line, pos)
    BY SameLines DEF ShellInv, OutputInv
  <2>3. /\ DOMAIN children' = DOMAIN children
        /\ \A j \in DOMAIN children :
             /\ children'[j].input = children[j].input
             /\ children'[j].left = IF j = i THEN Tail(children[i].left) ELSE children[j].left
    BY <1>1, <2>1 DEF Children
  <2>4. Jobs' = [Jobs EXCEPT ![i].left = Tail(@)]
    BY <2>3 DEF Jobs
  <2>5. Jobs[i].left = children[i].left
    BY DEF Jobs
  <2> QED
    BY <2>1, <2>2, <2>4, <2>5 DEF Promise!Put, Jobs
<1> QED
  BY <1>2, <1>3 DEF ChildNext

(* Every step of the shell is one of the promise, or changes nothing       *)
(* there.                                                                  *)
LEMMA RefineStep == ShellInv /\ TextInv /\ [Next]_vars => [Promise!Next]_(Promise!promiseVars)
<1> SUFFICES ASSUME ShellInv, TextInv, [Next]_vars PROVE [Promise!Next]_(Promise!promiseVars)
  OBVIOUS
<1>1. ASSUME NEW l \in Lines, ReadLine(l) PROVE Promise!Next
  BY <1>1, RefineReadLine DEF Promise!Next
<1>2. ASSUME ShellNext, ~ \E l \in Lines : ReadLine(l) PROVE Promise!Next
  BY <1>2, RefineLeave, RefineBuiltin, RefineExecute, RefineWait, RefineReadPipe
     DEF ShellNext, Promise!Next
<1>3. ASSUME NEW i \in DOMAIN children, ChildNext(i)
      PROVE  Promise!Next \/ UNCHANGED Promise!promiseVars
  <2>1. i \in DOMAIN Jobs
    BY DEF Jobs
  <2> QED
    BY <1>3, <2>1, RefineChild DEF Promise!Next, Jobs
<1>4. CASE UNCHANGED vars
  BY <1>4 DEF vars, Promise!promiseVars
<1> QED
  BY <1>1, <1>2, <1>3, <1>4 DEF Next, ShellNext

(* If the commands write text, the shell with its one pipe, one buffer,    *)
(* table of children and copies of the buffer implements blocks that hand  *)
(* on exactly the bytes they have written.                                 *)
THEOREM ShellImplementsPipeline == TextOnly => (Spec => ImplementsPipeline)
<1> SUFFICES ASSUME TextOnly PROVE Spec => ImplementsPipeline
  OBVIOUS
<1>1. Init => Promise!Init
  <2>1. ASSUME children = <<>> PROVE DOMAIN children = {}
    BY <2>1
  <2> QED
    BY <2>1 DEF Init, Promise!Init
<1>2. Init => TextInv
  BY DEF Init, TextInv, IsText
<1>3. ShellInv /\ TextInv /\ [Next]_vars => TextInv'
  BY TextStep
<1> QED
  BY <1>1, <1>2, <1>3, RefineStep, ShellInvariant, PTL DEF Spec, ImplementsPipeline, Promise!Spec

=============================================================================
