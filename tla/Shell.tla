--------------------------------- MODULE Shell ---------------------------------
(***************************************************************************)
(* myShell/hw1.c: the shell, the children it forks and the one pipe of a   *)
(* line.  The output of a block goes through that pipe into output_buffer, *)
(* which the shell reads once, after the block's children have ended; each *)
(* child of the next block has a copy of the buffer, which it writes into  *)
(* a pipe of its own before it reads from it.  A pipe holds PipeSize bytes *)
(* (at most BUFFER_SIZE, so that one read() empties it); a write to a full *)
(* one waits, and so does a read from an empty one, since every process    *)
(* that could write to it has it open for writing, the shell included.     *)
(***************************************************************************)
EXTENDS CommandLine

CONSTANTS
  Lines,       \* the lines a user may type
  MaxLines,    \* how many are typed (a bound for TLC)
  PipeSize,
  MaxProcess   \* MAX_PROCESS_COUNT, 128; 125 commands fit into a line of 250 characters

ASSUME ShellAssumption ==
  /\ \A l \in Lines : WellFormed(l) /\ Len(l) <= MaxProcess
  /\ MaxLines \in Nat /\ MaxProcess \in Nat
  /\ PipeSize \in Nat \ {0}

VARIABLES
  pc,          \* the call the shell makes next, or how it ended
  line, pos,   \* the line executeLine is in, and its next command
  pipe,        \* what is in from_child_pipefd
  output_buffer,
  children,    \* child_pids, each with the state of its process
  history,     \* the commands executed so far
  typed,       \* the number of lines read
  terminal     \* standard output is a terminal, and so flushed at each newline

vars == <<pc, line, pos, pipe, output_buffer, children, history, typed, terminal>>

Init ==
  /\ pc = "prompt"
  /\ line = <<>>
  /\ pos = 0
  /\ pipe = <<>>
  /\ output_buffer = <<>>
  /\ children = <<>>
  /\ history = <<>>
  /\ typed = 0
  /\ terminal \in BOOLEAN

Ended(c) == c.state = "ended"

-----------------------------------------------------------------------------
(* shellMode and batchMode read a line, and executeLine makes its pipe.    *)
ReadLine(l) ==
  /\ pc = "prompt"
  /\ typed < MaxLines
  /\ typed' = typed + 1
  /\ line' = l
  /\ pos' = 1
  /\ pipe' = <<>>
  /\ pc' = "command"
  /\ UNCHANGED <<output_buffer, children, history, terminal>>

PipeFails ==
  /\ pc = "prompt"
  /\ pc' = "failed"
  /\ UNCHANGED <<line, pos, pipe, output_buffer, children, history, typed, terminal>>

EndOfInput ==
  /\ pc = "prompt"
  /\ pc' = "exited"
  /\ UNCHANGED <<line, pos, pipe, output_buffer, children, history, typed, terminal>>

(* executeLine after executeCommand: on to the next command of the block,  *)
(* or to waitForAllChildProcesses.                                         *)
Proceed ==
  IF line[pos].then = ";" THEN pos' = pos + 1 /\ UNCHANGED pc
                          ELSE pc' = "wait" /\ UNCHANGED pos

AtCommand(kinds) == pc = "command" /\ line[pos].kind \in kinds

Remember == history' = Append(history, line[pos])

ExecuteEmpty ==
  /\ AtCommand({"empty"})
  /\ Proceed
  /\ UNCHANGED <<line, pipe, output_buffer, children, history, typed, terminal>>

(* cd, in the shell itself.  It ends if there is no such directory.        *)
ChangeDirectory ==
  /\ AtCommand({"cd"})
  /\ Remember
  /\ Proceed
  /\ UNCHANGED <<line, pipe, output_buffer, children, typed, terminal>>

ExecuteFails ==
  /\ AtCommand({"cd", "program", "copy", "history"})
  /\ Remember
  /\ pc' = "failed"
  /\ UNCHANGED <<line, pos, pipe, output_buffer, children, typed, terminal>>

Quit ==
  /\ AtCommand({"quit"})
  /\ Remember
  /\ pc' = "quit"
  /\ UNCHANGED <<line, pos, pipe, output_buffer, children, typed, terminal>>

(* What a child will write, given what it reads.  history is printed into  *)
(* a buffer of stdio that _exit drops.                                     *)
Writes(c, given) ==
  CASE c.kind = "program" -> c.out
    [] c.kind = "copy" -> given
    [] c.kind = "history" /\ terminal -> [i \in 1 .. Len(history) + 1 |-> "a"]
    [] OTHER -> <<>>

(* Mutant: is_first_block is not set back.                                 *)
Child_First(c) ==
  [state |-> "running", input |-> <<>>, left |-> Writes(c, <<>>), toPipe |-> ~ IsLastBlock(line, pos)]

(* Mutant: is_last_block is never set.                                     *)
Child_NeverLast(c) ==
  LET given == IF IsFirstBlock(line, pos) THEN <<>> ELSE Text(output_buffer)
  IN  [state |-> IF IsFirstBlock(line, pos) THEN "running" ELSE "filling",
       input |-> given, left |-> Writes(c, given), toPipe |-> TRUE]

Child(c) ==
  LET given == IF IsFirstBlock(line, pos) THEN <<>> ELSE Text(output_buffer)
  IN  [state |-> IF IsFirstBlock(line, pos) THEN "running" ELSE "filling",
       input |-> given, left |-> Writes(c, given), toPipe |-> ~ IsLastBlock(line, pos)]

Execute ==
  /\ AtCommand({"program", "copy", "history"})
  /\ Len(children) < MaxProcess
  /\ Remember
  /\ children' = Append(children, Child(line[pos]))
  /\ Proceed
  /\ UNCHANGED <<line, pipe, output_buffer, typed, terminal>>

(* waitForAllChildProcesses returns.                                       *)
Wait ==
  /\ pc = "wait"
  /\ \A i \in DOMAIN children : Ended(children[i])
  /\ children' = <<>>
  /\ pc' = IF line[pos].then = "|" THEN "read" ELSE "prompt"
  /\ UNCHANGED <<line, pos, pipe, output_buffer, history, typed, terminal>>

(* Mutant: the output of a block is added to that of the block before.     *)
ReadPipe_Append ==
  /\ pc = "read"
  /\ pipe # <<>>
  /\ output_buffer' = output_buffer \o pipe
  /\ pipe' = <<>>
  /\ pos' = pos + 1
  /\ pc' = "command"
  /\ UNCHANGED <<line, children, history, typed, terminal>>

(* copyProcessOutputToBuffer.                                              *)
ReadPipe ==
  /\ pc = "read"
  /\ pipe # <<>>
  /\ output_buffer' = pipe
  /\ pipe' = <<>>
  /\ pos' = pos + 1
  /\ pc' = "command"
  /\ UNCHANGED <<line, children, history, typed, terminal>>

(* Mutant: quit does not wait for the children.                            *)
QuitReturns_AtOnce ==
  /\ pc = "quit"
  /\ pc' = "exited"
  /\ UNCHANGED <<line, pos, pipe, output_buffer, children, history, typed, terminal>>

QuitReturns ==
  /\ pc = "quit"
  /\ \A i \in DOMAIN children : Ended(children[i])
  /\ children' = <<>>
  /\ pc' = "exited"
  /\ UNCHANGED <<line, pos, pipe, output_buffer, history, typed, terminal>>

ShellNext ==
  \/ \E l \in Lines : ReadLine(l)
  \/ PipeFails \/ EndOfInput \/ ExecuteEmpty \/ ChangeDirectory \/ ExecuteFails
  \/ Quit \/ Execute \/ Wait \/ ReadPipe \/ QuitReturns

-----------------------------------------------------------------------------
(* Mutant: a pipe is taken to be full with one byte less than it holds.    *)
Fill_Short(i) ==
  /\ children[i].state = "filling"
  /\ Len(children[i].input) < PipeSize
  /\ children' = [children EXCEPT ![i].state = "running"]
  /\ UNCHANGED <<pc, line, pos, pipe, output_buffer, history, typed, terminal>>

(* copyBufferToProcessInput: nobody reads from that pipe before it returns. *)
Fill(i) ==
  /\ children[i].state = "filling"
  /\ Len(children[i].input) <= PipeSize
  /\ children' = [children EXCEPT ![i].state = "running"]
  /\ UNCHANGED <<pc, line, pos, pipe, output_buffer, history, typed, terminal>>

(* The program writes a byte to its standard output.                       *)
Put(i) ==
  /\ children[i].state = "running"
  /\ children[i].left # <<>>
  /\ children[i].toPipe => Len(pipe) < PipeSize
  /\ children' = [children EXCEPT ![i].left = Tail(@)]
  /\ pipe' = IF children[i].toPipe THEN Append(pipe, Head(children[i].left)) ELSE pipe
  /\ UNCHANGED <<pc, line, pos, output_buffer, history, typed, terminal>>

End(i) ==
  /\ children[i].state = "running"
  /\ children[i].left = <<>>
  /\ children' = [children EXCEPT ![i].state = "ended"]
  /\ UNCHANGED <<pc, line, pos, pipe, output_buffer, history, typed, terminal>>

ChildNext(i) == Fill(i) \/ Put(i) \/ End(i)

Next == ShellNext \/ \E i \in DOMAIN children : ChildNext(i)

Spec == Init /\ [][Next]_vars

(* The shell runs on while it is in a line, and programs write all they    *)
(* have to write and end.                                                  *)
Fairness ==
  /\ WF_vars(ShellNext /\ pc # "prompt")
  /\ \A i \in 1 .. MaxProcess : WF_vars(i \in DOMAIN children /\ ChildNext(i))

FairSpec == Spec /\ Fairness

-----------------------------------------------------------------------------
PCs == {"prompt", "command", "wait", "read", "quit", "exited", "failed"}
Children ==
  [state : {"filling", "running", "ended"}, input : Seq(Bytes), left : Seq(Bytes),
   toPipe : BOOLEAN]

TypeOK ==
  /\ pc \in PCs
  /\ line \in Lines \cup {<<>>}
  /\ pc \in {"command", "wait", "read", "quit"} => pos \in DOMAIN line
  /\ pipe \in Seq(Bytes) /\ Len(pipe) <= PipeSize
  /\ output_buffer \in Seq(Bytes) /\ Len(output_buffer) <= PipeSize
  /\ children \in Seq(Children)
  /\ history \in Seq(Commands)
  /\ typed \in 0 .. MaxLines
  /\ terminal \in BOOLEAN

(* copyBufferToProcessInput writes before anybody reads, yet a child never *)
(* waits in it: the buffer was filled from a pipe that holds no more than  *)
(* the one it is written to.                                               *)
InputFits ==
  \A i \in DOMAIN children :
    children[i].state = "filling" => Len(children[i].input) <= PipeSize

(* The table of children is large enough for any line, because it is       *)
(* emptied at each pipe and at the end of a line: between lines, and when  *)
(* the shell exits other than over an error, no child is left.             *)
NoneLeftBehind ==
  /\ pc \in {"prompt", "read", "exited"} => children = <<>>
  /\ pc = "command" => Len(children) < pos

(* The bytes in the pipe all come from the block whose turn it is: none    *)
(* are left when a line is finished.                                       *)
PipeDrained == pc = "prompt" => pipe = <<>>

(* All that the commands of the lines write is text.                       *)
TextOnly == \A l \in Lines : \A i \in DOMAIN l : IsText(l[i].out)

(* One pipe, one buffer and a table of children, with copies of the buffer *)
(* written back into pipes, implement blocks that hand on exactly what     *)
(* they have written: under TextOnly, since copyBufferToProcessInput cuts  *)
(* what it hands on at the first 0.                                        *)
Promise ==
  INSTANCE Pipeline WITH
    at <- pos,
    input <- output_buffer,
    written <- pipe,
    jobs <- [i \in DOMAIN children |-> [input |-> children[i].input,
                                        left |-> children[i].left]],
    remembered <- Len(history),
    phase <- CASE pc = "prompt" -> "idle"
               [] pc = "command" -> "starting"
               [] pc \in {"wait", "read"} -> "draining"
               [] pc = "quit" -> "leaving"
               [] OTHER -> "over"

ImplementsPipeline == Promise!Spec

(* The shell waits for itself, or for a child that waits for it.           *)
Silent == pc = "read" /\ pipe = <<>>
Flooded ==
  /\ pc \in {"wait", "quit"}
  /\ \E i \in DOMAIN children : /\ children[i].toPipe /\ children[i].left # <<>>
                                /\ Len(pipe) = PipeSize

InLine == pc \in {"command", "wait", "read", "quit"}

(* Two things only stop a shell within a line: a block before a pipe that  *)
(* has written nothing, and one that has written more than a pipe holds.   *)
LineFinishesOrBlocks == InLine ~> (~ InLine \/ Silent \/ Flooded)

(* hw1.c, copyProcessOutputToBuffer: "Copies the output from read end of   *)
(* pipe to the output buffer": whatever a block has written, the line goes *)
(* on.                                                                     *)
LineFinishes == InLine ~> ~ InLine

=============================================================================
