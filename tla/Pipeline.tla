------------------------------- MODULE Pipeline -------------------------------
(***************************************************************************)
(* What myShell promises of a line of commands: the blocks run one after   *)
(* the other, the commands of a block all at once; every command of a      *)
(* block but the first is given exactly the bytes that the commands of the *)
(* block before have written; history lists all the commands so far; and   *)
(* the shell ends only when nothing runs any more, unless it fails.        *)
(* Nothing here bounds how much is written, or says that a byte is text;   *)
(* and nothing promises that a line is ever finished.                      *)
(***************************************************************************)
EXTENDS CommandLine

CONSTANT Lines

VARIABLES
  line, at,      \* the line that is executed, and the next of its commands
  input,         \* what the block before has written
  written,       \* what this block has written so far
  jobs,          \* what its commands were given and have yet to write
  remembered,    \* how many commands there have been
  terminal,      \* the shell writes to a terminal
  phase

promiseVars == <<line, at, input, written, jobs, remembered, terminal, phase>>

Init ==
  /\ line = <<>>
  /\ at = 0
  /\ input = <<>>
  /\ written = <<>>
  /\ jobs = <<>>
  /\ remembered = 0
  /\ terminal \in BOOLEAN
  /\ phase = "idle"

Submit(l) ==
  /\ phase = "idle"
  /\ line' = l
  /\ at' = 1
  /\ phase' = "starting"
  /\ UNCHANGED <<input, written, jobs, remembered, terminal>>

Runs(c) == c.kind \in {"program", "copy", "history"}

(* What a command was given, and what it will write.                       *)
Job(c, given) ==
  [input |-> given,
   left |-> CASE c.kind = "program" -> c.out
              [] c.kind = "copy" -> given
              [] c.kind = "history" /\ terminal -> [i \in 1 .. remembered + 1 |-> "a"]
              [] OTHER -> <<>>]

Start ==
  /\ phase = "starting"
  /\ line[at].kind # "quit"
  /\ jobs' = IF Runs(line[at])
               THEN Append(jobs, Job(line[at], IF IsFirstBlock(line, at) THEN <<>> ELSE input))
               ELSE jobs
  /\ remembered' = remembered + (IF line[at].kind = "empty" THEN 0 ELSE 1)
  /\ IF line[at].then = ";" THEN at' = at + 1 /\ UNCHANGED phase
                            ELSE phase' = "draining" /\ UNCHANGED at
  /\ UNCHANGED <<line, input, written, terminal>>

(* A command writes a byte, to the next block or to the terminal.          *)
Put(i) ==
  /\ jobs[i].left # <<>>
  /\ jobs' = [jobs EXCEPT ![i].left = Tail(@)]
  /\ written' = IF IsLastBlock(line, at) THEN written
                ELSE Append(written, Head(jobs[i].left))
  /\ UNCHANGED <<line, at, input, remembered, terminal, phase>>

AllWritten == \A i \in DOMAIN jobs : jobs[i].left = <<>>

(* The commands of a block have written everything they had to.            *)
Collect ==
  /\ phase = "draining"
  /\ AllWritten
  /\ jobs' = <<>>
  /\ UNCHANGED <<line, at, input, written, remembered, terminal, phase>>

(* The next block begins once this one is through.                         *)
Pass ==
  /\ phase = "draining"
  /\ line[at].then = "|"
  /\ jobs = <<>>
  /\ input' = written
  /\ written' = <<>>
  /\ at' = at + 1
  /\ phase' = "starting"
  /\ UNCHANGED <<line, jobs, remembered, terminal>>

Finish ==
  /\ phase = "draining"
  /\ line[at].then = "end"
  /\ AllWritten /\ written = <<>>
  /\ jobs' = <<>>
  /\ phase' = "idle"
  /\ UNCHANGED <<line, at, input, written, remembered, terminal>>

Quit ==
  /\ phase = "starting"
  /\ line[at].kind = "quit"
  /\ remembered' = remembered + 1
  /\ phase' = "leaving"
  /\ UNCHANGED <<line, at, input, written, jobs, terminal>>

(* End of input, or of quit's wait.                                        *)
Leave ==
  /\ phase \in {"idle", "leaving"}
  /\ AllWritten
  /\ jobs' = <<>>
  /\ phase' = "over"
  /\ UNCHANGED <<line, at, input, written, remembered, terminal>>

(* No pipe for a line, no process for a command, or no such directory.     *)
Fail ==
  /\ \/ phase = "idle" /\ UNCHANGED remembered
     \/ phase = "starting" /\ remembered' = remembered + 1
  /\ phase' = "over"
  /\ UNCHANGED <<line, at, input, written, jobs, terminal>>

Next ==
  \/ \E l \in Lines : Submit(l)
  \/ Start \/ Collect \/ Pass \/ Finish \/ Quit \/ Leave \/ Fail
  \/ \E i \in DOMAIN jobs : Put(i)

Spec == Init /\ [][Next]_promiseVars

=============================================================================
