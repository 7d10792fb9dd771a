------------------------------ MODULE CommandLine ------------------------------
(***************************************************************************)
(* What a user of myShell types: a line of commands, each ended by ";",    *)
(* by "|" or by the end of the line.  A block is the commands between two  *)
(* pipes; they run at the same time.                                       *)
(***************************************************************************)
EXTENDS Naturals, Sequences

(* empty: nothing but spaces.  program: writes out, whatever it reads (a   *)
(* program that cannot be executed writes nothing).  copy: writes what it  *)
(* reads.  The others are executed by the shell or a copy of it.           *)
Kinds == {"empty", "cd", "quit", "history", "program", "copy"}

(* What is written is a sequence of bytes, one of which is 0.              *)
Bytes == {"a", "b", "nul"}

Commands == [kind : Kinds, out : Seq(Bytes), then : {";", "|", "end"}]

(* The "end" of a line is its last command's, and no other's.              *)
WellFormed(l) ==
  /\ l \in Seq(Commands) \ {<<>>}
  /\ \A i \in DOMAIN l : l[i].then = "end" <=> i = Len(l)

(* executeLine's is_first_block and is_last_block for the command at i.    *)
IsFirstBlock(l, i) == \A j \in 1 .. i - 1 : l[j].then # "|"
IsLastBlock(l, i) == \A j \in i .. Len(l) : l[j].then # "|"

IsText(s) == \A i \in DOMAIN s : s[i] # "nul"

(* strlen of a buffer of bytes: up to the first 0.                         *)
Text(s) ==
  LET zeros == {i \in DOMAIN s : s[i] = "nul"}
  IN  IF zeros = {} THEN s
      ELSE SubSeq(s, 1, (CHOOSE i \in zeros : \A j \in zeros : i <= j) - 1)

=============================================================================
