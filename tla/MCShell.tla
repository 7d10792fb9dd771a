-------------------------------- MODULE MCShell --------------------------------
(* Instances of Shell for TLC.  The commands write text.                   *)
EXTENDS Shell

Command(kind, out, then) == [kind |-> kind, out |-> out, then |-> then]
Echo(then) == Command("program", <<"a">>, then)
Words(then) == Command("program", <<"a", "b", "b">>, then)
Long(then) == Command("program", <<"a", "a", "a", "a", "a">>, then)
True(then) == Command("program", <<>>, then)
Cat(then) == Command("copy", <<>>, then)
History(then) == Command("history", <<>>, then)
Cd(then) == Command("cd", <<>>, then)
Exit(then) == Command("quit", <<>>, then)
Nothing(then) == Command("empty", <<>>, then)

(* Blocks that write nothing, what fits exactly, and too much; three       *)
(* blocks in a row; built-ins among the commands of a block.               *)
MCLines ==
  {<<Echo(";"), Words("|"), Cat("|"), Cat(";"), Echo("end")>>,
   <<Echo("|"), Words("|"), Cat("end")>>,
   <<History(";"), Cd("|"), Cat("|"), History("end")>>,
   <<Long(";"), Exit("|"), Cat("end")>>,
   <<Echo(";"), Cd("|"), Long("end")>>,
   <<Echo(";"), Exit("end")>>,
   <<True("|"), Cat("end")>>,
   <<Nothing("end")>>}

ASSUME LinesAreText == TextOnly

SilentLine == {<<True("|"), Cat("end")>>}

=============================================================================
