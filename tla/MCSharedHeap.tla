------------------------------ MODULE MCSharedHeap ------------------------------
(* Instances of SharedHeap for TLC: the threads of one process.            *)
EXTENDS SharedHeap

CONSTANTS t1, t2, t3

OneProcess == [t \in Threads |-> 1]
Malloc(n, s) == [op |-> "malloc", size |-> n, strategy |-> s]
TwoMallocs == {Malloc(2, "BEST_FIT"), Malloc(2, "NEXT_FIT")}

=============================================================================
