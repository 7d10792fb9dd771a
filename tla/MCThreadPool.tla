----------------------------- MODULE MCThreadPool -----------------------------
(* Instances of ThreadPool for TLC.                                        *)
EXTENDS ThreadPool, TLC

CONSTANTS w1, w2, c1, c2, c3, c4, c5, c6

File(size, mtime) == [st_size |-> size, st_mtime |-> mtime]

Zero == File(0, 0)

(* One request where the policy does not look at it, and requests for two  *)
(* files of different sizes and one of size LONG_MAX.                      *)
OneRequest == {File(0, 0)}
ThreeRequests == {File(0, 0), File(1, 1), File(LongMax, 1)}

WorkersAndFds == Permutations(Workers) \cup Permutations(Fds)

=============================================================================
