-------------------------------- MODULE MCRio --------------------------------
(* Instances of Rio for TLC: every stream of up to five bytes, of which    *)
(* any may end a line.                                                     *)
EXTENDS Rio

MCStreams == UNION {[1 .. k -> Bytes] : k \in 0 .. 5}

=============================================================================
