------------------------------ MODULE MCRouter ------------------------------
(***************************************************************************)
(* Three hosts, one of them with a second spelling, three sources and two  *)
(* upstreams.                                                              *)
(***************************************************************************)
EXTENDS Router, TLC

CONSTANTS
    a, A, b, c,               \* A is another spelling of a
    config, conn, manual,
    u1, u2

MCCanonical == 
    (A :> a) @@ [h \in HostName \ {A} |-> h]

\* No operation tells one source or one upstream from another.
Symmetry == Permutations({config, conn, manual}) \cup Permutations({u1, u2})

=============================================================================
