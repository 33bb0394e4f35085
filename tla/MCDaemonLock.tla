----------------------------- MODULE MCDaemonLock -----------------------------
(***************************************************************************)
(* Daemon processes and commands are interchangeable; so are the PIDs.     *)
(***************************************************************************)
EXTENDS DaemonLock, TLC

CONSTANTS p1, p2, p3, k1, k2, k3, s1, s2, r1, c1, c2

Symmetry == Permutations(Proc) \cup Permutations(PID)

=============================================================================
