--------------------------- MODULE MCTrustStore ---------------------------
(***************************************************************************)
(* Three processes: a daemon, an `untrust` and a `trust`, a daemon, a      *)
(* `trust` and a renewal, and so on, for the tools of each platform.       *)
(***************************************************************************)
EXTENDS TrustStore, TLC

CONSTANTS p1, p2, p3

Case(c1, c2, c3, platform, own, trust) ==
    [cmds |-> p1 :> c1 @@ p2 :> c2 @@ p3 :> c3,
     os |-> platform, managed |-> own, auto |-> trust]

Cases ==
    {Case("start", "trust", "renew", "darwin", TRUE, FALSE),
     Case("start", "untrust", "trust", "darwin", TRUE, FALSE),
     Case("start", "untrust", "trust", "linux", TRUE, TRUE),
     Case("trust", "trust", "renew", "linux", TRUE, FALSE),
     Case("trust", "untrust", "renew", "windows", FALSE, FALSE)}

MCInit ==
    /\ TrustInit
    /\ \E c \in Cases : cmd = c.cmds /\ os = c.os /\ auto = c.auto /\ managed = c.managed

MCSpec == MCInit /\ [][TrustNext]_vars /\ Fairness

=============================================================================
