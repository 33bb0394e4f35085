---------------------------- MODULE MCRunClient ----------------------------
(***************************************************************************)
(* Two runs with a host each, the first with --wait, the second without;   *)
(* as many ports as runs; one request at a time; one accident.             *)
(***************************************************************************)
EXTENDS RunClient

CONSTANTS r1, r2, a, b

MCCanonical == [h \in HostName |-> h]

MCHostsOf == [r \in Runner |-> IF r = r1 THEN {a} ELSE {b}]

MCInit == Init /\ mode[r1] # "plain" /\ mode[r2] = "plain"

MCSpec == MCInit /\ [][Next]_vars /\ Fairness

=============================================================================
