--------------------------- MODULE MCConfigWatcher ---------------------------
(***************************************************************************)
(* Two versions of the file with different hosts and domains, and another  *)
(* source that may own the host of one of them.                            *)
(***************************************************************************)
EXTENDS ConfigWatcher

CONSTANTS a, b, u, da, db

MCCanonical == [h \in HostName |-> h]

Entry(h) == [hosts |-> {h}, upstream |-> u]

MCConfig == {[entries |-> <<Entry(a)>>, domain |-> da],
             [entries |-> <<Entry(b)>>, domain |-> db]}

=============================================================================
