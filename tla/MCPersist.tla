----------------------------- MODULE MCPersist -----------------------------
(***************************************************************************)
(* Three runs of `expose`: two of one name, over a bare name and another   *)
(* host, and over a second spelling of that host; one of another name,     *)
(* with --domain, over the bare name.  One `init`; an editor that adds an  *)
(* app with a host of its own.                                             *)
(***************************************************************************)
EXTENDS Persist

CONSTANTS e1, e2, e3, i1, ha, haL, hb, hB, hd, u1, v1, web, api, localhost

MCCanonical == [h \in HostName |-> IF h = hB THEN hb ELSE h]

MCQualified == [d \in Domain |-> [h \in HostName |-> IF h = ha THEN haL ELSE h]]

MCNameOf == [e \in Exposer |-> IF e = e3 THEN api ELSE web]

MCDomainFlag == [e \in Exposer |-> IF e = e3 THEN localhost ELSE NoDomain]

OneApp(hosts, upstream) == [hosts |-> hosts, upstream |-> upstream]

MCBlock == [e \in Exposer |->
    CASE e = e1 -> OneApp({ha, hb}, u1)
      [] e = e2 -> OneApp({hB}, v1)
      [] e = e3 -> OneApp({ha}, u1)]

MCExtra == {OneApp({hd}, u1)}

=============================================================================
