---------------------------- MODULE MCSockServer ----------------------------
(***************************************************************************)
(* Two connections, two hosts and one that validation rejects, one manual  *)
(* name, and a config file that may claim a host or none.                  *)
(***************************************************************************)
EXTENDS SockServer, TLC

CONSTANTS a, b, bad, m, u, c1, c2

\* For the runs without liveness: connections are interchangeable.
Symmetry == Permutations({c1, c2})

MCCanonical == [h \in {a, b, bad} |-> h]

Msg(op, name, hosts) == [op |-> op, name |-> name, hosts |-> hosts, upstream |-> u]

Plain(op) == Msg(op, NoName, {})

Registrations == {Msg("register", NoName, H) : H \in {{b}, {a, b}, {bad}}}

Exposures == {Msg("expose", m, {b}), Msg("expose", NoName, {b}),
              Msg("unexpose", m, {})}

SafetyMessages ==
    Registrations \cup Exposures
        \cup {Plain(op) : op \in {"list", "bye"}}

LivenessMessages ==
    {Msg("register", NoName, {a}), Plain("shutdown"), Plain("garbage")}

\* A name exposed over two hosts, and exposed again over one of them.
ExposeMessages == {Msg("expose", m, {a, b}), Msg("expose", m, {a})}

MCConfigEntries == {<<>>, <<[hosts |-> {b}, upstream |-> u]>>}

NoReload == {}

=============================================================================
