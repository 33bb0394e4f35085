------------------------------ MODULE RouteSet ------------------------------
(***************************************************************************)
(* Routing tables as values.  A table is a set of routes, each owned by    *)
(* one source; this module says what every router operation does to such   *)
(* a set.  Router.tla is the two-index data structure that implements it,  *)
(* and the modules of the daemon that call the router use these operators. *)
(*                                                                         *)
(* Labels, PID, command, working directory and registration time ride      *)
(* along with a route and decide nothing, so they are left out.            *)
(***************************************************************************)
EXTENDS Integers, Sequences

CONSTANTS
    HostName,     \* host names as they are spelled by clients
    Source,       \* owners of routes: "config", "socket:N", "manual:NAME"
    Upstream,     \* the non-empty upstream URLs
    NoUpstream,   \* the empty upstream
    Canonical,    \* normalizeHost, tabulated: trimmed, undotted, lower case
    None          \* an absent map entry

Route == [source   : Source,
          hosts    : (SUBSET HostName) \ {{}},
          upstream : Upstream]

\* One registration as a caller supplies it, before any check.
Request == [hosts : SUBSET HostName, upstream : Upstream \cup {NoUpstream}]

\* What the modules of the daemon assume of these constants.
NamesFit ==
    /\ Canonical \in [HostName -> HostName]
    /\ NoUpstream \notin Upstream

normalizeHosts(hosts) == {Canonical[h] : h \in hosts}

NewRoute(s, hosts, u) ==
    [source |-> s, hosts |-> normalizeHosts(hosts), upstream |-> u]

-----------------------------------------------------------------------------
(* AddEntry: all or nothing.                                               *)

\* Some key is held by a source other than s.
Collides(R, s, keys) ==
    \E r \in R : r.source # s /\ r.hosts \cap keys # {}

AddAccepted(R, s, hosts, u) ==
    /\ hosts # {}
    /\ u # NoUpstream
    /\ ~Collides(R, s, normalizeHosts(hosts))

\* A route of s that shares a host with the new one goes as a whole, its
\* other hosts included.
Added(R, s, hosts, u) ==
    {r \in R : r.source = s => r.hosts \cap normalizeHosts(hosts) = {}}
        \cup {NewRoute(s, hosts, u)}

-----------------------------------------------------------------------------
(* RemoveBySource, RemoveSource.                                           *)

Owned(R, s) == {r \in R : r.source = s}

WithoutSource(R, s) == {r \in R : r.source # s}

-----------------------------------------------------------------------------
(* ReplaceSource: new is the sequence of requests that becomes all of s.   *)

\* Two places of the new entries name one host.  The same spelling twice in
\* one list stands for two spellings with one canonical form.
DuplicateHost(new) ==
    \E i, j \in DOMAIN new : \E g \in new[i].hosts, h \in new[j].hosts :
        <<i, g>> # <<j, h>> /\ Canonical[g] = Canonical[h]

AllKeys(new) == UNION {normalizeHosts(new[i].hosts) : i \in DOMAIN new}

\* What ReplaceSource finds wrong with the entries themselves.
WellFormed(new) ==
    /\ \A i \in DOMAIN new : new[i].hosts # {} /\ new[i].upstream # NoUpstream
    /\ ~DuplicateHost(new)

ReplaceAccepted(R, s, new) ==
    WellFormed(new) /\ ~Collides(R, s, AllKeys(new))

NewRoutes(s, new) ==
    {NewRoute(s, new[i].hosts, new[i].upstream) : i \in DOMAIN new}

Replaced(R, s, new) == WithoutSource(R, s) \cup NewRoutes(s, new)

-----------------------------------------------------------------------------
(* LookupSource: where a request for a host, however spelled, is sent.     *)

Resolve(R, host) ==
    IF \E r \in R : Canonical[host] \in r.hosts
    THEN LET r == CHOOSE r \in R : Canonical[host] \in r.hosts
         IN  [upstream |-> r.upstream, source |-> r.source]
    ELSE None

-----------------------------------------------------------------------------
(* What makes a set of routes a routing table: no host is claimed twice.   *)

HostsDisjoint(R) ==
    \A q, r \in R : q # r => q.hosts \cap r.hosts = {}

=============================================================================
