--------------------------- MODULE RouteSetProofs ---------------------------
(***************************************************************************)
(* Lemmas about routing tables as values: what each router operation does  *)
(* to the routes of every source, and that it keeps a table a table.  The  *)
(* proofs about the modules that call the router rest on them.  To have    *)
(* them at hand for their own sources and upstreams, those modules         *)
(* instantiate this module, which brings RouteSet with it, and assume      *)
(* NamesFit.                                                               *)
(***************************************************************************)
EXTENDS RouteSet

\* A table: routes that claim no host twice.
IsTable(R) == R \in SUBSET Route /\ HostsDisjoint(R)

\* Canonical keys of host names are host names (normalizeHosts).
LEMMA KeysAreHosts ==
    ASSUME NamesFit, NEW hosts \in SUBSET HostName
    PROVE  /\ normalizeHosts(hosts) \in SUBSET HostName
           /\ hosts # {} => normalizeHosts(hosts) # {}
BY DEF NamesFit, normalizeHosts

\* What passes the emptiness checks becomes a route (AddEntry, ReplaceSource).
LEMMA NewRouteType ==
    ASSUME NamesFit, NEW s \in Source, NEW hosts \in SUBSET HostName, hosts # {},
           NEW u \in Upstream \cup {NoUpstream}, u # NoUpstream
    PROVE  /\ NewRoute(s, hosts, u) \in Route
           /\ NewRoute(s, hosts, u).source = s
           /\ NewRoute(s, hosts, u).hosts = normalizeHosts(hosts)
           /\ NewRoute(s, hosts, u).upstream = u
BY KeysAreHosts DEF NewRoute, Route

\* The entries of a ReplaceSource call are routes of its source, and no two of
\* them share a host once the duplicate check has passed.
LEMMA NewRoutesTypes ==
    ASSUME NamesFit, NEW s \in Source, NEW new,
           \A i \in DOMAIN new : new[i] \in Request, WellFormed(new)
    PROVE  /\ NewRoutes(s, new) \in SUBSET Route
           /\ \A e \in NewRoutes(s, new) : e.source = s
           /\ HostsDisjoint(NewRoutes(s, new))
           /\ AllKeys(new) = UNION {e.hosts : e \in NewRoutes(s, new)}
           /\ AllKeys(new) \in SUBSET HostName
<1> DEFINE R(i) == NewRoute(s, new[i].hosts, new[i].upstream)
<1>1. \A i \in DOMAIN new : /\ R(i) \in Route
                            /\ R(i).source = s
                            /\ R(i).hosts = normalizeHosts(new[i].hosts)
                            /\ R(i).hosts \in SUBSET HostName
  <2> TAKE i \in DOMAIN new
  <2> DEFINE hosts == new[i].hosts
             target == new[i].upstream
  <2>1. /\ hosts \in SUBSET HostName /\ hosts # {}
        /\ target \in Upstream \cup {NoUpstream} /\ target # NoUpstream
    BY DEF WellFormed, Request
  <2> HIDE DEF hosts, target
  <2>2. /\ NewRoute(s, hosts, target) \in Route
        /\ NewRoute(s, hosts, target).source = s
        /\ NewRoute(s, hosts, target).hosts = normalizeHosts(hosts)
        /\ normalizeHosts(hosts) \in SUBSET HostName
    BY <2>1, NewRouteType, KeysAreHosts
  <2>3. QED BY <2>2 DEF hosts, target
<1>2. NewRoutes(s, new) = {R(i) : i \in DOMAIN new}
  BY DEF NewRoutes
<1>3. ASSUME NEW i \in DOMAIN new, NEW j \in DOMAIN new, i # j
      PROVE  R(i).hosts \cap R(j).hosts = {}
  <2> SUFFICES ASSUME NEW h \in R(i).hosts, h \in R(j).hosts PROVE FALSE
    OBVIOUS
  <2>0. h \in normalizeHosts(new[i].hosts) /\ h \in normalizeHosts(new[j].hosts)
    BY <1>1
  <2>1. PICK x \in new[i].hosts : h = Canonical[x]
    BY <2>0 DEF normalizeHosts
  <2>2. PICK y \in new[j].hosts : h = Canonical[y]
    BY <2>0 DEF normalizeHosts
  <2>3. <<i, x>> # <<j, y>>
    BY <1>3
  <2>4. QED BY <2>1, <2>2, <2>3 DEF WellFormed, DuplicateHost
<1>4. HostsDisjoint(NewRoutes(s, new))
  BY <1>2, <1>3 DEF HostsDisjoint
<1>5. AllKeys(new) = UNION {R(i).hosts : i \in DOMAIN new}
  BY <1>1 DEF AllKeys
<1> HIDE DEF R
<1>6. QED BY <1>1, <1>2, <1>4, <1>5

-----------------------------------------------------------------------------
(* What a call does to the routes of every source.                         *)

\* A removal takes the routes of its source and no others.
LEMMA RemovalRemoves ==
    ASSUME NEW R, NEW s
    PROVE  /\ WithoutSource(R, s) \in SUBSET R
           /\ Owned(WithoutSource(R, s), s) = {}
           /\ \A t : t # s => Owned(WithoutSource(R, s), t) = Owned(R, t)
BY DEF WithoutSource, Owned

\* An accepted addition puts its route into the table, takes away none of
\* another source, and of its own only what shares a host with the new one.
LEMMA AdditionAdds ==
    ASSUME NEW R, NEW s, NEW hosts, NEW u
    PROVE  /\ NewRoute(s, hosts, u) \in Added(R, s, hosts, u)
           /\ \A r \in Added(R, s, hosts, u) : r \in R \/ r.source = s
           /\ \A r \in R : r.source # s => r \in Added(R, s, hosts, u)
           /\ \A t : t # s => Owned(Added(R, s, hosts, u), t) = Owned(R, t)
<1>1. NewRoute(s, hosts, u).source = s
  BY DEF NewRoute
<1>2. QED BY <1>1 DEF Added, Owned

\* A replacement leaves its source with the new routes alone, and every other
\* source with what it had.
LEMMA ReplacementReplaces ==
    ASSUME NEW R, NEW s, NEW new
    PROVE  /\ Owned(Replaced(R, s, new), s) = NewRoutes(s, new)
           /\ \A t : t # s => Owned(Replaced(R, s, new), t) = Owned(R, t)
           /\ \A r \in R : r.source # s => r \in Replaced(R, s, new)
<1>1. \A r \in NewRoutes(s, new) : r.source = s
  BY DEF NewRoutes, NewRoute
<1>2. QED BY <1>1 DEF Replaced, WithoutSource, Owned

-----------------------------------------------------------------------------
(* A table stays a table.                                                  *)

\* Fewer routes are a table still.
LEMMA RemovalKeepsTable ==
    ASSUME NEW R, IsTable(R), NEW s
    PROVE  IsTable(WithoutSource(R, s))
BY DEF IsTable, HostsDisjoint, WithoutSource

\* The new route shares no host with another source, since the call was
\* accepted, nor with one of its own, since those were dropped.
LEMMA AdditionKeepsTable ==
    ASSUME NamesFit, NEW R, IsTable(R), NEW s \in Source,
           NEW hosts \in SUBSET HostName, NEW u \in Upstream \cup {NoUpstream},
           AddAccepted(R, s, hosts, u)
    PROVE  IsTable(Added(R, s, hosts, u))
<1> DEFINE new  == NewRoute(s, hosts, u)
           rest == {r \in R : r.source = s => r.hosts \cap normalizeHosts(hosts) = {}}
<1>1. new \in Route /\ new.hosts = normalizeHosts(hosts)
  BY NewRouteType DEF AddAccepted
<1>2. \A r \in rest : r \in Route /\ r.hosts \cap new.hosts = {}
  BY <1>1 DEF AddAccepted, Collides, IsTable
<1>3. \A q, r \in rest : q # r => q.hosts \cap r.hosts = {}
  BY DEF IsTable, HostsDisjoint
<1>4. Added(R, s, hosts, u) = rest \cup {new}
  BY DEF Added
<1> HIDE DEF new, rest
<1>5. QED BY <1>1, <1>2, <1>3, <1>4 DEF IsTable, HostsDisjoint

\* The new routes share no host with another source, since the call was
\* accepted, nor with each other, since they are well formed.
LEMMA ReplacementKeepsTable ==
    ASSUME NamesFit, NEW R, IsTable(R), NEW s \in Source, NEW new,
           \A i \in DOMAIN new : new[i] \in Request,
           ReplaceAccepted(R, s, new)
    PROVE  IsTable(Replaced(R, s, new))
<1> DEFINE fresh == NewRoutes(s, new)
           rest  == WithoutSource(R, s)
<1>1. /\ fresh \in SUBSET Route
      /\ HostsDisjoint(fresh)
      /\ AllKeys(new) = UNION {e.hosts : e \in fresh}
  BY NewRoutesTypes DEF ReplaceAccepted
<1>2. IsTable(rest)
  BY RemovalKeepsTable
<1>3. \A r \in rest : \A e \in fresh : r.hosts \cap e.hosts = {}
  BY <1>1 DEF ReplaceAccepted, Collides, WithoutSource
<1>4. Replaced(R, s, new) = rest \cup fresh
  BY DEF Replaced
<1> HIDE DEF fresh, rest
<1>5. QED BY <1>1, <1>2, <1>3, <1>4 DEF IsTable, HostsDisjoint

\* In a table, the lookup of a host finds the one route that has it.
LEMMA LookupFindsOwner ==
    ASSUME NEW R, IsTable(R), NEW r \in R, NEW host, Canonical[host] \in r.hosts
    PROVE  Resolve(R, host) = [upstream |-> r.upstream, source |-> r.source]
<1>1. \A q \in R : Canonical[host] \in q.hosts => q = r
  BY DEF IsTable, HostsDisjoint
<1>2. QED BY <1>1 DEF Resolve

=============================================================================
