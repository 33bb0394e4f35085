------------------------------- MODULE Router -------------------------------
(***************************************************************************)
(* internal/router: the live routing table, kept as two indexes that every *)
(* operation updates together under one lock, so that each call is one     *)
(* step.  byHost sends a canonical host to the entry that serves it;       *)
(* bySource lists the entries of each source.  A map key that is absent    *)
(* holds None in byHost and NoList in bySource.                            *)
(*                                                                         *)
(* An entry is never changed after it is built, so a pointer to it is      *)
(* modelled by its value; the order of a source's list is not observable   *)
(* (Snapshot sorts), so the list is a set.                                 *)
(***************************************************************************)
EXTENDS RouteSet

CONSTANT MaxEntries     \* bound on the entries of one ReplaceSource call

ASSUME RouterAssumption ==
    /\ NamesFit
    /\ MaxEntries \in Nat
    /\ None \notin Route

\* An absent key of bySource: it differs from every list of entries, the
\* empty one included.
NoList == {None}

VARIABLES
    byHost,      \* [HostName -> Route \cup {None}]
    bySource,    \* [Source -> (SUBSET Route) \cup {NoList}]
    reply        \* the answer to the last call

vars == <<byHost, bySource, reply>>

TypeOK ==
    /\ byHost \in [HostName -> Route \cup {None}]
    /\ bySource \in [Source -> (SUBSET Route) \cup {NoList}]
    /\ reply \in {"none", "ok", "error"}

Init ==
    /\ byHost = [h \in HostName |-> None]
    /\ bySource = [s \in Source |-> NoList]
    /\ reply = "none"

-----------------------------------------------------------------------------
(* The indexes.                                                            *)

\* Reading an absent key of bySource yields the empty list.
Entries(s) == IF bySource[s] = NoList THEN {} ELSE bySource[s]

\* byHost after the hosts of the entries in E are deleted: only where the
\* index still points at that very entry.
Unindexed(E) ==
    [h \in HostName |-> IF byHost[h] \in E /\ h \in byHost[h].hosts
                        THEN None
                        ELSE byHost[h]]

\* A key is held by a source other than s.
TakenFrom(s, keys) ==
    \E h \in keys : byHost[h] # None /\ byHost[h].source # s

Refuse == reply' = "error" /\ UNCHANGED <<byHost, bySource>>

-----------------------------------------------------------------------------
(* Mutations: plausible slips in the code, one per property, used to see   *)
(* that the properties notice them.                                        *)

AcceptsWithoutUpstreamCheck(s, hosts, u) ==
    hosts # {} /\ ~TakenFrom(s, normalizeHosts(hosts))

AcceptsWithoutOwnerCheck(s, hosts, u) ==
    hosts # {} /\ u # NoUpstream

StaleNever(s, keys) == {}

ForgetHosts(s) ==
    /\ byHost' = byHost
    /\ bySource' = [bySource EXCEPT ![s] = NoList]

KeyForRawHost(host) == host

-----------------------------------------------------------------------------
(* AddEntry.                                                               *)

AddEntryAccepts(s, hosts, u) ==
    /\ hosts # {}
    /\ u # NoUpstream
    /\ ~TakenFrom(s, normalizeHosts(hosts))

\* The entries of s found under the new keys; removeEntryLocked drops them
\* from both indexes.
StaleEntries(s, keys) ==
    {e \in {byHost[h] : h \in keys} : e # None /\ e.source = s}

AddEntry(s, hosts, u) ==
    LET keys  == normalizeHosts(hosts)
        stale == StaleEntries(s, keys)
        e     == NewRoute(s, hosts, u)
    IN \/ /\ AddEntryAccepts(s, hosts, u)
          /\ byHost' = [h \in HostName |-> IF h \in keys THEN e
                                           ELSE Unindexed(stale)[h]]
          /\ bySource' = [bySource EXCEPT ![s] = (Entries(s) \ stale) \cup {e}]
          /\ reply' = "ok"
       \/ /\ ~AddEntryAccepts(s, hosts, u)
          /\ Refuse

-----------------------------------------------------------------------------
(* RemoveBySource and RemoveSource.                                        *)

removeSourceLocked(s) ==
    /\ byHost' = Unindexed(Entries(s))
    /\ bySource' = [bySource EXCEPT ![s] = NoList]

RemoveBySource(s) ==
    /\ removeSourceLocked(s)
    /\ reply' = "ok"

\* The result is whether the key was there, not whether a route was.
RemoveSource(s) ==
    /\ removeSourceLocked(s)
    /\ reply' = IF bySource[s] # NoList THEN "ok" ELSE "error"

-----------------------------------------------------------------------------
(* ReplaceSource.                                                          *)

\* The new entries are installed over an index without the old ones; a
\* source with no new entries loses its key.
ReplaceSource(s, new) ==
    LET accepts == WellFormed(new) /\ ~TakenFrom(s, AllKeys(new))
        E       == NewRoutes(s, new)
    IN \/ /\ accepts
          /\ byHost' = [h \in HostName |->
                           IF \E e \in E : h \in e.hosts
                           THEN CHOOSE e \in E : h \in e.hosts
                           ELSE Unindexed(Entries(s))[h]]
          /\ bySource' = [bySource EXCEPT ![s] = IF E = {} THEN NoList ELSE E]
          /\ reply' = "ok"
       \/ /\ ~accepts
          /\ Refuse

-----------------------------------------------------------------------------
(* LookupSource and Snapshot, the readers.                                 *)

LookupKey(host) == Canonical[host]

LookupSource(host) ==
    LET e == byHost[LookupKey(host)]
    IN  IF e = None THEN None
        ELSE [upstream |-> e.upstream, source |-> e.source]

\* Every entry, under the source whose list it stands in.
Snapshot ==
    UNION {{[source |-> s, hosts |-> e.hosts, upstream |-> e.upstream]
                : e \in Entries(s)} : s \in Source}

-----------------------------------------------------------------------------

Next ==
    \E s \in Source :
        \/ \E q \in Request : AddEntry(s, q.hosts, q.upstream)
        \/ RemoveBySource(s)
        \/ RemoveSource(s)
        \/ \E n \in 0..MaxEntries : \E new \in [1..n -> Request] :
               ReplaceSource(s, new)

Spec == Init /\ [][Next]_vars

-----------------------------------------------------------------------------
(* Properties.                                                             *)

\* An entry listed for a source belongs to it, and every host of it is
\* indexed to that entry.
ListedAreIndexed ==
    \A s \in Source : \A e \in Entries(s) :
        /\ e.source = s
        /\ \A h \in e.hosts : byHost[h] = e

\* An indexed entry names the host it is indexed under and stands in the list
\* of its source, where RemoveBySource will find it.
IndexedAreListed ==
    \A h \in HostName :
        byHost[h] # None => /\ h \in byHost[h].hosts
                            /\ byHost[h] \in Entries(byHost[h].source)

\* A source has a key exactly while it has routes: this is what lets
\* RemoveSource answer from the presence of the key.
NoEmptyLists == \A s \in Source : bySource[s] # {}

\* The two indexes describe one table after every sequence of calls, however
\* registrations, refreshes, reloads and removals of several sources mix
\* (byHost and bySource, router.go:52-57).
IndexesAgree == ListedAreIndexed /\ IndexedAreListed /\ NoEmptyLists

\* A host never passes from one source to another in one call: a registration
\* that collides is refused, and a reload does not take a host from a live
\* process (the collision checks of AddEntry and ReplaceSource).
NoTakeover ==
    [][\A h \in HostName :
           byHost[h] # None /\ byHost'[h] # None
               => byHost'[h].source = byHost[h].source]_vars

\* What the proxy is told for a host, in any spelling, is what the listing of
\* routes says (LookupSource against Snapshot).
LookupAgreesWithSnapshot ==
    \A h \in HostName : LookupSource(h) = Resolve(Snapshot, h)

\* The two indexes implement the table of routes that RouteTable describes,
\* answers included.
RT == INSTANCE RouteTable WITH routes <- Snapshot

ImplementsRouteTable == RT!Spec

=============================================================================
