---------------------------- MODULE RouterProofs ----------------------------
(***************************************************************************)
(* Theorems about the router's two indexes, for every set of hosts,        *)
(* sources and upstreams and every size of a ReplaceSource call.           *)
(***************************************************************************)
EXTENDS Router, RouteSetProofs, TLAPS

Inv == TypeOK /\ IndexesAgree

-----------------------------------------------------------------------------
(* Lemmas about the operators of Router.                                   *)

\* Reading a source's list gives routes.
LEMMA EntriesType ==
    ASSUME TypeOK, NEW s \in Source
    PROVE  Entries(s) \in SUBSET Route
BY DEF TypeOK, Entries

\* Deleting entries from the host index keeps its type.
LEMMA UnindexedType ==
    ASSUME TypeOK, NEW E
    PROVE  Unindexed(E) \in [HostName -> Route \cup {None}]
BY DEF TypeOK, Unindexed

-----------------------------------------------------------------------------
(* Type correctness.                                                       *)

\* The initial indexes are well typed.
LEMMA InitType == Init => TypeOK
BY DEF Init, TypeOK

\* Every call keeps both indexes well typed.
LEMMA NextType == TypeOK /\ [Next]_vars => TypeOK'
<1> SUFFICES ASSUME TypeOK, [Next]_vars PROVE TypeOK'
  OBVIOUS
<1>1. ASSUME NEW s \in Source, NEW q \in Request,
             AddEntry(s, q.hosts, q.upstream)
      PROVE  TypeOK'
  <2>1. CASE AddEntryAccepts(s, q.hosts, q.upstream)
    <3> DEFINE keys  == normalizeHosts(q.hosts)
               stale == StaleEntries(s, keys)
               e     == NewRoute(s, q.hosts, q.upstream)
    <3>1. e \in Route
      BY <2>1, RouterAssumption, NewRouteType DEF AddEntryAccepts, Request
    <3>2. byHost' = [h \in HostName |-> IF h \in keys THEN e
                                        ELSE Unindexed(stale)[h]]
      BY <1>1, <2>1 DEF AddEntry, Refuse
    <3>3. bySource' = [bySource EXCEPT ![s] = (Entries(s) \ stale) \cup {e}]
      BY <1>1, <2>1 DEF AddEntry, Refuse
    <3>4. reply' = "ok"
      BY <1>1, <2>1 DEF AddEntry, Refuse
    <3> HIDE DEF keys, stale, e
    <3>5. byHost' \in [HostName -> Route \cup {None}]
      BY <3>1, <3>2, UnindexedType
    <3>6. bySource' \in [Source -> (SUBSET Route) \cup {NoList}]
      BY <3>1, <3>3, EntriesType DEF TypeOK
    <3>7. QED BY <3>4, <3>5, <3>6 DEF TypeOK
  <2>2. CASE ~AddEntryAccepts(s, q.hosts, q.upstream)
    BY <1>1, <2>2 DEF AddEntry, Refuse, TypeOK
  <2>3. QED BY <2>1, <2>2
<1>2. ASSUME NEW s \in Source, removeSourceLocked(s), reply' \in {"ok", "error"}
      PROVE  TypeOK'
  BY <1>2, UnindexedType DEF removeSourceLocked, TypeOK
<1>3. ASSUME NEW s \in Source, NEW n \in Nat, NEW new \in [1..n -> Request],
             ReplaceSource(s, new)
      PROVE  TypeOK'
  <2> DEFINE E == NewRoutes(s, new)
  <2>1. CASE WellFormed(new) /\ ~TakenFrom(s, AllKeys(new))
    <3>1. E \in SUBSET Route
      BY <2>1, RouterAssumption, NewRoutesTypes
    <3>2. byHost' = [h \in HostName |->
                        IF \E e \in E : h \in e.hosts
                        THEN CHOOSE e \in E : h \in e.hosts
                        ELSE Unindexed(Entries(s))[h]]
      BY <1>3, <2>1 DEF ReplaceSource, Refuse
    <3>3. bySource' = [bySource EXCEPT ![s] = IF E = {} THEN NoList ELSE E]
      BY <1>3, <2>1 DEF ReplaceSource, Refuse
    <3>4. reply' = "ok"
      BY <1>3, <2>1 DEF ReplaceSource, Refuse
    <3> HIDE DEF E
    <3>5. byHost' \in [HostName -> Route \cup {None}]
      BY <3>1, <3>2, UnindexedType
    <3>6. QED BY <3>1, <3>3, <3>4, <3>5 DEF TypeOK
  <2>2. CASE ~(WellFormed(new) /\ ~TakenFrom(s, AllKeys(new)))
    BY <1>3, <2>2 DEF ReplaceSource, Refuse, TypeOK
  <2>3. QED BY <2>1, <2>2
<1>4. CASE UNCHANGED vars
  BY <1>4 DEF vars, TypeOK
<1>5. QED
  BY <1>1, <1>2, <1>3, <1>4, RouterAssumption
     DEF Next, RemoveBySource, RemoveSource

\* The router's state is well typed after any sequence of calls.
THEOREM TypeCorrect == Spec => []TypeOK
BY InitType, NextType, PTL DEF Spec

-----------------------------------------------------------------------------
(* The indexes agree.                                                      *)

\* The listing and the host index hold the same entries.
OneTable ==
    /\ Snapshot \in SUBSET Route
    /\ \A r : r \in Snapshot <=> r \in Route /\ r \in Entries(r.source)
    /\ \A r \in Snapshot : \A h \in r.hosts : byHost[h] = r
    /\ \A h \in HostName : byHost[h] # None =>
           byHost[h] \in Snapshot /\ h \in byHost[h].hosts

\* Agreeing indexes hold one table (byHost, bySource and Snapshot).
LEMMA SnapshotFacts == Inv => OneTable
<1> SUFFICES ASSUME Inv PROVE OneTable
  OBVIOUS
<1> DEFINE Listed(s) == {[source |-> s, hosts |-> e.hosts, upstream |-> e.upstream]
                             : e \in Entries(s)}
<1>1. ASSUME NEW s \in Source PROVE Listed(s) = Entries(s)
  <2>1. \A e \in Entries(s) :
            /\ e \in Route /\ e.source = s
            /\ e = [source |-> s, hosts |-> e.hosts, upstream |-> e.upstream]
    BY EntriesType DEF Inv, IndexesAgree, ListedAreIndexed, Route
  <2>2. QED BY <2>1
<1>2. Snapshot = UNION {Entries(s) : s \in Source}
  BY <1>1 DEF Snapshot
<1>3. \A s \in Source : \A e \in Entries(s) :
          e \in Route /\ e.source = s /\ \A h \in e.hosts : byHost[h] = e
  BY EntriesType DEF Inv, IndexesAgree, ListedAreIndexed
<1>4. \A r \in Route : r.source \in Source
  BY DEF Route
<1>5. \A h \in HostName : byHost[h] # None =>
          /\ byHost[h] \in Route
          /\ h \in byHost[h].hosts
          /\ byHost[h] \in Entries(byHost[h].source)
  BY DEF Inv, TypeOK, IndexesAgree, IndexedAreListed
<1> HIDE DEF Listed
<1>6. QED BY <1>2, <1>3, <1>4, <1>5 DEF OneTable

\* The shape every successful call has: entries E of source s leave both
\* indexes and routes N of s enter them, over hosts that were free or were E's.
Update(s, E, N) ==
    /\ byHost' = [h \in HostName |-> IF \E e \in N : h \in e.hosts
                                     THEN CHOOSE e \in N : h \in e.hosts
                                     ELSE Unindexed(E)[h]]
    /\ \E X : /\ bySource' = [bySource EXCEPT ![s] = X]
              /\ X # {}
              /\ X # NoList => X = (Entries(s) \ E) \cup N
              /\ X = NoList => (Entries(s) \ E) \cup N = {}

\* When such a change is safe.
Safe(s, E, N) ==
    /\ E \in SUBSET Entries(s)
    /\ N \in SUBSET Route
    /\ \A e \in N : e.source = s
    /\ HostsDisjoint(N)
    /\ \A e \in N : \A h \in e.hosts : byHost[h] # None => byHost[h] \in E

\* A safe change keeps the indexes in agreement and changes the table of
\* routes by exactly E and N.
LEMMA UpdateKeepsAgreement ==
    ASSUME Inv, TypeOK', NEW s \in Source, NEW E, NEW N,
           Safe(s, E, N), Update(s, E, N)
    PROVE  IndexesAgree' /\ Snapshot' = (Snapshot \ E) \cup N
<1> USE DEF Inv
<1>1. /\ \A t \in Source : t # s => Entries(t)' = Entries(t)
      /\ Entries(s)' = (Entries(s) \ E) \cup N
      /\ \A t \in Source : bySource'[t] # {}
  <2>1. PICK X : /\ bySource' = [bySource EXCEPT ![s] = X]
                 /\ X # {}
                 /\ X # NoList => X = (Entries(s) \ E) \cup N
                 /\ X = NoList => (Entries(s) \ E) \cup N = {}
    BY DEF Update
  <2>2. bySource \in [Source -> (SUBSET Route) \cup {NoList}]
    BY DEF TypeOK
  <2>3. /\ bySource'[s] = X
        /\ \A t \in Source : t # s => bySource'[t] = bySource[t]
    BY <2>1, <2>2
  <2>4. Entries(s)' = (Entries(s) \ E) \cup N
    BY <2>1, <2>3 DEF Entries
  <2>5. \A t \in Source : t # s => Entries(t)' = Entries(t)
    BY <2>3 DEF Entries
  <2>6. \A t \in Source : bySource'[t] # {}
    BY <2>1, <2>3 DEF IndexesAgree, NoEmptyLists
  <2>7. QED BY <2>4, <2>5, <2>6
<1>2. /\ \A e \in N : \A h \in e.hosts : h \in HostName /\ byHost'[h] = e
      /\ \A h \in HostName : (\A e \in N : h \notin e.hosts) =>
             byHost'[h] = Unindexed(E)[h]
  <2>1. \A e \in N : \A h \in e.hosts : h \in HostName
    BY DEF Safe, Route
  <2>2. \A e, f \in N : \A h \in e.hosts : h \in f.hosts => e = f
    BY DEF Safe, HostsDisjoint
  <2>3. ASSUME NEW e \in N, NEW h \in e.hosts
        PROVE  (CHOOSE f \in N : h \in f.hosts) = e
    BY <2>2, <2>3
  <2>4. QED BY <2>1, <2>3 DEF Update
<1>3. \A h \in HostName :
          Unindexed(E)[h] = IF byHost[h] \in E /\ h \in byHost[h].hosts
                            THEN None ELSE byHost[h]
  BY DEF Unindexed
<1>4. \A e \in E : e # None /\ e.source = s
  BY EntriesType, RouterAssumption DEF Safe, IndexesAgree, ListedAreIndexed
<1>5. ListedAreIndexed'
  <2> SUFFICES ASSUME NEW t \in Source, NEW e \in Entries(t)'
               PROVE  e.source = t /\ \A h \in e.hosts : byHost'[h] = e
    BY DEF ListedAreIndexed
  <2>1. CASE e \in N /\ t = s
    BY <2>1, <1>2 DEF Safe
  <2>2. CASE e \in Entries(t) /\ ~(t = s /\ e \in E)
    <3>1. e \in Route /\ e.source = t /\ e \notin E /\ e # None
      BY <2>2, <1>4, EntriesType, RouterAssumption
         DEF IndexesAgree, ListedAreIndexed
    <3>2. ASSUME NEW h \in e.hosts PROVE byHost'[h] = e
      <4>1. h \in HostName /\ byHost[h] = e
        BY <3>1, <2>2 DEF IndexesAgree, ListedAreIndexed, Route
      <4>2. \A f \in N : h \notin f.hosts
        BY <4>1, <3>1 DEF Safe
      <4>3. QED BY <4>1, <4>2, <3>1, <1>2, <1>3
    <3>3. QED BY <3>1, <3>2
  <2>3. QED BY <1>1, <2>1, <2>2
<1>6. IndexedAreListed'
  <2> SUFFICES ASSUME NEW h \in HostName, byHost'[h] # None
               PROVE  /\ h \in byHost'[h].hosts
                      /\ (byHost[h] \in Entries(byHost[h].source))'
    BY DEF IndexedAreListed
  <2>1. CASE \E e \in N : h \in e.hosts
    <3>1. PICK e \in N : h \in e.hosts
      BY <2>1
    <3>2. byHost'[h] = e /\ e.source = s
      BY <3>1, <1>2 DEF Safe
    <3>3. e \in Entries(s)'
      BY <1>1
    <3>4. QED BY <3>1, <3>2, <3>3 DEF Entries
  <2>2. CASE \A e \in N : h \notin e.hosts
    <3>1. /\ byHost'[h] = byHost[h]
          /\ ~(byHost[h] \in E /\ h \in byHost[h].hosts)
      BY <2>2, <1>2, <1>3
    <3>2. /\ h \in byHost[h].hosts
          /\ byHost[h] \in Entries(byHost[h].source)
          /\ byHost[h].source \in Source
      BY <3>1 DEF IndexesAgree, IndexedAreListed, TypeOK, Route
    <3>3. byHost[h] \in Entries(byHost[h].source)'
      BY <3>1, <3>2, <1>1
    <3>4. QED BY <3>1, <3>2, <3>3 DEF Entries
  <2>3. QED BY <2>1, <2>2
<1>7. IndexesAgree'
  BY <1>1, <1>5, <1>6 DEF IndexesAgree, NoEmptyLists
<1>8. Snapshot' = (Snapshot \ E) \cup N
  <2>1. \A r : r \in Snapshot' <=> r \in Route /\ r \in Entries(r.source)'
    <3>1. Inv' => OneTable'
      BY SnapshotFacts, PTL
    <3>2. OneTable'
      BY <1>7, <3>1
    <3>3. QED BY <3>2 DEF OneTable
  <2>2. \A r : r \in Snapshot <=> r \in Route /\ r \in Entries(r.source)
    BY SnapshotFacts DEF OneTable
  <2>3. \A r \in Route : r.source \in Source
    BY DEF Route
  <2>4. QED BY <2>1, <2>2, <2>3, <1>1, <1>4 DEF Safe
<1>9. QED BY <1>7, <1>8

\* A registration that is accepted is a safe change: it drops the whole entries
\* of the source that the new keys touch and installs one (AddEntry).
LEMMA AddIsUpdate ==
    ASSUME Inv, NEW s \in Source, NEW q \in Request,
           AddEntryAccepts(s, q.hosts, q.upstream),
           AddEntry(s, q.hosts, q.upstream)
    PROVE  LET stale == StaleEntries(s, normalizeHosts(q.hosts))
               e     == NewRoute(s, q.hosts, q.upstream)
           IN  /\ Safe(s, stale, {e})
               /\ Update(s, stale, {e})
               /\ reply' = "ok"
<1> DEFINE keys  == normalizeHosts(q.hosts)
           stale == StaleEntries(s, keys)
           e     == NewRoute(s, q.hosts, q.upstream)
<1>1. e \in Route /\ e.source = s /\ e.hosts = keys /\ keys \in SUBSET HostName
  BY RouterAssumption, NewRouteType, KeysAreHosts DEF AddEntryAccepts, Request
<1>2. /\ byHost' = [h \in HostName |-> IF h \in keys THEN e
                                       ELSE Unindexed(stale)[h]]
      /\ bySource' = [bySource EXCEPT ![s] = (Entries(s) \ stale) \cup {e}]
      /\ reply' = "ok"
  BY DEF AddEntry, Refuse
<1>3. \A h \in keys : byHost[h] # None => byHost[h] \in stale
  BY <1>1 DEF AddEntryAccepts, TakenFrom, StaleEntries
<1>4. stale \in SUBSET Entries(s)
  BY <1>1 DEF StaleEntries, Inv, IndexesAgree, IndexedAreListed
<1> HIDE DEF keys, stale, e
<1>5. Safe(s, stale, {e})
  BY <1>1, <1>3, <1>4 DEF Safe, HostsDisjoint
<1>6. Update(s, stale, {e})
  <2>1. \A h \in HostName : (\E f \in {e} : h \in f.hosts) <=> h \in keys
    BY <1>1
  <2>2. \A h \in keys : (CHOOSE f \in {e} : h \in f.hosts) = e
    BY <1>1
  <2>3. byHost' = [h \in HostName |-> IF \E f \in {e} : h \in f.hosts
                                      THEN CHOOSE f \in {e} : h \in f.hosts
                                      ELSE Unindexed(stale)[h]]
    BY <1>2, <2>1, <2>2
  <2>4. /\ (Entries(s) \ stale) \cup {e} # {}
        /\ (Entries(s) \ stale) \cup {e} \in SUBSET Route
    BY <1>1, EntriesType DEF Inv
  <2>5. (Entries(s) \ stale) \cup {e} # NoList
    BY <2>4, RouterAssumption DEF NoList
  <2>6. QED BY <1>2, <2>3, <2>4, <2>5 DEF Update
<1>7. QED BY <1>2, <1>5, <1>6 DEF keys, stale, e

\* Removing a source is a safe change (removeSourceLocked).
LEMMA RemoveIsUpdate ==
    ASSUME Inv, NEW s \in Source, removeSourceLocked(s)
    PROVE  Safe(s, Entries(s), {}) /\ Update(s, Entries(s), {})
<1>1. Safe(s, Entries(s), {})
  BY DEF Safe, HostsDisjoint
<1>2. byHost' = [h \in HostName |-> IF \E e \in {} : h \in e.hosts
                                    THEN CHOOSE e \in {} : h \in e.hosts
                                    ELSE Unindexed(Entries(s))[h]]
  <2>1. Unindexed(Entries(s)) = [h \in HostName |-> Unindexed(Entries(s))[h]]
    BY UnindexedType DEF Inv
  <2>2. QED BY <2>1 DEF removeSourceLocked
<1>3. NoList # {}
  BY RouterAssumption DEF NoList
<1>4. QED BY <1>1, <1>2, <1>3 DEF Update, removeSourceLocked

\* A reload that is accepted is a safe change: all of the source's entries go
\* and the new ones come (ReplaceSource).
LEMMA ReplaceIsUpdate ==
    ASSUME Inv, NEW s \in Source, NEW n \in Nat, NEW new \in [1..n -> Request],
           WellFormed(new), ~TakenFrom(s, AllKeys(new)), ReplaceSource(s, new)
    PROVE  /\ Safe(s, Entries(s), NewRoutes(s, new))
           /\ Update(s, Entries(s), NewRoutes(s, new))
           /\ reply' = "ok"
<1> DEFINE E == NewRoutes(s, new)
<1>1. /\ E \in SUBSET Route
      /\ \A e \in E : e.source = s
      /\ HostsDisjoint(E)
      /\ AllKeys(new) = UNION {e.hosts : e \in E}
      /\ AllKeys(new) \in SUBSET HostName
  BY RouterAssumption, NewRoutesTypes
<1>2. /\ byHost' = [h \in HostName |-> IF \E e \in E : h \in e.hosts
                                       THEN CHOOSE e \in E : h \in e.hosts
                                       ELSE Unindexed(Entries(s))[h]]
      /\ bySource' = [bySource EXCEPT ![s] = IF E = {} THEN NoList ELSE E]
      /\ reply' = "ok"
  BY DEF ReplaceSource, Refuse
<1> HIDE DEF E
<1>3. \A e \in E : \A h \in e.hosts :
          byHost[h] # None => byHost[h] \in Entries(s)
  <2> SUFFICES ASSUME NEW e \in E, NEW h \in e.hosts, byHost[h] # None
               PROVE  byHost[h] \in Entries(s)
    OBVIOUS
  <2>1. h \in AllKeys(new) /\ h \in HostName
    BY <1>1
  <2>2. byHost[h].source = s
    BY <2>1 DEF TakenFrom
  <2>3. QED BY <2>1, <2>2 DEF Inv, IndexesAgree, IndexedAreListed
<1>4. Safe(s, Entries(s), E)
  BY <1>1, <1>3 DEF Safe
<1>5. NoList # {} /\ E # NoList
  BY <1>1, RouterAssumption DEF NoList
<1>6. Update(s, Entries(s), E)
  BY <1>2, <1>5 DEF Update
<1>7. QED BY <1>2, <1>4, <1>6 DEF E

\* Every step is a call that is refused or a safe change.
LEMMA StepIsUpdate ==
    ASSUME Inv, [Next]_vars
    PROVE  \/ UNCHANGED <<byHost, bySource>>
           \/ \E s \in Source : \E E, N : Safe(s, E, N) /\ Update(s, E, N)
<1>1. ASSUME NEW s \in Source, NEW q \in Request,
             AddEntry(s, q.hosts, q.upstream)
      PROVE  \/ UNCHANGED <<byHost, bySource>>
             \/ \E E, N : Safe(s, E, N) /\ Update(s, E, N)
  <2>1. CASE AddEntryAccepts(s, q.hosts, q.upstream)
    BY <1>1, <2>1, AddIsUpdate
  <2>2. CASE ~AddEntryAccepts(s, q.hosts, q.upstream)
    BY <1>1, <2>2 DEF AddEntry, Refuse
  <2>3. QED BY <2>1, <2>2
<1>2. ASSUME NEW s \in Source, RemoveBySource(s) \/ RemoveSource(s)
      PROVE  \E E, N : Safe(s, E, N) /\ Update(s, E, N)
  BY <1>2, RemoveIsUpdate DEF RemoveBySource, RemoveSource
<1>3. ASSUME NEW s \in Source, NEW n \in 0..MaxEntries,
             NEW new \in [1..n -> Request], ReplaceSource(s, new)
      PROVE  \/ UNCHANGED <<byHost, bySource>>
             \/ \E E, N : Safe(s, E, N) /\ Update(s, E, N)
  <2>1. CASE WellFormed(new) /\ ~TakenFrom(s, AllKeys(new))
    <3>1. n \in Nat
      BY RouterAssumption
    <3>2. QED BY <1>3, <2>1, <3>1, ReplaceIsUpdate
  <2>2. CASE ~(WellFormed(new) /\ ~TakenFrom(s, AllKeys(new)))
    BY <1>3, <2>2 DEF ReplaceSource, Refuse
  <2>3. QED BY <2>1, <2>2
<1>4. CASE UNCHANGED vars
  BY <1>4 DEF vars
<1>5. QED BY <1>1, <1>2, <1>3, <1>4 DEF Next

-----------------------------------------------------------------------------
(* The invariant and what follows from it.                                 *)

\* The invariant holds initially and every call keeps it.
LEMMA InvInductive ==
    /\ Init => Inv
    /\ Inv /\ [Next]_vars => Inv'
<1>1. Init => Inv
  <2> SUFFICES ASSUME Init PROVE IndexesAgree
    BY InitType DEF Inv
  <2>1. NoList # {}
    BY RouterAssumption DEF NoList
  <2>2. QED
    BY <2>1 DEF Init, IndexesAgree, ListedAreIndexed, IndexedAreListed,
                NoEmptyLists, Entries
<1>2. ASSUME Inv, [Next]_vars PROVE Inv'
  <2>1. TypeOK'
    BY <1>2, NextType DEF Inv
  <2>2. CASE UNCHANGED <<byHost, bySource>>
    BY <1>2, <2>1, <2>2 DEF Inv, IndexesAgree, ListedAreIndexed,
                            IndexedAreListed, NoEmptyLists, Entries
  <2>3. CASE \E s \in Source : \E E, N : Safe(s, E, N) /\ Update(s, E, N)
    BY <1>2, <2>1, <2>3, UpdateKeepsAgreement DEF Inv
  <2>4. QED BY <1>2, <2>2, <2>3, StepIsUpdate
<1>3. QED BY <1>1, <1>2

\* The two indexes describe one table after any sequence of calls.
THEOREM IndexesAlwaysAgree == Spec => []IndexesAgree
<1>1. Inv => IndexesAgree
  BY DEF Inv
<1>2. QED BY <1>1, InvInductive, PTL DEF Spec

\* No call moves a host from one source to another.
THEOREM HostsAreNeverTaken == Spec => NoTakeover
<1>1. ASSUME Inv, [Next]_vars
      PROVE  [\A h \in HostName :
                 byHost[h] # None /\ byHost'[h] # None
                     => byHost'[h].source = byHost[h].source]_vars
  <2>1. CASE UNCHANGED <<byHost, bySource>>
    BY <2>1
  <2>2. ASSUME NEW s \in Source, NEW E, NEW N, Safe(s, E, N), Update(s, E, N),
               NEW h \in HostName, byHost[h] # None, byHost'[h] # None
        PROVE  byHost'[h].source = byHost[h].source
    <3>1. CASE \E e \in N : h \in e.hosts
      <4>1. byHost'[h] \in N /\ h \in byHost'[h].hosts
        BY <2>2, <3>1 DEF Update
      <4>2. byHost'[h].source = s /\ byHost[h] \in E
        BY <2>2, <4>1 DEF Safe
      <4>3. QED
        BY <2>2, <4>2, <1>1 DEF Safe, Inv, IndexesAgree, ListedAreIndexed
    <3>2. CASE \A e \in N : h \notin e.hosts
      BY <2>2, <3>2 DEF Update, Unindexed
    <3>3. QED BY <3>1, <3>2
  <2>3. QED BY <1>1, <2>1, <2>2, StepIsUpdate
<1>2. QED BY <1>1, InvInductive, PTL DEF Spec, NoTakeover

\* What the proxy is told agrees with the listing, for every spelling of every
\* host (LookupSource, Snapshot).
THEOREM LookupAlwaysAgrees == Spec => []LookupAgreesWithSnapshot
<1>1. ASSUME Inv PROVE LookupAgreesWithSnapshot
  <2> SUFFICES ASSUME NEW host \in HostName
               PROVE  LookupSource(host) = Resolve(Snapshot, host)
    BY DEF LookupAgreesWithSnapshot
  <2> DEFINE h == Canonical[host]
  <2>1. h \in HostName
    BY RouterAssumption DEF NamesFit
  <2>2. OneTable
    BY <1>1, SnapshotFacts
  <2> HIDE DEF h
  <2>3. CASE byHost[h] = None
    <3>1. ~ \E r \in Snapshot : h \in r.hosts
      BY <2>2, <2>3, RouterAssumption DEF OneTable
    <3>2. QED BY <2>3, <3>1 DEF LookupSource, LookupKey, Resolve, h
  <2>4. CASE byHost[h] # None
    <3>1. byHost[h] \in Snapshot /\ h \in byHost[h].hosts
      BY <2>1, <2>2, <2>4 DEF OneTable
    <3>2. (CHOOSE r \in Snapshot : h \in r.hosts) = byHost[h]
      BY <2>2, <3>1 DEF OneTable
    <3>3. QED BY <2>4, <3>1, <3>2 DEF LookupSource, LookupKey, Resolve, h
  <2>5. QED BY <2>3, <2>4
<1>2. QED BY <1>1, InvInductive, PTL DEF Spec

-----------------------------------------------------------------------------
(* Refinement: the router implements RouteTable.                           *)

\* The collision check over the host index is the collision check over the
\* table of routes (AddEntry, ReplaceSource).
LEMMA TakenIsCollision ==
    ASSUME Inv, NEW s \in Source, NEW keys \in SUBSET HostName
    PROVE  TakenFrom(s, keys) <=> Collides(Snapshot, s, keys)
<1>1. OneTable
  BY SnapshotFacts
<1>2. ASSUME TakenFrom(s, keys) PROVE Collides(Snapshot, s, keys)
  BY <1>1, <1>2 DEF TakenFrom, Collides, OneTable
<1>3. ASSUME Collides(Snapshot, s, keys) PROVE TakenFrom(s, keys)
  BY <1>1, <1>3, RouterAssumption DEF TakenFrom, Collides, OneTable
<1>4. QED BY <1>2, <1>3

\* The entries dropped by a registration are the routes of the source that
\* share a host with it (StaleEntries against Added).
LEMMA StaleAreOverlapping ==
    ASSUME Inv, NEW s \in Source, NEW keys \in SUBSET HostName
    PROVE  StaleEntries(s, keys)
               = {r \in Snapshot : r.source = s /\ r.hosts \cap keys # {}}
<1>1. OneTable
  BY SnapshotFacts
<1>2. ASSUME NEW e \in StaleEntries(s, keys)
      PROVE  e \in Snapshot /\ e.source = s /\ e.hosts \cap keys # {}
  BY <1>1, <1>2 DEF StaleEntries, OneTable
<1>3. ASSUME NEW r \in Snapshot, r.source = s, r.hosts \cap keys # {}
      PROVE  r \in StaleEntries(s, keys)
  BY <1>1, <1>3, RouterAssumption DEF StaleEntries, OneTable
<1>4. QED BY <1>2, <1>3

\* A source's list is the set of routes it owns (bySource against Snapshot).
LEMMA EntriesAreOwned ==
    ASSUME Inv, NEW s \in Source
    PROVE  Entries(s) = Owned(Snapshot, s)
<1>1. OneTable
  BY SnapshotFacts
<1>2. \A e \in Entries(s) : e \in Route /\ e.source = s
  BY EntriesType DEF Inv, IndexesAgree, ListedAreIndexed
<1>3. QED BY <1>1, <1>2 DEF OneTable, Owned

\* Every registration is one of RouteTable, accepted and refused alike
\* (AddEntry).
LEMMA AddImplements ==
    ASSUME Inv, TypeOK', NEW s \in Source, NEW q \in Request,
           AddEntry(s, q.hosts, q.upstream)
    PROVE  RT!AddEntry(s, q.hosts, q.upstream)
<1> DEFINE keys == normalizeHosts(q.hosts)
<1>1. keys \in SUBSET HostName
  BY RouterAssumption, KeysAreHosts DEF Request
<1>2. AddEntryAccepts(s, q.hosts, q.upstream)
          <=> AddAccepted(Snapshot, s, q.hosts, q.upstream)
  BY <1>1, TakenIsCollision DEF AddEntryAccepts, AddAccepted
<1>3. RT!AddAccepted(Snapshot, s, q.hosts, q.upstream)
          <=> AddAccepted(Snapshot, s, q.hosts, q.upstream)
  BY DEF RT!AddAccepted, AddAccepted, RT!Collides, Collides,
         RT!normalizeHosts, normalizeHosts
<1>4. CASE AddEntryAccepts(s, q.hosts, q.upstream)
  <2> DEFINE stale == StaleEntries(s, keys)
             e     == NewRoute(s, q.hosts, q.upstream)
  <2>1. Safe(s, stale, {e}) /\ Update(s, stale, {e}) /\ reply' = "ok"
    BY <1>4, AddIsUpdate
  <2>2. Snapshot' = (Snapshot \ stale) \cup {e}
    BY <2>1, UpdateKeepsAgreement
  <2>3. stale = {r \in Snapshot : r.source = s /\ r.hosts \cap keys # {}}
    BY <1>1, StaleAreOverlapping
  <2>4. Snapshot' = Added(Snapshot, s, q.hosts, q.upstream)
    BY <2>2, <2>3 DEF Added
  <2>5. RT!Added(Snapshot, s, q.hosts, q.upstream)
            = Added(Snapshot, s, q.hosts, q.upstream)
    BY DEF RT!Added, Added, RT!NewRoute, NewRoute,
           RT!normalizeHosts, normalizeHosts
  <2>6. QED BY <1>2, <1>3, <1>4, <2>1, <2>4, <2>5 DEF RT!AddEntry
<1>5. CASE ~AddEntryAccepts(s, q.hosts, q.upstream)
  <2>1. reply' = "error" /\ UNCHANGED <<byHost, bySource>>
    BY <1>5 DEF AddEntry, Refuse
  <2>2. Snapshot' = Snapshot
    BY <2>1 DEF Snapshot, Entries
  <2>3. QED BY <1>2, <1>3, <1>5, <2>1, <2>2 DEF RT!AddEntry, RT!Refuse
<1>6. QED BY <1>4, <1>5

\* Removing a source removes exactly its routes (removeSourceLocked).
LEMMA RemoveImplements ==
    ASSUME Inv, TypeOK', NEW s \in Source, removeSourceLocked(s)
    PROVE  Snapshot' = RT!WithoutSource(Snapshot, s)
<1>1. Snapshot' = (Snapshot \ Entries(s)) \cup {}
  BY RemoveIsUpdate, UpdateKeepsAgreement
<1>2. Entries(s) = Owned(Snapshot, s)
  BY EntriesAreOwned
<1>3. QED BY <1>1, <1>2 DEF Owned, RT!WithoutSource

\* Every reload is one of RouteTable, accepted and refused alike
\* (ReplaceSource).
LEMMA ReplaceImplements ==
    ASSUME Inv, TypeOK', NEW s \in Source, NEW n \in Nat,
           NEW new \in [1..n -> Request], ReplaceSource(s, new)
    PROVE  RT!ReplaceSource(s, new)
<1> DEFINE accepts == WellFormed(new) /\ ~TakenFrom(s, AllKeys(new))
<1>1. accepts <=> ReplaceAccepted(Snapshot, s, new)
  <2>1. WellFormed(new) => AllKeys(new) \in SUBSET HostName
    BY RouterAssumption, NewRoutesTypes
  <2>2. QED BY <2>1, TakenIsCollision DEF ReplaceAccepted
<1>2. RT!ReplaceAccepted(Snapshot, s, new) <=> ReplaceAccepted(Snapshot, s, new)
  BY DEF RT!ReplaceAccepted, ReplaceAccepted, RT!WellFormed, WellFormed,
         RT!DuplicateHost, DuplicateHost, RT!Collides, Collides,
         RT!AllKeys, AllKeys, RT!normalizeHosts, normalizeHosts
<1>3. CASE accepts
  <2>1. /\ Safe(s, Entries(s), NewRoutes(s, new))
        /\ Update(s, Entries(s), NewRoutes(s, new))
        /\ reply' = "ok"
    BY <1>3, ReplaceIsUpdate
  <2>2. Snapshot' = (Snapshot \ Entries(s)) \cup NewRoutes(s, new)
    BY <2>1, UpdateKeepsAgreement
  <2>3. Snapshot' = Replaced(Snapshot, s, new)
    BY <2>2, EntriesAreOwned DEF Owned, Replaced, WithoutSource
  <2>4. RT!Replaced(Snapshot, s, new) = Replaced(Snapshot, s, new)
    BY DEF RT!Replaced, Replaced, RT!WithoutSource, WithoutSource,
           RT!NewRoutes, NewRoutes, RT!NewRoute, NewRoute,
           RT!normalizeHosts, normalizeHosts
  <2>5. QED BY <1>1, <1>2, <1>3, <2>1, <2>3, <2>4 DEF RT!ReplaceSource
<1>4. CASE ~accepts
  <2>1. reply' = "error" /\ UNCHANGED <<byHost, bySource>>
    BY <1>4 DEF ReplaceSource, Refuse
  <2>2. Snapshot' = Snapshot
    BY <2>1 DEF Snapshot, Entries
  <2>3. QED BY <1>1, <1>2, <1>4, <2>1, <2>2 DEF RT!ReplaceSource, RT!Refuse
<1>5. QED BY <1>3, <1>4

\* The two indexes implement the table of routes, call by call and answer by
\* answer.
THEOREM RouterImplementsRouteTable == Spec => ImplementsRouteTable
<1>1. Init => RT!Init
  <2> SUFFICES ASSUME Init PROVE Snapshot = {} /\ reply = "none"
    BY DEF RT!Init
  <2>1. \A s \in Source : Entries(s) = {}
    BY DEF Init, Entries
  <2>2. QED BY <2>1 DEF Init, Snapshot
<1>2. ASSUME Inv, [Next]_vars PROVE [RT!Next]_(RT!vars)
  <2>1. TypeOK'
    BY <1>2, NextType DEF Inv
  <2>2. ASSUME NEW s \in Source, NEW q \in Request,
               AddEntry(s, q.hosts, q.upstream)
        PROVE  RT!Next
    <3>1. RT!AddEntry(s, q.hosts, q.upstream)
      BY <1>2, <2>1, <2>2, AddImplements
    <3>2. RT!Request = Request
      BY DEF RT!Request, Request
    <3>3. QED BY <3>1, <3>2 DEF RT!Next
  <2>3. ASSUME NEW s \in Source, RemoveBySource(s) PROVE RT!Next
    <3>1. RT!RemoveBySource(s)
      BY <1>2, <2>1, <2>3, RemoveImplements
         DEF RemoveBySource, RT!RemoveBySource
    <3>2. QED BY <3>1 DEF RT!Next
  <2>4. ASSUME NEW s \in Source, RemoveSource(s) PROVE RT!Next
    <3>1. bySource[s] # NoList <=> RT!Owned(Snapshot, s) # {}
      <4>1. Entries(s) = RT!Owned(Snapshot, s)
        BY <1>2, EntriesAreOwned DEF Owned, RT!Owned
      <4>2. bySource[s] # {}
        BY <1>2 DEF Inv, IndexesAgree, NoEmptyLists
      <4>3. QED BY <4>1, <4>2 DEF Entries
    <3>2. RT!RemoveSource(s)
      BY <1>2, <2>1, <2>4, <3>1, RemoveImplements
         DEF RemoveSource, RT!RemoveSource
    <3>3. QED BY <3>2 DEF RT!Next
  <2>5. ASSUME NEW s \in Source, NEW n \in 0..MaxEntries,
               NEW new \in [1..n -> Request], ReplaceSource(s, new)
        PROVE  RT!Next
    <3>1. n \in Nat
      BY RouterAssumption
    <3>2. RT!ReplaceSource(s, new)
      BY <1>2, <2>1, <2>5, <3>1, ReplaceImplements
    <3>3. RT!Request = Request
      BY DEF RT!Request, Request
    <3>4. QED BY <3>2, <3>3 DEF RT!Next
  <2>6. CASE UNCHANGED vars
    <3>1. Snapshot' = Snapshot /\ reply' = reply
      BY <2>6 DEF vars, Snapshot, Entries
    <3>2. QED BY <3>1 DEF RT!vars
  <2>7. QED BY <1>2, <2>2, <2>3, <2>4, <2>5, <2>6 DEF Next
<1>3. QED
  BY <1>1, <1>2, InvInductive, PTL DEF Spec, RT!Spec, ImplementsRouteTable

=============================================================================
