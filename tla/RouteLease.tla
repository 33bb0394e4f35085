----------------------------- MODULE RouteLease -----------------------------
(***************************************************************************)
(* What the daemon promises to whoever registers a route, without sockets, *)
(* messages, answers, goroutines or files: a host belongs to one owner at  *)
(* a time and is taken from nobody.  What a session registered lasts as    *)
(* long as the session, what was exposed under a name until the name is    *)
(* exposed again or unexposed, and what the config file says until it says *)
(* something else - or until the daemon ends and everything with it.       *)
(*                                                                         *)
(* Each action is the relation between the table before and after; hosts   *)
(* are canonical.  SockServer implements this specification, and so do the *)
(* daemons that RunClient, Persist and ConfigWatcher have inside.          *)
(***************************************************************************)
EXTENDS RouteSet

CONSTANTS
    Session,    \* owners whose routes end with them: connections
    Name,       \* owners that stay: names of exposed routes
    File        \* the owner of the routes of the config file

VARIABLES
    up,         \* a daemon runs
    table,      \* its routes
    over        \* the sessions that have ended

leaseVars == <<up, table, over>>

Init ==
    /\ up \in BOOLEAN
    /\ table = {}
    /\ over = {}

\* r comes into the table; of its owner's routes those that share a host with
\* it go, and nobody else has such a host.
Grant(r) ==
    /\ ~Collides(table, r.source, r.hosts)
    /\ table' = {q \in table : q.source = r.source => q.hosts \cap r.hosts = {}} \cup {r}

\* A session that has ended cannot come by a route any more.
Register ==
    /\ up
    /\ \E r \in table' : r.source \in Session \ over /\ Grant(r)
    /\ UNCHANGED <<up, over>>

Expose ==
    /\ up
    /\ \E r \in table' : r.source \in Name /\ Grant(r)
    /\ UNCHANGED <<up, over>>

Unexpose ==
    /\ up
    /\ \E n \in Name : table' = WithoutSource(table, n)
    /\ UNCHANGED <<up, over>>

\* Sessions end, and their routes in the same moment.
End ==
    /\ over \subseteq over'
    /\ table' = {r \in table : r.source \notin over'}
    /\ UNCHANGED up

\* The routes of the file are replaced by others that take no host away.
Reload ==
    /\ up
    /\ WithoutSource(table', File) = WithoutSource(table, File)
    /\ HostsDisjoint(table')
    /\ UNCHANGED <<up, over>>

\* A daemon starts with the routes of its file or none.
Start ==
    /\ ~up
    /\ up' = TRUE
    /\ WithoutSource(table', File) = {}
    /\ HostsDisjoint(table')
    /\ UNCHANGED over

Stop ==
    /\ up
    /\ up' = FALSE
    /\ table' = {}
    /\ over \subseteq over'

Next == Register \/ Expose \/ Unexpose \/ End \/ Reload \/ Start \/ Stop

Spec == Init /\ [][Next]_leaseVars

=============================================================================
