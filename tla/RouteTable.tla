----------------------------- MODULE RouteTable -----------------------------
(***************************************************************************)
(* What the router promises its callers: a set of routes with pairwise     *)
(* disjoint hosts, changed by whole calls only, each of which either takes *)
(* full effect and answers "ok" or changes nothing and answers "error".    *)
(* Router.tla implements this specification.                               *)
(***************************************************************************)
EXTENDS RouteSet

CONSTANT MaxEntries     \* bound on the entries of one ReplaceSource call

VARIABLES routes, reply

vars == <<routes, reply>>

TypeOK ==
    /\ routes \subseteq Route
    /\ reply \in {"none", "ok", "error"}

Init ==
    /\ routes = {}
    /\ reply = "none"

\* A call that is refused.
Refuse == reply' = "error" /\ UNCHANGED routes

AddEntry(s, hosts, u) ==
    \/ /\ AddAccepted(routes, s, hosts, u)
       /\ routes' = Added(routes, s, hosts, u)
       /\ reply' = "ok"
    \/ /\ ~AddAccepted(routes, s, hosts, u)
       /\ Refuse

RemoveBySource(s) ==
    /\ routes' = WithoutSource(routes, s)
    /\ reply' = "ok"

\* "error" stands for the result FALSE: the source had no routes.
RemoveSource(s) ==
    /\ routes' = WithoutSource(routes, s)
    /\ reply' = IF Owned(routes, s) # {} THEN "ok" ELSE "error"

ReplaceSource(s, new) ==
    \/ /\ ReplaceAccepted(routes, s, new)
       /\ routes' = Replaced(routes, s, new)
       /\ reply' = "ok"
    \/ /\ ~ReplaceAccepted(routes, s, new)
       /\ Refuse

Next ==
    \E s \in Source :
        \/ \E q \in Request : AddEntry(s, q.hosts, q.upstream)
        \/ RemoveBySource(s)
        \/ RemoveSource(s)
        \/ \E n \in 0..MaxEntries : \E new \in [1..n -> Request] :
               ReplaceSource(s, new)

Spec == Init /\ [][Next]_vars

=============================================================================
