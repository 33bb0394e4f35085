----------------------------- MODULE RunClient -----------------------------
(***************************************************************************)
(* `hostmux run` (run.go, readiness.go, internal/childproc) between the    *)
(* daemon, the command it starts and the proxy (internal/proxy).           *)
(*                                                                         *)
(* A run picks a free port, registers its hosts for that port, starts the  *)
(* command with PORT set, and ends with it.  With --wait it watches the    *)
(* port from one goroutine while childproc.Run looks after the command in  *)
(* another, so a run is at two places at once: pc[r] is runCommand and     *)
(* waitForReady, task[r] is childproc.Run.                                 *)
(*                                                                         *)
(* The daemon is reduced to its table and to the removal of the routes of  *)
(* a closed connection (SockServer has its handlers).  Commands, other     *)
(* programs and the user's signals are the environment.                    *)
(***************************************************************************)
EXTENDS Integers, FiniteSets

CONSTANTS
    HostName, Canonical, None,  \* as in RouteSet
    Runner,         \* runs of `hostmux run`
    HostsOf,        \* the hosts each asks for
    Port, NoPort,   \* the ephemeral ports
    NoOne, Other,   \* nobody, or another program, listens on a port
    Query,          \* HTTP requests at the proxy
    MaxAccidents    \* bound on signals, kills, ports taken by other programs
                    \* and ends of the daemon, together

INSTANCE RouteSetProofs WITH
    Source <- Runner, Upstream <- Port, NoUpstream <- NoPort

ASSUME RunClientAssumption ==
    /\ HostsOf \in [Runner -> (SUBSET HostName) \ {{}}]
    /\ NamesFit
    /\ None \notin [upstream : Port, source : Runner]
    /\ NoOne \notin Runner /\ Other \notin Runner /\ NoOne # Other
    /\ MaxAccidents \in Nat

VARIABLES
    pc, task,
    mode,       \* no --wait, --wait for a connection, --wait for a page
    port,       \* what AllocateFreePort returned
    command,    \* the child process
    signal,     \* sigCh holds a signal
    hit,        \* the child's group was sent a signal
    said,       \* which announcement was printed
    owner,      \* who listens on each port
    up,         \* a daemon runs
    routes,     \* its table
    query,      \* the requests
    accidents,
    broken      \* history: the command or the run of r ended, the daemon died,
                \* or someone else listened on r's port

runVars == <<pc, mode, port, said>>
childVars == <<task, command, signal, hit>>
world == <<owner, up, routes, query>>
history == <<accidents, broken>>
vars == <<runVars, childVars, world, history>>

NoQuery == [at |-> "none", to |-> NoPort, after |-> {}]

Accident == accidents < MaxAccidents /\ accidents' = accidents + 1

Init ==
    /\ pc = [r \in Runner |-> "idle"]
    /\ task = [r \in Runner |-> "none"]
    /\ mode \in [Runner -> {"plain", "connect", "page"}]
    /\ port = [r \in Runner |-> NoPort]
    /\ command = [r \in Runner |-> "none"]
    /\ signal = [r \in Runner |-> FALSE]
    /\ hit = [r \in Runner |-> FALSE]
    /\ said = [r \in Runner |-> "nothing"]
    /\ owner = [p \in Port |-> NoOne]
    /\ up \in BOOLEAN
    /\ routes = {}
    /\ query = [q \in Query |-> NoQuery]
    /\ accidents = 0
    /\ broken = {}

Ended == {"failed", "over", "dead"}
Alive == {"running", "bound", "serving"}

Goto(r, l) == pc' = [pc EXCEPT ![r] = l]

-----------------------------------------------------------------------------
(* runCommand up to the start of the command.                              *)

\* Names, labels or prefix are refused, or the daemon cannot be reached: a
\* run without --socket starts one, a run with it only looks for the file.
Prepare(r) ==
    /\ pc[r] = "idle"
    /\ \/ Goto(r, "failed") /\ UNCHANGED up
       \/ Goto(r, "ready") /\ up' = TRUE
       \/ Goto(r, "ready") /\ UNCHANGED up
    /\ UNCHANGED <<mode, port, said, childVars, owner, routes, query, history>>

\* Whoever binds p while it is the port of an earlier run.
Contest(p, x) == {r \in Runner \ {x} : port[r] = p}

\* The port is free when it is asked for, and only then.
AllocateFreePort(r) ==
    /\ pc[r] = "ready"
    /\ \/ /\ \E p \in Port :
               /\ owner[p] = NoOne
               /\ port' = [port EXCEPT ![r] = p]
          /\ Goto(r, "allocated")
       \/ UNCHANGED port /\ Goto(r, "failed")
    /\ UNCHANGED <<mode, said, childVars, world, history>>

announce(r, how) == said' = [said EXCEPT ![r] = how]

\* Mutation: the URLs are printed as soon as the route is there.
RegisterAnnouncing(r) ==
    /\ pc[r] = "allocated"
    /\ IF up /\ AddAccepted(routes, r, HostsOf[r], port[r])
       THEN /\ routes' = Added(routes, r, HostsOf[r], port[r])
            /\ \E l \in {"registered", "failed"} : Goto(r, l)
            /\ announce(r, "unwaited")
       ELSE Goto(r, "failed") /\ UNCHANGED <<routes, said>>
    /\ UNCHANGED <<mode, port, childVars, owner, up, query, history>>

\* Dial, info and register on one connection.  The answer may not arrive
\* although the route is there.
Register(r) ==
    /\ pc[r] = "allocated"
    /\ IF up /\ AddAccepted(routes, r, HostsOf[r], port[r])
       THEN /\ routes' = Added(routes, r, HostsOf[r], port[r])
            /\ \E l \in {"registered", "failed"} : Goto(r, l)
       ELSE Goto(r, "failed") /\ UNCHANGED routes
    /\ UNCHANGED <<mode, port, said, childVars, owner, up, query, history>>

\* Without --wait the URLs are printed before the command starts.
Launch(r) ==
    /\ pc[r] = "registered"
    /\ task' = [task EXCEPT ![r] = "starting"]
    /\ IF mode[r] = "plain"
       THEN announce(r, "unwaited") /\ Goto(r, "waiting")
       ELSE UNCHANGED said /\ Goto(r, "check")
    /\ UNCHANGED <<mode, port, command, signal, hit, world, history>>

-----------------------------------------------------------------------------
(* waitForReady, and the end of runCommand.                                *)

ChildDone(r) == task[r] = "over"

CheckDone(r) ==
    /\ pc[r] = "check"
    /\ Goto(r, IF ChildDone(r) THEN "over" ELSE "poll")
    /\ UNCHANGED <<mode, port, said, childVars, world, history>>

\* Mutation: an answer that is an error, or none, counts as ready.
ReadyOnAnything(r) == {TRUE, FALSE}

\* What the port may answer: anyone may listen there.
readyCheck(r) ==
    LET x == owner[port[r]]
    IN  IF x = NoOne THEN {FALSE}
        ELSE IF mode[r] = "connect" THEN {TRUE}
        ELSE IF x = Other THEN BOOLEAN
        ELSE {command[x] = "serving"}

Poll(r) ==
    /\ pc[r] = "poll"
    /\ \E ready \in readyCheck(r) :
         IF ready
         THEN announce(r, "ready") /\ Goto(r, "waiting")
         ELSE UNCHANGED said /\ Goto(r, "tick")
    /\ UNCHANGED <<mode, port, childVars, world, history>>

\* Of a closed childDone and a tick at once, Go's select takes either.
Tick(r) ==
    /\ pc[r] = "tick"
    /\ \/ ChildDone(r) /\ Goto(r, "over") /\ UNCHANGED said
       \/ Goto(r, "check") /\ UNCHANGED said
       \/ announce(r, "late") /\ Goto(r, "waiting")
    /\ UNCHANGED <<mode, port, childVars, world, history>>

Finish(r) ==
    /\ pc[r] = "waiting" /\ ChildDone(r)
    /\ Goto(r, "over")
    /\ UNCHANGED <<mode, port, said, childVars, world, history>>

-----------------------------------------------------------------------------
(* childproc.Run.                                                          *)

Working(r) == pc[r] \notin Ended

At(r, t) == Working(r) /\ task[r] = t

To(r, t) == task' = [task EXCEPT ![r] = t]

\* Mutation: a command that cannot be started leaves childDone open.
StartUnnoticed(r) ==
    /\ At(r, "starting")
    /\ \/ command' = [command EXCEPT ![r] = "running"] /\ To(r, "started")
       \/ command' = [command EXCEPT ![r] = "failed"] /\ To(r, "none")
    /\ UNCHANGED <<runVars, signal, hit, world, history>>

Start(r) ==
    /\ At(r, "starting")
    /\ \/ command' = [command EXCEPT ![r] = "running"] /\ To(r, "started")
       \/ command' = [command EXCEPT ![r] = "failed"] /\ To(r, "over")
    /\ UNCHANGED <<runVars, signal, hit, world, history>>

Notify(r) ==
    /\ At(r, "started")
    /\ To(r, "looping")
    /\ UNCHANGED <<runVars, command, signal, hit, world, history>>

Forward(r) ==
    /\ At(r, "looping") /\ signal[r]
    /\ signal' = [signal EXCEPT ![r] = FALSE]
    /\ hit' = [hit EXCEPT ![r] = TRUE]
    /\ UNCHANGED <<runVars, task, command, world, history>>

Reap(r) ==
    /\ At(r, "looping") /\ command[r] = "exited"
    /\ To(r, "over")
    /\ UNCHANGED <<runVars, command, signal, hit, world, history>>

-----------------------------------------------------------------------------
(* The user, the command and other programs.                               *)

\* SIGINT or SIGTERM to the run: its default is death wherever childproc.Run
\* does not listen, and the command, in a process group of its own, goes on.
Interrupt(r) ==
    /\ pc[r] \notin Ended \cup {"idle"}
    /\ Accident
    /\ IF task[r] = "looping"
       THEN signal' = [signal EXCEPT ![r] = TRUE] /\ UNCHANGED <<pc, broken>>
       ELSE Goto(r, "dead") /\ broken' = broken \cup {r} /\ UNCHANGED signal
    /\ UNCHANGED <<mode, port, said, task, command, hit, world>>

Kill(r) ==
    /\ pc[r] \notin Ended \cup {"idle"}
    /\ Accident
    /\ Goto(r, "dead")
    /\ broken' = broken \cup {r}
    /\ UNCHANGED <<mode, port, said, childVars, world>>

CommandBinds(r) ==
    /\ command[r] = "running" /\ owner[port[r]] = NoOne
    /\ command' = [command EXCEPT ![r] = "bound"]
    /\ owner' = [owner EXCEPT ![port[r]] = r]
    /\ broken' = broken \cup Contest(port[r], r)
    /\ UNCHANGED <<runVars, task, signal, hit, up, routes, query, accidents>>

CommandServes(r) ==
    /\ command[r] = "bound"
    /\ command' = [command EXCEPT ![r] = "serving"]
    /\ UNCHANGED <<runVars, task, signal, hit, world, history>>

Exits(r) ==
    /\ command[r] \in Alive
    /\ command' = [command EXCEPT ![r] = "exited"]
    /\ owner' = [p \in Port |-> IF owner[p] = r THEN NoOne ELSE owner[p]]
    /\ broken' = broken \cup {r}
    /\ UNCHANGED <<runVars, task, signal, hit, up, routes, query, accidents>>

CommandExits(r) == Exits(r)

\* A command that was sent SIGINT or SIGTERM does not go on for ever.
CommandObeys(r) == hit[r] /\ Exits(r)

OtherBinds(p) ==
    /\ owner[p] = NoOne
    /\ Accident
    /\ owner' = [owner EXCEPT ![p] = Other]
    /\ broken' = broken \cup Contest(p, Other)
    /\ UNCHANGED <<runVars, childVars, up, routes, query>>

-----------------------------------------------------------------------------
(* The daemon and its proxy.                                               *)

\* The deferred RemoveBySource of the connection's handler.
Cleanup(r) ==
    /\ up /\ pc[r] \in Ended /\ Owned(routes, r) # {}
    /\ routes' = WithoutSource(routes, r)
    /\ UNCHANGED <<runVars, childVars, owner, up, query, history>>

\* Requests under way end with it; runs do not register again with a later
\* daemon.
DaemonStops ==
    /\ up
    /\ Accident
    /\ up' = FALSE
    /\ routes' = {}
    /\ query' = [q \in Query |-> NoQuery]
    /\ broken' = broken \cup {r \in Runner : pc[r] # "idle"}
    /\ UNCHANGED <<runVars, childVars, owner>>

Set(q, rec) == query' = [query EXCEPT ![q] = rec]

\* The handler's lookup: the upstream, or none (404).
Lookup(q) ==
    /\ up /\ query[q].at = "none"
    /\ \E h \in HostName :
         LET found == Resolve(routes, h)
         IN  Set(q, [at |-> "asked",
                     to |-> IF found = None THEN NoPort ELSE found.upstream,
                     after |-> {r \in Runner : said[r] = "ready" /\ h \in HostsOf[r]}])
    /\ UNCHANGED <<runVars, childVars, owner, up, routes, history>>

\* The request goes to whoever listens on that port by now; what comes back,
\* an answer, 404, 502 or 504, ends it.
Respond(q) ==
    /\ query[q].at = "asked"
    /\ Set(q, NoQuery)
    /\ UNCHANGED <<runVars, childVars, owner, up, routes, history>>

-----------------------------------------------------------------------------

Steps(r) ==
    \/ Prepare(r) \/ AllocateFreePort(r) \/ Register(r) \/ Launch(r)
    \/ CheckDone(r) \/ Poll(r) \/ Tick(r) \/ Finish(r)

Task(r) == Start(r) \/ Notify(r) \/ Forward(r) \/ Reap(r)

Next ==
    \/ \E r \in Runner :
         \/ Steps(r) \/ Task(r)
         \/ Interrupt(r) \/ Kill(r)
         \/ CommandBinds(r) \/ CommandServes(r) \/ CommandExits(r) \/ CommandObeys(r)
         \/ Cleanup(r)
    \/ \E p \in Port : OtherBinds(p)
    \/ DaemonStops
    \/ \E q \in Query : Lookup(q) \/ Respond(q)

Spec == Init /\ [][Next]_vars

\* Both goroutines of a run and the daemon's handlers go on while they can,
\* and a command that was signalled ends.
Fairness ==
    \A r \in Runner :
        /\ WF_vars(Steps(r)) /\ WF_vars(Task(r))
        /\ WF_vars(Forward(r)) /\ WF_vars(Reap(r))
        /\ WF_vars(CommandObeys(r)) /\ WF_vars(Cleanup(r))

FairSpec == Spec /\ Fairness

-----------------------------------------------------------------------------
(***************************************************************************)
(* A port is held by a live command of its own run, nothing is announced   *)
(* or started before the registration was acknowledged.                    *)
(***************************************************************************)
TypeOK ==
    /\ pc \in [Runner -> {"idle", "ready", "allocated", "registered", "check",
                          "poll", "tick", "waiting"} \cup Ended]
    /\ task \in [Runner -> {"none", "starting", "started", "looping", "over"}]
    /\ mode \in [Runner -> {"plain", "connect", "page"}]
    /\ port \in [Runner -> Port \cup {NoPort}]
    /\ command \in [Runner -> {"none", "failed", "exited"} \cup Alive]
    /\ signal \in [Runner -> BOOLEAN] /\ hit \in [Runner -> BOOLEAN]
    /\ said \in [Runner -> {"nothing", "unwaited", "ready", "late"}]
    /\ owner \in [Port -> Runner \cup {NoOne, Other}]
    /\ \A p \in Port : owner[p] \in Runner =>
         port[owner[p]] = p /\ command[owner[p]] \in {"bound", "serving"}
    /\ up \in BOOLEAN /\ routes \subseteq Route /\ HostsDisjoint(routes)
    /\ \A r \in Runner : said[r] # "nothing" => task[r] # "none"
    /\ accidents \in 0 .. MaxAccidents
    /\ broken \subseteq Runner

\* The purpose of --wait: from the moment the URLs are announced as ready,
\* every request for one of the hosts is sent to the command of that run, at
\* whatever moment after its lookup it goes out, for as long as run, command
\* and daemon live and nobody else listens on the port picked for the run.
AnnouncedUrlAnswers ==
    \A q \in Query : \A r \in query[q].after \ broken :
        query[q].to # NoPort /\ owner[query[q].to] = r

\* The runs that are over and whose connection has been cleaned up after.
Gone == {r \in Runner : pc[r] \in Ended /\ Owned(routes, r) = {}}

Lease == INSTANCE RouteLease WITH
    Source <- Runner, Upstream <- Port, NoUpstream <- NoPort,
    Session <- Runner, Name <- {}, File <- None,
    table <- routes, over <- Gone

\* The daemon that runs meet here keeps the promises of SockServer's, over
\* its end and the start of the next one.
ImplementsRouteLease == Lease!Spec

Freed(r) == Owned(routes, r) = {}

CommandOver(r) == command[r] \in {"failed", "exited"}

\* A run does not outlast its command or leave its routes behind: not when
\* the command could not be started, not when it ends before it is ready or
\* the deadline passes; and a signal that childproc.Run hears ends the
\* command too, however it meets readiness and exit.
NothingIsLeftBehind ==
    \A r \in Runner :
        /\ (CommandOver(r) \/ pc[r] \in Ended) ~> (pc[r] \in Ended /\ Freed(r))
        /\ signal[r] ~> (CommandOver(r) \/ pc[r] = "dead")

=============================================================================
