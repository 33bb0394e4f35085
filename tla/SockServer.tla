----------------------------- MODULE SockServer -----------------------------
(***************************************************************************)
(* internal/sockserver: the daemon's control socket.  Each accepted        *)
(* connection is served by its own goroutine (serveConn), which owns the   *)
(* routes registered over it and removes them when it returns, whatever    *)
(* made it return.  Exposed routes belong to a name instead and outlive    *)
(* the connection.  Connections, the config watcher (which replaces the    *)
(* routes of the source "config") and the daemon's teardown interleave     *)
(* freely; each router call is one step, as the router's lock makes it.    *)
(*                                                                         *)
(* A client is any program that can open the socket: it may send several   *)
(* requests without waiting, close at any time, or never speak.            *)
(***************************************************************************)
EXTENDS Integers, Sequences

CONSTANTS
    HostName, Upstream, NoUpstream, Canonical, None,    \* as in RouteSet
    Conn,             \* connections a client may open, each at most once
    Name,             \* manual route names that validManualName accepts
    NoName,           \* a name it rejects
    ValidHostToken,   \* the spellings that hostnames.ValidHostToken accepts
    Message,          \* the requests clients may send
    MaxInbox,         \* bound on requests sent and not yet decoded
    ConfigEntries     \* the sets of entries a config reload may install

VARIABLES
    routes,     \* the router's table
    phase,      \* of the daemon: "up", "stopping", "closed", "exited"
    stopAsked,  \* an onShutdown goroutine has been started
    connID,     \* the counter that numbers connections
    pc,         \* where serveConn stands on each connection
    id,         \* the number serveConn drew for each connection
    deadline,   \* whether the first read's deadline is armed
    client,     \* the client's end: "open" or "gone"
    inbox,      \* requests in the connection, not yet decoded
    reply,      \* the answer being written, the registration it confirms if
                \* any, and what follows it
    acked       \* the last registration the client was told succeeded

daemonVars == <<phase, stopAsked>>
connVars   == <<connID, pc, id, deadline, client, inbox, reply, acked>>
vars == <<routes, daemonVars, connVars>>

SocketSource(n)    == <<"socket", n>>
ManualSource(name) == <<"manual", name>>
ConfigSource       == <<"config">>

\* The three namespaces of route owners cannot meet: "socket:N", "manual:NAME"
\* with a name free of colons, and "config".
Sources == ({"socket"} \X Nat) \cup ({"manual"} \X Name) \cup {ConfigSource}

INSTANCE RouteSetProofs WITH Source <- Sources

Ops == {"register", "expose", "unexpose", "list", "info", "bye", "shutdown",
        "unknown", "garbage"}

ASSUME SockServerAssumption ==
    /\ Message \subseteq [op : Ops, name : Name \cup {NoName},
                          hosts : SUBSET HostName,
                          upstream : Upstream \cup {NoUpstream}]
    /\ NoName \notin Name
    /\ ValidHostToken \subseteq HostName
    /\ MaxInbox \in Nat
    /\ \A new \in ConfigEntries : \A i \in DOMAIN new : new[i] \in Request
    /\ NamesFit
    /\ None \notin Message

Where == {"none", "backlog", "accepted", "serving", "replying", "returning",
          "closing", "done"}

Answer == [ok : BOOLEAN, confirms : Message \cup {None},
           next : {"serving", "returning", "shutdown"}]

TypeOK ==
    /\ routes \subseteq Route
    /\ phase \in {"up", "stopping", "closed", "exited"}
    /\ stopAsked \in BOOLEAN
    /\ connID \in Nat
    /\ pc \in [Conn -> Where]
    /\ id \in [Conn -> Nat]
    /\ deadline \in [Conn -> BOOLEAN]
    /\ client \in [Conn -> {"open", "gone"}]
    /\ inbox \in [Conn -> Seq(Message)]
    /\ reply \in [Conn -> Answer \cup {None}]
    /\ acked \in [Conn -> Message \cup {None}]

Init ==
    /\ routes = {}
    /\ phase = "up"
    /\ stopAsked = FALSE
    /\ connID = 0
    /\ pc = [c \in Conn |-> "none"]
    /\ id = [c \in Conn |-> 0]
    /\ deadline = [c \in Conn |-> FALSE]
    /\ client = [c \in Conn |-> "gone"]
    /\ inbox = [c \in Conn |-> <<>>]
    /\ reply = [c \in Conn |-> None]
    /\ acked = [c \in Conn |-> None]

Listening == phase \in {"up", "stopping"}

Goto(c, where) == pc' = [pc EXCEPT ![c] = where]

-----------------------------------------------------------------------------
(* Clients.                                                                *)

Connect(c) ==
    /\ Listening
    /\ pc[c] = "none"
    /\ Goto(c, "backlog")
    /\ client' = [client EXCEPT ![c] = "open"]
    /\ UNCHANGED <<routes, daemonVars, connID, id, deadline, inbox, reply, acked>>

\* What is sent once serveConn is returning is never read.
Send(c, m) ==
    /\ client[c] = "open"
    /\ pc[c] \in {"backlog", "accepted", "serving", "replying"}
    /\ Len(inbox[c]) < MaxInbox
    /\ inbox' = [inbox EXCEPT ![c] = Append(@, m)]
    /\ UNCHANGED <<routes, daemonVars, connID, pc, id, deadline, client, reply, acked>>

\* The client exits, is killed or hangs up.  What it has sent stays readable.
Hangup(c) ==
    /\ client[c] = "open"
    /\ pc[c] # "done"
    /\ client' = [client EXCEPT ![c] = "gone"]
    /\ UNCHANGED <<routes, daemonVars, connID, pc, id, deadline, inbox, reply, acked>>

-----------------------------------------------------------------------------
(* Serve, and the start of serveConn.                                      *)

Accept(c) ==
    /\ Listening
    /\ pc[c] = "backlog"
    /\ Goto(c, "accepted")
    /\ UNCHANGED <<routes, daemonVars, connID, id, deadline, client, inbox, reply, acked>>

\* Mutations of Begin: the counter is read without being advanced; the first
\* read is left without a deadline.
BeginSharingNumbers(c) ==
    /\ pc[c] = "accepted"
    /\ id' = [id EXCEPT ![c] = 1]
    /\ \/ Goto(c, "serving") /\ deadline' = [deadline EXCEPT ![c] = TRUE]
       \/ Goto(c, "returning") /\ UNCHANGED deadline
    /\ UNCHANGED <<routes, daemonVars, connID, client, inbox, reply, acked>>

BeginWithoutDeadline(c) ==
    /\ pc[c] = "accepted"
    /\ connID' = connID + 1
    /\ id' = [id EXCEPT ![c] = connID']
    /\ Goto(c, "serving") \/ Goto(c, "returning")
    /\ UNCHANGED <<routes, daemonVars, deadline, client, inbox, reply, acked>>

\* The connection draws its number; a peer of another user is turned away,
\* through the same deferred cleanup.
Begin(c) ==
    /\ pc[c] = "accepted"
    /\ connID' = connID + 1
    /\ id' = [id EXCEPT ![c] = connID']
    /\ \/ Goto(c, "serving") /\ deadline' = [deadline EXCEPT ![c] = TRUE]
       \/ Goto(c, "returning") /\ UNCHANGED deadline
    /\ UNCHANGED <<routes, daemonVars, client, inbox, reply, acked>>

-----------------------------------------------------------------------------
(* The serving loop: one message is decoded and handled, then answered.    *)

\* A mutation: the deadline of the first read stays armed for the next ones.
DecodeKeepingDeadline(c, m) ==
    /\ pc[c] = "serving"
    /\ inbox[c] # <<>>
    /\ m = Head(inbox[c])
    /\ inbox' = [inbox EXCEPT ![c] = Tail(@)]
    /\ Goto(c, "replying")
    /\ UNCHANGED <<daemonVars, deadline, connID, id, client, acked>>

Decode(c, m) ==
    /\ pc[c] = "serving"
    /\ inbox[c] # <<>>
    /\ m = Head(inbox[c])
    /\ inbox' = [inbox EXCEPT ![c] = Tail(@)]
    /\ deadline' = [deadline EXCEPT ![c] = FALSE]
    /\ Goto(c, "replying")
    /\ UNCHANGED <<daemonVars, connID, id, client, acked>>

Answers(c, m, good, then) ==
    reply' = [reply EXCEPT ![c] =
                 [ok       |-> good,
                  confirms |-> IF good /\ m.op = "register" THEN m ELSE None,
                  next     |-> then]]

validateRoute(hosts, upstream) ==
    hosts # {} /\ hosts \subseteq ValidHostToken /\ upstream # NoUpstream

\* router.AddEntry for a request that has or has not passed its validation.
AddEntry(c, m, source, valid) ==
    LET accepted == valid /\ AddAccepted(routes, source, m.hosts, m.upstream)
    IN \/ /\ accepted
          /\ routes' = Added(routes, source, m.hosts, m.upstream)
          /\ Answers(c, m, TRUE, "serving")
       \/ /\ ~accepted
          /\ UNCHANGED routes
          /\ Answers(c, m, FALSE, "serving")

Register(c, m) ==
    /\ m.op = "register"
    /\ Decode(c, m)
    /\ AddEntry(c, m, SocketSource(id[c]), validateRoute(m.hosts, m.upstream))

\* Mutations: an exposed route is owned by the connection that asked for it;
\* the name of an exposed route is not checked.
ExposeAsConnection(c, m) ==
    /\ m.op = "expose"
    /\ Decode(c, m)
    /\ AddEntry(c, m, SocketSource(id[c]), validateRoute(m.hosts, m.upstream))

ExposeUnchecked(c, m) ==
    /\ m.op = "expose"
    /\ Decode(c, m)
    /\ AddEntry(c, m, ManualSource(m.name), validateRoute(m.hosts, m.upstream))

handleExpose(c, m) ==
    /\ m.op = "expose"
    /\ Decode(c, m)
    /\ AddEntry(c, m, ManualSource(m.name),
                m.name \in Name /\ validateRoute(m.hosts, m.upstream))

handleUnexpose(c, m) ==
    LET source == ManualSource(m.name)
        found  == m.name \in Name /\ Owned(routes, source) # {}
    IN  /\ m.op = "unexpose"
        /\ Decode(c, m)
        /\ routes' = IF found THEN WithoutSource(routes, source) ELSE routes
        /\ Answers(c, m, found, "serving")

\* List and Info only read; an unknown op is answered with an error.
Query(c, m) ==
    /\ m.op \in {"list", "info", "unknown"}
    /\ Decode(c, m)
    /\ Answers(c, m, m.op # "unknown", "serving")
    /\ UNCHANGED routes

Bye(c, m) ==
    /\ m.op = "bye"
    /\ Decode(c, m)
    /\ Answers(c, m, TRUE, "returning")
    /\ UNCHANGED routes

Shutdown(c, m) ==
    /\ m.op = "shutdown"
    /\ Decode(c, m)
    /\ Answers(c, m, TRUE, "shutdown")
    /\ UNCHANGED routes

\* A line that is not a message, or is too long: the error is reported and
\* the connection given up.
DecodeError(c, m) ==
    /\ m.op = "garbage"
    /\ Decode(c, m)
    /\ Answers(c, m, FALSE, "returning")
    /\ UNCHANGED routes

\* The deadline passes before the first message, even one that has arrived.
HandshakeTimeout(c) ==
    /\ pc[c] = "serving"
    /\ deadline[c]
    /\ Goto(c, "replying")
    /\ reply' = [reply EXCEPT ![c] =
                    [ok |-> FALSE, confirms |-> None, next |-> "returning"]]
    /\ UNCHANGED <<routes, daemonVars, connID, id, deadline, client, inbox, acked>>

EndOfStream(c) ==
    /\ pc[c] = "serving"
    /\ client[c] = "gone"
    /\ inbox[c] = <<>>
    /\ Goto(c, "returning")
    /\ UNCHANGED <<routes, daemonVars, connID, id, deadline, client, inbox, reply, acked>>

-----------------------------------------------------------------------------
(* Writing the answer, and the end of serveConn.                           *)

\* The answer reaches the client; "shutdown" starts the onShutdown goroutine
\* and ends the connection.
Reply(c) ==
    /\ pc[c] = "replying"
    /\ client[c] = "open"
    /\ Goto(c, IF reply[c].next = "serving" THEN "serving" ELSE "returning")
    /\ stopAsked' = (stopAsked \/ reply[c].next = "shutdown")
    /\ acked' = IF reply[c].confirms # None
                THEN [acked EXCEPT ![c] = reply[c].confirms] ELSE acked
    /\ reply' = [reply EXCEPT ![c] = None]
    /\ UNCHANGED <<routes, phase, connID, id, deadline, client, inbox>>

\* A mutation: the shutdown is dropped when its answer cannot be written.
ReplyFailsDroppingShutdown(c) ==
    /\ pc[c] = "replying"
    /\ Goto(c, "returning")
    /\ reply' = [reply EXCEPT ![c] = None]
    /\ UNCHANGED <<routes, daemonVars, connID, id, deadline, client, inbox, acked>>

\* The client is gone, or stopped reading until the write deadline passed:
\* the connection is given up.  A shutdown goes ahead all the same.
ReplyFails(c) ==
    /\ pc[c] = "replying"
    /\ Goto(c, "returning")
    /\ stopAsked' = (stopAsked \/ reply[c].next = "shutdown")
    /\ reply' = [reply EXCEPT ![c] = None]
    /\ UNCHANGED <<routes, phase, connID, id, deadline, client, inbox, acked>>

\* Mutations of the deferred function: it closes the connection before it
\* removes the routes; it never runs.
CleanupAfterClose(c) ==
    /\ pc[c] = "returning"
    /\ Goto(c, "closing")
    /\ UNCHANGED <<routes, daemonVars, connID, id, deadline, client, inbox, reply, acked>>

CleanupNever(c) == FALSE

\* The deferred function: first the routes go, then the connection.
Cleanup(c) ==
    /\ pc[c] = "returning"
    /\ routes' = WithoutSource(routes, SocketSource(id[c]))
    /\ Goto(c, "closing")
    /\ UNCHANGED <<daemonVars, connID, id, deadline, client, inbox, reply, acked>>

CloseConn(c) ==
    /\ pc[c] = "closing"
    /\ Goto(c, "done")
    /\ inbox' = [inbox EXCEPT ![c] = <<>>]
    /\ acked' = [acked EXCEPT ![c] = None]
    /\ deadline' = [deadline EXCEPT ![c] = FALSE]
    /\ UNCHANGED <<routes, daemonVars, connID, id, client, reply>>

serveConn(c) ==
    \/ Begin(c)
    \/ \E m \in Message :
           \/ Register(c, m)
           \/ handleExpose(c, m)
           \/ handleUnexpose(c, m)
           \/ Query(c, m)
           \/ Bye(c, m)
           \/ Shutdown(c, m)
           \/ DecodeError(c, m)
    \/ HandshakeTimeout(c)
    \/ EndOfStream(c)
    \/ Reply(c)
    \/ ReplyFails(c)
    \/ Cleanup(c)
    \/ CloseConn(c)

-----------------------------------------------------------------------------
(* The rest of the daemon.                                                 *)

\* A mutation: a reload takes over the hosts it names.
ReloadTakingOver(new) ==
    /\ phase # "exited"
    /\ WellFormed(new)
    /\ routes' = {r \in WithoutSource(routes, ConfigSource) :
                      r.hosts \cap AllKeys(new) = {}}
                     \cup NewRoutes(ConfigSource, new)
    /\ UNCHANGED <<daemonVars, connVars>>

\* The config watcher applies a file: ReplaceSource for the source "config".
Reload(new) ==
    /\ phase # "exited"
    /\ ReplaceAccepted(routes, ConfigSource, new)
    /\ routes' = Replaced(routes, ConfigSource, new)
    /\ UNCHANGED <<daemonVars, connVars>>

\* Teardown starts at a signal, the failure of an HTTP server, or the onShutdown
\* goroutine's cancellation of the context.  The HTTP servers are shut down
\* first; the socket is served meanwhile.
Signal ==
    /\ phase = "up"
    /\ phase' = "stopping"
    /\ UNCHANGED <<routes, stopAsked, connVars>>

OnShutdown ==
    /\ phase = "up"
    /\ stopAsked
    /\ phase' = "stopping"
    /\ UNCHANGED <<routes, stopAsked, connVars>>

\* Close: nothing more is accepted, and what waits in the backlog is refused.
Close ==
    /\ phase = "stopping"
    /\ phase' = "closed"
    /\ pc' = [c \in Conn |-> IF pc[c] = "backlog" THEN "done" ELSE pc[c]]
    /\ inbox' = [c \in Conn |-> IF pc[c] = "backlog" THEN <<>> ELSE inbox[c]]
    /\ UNCHANGED <<routes, stopAsked, connID, id, deadline, client, reply, acked>>

\* The process ends and takes its table and its connections with it.
Gone ==
    /\ phase' = "exited"
    /\ routes' = {}
    /\ pc' = [c \in Conn |-> IF pc[c] = "none" THEN "none" ELSE "done"]
    /\ inbox' = [c \in Conn |-> <<>>]
    /\ reply' = [c \in Conn |-> None]
    /\ acked' = [c \in Conn |-> None]
    /\ deadline' = [c \in Conn |-> FALSE]
    /\ UNCHANGED <<stopAsked, connID, id, client>>

Exit == phase = "closed" /\ Gone

Crash == phase # "exited" /\ Gone

-----------------------------------------------------------------------------

Client(c) == Connect(c) \/ (\E m \in Message : Send(c, m)) \/ Hangup(c)

Teardown == Close \/ Exit

Next ==
    \/ \E c \in Conn : Client(c) \/ Accept(c) \/ serveConn(c)
    \/ \E new \in ConfigEntries : Reload(new)
    \/ Signal
    \/ OnShutdown
    \/ Teardown
    \/ Crash

Spec == Init /\ [][Next]_vars

\* Goroutines keep running, deadlines pass, and the shutdown of the HTTP
\* servers is bounded.  Nothing is assumed of clients, signals or reloads.
FairSpec ==
    /\ Spec
    /\ \A c \in Conn : WF_vars(Accept(c)) /\ WF_vars(serveConn(c))
    /\ WF_vars(OnShutdown)
    /\ WF_vars(Teardown)

-----------------------------------------------------------------------------
(* Properties.                                                             *)

\* The connection numbered n is being served, or its cleanup is still to run.
Served(n) ==
    \E c \in Conn : id[c] = n /\ pc[c] \in {"serving", "replying", "returning"}

\* A route registered over a connection exists only while that connection is
\* served: by the time its client can see it closed, the routes are gone
\* (package comment of sockserver.go: "produces no stale state").
NoOrphanRoutes ==
    \A r \in routes : r.source[1] = "socket" => Served(r.source[2])

\* The connections that are over, by their numbers.
EndedSessions ==
    {SocketSource(id[c]) : c \in {c \in Conn : id[c] # 0 /\ pc[c] \in {"closing", "done"}}}

Lease == INSTANCE RouteLease WITH
    Source <- Sources, Session <- {"socket"} \X Nat,
    Name <- {ManualSource(name) : name \in Name}, File <- ConfigSource,
    up <- phase # "exited", table <- routes, over <- EndedSessions

\* The daemon keeps its promises about routes (RouteLease), though it knows a
\* session only by a number that it hands out itself, and its handlers, their
\* deferred cleanup, reloads and the teardown interleave: no route comes by a
\* session that has ended or stays behind it, none is changed for another
\* owner's sake, and a session that is over is not taken up again.
ImplementsRouteLease == Lease!Spec

\* A client that was told its registration succeeded has it in force for as
\* long as its connection waits for the next request, whatever other
\* connections, exposed routes and config reloads do.
AckedRegistrationHolds ==
    \A c \in Conn :
        pc[c] = "serving" /\ acked[c] # None =>
            NewRoute(SocketSource(id[c]), acked[c].hosts, acked[c].upstream) \in routes

\* A registered connection that is quiet is not closed by the daemon: its
\* process may idle for its whole life (the deadline of the first read is
\* cleared once a message arrived).
QuietConnectionsStay ==
    [][\A c \in Conn :
           (pc[c] = "serving" /\ acked[c] # None
                /\ client[c] = "open" /\ inbox[c] = <<>>)
               => pc'[c] = "serving" \/ phase' = "exited"]_vars

\* The routes of a connection change only in a step of its own handler, or
\* when the process ends: no other client and no reload touches them.
OnlyOwnHandlerChanges ==
    [][\A c \in Conn :
           pc[c] \in {"serving", "replying", "returning"} =>
               \/ Owned(routes', SocketSource(id[c])) = Owned(routes, SocketSource(id[c]))
               \/ pc'[c] # pc[c]
               \/ phase' = "exited"]_vars

\* An exposed route goes only when some client asks to expose or unexpose
\* under its name, or when the process ends: the end of the connection that
\* exposed it, however it ends, leaves it alone.
ExposedRoutesSurviveConnections ==
    [][\A r \in routes \ routes' : r.source[1] = "manual" =>
           \/ phase' = "exited"
           \/ \E c \in Conn :
                  /\ pc[c] = "serving" /\ inbox[c] # <<>>
                  /\ inbox'[c] = Tail(inbox[c])
                  /\ Head(inbox[c]).op \in {"expose", "unexpose"}
                  /\ ManualSource(Head(inbox[c]).name) = r.source]_vars

\* When a client hangs up, with requests unread or answers unwritten, its
\* connection is cleaned up and its routes freed.
GoneClientsAreCleanedUp ==
    \A c \in Conn :
        client[c] = "gone" /\ pc[c] # "none" ~>
            pc[c] = "done" /\ Owned(routes, SocketSource(id[c])) = {}

\* A connection that is accepted speaks or is turned away: a silent client
\* does not hold its goroutine for ever (handshakeTimeout).
SilentClientsAreReleased ==
    \A c \in Conn : pc[c] = "accepted" ~> pc[c] \notin {"accepted", "serving"}

\* A shutdown request that was decoded ends the daemon, even when the client
\* that sent it does not wait for the answer.
ShutdownIsCarriedOut ==
    \A c \in Conn :
        (pc[c] = "replying" /\ reply[c] # None /\ reply[c].next = "shutdown")
            ~> phase = "exited"

\* "Exposed routes persist until you `unexpose` them (or the daemon restarts)"
\* (README.md:123): a host that answers to an exposed name goes on doing so
\* unless an unexpose is handled or the process ends.
ExposedHostsPersist ==
    [][\A r \in routes : \A h \in r.hosts : r.source[1] = "manual" =>
           \/ \E q \in routes' : q.source = r.source /\ h \in q.hosts
           \/ phase' = "exited"
           \/ \E c \in Conn : /\ inbox[c] # <<>> /\ inbox'[c] = Tail(inbox[c])
                              /\ Head(inbox[c]).op = "unexpose"]_vars

=============================================================================
