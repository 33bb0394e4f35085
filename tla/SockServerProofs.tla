-------------------------- MODULE SockServerProofs --------------------------
(***************************************************************************)
(* Proofs about SockServer, for any number of connections, names, hosts,   *)
(* messages and reloads.                                                   *)
(*                                                                         *)
(* The invariant behind them has three parts.  The numbers connections     *)
(* draw are their own (Numbered), so a connection's handler is the only    *)
(* one that touches the routes registered over it (OthersUntouched); what  *)
(* each connection was told, or is about to be told, is in the table       *)
(* (ConnOK); and every connection's route has its connection               *)
(* (NoOrphanRoutes).                                                       *)
(***************************************************************************)
EXTENDS SockServer, TLAPS

\* The connection has not been numbered yet; its handler runs.
Early == {"none", "backlog", "accepted"}
Active == {"serving", "replying", "returning"}

\* Connections draw numbers of their own, from the counter.
Numbered ==
    /\ \A c \in Conn : id[c] <= connID
    /\ \A c, d \in Conn : c # d /\ id[c] = id[d] => id[c] = 0

InForce(c, m) == NewRoute(SocketSource(id[c]), m.hosts, m.upstream) \in routes

\* What the client of c has been told once the answer under way is written.
Told(c) == IF reply[c].confirms # None THEN reply[c].confirms ELSE acked[c]

ConnOK(c) ==
    /\ pc[c] \in Early => id[c] = 0 /\ acked[c] = None
    /\ pc[c] \in Active => id[c] > 0
    /\ pc[c] = "serving" /\ acked[c] # None => InForce(c, acked[c])
    /\ pc[c] = "replying" =>
           reply[c] \in Answer /\ (Told(c) # None => InForce(c, Told(c)))
    /\ deadline[c] => acked[c] = None
                        /\ (pc[c] = "replying" => reply[c].confirms = None)

IInv ==
    /\ TypeOK
    /\ HostsDisjoint(routes)
    /\ Numbered
    /\ \A c \in Conn : ConnOK(c)
    /\ NoOrphanRoutes

-----------------------------------------------------------------------------
(* Lemmas about the owners of routes, and about one connection.            *)

\* Hosts and upstreams are as the lemmas about tables assume.
LEMMA NamesFitHere == NamesFit
BY SockServerAssumption

\* "socket:N", "manual:NAME" and "config" are different owners, and two numbers
\* are two owners.
LEMMA OwnersDiffer ==
    /\ \A n \in Nat : SocketSource(n) \in Sources
    /\ \A name \in Name : ManualSource(name) \in Sources
    /\ ConfigSource \in Sources
    /\ \A k, n : SocketSource(k) = SocketSource(n) => k = n
    /\ \A n, name : SocketSource(n) # ManualSource(name)
    /\ \A n : SocketSource(n) # ConfigSource
    /\ \A n : SocketSource(n)[1] = "socket" /\ SocketSource(n)[2] = n
    /\ \A name : ManualSource(name)[1] = "manual"
    /\ ConfigSource[1] = "config"
    /\ \A name : ManualSource(name) # ConfigSource
BY DEF SocketSource, ManualSource, ConfigSource, Sources

\* What is the connection's own.
Local(c) == <<pc[c], id[c], deadline[c], reply[c], acked[c]>>

\* A connection that did not move and whose routes are untouched is as it was.
LEMMA ConnFrame ==
    ASSUME NEW c \in Conn, ConnOK(c), UNCHANGED Local(c),
           pc[c] \in Active =>
               Owned(routes, SocketSource(id[c])) \subseteq routes'
    PROVE  ConnOK(c)'
<1>1. \A m : InForce(c, m) /\ pc[c] \in Active => InForce(c, m)'
  BY DEF Local, InForce, Owned, NewRoute
<1>2. Told(c)' = Told(c) BY DEF Local, Told
<1>3. QED BY <1>1, <1>2 DEF ConnOK, Local, Active

\* Two connections whose handlers run own different routes.
LEMMA OwnNumbers ==
    ASSUME Numbered, NEW c \in Conn, NEW d \in Conn, c # d,
           id[c] > 0
    PROVE  SocketSource(id[d]) # SocketSource(id[c])
<1>1. id[c] # 0 OBVIOUS
<1>2. QED BY <1>1, OwnersDiffer DEF Numbered

\* What a client sends is a message, and a message asks for hosts.
LEMMA MessageFields ==
    ASSUME NEW m \in Message
    PROVE  /\ m.op \in Ops
           /\ m.name \in Name \cup {NoName}
           /\ m.hosts \in SUBSET HostName
           /\ m.upstream \in Upstream \cup {NoUpstream}
           /\ m # None
BY SockServerAssumption

-----------------------------------------------------------------------------
(* Type correctness.                                                       *)

\* The types but for the table, and that an answer is there to be written.
LocalType ==
    /\ phase \in {"up", "stopping", "closed", "exited"}
    /\ stopAsked \in BOOLEAN
    /\ connID \in Nat
    /\ pc \in [Conn -> Where]
    /\ id \in [Conn -> Nat]
    /\ deadline \in [Conn -> BOOLEAN]
    /\ client \in [Conn -> {"open", "gone"}]
    /\ inbox \in [Conn -> Seq(Message)]
    /\ reply \in [Conn -> Answer \cup {None}]
    /\ acked \in [Conn -> Message \cup {None}]
    /\ \A c \in Conn : pc[c] = "replying" => reply[c] \in Answer

\* Taking a message out of the inbox and answering it keeps the types.
LEMMA DecodeType ==
    ASSUME LocalType, NEW c \in Conn, NEW m \in Message, Decode(c, m),
           NEW good \in BOOLEAN, NEW then \in {"serving", "returning", "shutdown"},
           Answers(c, m, good, then)
    PROVE  LocalType'
<1> DEFINE a == [ok       |-> good,
                 confirms |-> IF good /\ m.op = "register" THEN m ELSE None,
                 next     |-> then]
<1>1. a \in Answer BY DEF Answer
<1>2. reply' = [reply EXCEPT ![c] = a] BY DEF Answers
<1> HIDE DEF a
<1>3. reply' \in [Conn -> Answer \cup {None}] BY <1>1, <1>2 DEF LocalType
<1>4. inbox' \in [Conn -> Seq(Message)]
  <2>1. inbox[c] \in Seq(Message) /\ inbox[c] # <<>> BY DEF Decode, LocalType
  <2>2. Tail(inbox[c]) \in Seq(Message) BY <2>1
  <2>3. QED BY <2>2 DEF Decode, LocalType
<1>5. reply'[c] \in Answer /\ \A d \in Conn : d # c => reply'[d] = reply[d]
  BY <1>1, <1>2 DEF LocalType
<1>6. QED BY <1>3, <1>4, <1>5 DEF Decode, LocalType, Goto, Where, daemonVars

\* The outcome of an AddEntry: accepted, with a new table, or refused.
LEMMA AddEntryCases ==
    ASSUME NEW c, NEW m, NEW s, NEW valid \in BOOLEAN, AddEntry(c, m, s, valid)
    PROVE  \/ /\ valid /\ AddAccepted(routes, s, m.hosts, m.upstream)
              /\ routes' = Added(routes, s, m.hosts, m.upstream)
              /\ Answers(c, m, TRUE, "serving")
           \/ /\ routes' = routes
              /\ Answers(c, m, FALSE, "serving")
BY DEF AddEntry

\* Every step of the daemon and of its clients keeps the types.
LEMMA NextLocalType == LocalType /\ [Next]_vars => LocalType'
<1> SUFFICES ASSUME LocalType, [Next]_vars PROVE LocalType'
  OBVIOUS
<1> USE DEF LocalType, daemonVars, connVars, Goto, Where
<1>1. ASSUME NEW c \in Conn, Client(c) PROVE LocalType'
  <2>1. CASE Connect(c) BY <2>1 DEF Connect
  <2>2. ASSUME NEW m \in Message, Send(c, m) PROVE LocalType'
    <3>1. inbox[c] \in Seq(Message) OBVIOUS
    <3>2. Append(inbox[c], m) \in Seq(Message) BY <3>1
    <3>3. QED BY <2>2, <3>2 DEF Send
  <2>3. CASE Hangup(c) BY <2>3 DEF Hangup
  <2>4. QED BY <1>1, <2>1, <2>2, <2>3 DEF Client
<1>2. ASSUME NEW c \in Conn, Accept(c) PROVE LocalType'
  BY <1>2 DEF Accept
<1>3. ASSUME NEW c \in Conn, serveConn(c) PROVE LocalType'
  <2>1. CASE Begin(c)
    <3>1. connID' \in Nat /\ id' \in [Conn -> Nat] BY <2>1 DEF Begin
    <3>2. pc' \in [Conn -> Where] /\ deadline' \in [Conn -> BOOLEAN]
      BY <2>1 DEF Begin
    <3>3. QED BY <2>1, <3>1, <3>2 DEF Begin
  <2>2. ASSUME NEW m \in Message, Decode(c, m),
               \/ Register(c, m) \/ handleExpose(c, m) \/ handleUnexpose(c, m)
               \/ Query(c, m) \/ Bye(c, m) \/ Shutdown(c, m) \/ DecodeError(c, m)
        PROVE  LocalType'
    <3>1. \E good \in BOOLEAN : \E then \in {"serving", "returning", "shutdown"} :
              Answers(c, m, good, then)
      BY <2>2 DEF Register, handleExpose, AddEntry, handleUnexpose, Query, Bye,
                  Shutdown, DecodeError
    <3>2. QED BY <2>2, <3>1, DecodeType
  <2>3. CASE HandshakeTimeout(c)
    <3>1. [ok |-> FALSE, confirms |-> None, next |-> "returning"] \in Answer
      BY DEF Answer
    <3>2. QED BY <2>3, <3>1 DEF HandshakeTimeout
  <2>4. CASE EndOfStream(c) BY <2>4 DEF EndOfStream
  <2>5. CASE Reply(c)
    <3>1. acked' \in [Conn -> Message \cup {None}]
      <4>1. reply[c].confirms \in Message \cup {None}
        BY <2>5 DEF Reply, Answer
      <4>2. QED BY <2>5, <4>1 DEF Reply
    <3>2. QED BY <2>5, <3>1 DEF Reply
  <2>6. CASE ReplyFails(c) BY <2>6 DEF ReplyFails
  <2>7. CASE Cleanup(c) BY <2>7 DEF Cleanup
  <2>8. CASE CloseConn(c)
    <3>1. <<>> \in Seq(Message) OBVIOUS
    <3>2. QED BY <2>8, <3>1 DEF CloseConn
  <2>9. QED BY <1>3, <2>1, <2>2, <2>3, <2>4, <2>5, <2>6, <2>7, <2>8
            DEF serveConn, Register, handleExpose, handleUnexpose, Query, Bye,
                Shutdown, DecodeError
<1>4. ASSUME NEW new \in ConfigEntries, Reload(new) PROVE LocalType'
  BY <1>4 DEF Reload
<1>5. CASE Signal \/ OnShutdown BY <1>5 DEF Signal, OnShutdown
<1>6. CASE Close
  <2>1. <<>> \in Seq(Message) OBVIOUS
  <2>2. QED BY <1>6, <2>1 DEF Close
<1>7. CASE Gone
  <2>1. <<>> \in Seq(Message) OBVIOUS
  <2>2. QED BY <1>7, <2>1 DEF Gone
<1>8. CASE UNCHANGED vars BY <1>8 DEF vars
<1>9. QED BY <1>1, <1>2, <1>3, <1>4, <1>5, <1>6, <1>7, <1>8
          DEF Next, Teardown, Exit, Crash

-----------------------------------------------------------------------------
(* A step changes the routes of one owner.                                 *)

\* The routes of s are changed by one call of the router, and no others.
Changes(s) ==
    \/ routes' = routes
    \/ \E m \in Message : /\ AddAccepted(routes, s, m.hosts, m.upstream)
                          /\ routes' = Added(routes, s, m.hosts, m.upstream)
    \/ routes' = WithoutSource(routes, s)
    \/ \E new \in ConfigEntries : /\ ReplaceAccepted(routes, s, new)
                                  /\ routes' = Replaced(routes, s, new)

\* Such a call keeps the table a table and leaves every other owner's routes.
LEMMA ChangesOneOwner ==
    ASSUME IsTable(routes), NEW s \in Sources, Changes(s)
    PROVE  /\ IsTable(routes')
           /\ \A t : t # s => Owned(routes', t) = Owned(routes, t)
           /\ \A r \in routes' : r \in routes \/ r.source = s
<1>1. CASE routes' = routes
  BY <1>1 DEF IsTable, HostsDisjoint
<1>2. ASSUME NEW m \in Message, AddAccepted(routes, s, m.hosts, m.upstream),
             routes' = Added(routes, s, m.hosts, m.upstream)
      PROVE  /\ IsTable(routes')
             /\ \A t : t # s => Owned(routes', t) = Owned(routes, t)
             /\ \A r \in routes' : r \in routes \/ r.source = s
  <2>1. IsTable(routes')
    BY <1>2, NamesFitHere, MessageFields, AdditionKeepsTable
  <2>2. QED BY <1>2, <2>1, NamesFitHere, AdditionAdds
<1>3. CASE routes' = WithoutSource(routes, s)
  BY <1>3, NamesFitHere, RemovalKeepsTable, RemovalRemoves
<1>4. ASSUME NEW new \in ConfigEntries, ReplaceAccepted(routes, s, new),
             routes' = Replaced(routes, s, new)
      PROVE  /\ IsTable(routes')
             /\ \A t : t # s => Owned(routes', t) = Owned(routes, t)
             /\ \A r \in routes' : r \in routes \/ r.source = s
  <2>1. \A i \in DOMAIN new : new[i] \in Request
    BY SockServerAssumption
  <2>2. IsTable(routes')
    BY <1>4, <2>1, NamesFitHere, ReplacementKeepsTable
  <2>3. Owned(routes', s) = NewRoutes(s, new)
        /\ \A t : t # s => Owned(routes', t) = Owned(routes, t)
    BY <1>4, NamesFitHere, ReplacementReplaces
  <2>4. \A r \in routes' : r \in routes \/ r.source = s
    BY <2>3 DEF Owned
  <2>5. QED BY <2>2, <2>3, <2>4
<1>5. QED BY <1>1, <1>2, <1>3, <1>4 DEF Changes

\* The owners whose routes a step of connection c may change.
OwnersOf(c) == {SocketSource(id[c])} \cup {ManualSource(n) : n \in Name}

\* A step of one connection or of its client changes the routes of one owner,
\* its own or a name's, its own only while it runs; it leaves it running unless
\* it removes them; and it leaves every other connection where it is.
LEMMA ConnectionStep ==
    ASSUME LocalType, NEW c \in Conn, Client(c) \/ Accept(c) \/ serveConn(c)
    PROVE  /\ \E s \in OwnersOf(c) : Changes(s)
           /\ \/ routes' = routes
              \/ pc[c] = "serving" /\ pc'[c] = "replying" /\ id'[c] = id[c]
              \/ /\ pc[c] = "returning" /\ pc'[c] = "closing"
                 /\ routes' = WithoutSource(routes, SocketSource(id[c]))
           /\ pc[c] \in Active =>
                  \/ pc'[c] \in Active /\ id'[c] = id[c]
                  \/ routes' = WithoutSource(routes, SocketSource(id[c]))
           /\ phase' = phase
           /\ \A d \in Conn : d # c => UNCHANGED Local(d)
<1> USE DEF LocalType, Local, Active, Goto, daemonVars
<1>1. routes' = routes => \E s \in OwnersOf(c) : Changes(s)
  BY DEF OwnersOf, Changes
<1>2. CASE Client(c)
  BY <1>1, <1>2 DEF Client, Connect, Send, Hangup
<1>3. CASE Accept(c)
  BY <1>1, <1>3 DEF Accept
<1>4. CASE Begin(c)
  BY <1>1, <1>4 DEF Begin
<1>5. ASSUME NEW m \in Message, Decode(c, m),
             \/ Register(c, m) \/ handleExpose(c, m) \/ handleUnexpose(c, m)
             \/ Query(c, m) \/ Bye(c, m) \/ Shutdown(c, m) \/ DecodeError(c, m)
      PROVE  /\ \E s \in OwnersOf(c) : Changes(s)
             /\ pc[c] = "serving" /\ pc'[c] = "replying" /\ id'[c] = id[c]
             /\ phase' = phase
             /\ \A d \in Conn : d # c => UNCHANGED Local(d)
  <2>1. /\ pc[c] = "serving" /\ pc'[c] = "replying" /\ id'[c] = id[c]
        /\ phase' = phase
        /\ \A d \in Conn : d # c => UNCHANGED <<pc[d], id[d], deadline[d], acked[d]>>
    BY <1>5 DEF Decode
  <2>2. \A d \in Conn : d # c => reply'[d] = reply[d]
    BY <1>5 DEF Register, handleExpose, AddEntry, handleUnexpose, Query, Bye,
                Shutdown, DecodeError, Answers
  <2>3. \E s \in OwnersOf(c) : Changes(s)
    <3>1. CASE Register(c, m)
      BY <3>1, AddEntryCases DEF Register, OwnersOf, Changes, validateRoute
    <3>2. CASE handleExpose(c, m)
      <4>1. PICK valid \in BOOLEAN :
                /\ valid = (m.name \in Name /\ validateRoute(m.hosts, m.upstream))
                /\ AddEntry(c, m, ManualSource(m.name), valid)
        BY <3>2 DEF handleExpose
      <4>2. \/ m.name \in Name /\ Changes(ManualSource(m.name))
            \/ routes' = routes
        BY <4>1, AddEntryCases DEF Changes
      <4>3. QED BY <1>1, <4>2 DEF OwnersOf
    <3>3. CASE handleUnexpose(c, m)
      BY <1>1, <3>3 DEF handleUnexpose, OwnersOf, Changes
    <3>4. CASE Query(c, m) \/ Bye(c, m) \/ Shutdown(c, m) \/ DecodeError(c, m)
      BY <1>1, <3>4 DEF Query, Bye, Shutdown, DecodeError
    <3>5. QED BY <1>5, <3>1, <3>2, <3>3, <3>4
  <2>4. QED BY <2>1, <2>2, <2>3
<1>6. CASE HandshakeTimeout(c)
  BY <1>1, <1>6 DEF HandshakeTimeout
<1>7. CASE EndOfStream(c)
  BY <1>1, <1>7 DEF EndOfStream
<1>8. CASE Reply(c)
  BY <1>1, <1>8 DEF Reply
<1>9. CASE ReplyFails(c)
  BY <1>1, <1>9 DEF ReplyFails
<1>10. CASE Cleanup(c)
  <2>1. Changes(SocketSource(id[c])) BY <1>10 DEF Cleanup, Changes
  <2>2. QED BY <1>10, <2>1 DEF Cleanup, OwnersOf
<1>11. CASE CloseConn(c)
  BY <1>1, <1>11 DEF CloseConn
<1>12. QED BY <1>2, <1>3, <1>4, <1>5, <1>6, <1>7, <1>8, <1>9, <1>10, <1>11
           DEF serveConn, Register, handleExpose, handleUnexpose, Query, Bye,
               Shutdown, DecodeError

-----------------------------------------------------------------------------
(* The invariant.                                                          *)

\* A socket owner is known by its number.
LEMMA SocketOwner ==
    ASSUME NEW s \in Sources, s[1] = "socket"
    PROVE  s = SocketSource(s[2])
BY DEF Sources, SocketSource, ConfigSource

\* A route is owned by one of Sources.
LEMMA RouteOwner ==
    ASSUME NEW r \in Route
    PROVE  r.source \in Sources
BY DEF Route

\* The routes of a connection survive a change to another owner's.
LEMMA StillInForce ==
    ASSUME IsTable(routes), NEW c \in Conn, NEW s \in Sources, Changes(s),
           s # SocketSource(id[c]), id'[c] = id[c], NEW m, InForce(c, m)
    PROVE  InForce(c, m)'
<1>1. Owned(routes', SocketSource(id[c])) = Owned(routes, SocketSource(id[c]))
  BY ChangesOneOwner
<1>2. NewRoute(SocketSource(id[c]), m.hosts, m.upstream).source = SocketSource(id[c])
  BY DEF NewRoute
<1>3. QED BY <1>1, <1>2 DEF InForce, Owned

\* Decoding and handling one message: a registration that succeeds is in the
\* table, and whatever else happens leaves the earlier one there.
LEMMA DecodeStep ==
    ASSUME LocalType, LocalType', IsTable(routes), NEW c \in Conn, ConnOK(c),
           NEW m \in Message, Decode(c, m),
           \/ Register(c, m) \/ handleExpose(c, m) \/ handleUnexpose(c, m)
           \/ Query(c, m) \/ Bye(c, m) \/ Shutdown(c, m) \/ DecodeError(c, m)
    PROVE  ConnOK(c)'
<1>1. /\ pc[c] = "serving" /\ pc'[c] = "replying" /\ id'[c] = id[c] /\ id[c] > 0
      /\ deadline'[c] = FALSE /\ acked'[c] = acked[c]
      /\ acked[c] # None => InForce(c, acked[c])
      /\ reply'[c] \in Answer
  BY DEF Decode, Goto, LocalType, ConnOK, Active
<1>2. ASSUME NEW t, t = Told(c)', t # None PROVE InForce(c, t)'
  <2>1. \A good \in BOOLEAN : \A then : Answers(c, m, good, then) =>
            reply'[c].confirms = IF good /\ m.op = "register" THEN m ELSE None
    BY DEF Answers, LocalType
  <2>2. CASE routes' = routes /\ reply'[c].confirms = None
    <3>1. Told(c)' = acked[c] BY <1>1, <2>2 DEF Told
    <3>2. QED BY <1>1, <1>2, <2>2, <3>1 DEF InForce
  <2>3. ASSUME NEW name \in Name, Changes(ManualSource(name)),
               reply'[c].confirms = None
        PROVE  InForce(c, t)'
    <3>1. Told(c)' = acked[c] BY <1>1, <2>3 DEF Told
    <3>2. ManualSource(name) \in Sources
          /\ ManualSource(name) # SocketSource(id[c])
      BY OwnersDiffer
    <3>3. QED BY <1>1, <1>2, <2>3, <3>1, <3>2, StillInForce
  <2>4. CASE Register(c, m)
    <3> DEFINE valid == validateRoute(m.hosts, m.upstream)
    <3>1. valid \in BOOLEAN /\ AddEntry(c, m, SocketSource(id[c]), valid)
      BY <2>4 DEF Register, validateRoute
    <3> HIDE DEF valid
    <3>2. CASE /\ routes' = Added(routes, SocketSource(id[c]), m.hosts, m.upstream)
               /\ Answers(c, m, TRUE, "serving")
      <4>1. reply'[c].confirms = m BY <2>1, <2>4, <3>2 DEF Register
      <4>2. Told(c)' = m BY <4>1, MessageFields DEF Told
      <4>3. NewRoute(SocketSource(id[c]), m.hosts, m.upstream) \in routes'
        BY <3>2, NamesFitHere, AdditionAdds
      <4>4. QED BY <1>1, <1>2, <4>2, <4>3 DEF InForce
    <3>3. CASE routes' = routes /\ Answers(c, m, FALSE, "serving")
      BY <2>1, <2>2, <3>3
    <3>4. QED BY <3>1, <3>2, <3>3, AddEntryCases
  <2>5. CASE handleExpose(c, m)
    <3>1. PICK valid \in BOOLEAN :
              /\ valid = (m.name \in Name /\ validateRoute(m.hosts, m.upstream))
              /\ AddEntry(c, m, ManualSource(m.name), valid)
      BY <2>5 DEF handleExpose
    <3>2. reply'[c].confirms = None
      BY <2>1, <2>5, <3>1, AddEntryCases DEF handleExpose
    <3>3. \/ m.name \in Name /\ Changes(ManualSource(m.name))
          \/ routes' = routes
      BY <3>1, AddEntryCases DEF Changes
    <3>4. QED BY <2>2, <2>3, <3>2, <3>3
  <2>6. CASE handleUnexpose(c, m)
    <3>1. reply'[c].confirms = None
      BY <2>1, <2>6 DEF handleUnexpose
    <3>2. \/ m.name \in Name /\ Changes(ManualSource(m.name))
          \/ routes' = routes
      BY <2>6 DEF handleUnexpose, Changes
    <3>3. QED BY <2>2, <2>3, <3>1, <3>2
  <2>7. CASE Query(c, m) \/ Bye(c, m) \/ Shutdown(c, m) \/ DecodeError(c, m)
    BY <2>1, <2>2, <2>7 DEF Query, Bye, Shutdown, DecodeError
  <2>8. QED BY <2>4, <2>5, <2>6, <2>7
<1>3. QED BY <1>1, <1>2 DEF ConnOK, Early, Active

\* A step of a connection or of its client keeps what is known of it.
LEMMA OwnStep ==
    ASSUME LocalType, LocalType', IsTable(routes), NEW c \in Conn, ConnOK(c),
           Client(c) \/ Accept(c) \/ serveConn(c)
    PROVE  ConnOK(c)'
<1> USE DEF LocalType, Goto, daemonVars
<1>1. \A d \in Conn : Told(d) = IF reply[d].confirms # None
                                THEN reply[d].confirms ELSE acked[d]
  BY DEF Told
<1>2. CASE Connect(c)
  BY <1>2 DEF Connect, ConnOK, Early, Active
<1>3. ASSUME UNCHANGED routes, UNCHANGED Local(c) PROVE ConnOK(c)'
  <2>1. Owned(routes, SocketSource(id[c])) \subseteq routes' BY <1>3 DEF Owned
  <2>2. QED BY <1>3, <2>1, ConnFrame
<1>4. ASSUME NEW m \in Message, Send(c, m) PROVE ConnOK(c)'
  BY <1>3, <1>4 DEF Send, Local
<1>5. CASE Hangup(c)
  BY <1>3, <1>5 DEF Hangup, Local
<1>6. CASE Accept(c)
  BY <1>6 DEF Accept, ConnOK, Early, Active
<1>7. CASE Begin(c)
  BY <1>7 DEF Begin, ConnOK, Early, Active
<1>8. CASE HandshakeTimeout(c)
  <2>1. /\ pc'[c] = "replying" /\ reply'[c].confirms = None
        /\ acked'[c] = None /\ id'[c] = id[c] /\ id[c] > 0 /\ reply'[c] \in Answer
    BY <1>8 DEF HandshakeTimeout, ConnOK, Active
  <2>2. Told(c)' = None BY <2>1 DEF Told
  <2>3. QED BY <2>1, <2>2 DEF ConnOK, Early, Active
<1>9. CASE EndOfStream(c)
  BY <1>9 DEF EndOfStream, ConnOK, Early, Active
<1>10. CASE Reply(c)
  <2>1. /\ pc[c] = "replying" /\ id'[c] = id[c] /\ routes' = routes
        /\ pc'[c] \in {"serving", "returning"}
        /\ acked'[c] = Told(c) /\ deadline'[c] = deadline[c]
    BY <1>10, <1>1 DEF Reply
  <2>2. ASSUME NEW t, t = Told(c), t # None PROVE InForce(c, t)'
    BY <2>1, <2>2 DEF ConnOK, InForce
  <2>3. deadline[c] => Told(c) = None BY <1>1, <2>1 DEF ConnOK
  <2>4. id[c] > 0 BY <2>1 DEF ConnOK, Active
  <2>5. acked'[c] # None => InForce(c, acked[c])'
    <3>1. ASSUME NEW t, t = acked'[c], t # None
          PROVE  NewRoute(SocketSource(id'[c]), t.hosts, t.upstream) \in routes'
      BY <2>1, <2>2, <3>1 DEF InForce
    <3>2. QED BY <3>1 DEF InForce
  <2>6. QED BY <2>1, <2>3, <2>4, <2>5 DEF ConnOK, Early, Active
<1>11. CASE ReplyFails(c)
  BY <1>11 DEF ReplyFails, ConnOK, Early, Active
<1>12. CASE Cleanup(c)
  BY <1>12 DEF Cleanup, ConnOK, Early, Active
<1>13. CASE CloseConn(c)
  BY <1>13 DEF CloseConn, ConnOK, Early, Active
<1>14. QED BY <1>2, <1>4, <1>5, <1>6, <1>7, <1>8, <1>9, <1>10, <1>11, <1>12, <1>13,
              DecodeStep
           DEF Client, serveConn, Register, handleExpose, handleUnexpose, Query,
               Bye, Shutdown, DecodeError

\* Nobody has connected.
LEMMA InitIInv == Init => IInv
<1> SUFFICES ASSUME Init PROVE IInv
  OBVIOUS
<1> USE DEF Init
<1>1. TypeOK
  <2>1. <<>> \in Seq(Message) OBVIOUS
  <2>2. QED BY <2>1 DEF TypeOK, Where
<1>2. HostsDisjoint(routes) /\ NoOrphanRoutes
  BY DEF HostsDisjoint, NoOrphanRoutes
<1>3. Numbered BY DEF Numbered
<1>4. \A c \in Conn : ConnOK(c) BY DEF ConnOK, Early, Active
<1>5. QED BY <1>1, <1>2, <1>3, <1>4 DEF IInv

\* What NextLocalType asks for is part of the invariant.
LEMMA HasLocalType == IInv => LocalType
BY DEF IInv, TypeOK, LocalType, ConnOK

\* A step of a connection or of its client keeps the invariant.
LEMMA ConnectionKeeps ==
    ASSUME IInv, LocalType, LocalType', NEW c \in Conn,
           Client(c) \/ Accept(c) \/ serveConn(c)
    PROVE  IInv'
<1> DEFINE own == SocketSource(id[c])
<1>1. IsTable(routes) BY DEF IInv, TypeOK, IsTable
<1>2. PICK s \in OwnersOf(c) : Changes(s) BY ConnectionStep
<1>3. s \in Sources BY OwnersDiffer DEF OwnersOf, LocalType
<1>4. /\ IsTable(routes')
      /\ \A t : t # s => Owned(routes', t) = Owned(routes, t)
      /\ \A r \in routes' : r \in routes \/ r.source = s
  BY <1>1, <1>2, <1>3, ChangesOneOwner
<1>5. \A d \in Conn : d # c => UNCHANGED Local(d)
  BY ConnectionStep
<1>6. Numbered'
  <2>1. CASE Begin(c)
    <3>1. /\ connID' = connID + 1 /\ id'[c] = connID + 1
          /\ \A d \in Conn : d # c => id'[d] = id[d]
      BY <2>1 DEF Begin, LocalType
    <3>2. \A d \in Conn : id[d] \in Nat /\ id[d] <= connID
      BY DEF IInv, Numbered, LocalType
    <3>3. connID \in Nat BY DEF LocalType
    <3>4. \A d \in Conn : id'[d] <= connID'
      BY <3>1, <3>2, <3>3
    <3>5. \A d \in Conn : d # c => id'[d] # id'[c]
      BY <3>1, <3>2, <3>3
    <3>6. QED BY <3>1, <3>4, <3>5 DEF IInv, Numbered
  <2>2. CASE id' = id /\ connID' = connID
    BY <2>2 DEF IInv, Numbered
  <2>3. QED
    BY <2>1, <2>2 DEF Client, Connect, Send, Hangup, Accept, serveConn, Register,
       handleExpose, handleUnexpose, Query, Bye, Shutdown, DecodeError, Decode,
       HandshakeTimeout, EndOfStream, Reply, ReplyFails, Cleanup, CloseConn
<1>7. ASSUME NEW d \in Conn PROVE ConnOK(d)'
  <2>1. CASE d = c BY <1>1, <2>1, OwnStep DEF IInv
  <2>2. CASE d # c /\ pc[d] \in Active
    <3>1. id[d] > 0 BY <2>2 DEF IInv, ConnOK
    <3>2. SocketSource(id[d]) # s
      BY <1>2, <2>2, <3>1, OwnNumbers, OwnersDiffer DEF IInv, OwnersOf
    <3>3. Owned(routes, SocketSource(id[d])) \subseteq routes'
      BY <1>4, <3>2 DEF Owned
    <3>4. QED BY <1>5, <2>2, <3>3, ConnFrame DEF IInv
  <2>3. CASE d # c /\ pc[d] \notin Active
    BY <1>5, <2>3, ConnFrame DEF IInv
  <2>4. QED BY <2>1, <2>2, <2>3
<1>8. ASSUME NEW r \in routes', r.source[1] = "socket"
      PROVE  Served(r.source[2])'
  <2>1. r.source = SocketSource(r.source[2])
    BY <1>4, <1>8, RouteOwner, SocketOwner DEF IsTable
  <2>2. CASE r \in routes
    <3>1. PICK d \in Conn : id[d] = r.source[2] /\ pc[d] \in Active
      BY <1>8, <2>2 DEF IInv, NoOrphanRoutes, Served, Active
    <3>2. CASE d # c BY <1>5, <3>1, <3>2 DEF Local, Served, Active
    <3>3. CASE d = c
      <4>1. routes' # WithoutSource(routes, own)
        BY <1>8, <2>1, <3>1, <3>3 DEF WithoutSource
      <4>2. pc'[c] \in Active /\ id'[c] = id[c]
        BY <3>1, <3>3, <4>1, ConnectionStep
      <4>3. QED BY <3>1, <3>3, <4>2 DEF Served, Active
    <3>4. QED BY <3>2, <3>3
  <2>3. CASE r \notin routes
    <3>1. r.source = s BY <1>4, <2>3
    <3>2. r.source = own BY <1>2, <1>8, <3>1, OwnersDiffer DEF OwnersOf
    <3>3. r.source[2] = id[c] BY <3>2, OwnersDiffer
    <3>4. routes' # routes /\ routes' # WithoutSource(routes, own)
      BY <1>8, <2>3 DEF WithoutSource
    <3>5. pc'[c] \in Active /\ id'[c] = id[c] BY <3>4, ConnectionStep DEF Active
    <3>6. QED BY <3>3, <3>5 DEF Served, Active
  <2>4. QED BY <2>2, <2>3
<1>9. NoOrphanRoutes' BY <1>8 DEF NoOrphanRoutes
<1>10. TypeOK' /\ HostsDisjoint(routes')
  BY <1>4 DEF IsTable, TypeOK, LocalType
<1>11. QED BY <1>6, <1>7, <1>9, <1>10 DEF IInv

\* Every step keeps the invariant.
LEMMA IInvStep == IInv /\ [Next]_vars => IInv'
<1> SUFFICES ASSUME IInv, [Next]_vars PROVE IInv'
  OBVIOUS
<1>1. LocalType /\ LocalType'
  BY HasLocalType, NextLocalType
<1>2. IsTable(routes) BY DEF IInv, TypeOK, IsTable
<1>3. ASSUME NEW c \in Conn, Client(c) \/ Accept(c) \/ serveConn(c)
      PROVE  IInv'
  BY <1>1, <1>3, ConnectionKeeps
<1>4. ASSUME NEW new \in ConfigEntries, Reload(new) PROVE IInv'
  <2>1. Changes(ConfigSource) BY <1>4 DEF Reload, Changes
  <2>2. ConfigSource \in Sources BY OwnersDiffer
  <2>3. /\ IsTable(routes')
        /\ \A t : t # ConfigSource => Owned(routes', t) = Owned(routes, t)
        /\ \A r \in routes' : r \in routes \/ r.source = ConfigSource
    BY <1>2, <2>1, <2>2, ChangesOneOwner
  <2>4. UNCHANGED connVars BY <1>4 DEF Reload
  <2>5. ASSUME NEW c \in Conn PROVE ConnOK(c)'
    <3>1. UNCHANGED Local(c) BY <2>4 DEF connVars, Local
    <3>2. Owned(routes', SocketSource(id[c])) = Owned(routes, SocketSource(id[c]))
      BY <2>3, OwnersDiffer
    <3>3. Owned(routes, SocketSource(id[c])) \subseteq routes'
      BY <3>2 DEF Owned
    <3>4. QED BY <3>1, <3>3, ConnFrame DEF IInv
  <2>6. Numbered' BY <2>4 DEF connVars, IInv, Numbered
  <2>7. NoOrphanRoutes'
    <3>1. \A r \in routes' : r.source[1] = "socket" => r \in routes
      BY <2>3, OwnersDiffer
    <3>2. QED BY <2>4, <3>1 DEF connVars, IInv, NoOrphanRoutes, Served
  <2>8. TypeOK' /\ HostsDisjoint(routes')
    BY <1>1, <2>3 DEF IsTable, TypeOK, LocalType
  <2>9. QED BY <2>5, <2>6, <2>7, <2>8 DEF IInv
<1>5. ASSUME UNCHANGED <<routes, connVars>> PROVE IInv'
  <2>1. TypeOK' BY <1>1, <1>2, <1>5 DEF IsTable, TypeOK, LocalType
  <2>2. HostsDisjoint(routes') BY <1>5 DEF IInv
  <2>3. Numbered' /\ NoOrphanRoutes'
    BY <1>5 DEF IInv, Numbered, NoOrphanRoutes, Served, connVars
  <2>4. \A c \in Conn : ConnOK(c)'
    BY <1>5 DEF IInv, ConnOK, InForce, Told, connVars
  <2>5. QED BY <2>1, <2>2, <2>3, <2>4 DEF IInv
<1>6. CASE Signal \/ OnShutdown
  BY <1>5, <1>6 DEF Signal, OnShutdown, connVars
<1>7. CASE Close
  <2>1. /\ \A c \in Conn : pc'[c] = IF pc[c] = "backlog" THEN "done" ELSE pc[c]
        /\ UNCHANGED <<routes, connID, id, deadline, reply, acked>>
    BY <1>7 DEF Close
  <2>2. TypeOK' BY <1>1, <1>2, <2>1 DEF IsTable, TypeOK, LocalType
  <2>3. HostsDisjoint(routes') /\ Numbered'
    BY <2>1 DEF IInv, Numbered
  <2>4. NoOrphanRoutes' BY <2>1 DEF IInv, NoOrphanRoutes, Served
  <2>5. \A c \in Conn : ConnOK(c)'
    BY <2>1 DEF IInv, ConnOK, InForce, Told, Early, Active
  <2>6. QED BY <2>2, <2>3, <2>4, <2>5 DEF IInv
<1>8. CASE Gone
  <2>1. /\ routes' = {} /\ UNCHANGED <<connID, id>>
        /\ \A c \in Conn : /\ pc'[c] \in {"none", "done"}
                           /\ pc'[c] = "none" => pc[c] = "none"
                           /\ acked'[c] = None /\ deadline'[c] = FALSE
    BY <1>8 DEF Gone
  <2>2. TypeOK' BY <1>1, <2>1 DEF TypeOK, LocalType
  <2>3. HostsDisjoint(routes') /\ Numbered' /\ NoOrphanRoutes'
    BY <2>1 DEF IInv, HostsDisjoint, Numbered, NoOrphanRoutes
  <2>4. \A c \in Conn : ConnOK(c)'
    BY <2>1 DEF IInv, ConnOK, Early, Active
  <2>5. QED BY <2>2, <2>3, <2>4 DEF IInv
<1>9. CASE UNCHANGED vars
  BY <1>5, <1>9 DEF vars
<1>10. QED BY <1>3, <1>4, <1>6, <1>7, <1>8, <1>9 DEF Next, Teardown, Exit, Crash

-----------------------------------------------------------------------------
(* The theorems.                                                           *)

\* The daemon's variables have their types, whatever clients send and whenever
\* they vanish.
THEOREM TypeCorrect == Spec => []TypeOK
<1>1. IInv => TypeOK BY DEF IInv
<1>2. QED BY <1>1, InitIInv, IInvStep, PTL DEF Spec

\* A route registered over a connection exists only while that connection is
\* served: the deferred cleanup of serveConn has run before it is closed.
THEOREM NoOrphans == Spec => []NoOrphanRoutes
<1>1. IInv => NoOrphanRoutes BY DEF IInv
<1>2. QED BY <1>1, InitIInv, IInvStep, PTL DEF Spec

\* A registration that was acknowledged is in force for as long as its
\* connection waits for the next request.
THEOREM RegistrationsHold == Spec => []AckedRegistrationHolds
<1>1. IInv => AckedRegistrationHolds
  BY DEF IInv, ConnOK, AckedRegistrationHolds, InForce
<1>2. QED BY <1>1, InitIInv, IInvStep, PTL DEF Spec

\* A registered connection that is quiet is not closed by the daemon: once a
\* registration has been acknowledged, no deadline is armed.
THEOREM QuietCorrect == Spec => QuietConnectionsStay
<1>1. ASSUME IInv, [Next]_vars
      PROVE  [\A c \in Conn :
                 (pc[c] = "serving" /\ acked[c] # None
                      /\ client[c] = "open" /\ inbox[c] = <<>>)
                     => pc'[c] = "serving" \/ phase' = "exited"]_vars
  <2> SUFFICES ASSUME ~UNCHANGED vars, NEW c \in Conn, pc[c] = "serving",
                      acked[c] # None, client[c] = "open", inbox[c] = <<>>,
                      phase' # "exited"
               PROVE  pc'[c] = "serving"
    OBVIOUS
  <2>1. LocalType /\ ~deadline[c]
    BY <1>1, HasLocalType DEF IInv, ConnOK
  <2>2. ASSUME NEW d \in Conn, d # c, Client(d) \/ Accept(d) \/ serveConn(d)
        PROVE  pc'[c] = "serving"
    BY <2>1, <2>2, ConnectionStep DEF Local
  <2>3. ~serveConn(c)
    BY <2>1 DEF serveConn, Begin, Register, handleExpose, handleUnexpose, Query, Bye,
       Shutdown, DecodeError, Decode, HandshakeTimeout, EndOfStream, Reply,
       ReplyFails, Cleanup, CloseConn
  <2>4. CASE Client(c) \/ Accept(c)
    BY <2>4 DEF Client, Connect, Send, Hangup, Accept
  <2>5. ASSUME NEW new \in ConfigEntries, Reload(new) PROVE pc'[c] = "serving"
    BY <2>5 DEF Reload, connVars
  <2>6. CASE Signal \/ OnShutdown \/ Close
    BY <2>6 DEF Signal, OnShutdown, Close, connVars
  <2>7. QED BY <1>1, <2>2, <2>3, <2>4, <2>5, <2>6 DEF Next, Teardown, Exit, Crash, Gone
<1>2. QED BY <1>1, InitIInv, IInvStep, PTL DEF Spec, QuietConnectionsStay

\* The routes of a connection change only in a step of its own handler, or when
\* the process ends.
THEOREM OwnHandlerOnly == Spec => OnlyOwnHandlerChanges
<1>1. ASSUME IInv, [Next]_vars
      PROVE  [\A c \in Conn :
                 pc[c] \in {"serving", "replying", "returning"} =>
                     \/ Owned(routes', SocketSource(id[c])) = Owned(routes, SocketSource(id[c]))
                     \/ pc'[c] # pc[c]
                     \/ phase' = "exited"]_vars
  <2> SUFFICES ASSUME ~UNCHANGED vars, NEW c \in Conn, pc[c] \in Active,
                      pc'[c] = pc[c], phase' # "exited"
               PROVE  Owned(routes', SocketSource(id[c])) = Owned(routes, SocketSource(id[c]))
    BY DEF Active
  <2>1. /\ IsTable(routes) /\ LocalType /\ Numbered /\ id[c] > 0
    BY <1>1, HasLocalType DEF IInv, ConnOK, IsTable, TypeOK
  <2>2. ASSUME NEW d \in Conn, Client(d) \/ Accept(d) \/ serveConn(d)
        PROVE  Owned(routes', SocketSource(id[c])) = Owned(routes, SocketSource(id[c]))
    <3>1. PICK s \in OwnersOf(d) : Changes(s) BY <2>1, <2>2, ConnectionStep
    <3>2. s \in Sources BY <2>1, OwnersDiffer DEF OwnersOf, LocalType
    <3>3. CASE s # SocketSource(id[c])
      BY <2>1, <3>1, <3>2, <3>3, ChangesOneOwner
    <3>4. CASE s = SocketSource(id[c])
      <4>1. s = SocketSource(id[d]) BY <3>1, <3>4, OwnersDiffer DEF OwnersOf
      <4>2. d = c BY <2>1, <3>4, <4>1, OwnNumbers
      <4>3. routes' = routes BY <2>1, <2>2, <4>2, ConnectionStep
      <4>4. QED BY <4>3
    <3>5. QED BY <3>3, <3>4
  <2>3. ASSUME NEW new \in ConfigEntries, Reload(new)
        PROVE  Owned(routes', SocketSource(id[c])) = Owned(routes, SocketSource(id[c]))
    <3>1. Changes(ConfigSource) BY <2>3 DEF Reload, Changes
    <3>2. QED BY <2>1, <3>1, OwnersDiffer, ChangesOneOwner
  <2>4. CASE Signal \/ OnShutdown \/ Close
    BY <2>4 DEF Signal, OnShutdown, Close
  <2>5. QED BY <1>1, <2>2, <2>3, <2>4 DEF Next, Teardown, Exit, Crash, Gone
<1>2. QED BY <1>1, InitIInv, IInvStep, PTL DEF Spec, OnlyOwnHandlerChanges

\* An exposed route goes only by an expose or unexpose of its name, or with the
\* process: not with the connection that exposed it, nor by a reload.
THEOREM ExposedCorrect == Spec => ExposedRoutesSurviveConnections
<1> DEFINE Asked(r) == \E c \in Conn :
                /\ pc[c] = "serving" /\ inbox[c] # <<>>
                /\ inbox'[c] = Tail(inbox[c])
                /\ Head(inbox[c]).op \in {"expose", "unexpose"}
                /\ ManualSource(Head(inbox[c]).name) = r.source
<1>1. ASSUME IInv, [Next]_vars
      PROVE  [\A r \in routes \ routes' : r.source[1] = "manual" =>
                 \/ phase' = "exited"
                 \/ \E c \in Conn :
                        /\ pc[c] = "serving" /\ inbox[c] # <<>>
                        /\ inbox'[c] = Tail(inbox[c])
                        /\ Head(inbox[c]).op \in {"expose", "unexpose"}
                        /\ ManualSource(Head(inbox[c]).name) = r.source]_vars
  <2> SUFFICES ASSUME ~UNCHANGED vars, NEW r \in routes, r \notin routes',
                      r.source[1] = "manual", phase' # "exited"
               PROVE  Asked(r)
    OBVIOUS
  <2>1. IsTable(routes) /\ LocalType
    BY <1>1, HasLocalType DEF IInv, IsTable, TypeOK
  <2>2. ASSUME NEW s \in Sources, Changes(s) PROVE r.source = s
    <3>1. \A t : t # s => Owned(routes', t) = Owned(routes, t)
      BY <2>1, <2>2, ChangesOneOwner
    <3>2. QED BY <3>1 DEF Owned
  <2>3. ASSUME NEW c \in Conn, Client(c) \/ Accept(c) \/ serveConn(c)
        PROVE  Asked(r)
    <3>1. ASSUME NEW m \in Message, handleExpose(c, m) \/ handleUnexpose(c, m)
          PROVE  Asked(r)
      <4>1. /\ pc[c] = "serving" /\ inbox[c] # <<>> /\ m = Head(inbox[c])
            /\ inbox'[c] = Tail(inbox[c]) /\ m.op \in {"expose", "unexpose"}
        BY <2>1, <3>1 DEF handleExpose, handleUnexpose, Decode, LocalType
      <4>2. m.name \in Name /\ Changes(ManualSource(m.name))
        <5>1. CASE handleExpose(c, m)
          <6>1. PICK valid \in BOOLEAN :
                    /\ valid = (m.name \in Name /\ validateRoute(m.hosts, m.upstream))
                    /\ AddEntry(c, m, ManualSource(m.name), valid)
            BY <5>1 DEF handleExpose
          <6>2. valid /\ Changes(ManualSource(m.name))
            BY <6>1, AddEntryCases DEF Changes
          <6>3. QED BY <6>1, <6>2
        <5>2. CASE handleUnexpose(c, m)
          BY <5>2 DEF handleUnexpose, Changes
        <5>3. QED BY <3>1, <5>1, <5>2
      <4>3. r.source = ManualSource(m.name) BY <2>2, <4>2, OwnersDiffer
      <4>4. QED BY <4>1, <4>3
    <3>2. ASSUME Changes(SocketSource(id[c])) PROVE FALSE
      BY <2>1, <2>2, <3>2, OwnersDiffer DEF LocalType
    <3>3. ASSUME NEW m \in Message, Register(c, m) PROVE FALSE
      <4>1. PICK valid \in BOOLEAN : AddEntry(c, m, SocketSource(id[c]), valid)
        BY <3>3 DEF Register, validateRoute
      <4>2. Changes(SocketSource(id[c])) BY <4>1, AddEntryCases DEF Changes
      <4>3. QED BY <3>2, <4>2
    <3>4. ASSUME Cleanup(c) PROVE FALSE
      BY <3>2, <3>4 DEF Cleanup, Changes
    <3>5. QED
      BY <2>3, <3>1, <3>3, <3>4 DEF Client, Connect, Send, Hangup, Accept, serveConn,
         Begin, Query, Bye, Shutdown, DecodeError, HandshakeTimeout, EndOfStream,
         Reply, ReplyFails, CloseConn
  <2>4. ASSUME NEW new \in ConfigEntries, Reload(new) PROVE FALSE
    <3>1. Changes(ConfigSource) BY <2>4 DEF Reload, Changes
    <3>2. QED BY <2>2, <3>1, OwnersDiffer
  <2>5. CASE Signal \/ OnShutdown \/ Close
    BY <2>5 DEF Signal, OnShutdown, Close
  <2>6. QED BY <1>1, <2>3, <2>4, <2>5 DEF Next, Teardown, Exit, Crash, Gone
<1>2. QED BY <1>1, InitIInv, IInvStep, PTL DEF Spec, ExposedRoutesSurviveConnections

-----------------------------------------------------------------------------
(* SockServer implements RouteLease.                                       *)

\* Once the process has ended, no connection is served.
AllOver == phase = "exited" => \A c \in Conn : pc[c] \in {"none", "done"}

\* Nothing is accepted by a process that has ended.
LEMMA AllOverStep ==
    ASSUME LocalType, AllOver, [Next]_vars
    PROVE  AllOver'
<1> USE DEF AllOver, Goto, daemonVars, connVars
<1>1. ASSUME NEW c \in Conn, Client(c) \/ Accept(c) \/ serveConn(c)
      PROVE  AllOver'
  <2>1. phase' = phase BY <1>1, ConnectionStep
  <2>2. \A d \in Conn : d # c => pc'[d] = pc[d] BY <1>1, ConnectionStep DEF Local
  <2>3. pc[c] \in {"none", "done"} /\ phase = "exited" => pc'[c] = pc[c]
    BY <1>1 DEF Client, Connect, Listening, Send, Hangup, Accept, serveConn, Begin,
       Register, handleExpose, handleUnexpose, Query, Bye, Shutdown, DecodeError,
       Decode, HandshakeTimeout, EndOfStream, Reply, ReplyFails, Cleanup, CloseConn
  <2>4. QED BY <2>1, <2>2, <2>3
<1>2. ASSUME NEW new \in ConfigEntries, Reload(new) PROVE AllOver'
  BY <1>2 DEF Reload
<1>3. CASE Signal \/ OnShutdown \/ Close
  BY <1>3 DEF Signal, OnShutdown, Close
<1>4. CASE Gone
  BY <1>4 DEF Gone
<1>5. CASE UNCHANGED vars
  BY <1>5 DEF vars
<1>6. QED BY <1>1, <1>2, <1>3, <1>4, <1>5 DEF Next, Teardown, Exit, Crash

\* What an operator of RouteSet says of a table does not depend on who uses it.
LEMMA LeaseOperators ==
    /\ \A R, s : Lease!WithoutSource(R, s) = WithoutSource(R, s)
    /\ \A R, s, keys : Lease!Collides(R, s, keys) <=> Collides(R, s, keys)
    /\ \A R : Lease!HostsDisjoint(R) <=> HostsDisjoint(R)
BY DEF Lease!WithoutSource, WithoutSource, Lease!Collides, Collides,
       Lease!HostsDisjoint, HostsDisjoint

\* An accepted AddEntry grants its route.
LEMMA AdditionGrants ==
    ASSUME NEW s, NEW hosts, NEW u, AddAccepted(routes, s, hosts, u),
           routes' = Added(routes, s, hosts, u)
    PROVE  \E r \in routes' : r.source = s /\ Lease!Grant(r)
<1> DEFINE r == NewRoute(s, hosts, u)
<1>1. r \in routes' BY AdditionAdds
<1>2. r.source = s /\ r.hosts = normalizeHosts(hosts) BY DEF NewRoute
<1>3. Lease!Grant(r)
  BY <1>2, LeaseOperators DEF Lease!Grant, AddAccepted, Added
<1>4. QED BY <1>1, <1>2, <1>3

\* A connection whose handler runs is not over, and nobody with its number is.
LEMMA RunningIsNotOver ==
    ASSUME IInv, NEW c \in Conn, pc[c] \in Active
    PROVE  SocketSource(id[c]) \in ({"socket"} \X Nat) \ EndedSessions
<1>1. id[c] \in Nat /\ id[c] # 0
  BY DEF IInv, ConnOK, TypeOK
<1>2. \A d \in Conn : id[d] = id[c] => d = c
  BY <1>1 DEF IInv, Numbered
<1>3. SocketSource(id[c]) \notin EndedSessions
  BY <1>2, OwnersDiffer DEF EndedSessions, Active
<1>4. QED BY <1>1, <1>3 DEF SocketSource

\* No route is owned by a session that is over.
LEMMA OverOwnNothing ==
    ASSUME IInv, NEW r \in routes
    PROVE  r.source \notin EndedSessions
<1> SUFFICES ASSUME r.source \in EndedSessions PROVE FALSE
  OBVIOUS
<1>1. PICK d \in Conn : r.source = SocketSource(id[d]) /\ pc[d] \in {"closing", "done"}
                        /\ id[d] # 0
  BY DEF EndedSessions
<1>2. PICK c \in Conn : id[c] = id[d] /\ pc[c] \in Active
  BY <1>1, OwnersDiffer DEF IInv, NoOrphanRoutes, Served, Active
<1>3. QED BY <1>1, <1>2, RunningIsNotOver

\* What a step of a connection does to the sessions that are over.
LEMMA ConnectionEnds ==
    ASSUME IInv, NEW c \in Conn, Client(c) \/ Accept(c) \/ serveConn(c)
    PROVE  EndedSessions' = IF Cleanup(c) THEN EndedSessions \cup {SocketSource(id[c])}
                            ELSE EndedSessions
<1> DEFINE ended(d) == id[d] # 0 /\ pc[d] \in {"closing", "done"}
<1>0. LocalType BY HasLocalType
<1>1. \A d \in Conn : d # c => id'[d] = id[d] /\ pc'[d] = pc[d]
  BY <1>0, ConnectionStep DEF Local
<1>2. CASE Cleanup(c)
  <2>1. /\ pc[c] = "returning" /\ pc'[c] = "closing" /\ id'[c] = id[c] /\ id[c] # 0
    BY <1>0, <1>2 DEF Cleanup, Goto, LocalType, IInv, ConnOK, Active
  <2>2. QED BY <1>1, <1>2, <2>1 DEF EndedSessions
<1>3. CASE ~Cleanup(c)
  <2>1. ended(c) <=> ended(c)'
    <3>1. pc[c] \in Early => id[c] = 0 BY DEF IInv, ConnOK
    <3>2. QED
      BY <1>0, <1>3, <3>1 DEF Early, LocalType, Goto, daemonVars, Client, Connect, Send,
         Hangup, Accept, serveConn, Begin, Register, handleExpose, handleUnexpose,
         Query, Bye, Shutdown, DecodeError, Decode, HandshakeTimeout, EndOfStream,
         Reply, ReplyFails, CloseConn
  <2>2. ended(c) => id'[c] = id[c]
    BY <1>0, <1>3 DEF LocalType, Goto, daemonVars, Client, Connect, Send,
       Hangup, Accept, serveConn, Begin, Register, handleExpose, handleUnexpose,
       Query, Bye, Shutdown, DecodeError, Decode, HandshakeTimeout, EndOfStream,
       Reply, ReplyFails, CloseConn
  <2>3. QED BY <1>1, <1>3, <2>1, <2>2 DEF EndedSessions
<1>4. QED BY <1>2, <1>3

\* The steps of one connection are those of its session, or of a name.
LEMMA ConnectionLeases ==
    ASSUME IInv, AllOver, NEW c \in Conn, Client(c) \/ Accept(c) \/ serveConn(c)
    PROVE  [Lease!Next]_(Lease!leaseVars)
<1>0. LocalType BY HasLocalType
<1>1. phase' = phase BY <1>0, ConnectionStep
<1>2. EndedSessions' = IF Cleanup(c) THEN EndedSessions \cup {SocketSource(id[c])}
                       ELSE EndedSessions
  BY ConnectionEnds
<1>3. CASE routes' = routes /\ ~Cleanup(c)
  BY <1>1, <1>2, <1>3 DEF Lease!leaseVars
<1>4. CASE Cleanup(c)
  <2>1. routes' = WithoutSource(routes, SocketSource(id[c]))
    BY <1>4 DEF Cleanup
  <2>2. routes' = {r \in routes : r.source \notin EndedSessions'}
    BY <1>2, <1>4, <2>1, OverOwnNothing DEF WithoutSource
  <2>3. Lease!End
    BY <1>1, <1>2, <1>4, <2>2 DEF Lease!End
  <2>4. QED BY <2>3 DEF Lease!Next
<1>5. ASSUME NEW m \in Message, Decode(c, m), ~Cleanup(c),
             \/ Register(c, m) \/ handleExpose(c, m) \/ handleUnexpose(c, m)
             \/ Query(c, m) \/ Bye(c, m) \/ Shutdown(c, m) \/ DecodeError(c, m)
      PROVE  [Lease!Next]_(Lease!leaseVars)
  <2>1. pc[c] = "serving" BY <1>5 DEF Decode
  <2>2. phase # "exited" BY <2>1 DEF AllOver
  <2>3. CASE Register(c, m)
    <3>1. PICK valid \in BOOLEAN : AddEntry(c, m, SocketSource(id[c]), valid)
      BY <2>3 DEF Register, validateRoute
    <3>2. CASE routes' = routes BY <1>3, <1>5, <3>2
    <3>3. CASE /\ AddAccepted(routes, SocketSource(id[c]), m.hosts, m.upstream)
               /\ routes' = Added(routes, SocketSource(id[c]), m.hosts, m.upstream)
      <4>1. PICK r \in routes' : r.source = SocketSource(id[c]) /\ Lease!Grant(r)
        BY <3>3, AdditionGrants
      <4>2. r.source \in ({"socket"} \X Nat) \ EndedSessions
        BY <2>1, <4>1, RunningIsNotOver DEF Active
      <4>3. Lease!Register
        BY <1>1, <1>2, <1>5, <2>2, <4>1, <4>2 DEF Lease!Register
      <4>4. QED BY <4>3 DEF Lease!Next
    <3>4. QED BY <3>1, <3>2, <3>3, AddEntryCases
  <2>4. CASE handleExpose(c, m)
    <3>1. PICK valid \in BOOLEAN :
              /\ valid = (m.name \in Name /\ validateRoute(m.hosts, m.upstream))
              /\ AddEntry(c, m, ManualSource(m.name), valid)
      BY <2>4 DEF handleExpose
    <3>2. CASE routes' = routes BY <1>3, <1>5, <3>2
    <3>3. CASE /\ valid /\ AddAccepted(routes, ManualSource(m.name), m.hosts, m.upstream)
               /\ routes' = Added(routes, ManualSource(m.name), m.hosts, m.upstream)
      <4>1. PICK r \in routes' : r.source = ManualSource(m.name) /\ Lease!Grant(r)
        BY <3>3, AdditionGrants
      <4>2. Lease!Expose
        BY <1>1, <1>2, <1>5, <2>2, <3>1, <3>3, <4>1 DEF Lease!Expose
      <4>3. QED BY <4>2 DEF Lease!Next
    <3>4. QED BY <3>1, <3>2, <3>3, AddEntryCases
  <2>5. CASE handleUnexpose(c, m)
    <3>1. CASE routes' = routes BY <1>3, <1>5, <3>1
    <3>2. CASE m.name \in Name /\ routes' = WithoutSource(routes, ManualSource(m.name))
      <4>1. Lease!Unexpose
        BY <1>1, <1>2, <1>5, <2>2, <3>2, LeaseOperators DEF Lease!Unexpose
      <4>2. QED BY <4>1 DEF Lease!Next
    <3>3. QED BY <2>5, <3>1, <3>2 DEF handleUnexpose
  <2>6. CASE Query(c, m) \/ Bye(c, m) \/ Shutdown(c, m) \/ DecodeError(c, m)
    BY <1>3, <1>5, <2>6 DEF Query, Bye, Shutdown, DecodeError
  <2>7. QED BY <1>5, <2>3, <2>4, <2>5, <2>6
<1>6. CASE Client(c) \/ Accept(c)
  BY <1>3, <1>4, <1>6 DEF Client, Connect, Send, Hangup, Accept
<1>7. CASE Begin(c) \/ HandshakeTimeout(c) \/ EndOfStream(c) \/ Reply(c)
             \/ ReplyFails(c) \/ CloseConn(c)
  BY <1>3, <1>4, <1>7 DEF Begin, HandshakeTimeout, EndOfStream, Reply, ReplyFails, CloseConn
<1>8. QED BY <1>4, <1>5, <1>6, <1>7 DEF serveConn, Register, handleExpose, handleUnexpose,
               Query, Bye, Shutdown, DecodeError

\* Every step of the daemon is a step of RouteLease, or none.
LEMMA LeaseStep ==
    ASSUME IInv, IInv', AllOver, [Next]_vars
    PROVE  [Lease!Next]_(Lease!leaseVars)
<1>1. ASSUME NEW c \in Conn, Client(c) \/ Accept(c) \/ serveConn(c)
      PROVE  [Lease!Next]_(Lease!leaseVars)
  BY <1>1, ConnectionLeases
<1>2. ASSUME NEW new \in ConfigEntries, Reload(new)
      PROVE  [Lease!Next]_(Lease!leaseVars)
  <2>1. /\ phase # "exited" /\ phase' = phase /\ EndedSessions' = EndedSessions
    BY <1>2 DEF Reload, daemonVars, connVars, EndedSessions
  <2>2. WithoutSource(routes', ConfigSource) = WithoutSource(routes, ConfigSource)
    BY <1>2 DEF Reload, Replaced, WithoutSource, NewRoutes, NewRoute
  <2>3. HostsDisjoint(routes') BY DEF IInv
  <2>4. Lease!Reload
    BY <2>1, <2>2, <2>3, LeaseOperators DEF Lease!Reload
  <2>5. QED BY <2>4 DEF Lease!Next
<1>3. CASE Signal \/ OnShutdown
  BY <1>3 DEF Signal, OnShutdown, connVars, EndedSessions, Lease!leaseVars
<1>4. CASE Close
  <2>1. \A c \in Conn : pc[c] = "backlog" => id[c] = 0
    BY DEF IInv, ConnOK, Early
  <2>2. /\ routes' = routes /\ id' = id /\ phase # "exited" /\ phase' # "exited"
        /\ \A c \in Conn : pc'[c] = IF pc[c] = "backlog" THEN "done" ELSE pc[c]
    BY <1>4 DEF Close
  <2>3. EndedSessions' = EndedSessions
    BY <2>1, <2>2 DEF EndedSessions
  <2>4. QED BY <2>2, <2>3 DEF Lease!leaseVars
<1>5. CASE Gone /\ phase # "exited"
  <2>1. /\ phase' = "exited" /\ routes' = {} /\ id' = id
        /\ \A c \in Conn : pc'[c] = IF pc[c] = "none" THEN "none" ELSE "done"
    BY <1>5 DEF Gone
  <2>2. EndedSessions \subseteq EndedSessions'
    BY <2>1 DEF EndedSessions
  <2>3. Lease!Stop
    BY <1>5, <2>1, <2>2 DEF Lease!Stop
  <2>4. QED BY <2>3 DEF Lease!Next
<1>6. CASE UNCHANGED vars
  BY <1>6 DEF vars, daemonVars, connVars, EndedSessions, Lease!leaseVars
<1>7. QED BY <1>1, <1>2, <1>3, <1>4, <1>5, <1>6 DEF Next, Teardown, Exit, Crash

\* The daemon implements RouteLease: what a session registered lasts as long as
\* the session, what was exposed as long as its name, and nobody's host is taken.
THEOREM SockServerImplementsRouteLease == Spec => ImplementsRouteLease
<1>1. Init => Lease!Init
  BY DEF Init, Lease!Init, EndedSessions
<1>2. Init => AllOver
  BY DEF Init, AllOver
<1>3. IInv /\ AllOver /\ [Next]_vars => AllOver'
  BY HasLocalType, AllOverStep
<1>4. IInv /\ IInv' /\ AllOver /\ [Next]_vars => [Lease!Next]_(Lease!leaseVars)
  BY LeaseStep
<1>5. QED BY <1>1, <1>2, <1>3, <1>4, InitIInv, IInvStep, PTL
          DEF Spec, ImplementsRouteLease, Lease!Spec

=============================================================================
