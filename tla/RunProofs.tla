------------------------------ MODULE RunProofs ------------------------------
(***************************************************************************)
(* Proofs about `hostmux run`: RunClient, for any number of runs, hosts,   *)
(* ports, requests and accidents, and PublicUrl, for any words, addresses, *)
(* config files, names and command lines.                                  *)
(*                                                                         *)
(* RunClient: that an announced URL answers rests on a chain that goes     *)
(* through all the parties: an acknowledged registration is in the         *)
(* daemon's table (Registered), the port picked for a run is free or its   *)
(* command's (Undisturbed), so a readiness check that succeeds has reached *)
(* that command (Ready), and a request whose lookup came after the         *)
(* announcement found that port (SentRight) - each as long as nothing      *)
(* broke the run.                                                          *)
(*                                                                         *)
(* PublicUrl: that an announced link works rests on what the code does to  *)
(* texts.  A valid host has a shape (Shape) that lower case keeps, that    *)
(* trimming leaves alone, and off which either way of removing a port      *)
(* takes exactly what a client appended.  The first and the last place of  *)
(* a token exist because a set of naturals has a least element (Least).    *)
(***************************************************************************)
EXTENDS RunClient, PublicUrl, FiniteSetTheorems, WellFoundedInduction, TLAPS

\* The run has its acknowledged registration and has not ended.
Held == {"registered", "check", "poll", "tick", "waiting"}

\* The two goroutines and the command, started one after the other.
InOrder ==
    \A r \in Runner :
        /\ pc[r] \in {"idle", "ready", "allocated", "registered"} => task[r] = "none"
        /\ pc[r] \in {"check", "poll", "tick", "waiting"} => task[r] # "none"
        /\ pc[r] \in Held \cup {"allocated"} => port[r] \in Port
        /\ task[r] # "none" => port[r] \in Port
        /\ task[r] \in {"none", "starting"} => command[r] = "none"
        /\ task[r] = "over" => CommandOver(r)

RouteOf(r) == NewRoute(r, HostsOf[r], port[r])

Registered ==
    \A r \in Runner \ broken : pc[r] \in Held => RouteOf(r) \in routes

Undisturbed ==
    \A r \in Runner \ broken : port[r] \in Port => owner[port[r]] \in {NoOne, r}

Ready ==
    \A r \in Runner \ broken :
        said[r] = "ready" => pc[r] = "waiting" /\ owner[port[r]] = r

SentRight ==
    /\ query \in [Query -> [at : {"none", "asked"}, to : Port \cup {NoPort},
                            after : SUBSET Runner]]
    /\ \A q \in Query : \A r \in query[q].after \ broken :
           said[r] = "ready" /\ query[q].to = port[r]

IInv ==
    /\ TypeOK
    /\ InOrder
    /\ Registered
    /\ Undisturbed
    /\ Ready
    /\ SentRight

-----------------------------------------------------------------------------
(* Lemmas about the daemon's table.                                        *)

\* Hosts and ports are as the lemmas about tables assume.
LEMMA NamesFitHere == NamesFit
BY RunClientAssumption

\* Every step keeps the daemon's table a table.
LEMMA TableKept ==
    ASSUME IInv, Next
    PROVE  IsTable(routes')
<1>0. IsTable(routes)
  BY DEF IInv, TypeOK, IsTable
<1>1. ASSUME NEW r \in Runner, Register(r) PROVE IsTable(routes')
  <2>1. CASE routes' = Added(routes, r, HostsOf[r], port[r])
             /\ AddAccepted(routes, r, HostsOf[r], port[r])
    <3>1. /\ HostsOf[r] \in SUBSET HostName
          /\ port[r] \in Port \cup {NoPort}
      BY RunClientAssumption DEF IInv, TypeOK
    <3>2. QED BY <1>0, <2>1, <3>1, NamesFitHere, AdditionKeepsTable
  <2>2. QED BY <1>0, <1>1, <2>1 DEF Register
<1>2. ASSUME NEW r \in Runner, Cleanup(r) PROVE IsTable(routes')
  BY <1>0, <1>2, NamesFitHere, RemovalKeepsTable DEF Cleanup
<1>3. CASE DaemonStops
  BY <1>3 DEF DaemonStops, IsTable, HostsDisjoint
<1>4. QED
  BY <1>0, <1>1, <1>2, <1>3
     DEF Next, Steps, Prepare, AllocateFreePort, Launch, CheckDone, Poll, Tick,
         Finish, Task, Start, Notify, Forward, Reap, Interrupt, Kill,
         CommandBinds, CommandServes, CommandExits, CommandObeys, Exits,
         OtherBinds, Lookup, Respond, world

\* The route of a run outlives the registrations of others and their removal.
LEMMA RouteStays ==
    ASSUME NEW r \in Runner, NEW x \in Runner, x # r, RouteOf(r) \in routes,
           Register(x) \/ Cleanup(x)
    PROVE  RouteOf(r) \in routes'
<1>1. RouteOf(r).source = r
  BY DEF RouteOf, NewRoute
<1>2. CASE Register(x)
  BY <1>1, <1>2, AdditionAdds DEF Register
<1>3. CASE Cleanup(x)
  BY <1>1, <1>3 DEF Cleanup, WithoutSource
<1>4. QED BY <1>2, <1>3

\* The lookup of a host of a registered run finds the run's port.
LEMMA LookupFindsPort ==
    ASSUME IInv, NEW r \in Runner, RouteOf(r) \in routes, NEW h \in HostsOf[r]
    PROVE  Resolve(routes, h) = [upstream |-> port[r], source |-> r]
<1>1. IsTable(routes)
  BY DEF IInv, TypeOK, IsTable
<1>2. /\ Canonical[h] \in RouteOf(r).hosts
      /\ RouteOf(r).upstream = port[r] /\ RouteOf(r).source = r
  BY DEF RouteOf, NewRoute, normalizeHosts
<1>3. Resolve(routes, h) = [upstream |-> RouteOf(r).upstream,
                            source   |-> RouteOf(r).source]
  BY <1>1, <1>2, NamesFitHere, LookupFindsOwner
<1>4. QED BY <1>2, <1>3

-----------------------------------------------------------------------------
(* One lemma per action: it keeps the invariant.                           *)

\* The run has no port, no route and no command yet.
LEMMA PrepareKeeps ==
    ASSUME IInv, NEW r \in Runner, Prepare(r)
    PROVE  IInv'
<1>1. TypeOK'
  <2>1. up' \in BOOLEAN
    BY DEF IInv, TypeOK, Prepare
  <2>2. QED
    BY <2>1, RunClientAssumption DEF IInv, TypeOK, InOrder, Prepare, Goto,
       childVars, history, Ended, Alive
<1>2. InOrder'
  BY DEF IInv, TypeOK, InOrder, Prepare, Goto, childVars, history, Held,
     Ended, Alive, ChildDone, CommandOver
<1>3. Registered'
  BY DEF IInv, TypeOK, InOrder, Registered, RouteOf, Prepare, Goto, childVars,
     history, Held, Ended, Alive
<1>4. Undisturbed'
  BY RunClientAssumption DEF IInv, TypeOK, InOrder, Undisturbed, Contest,
     Prepare, Goto, childVars, history
<1>5. Ready'
  BY RunClientAssumption DEF IInv, TypeOK, InOrder, Ready, Prepare, Goto,
     childVars, history, Ended, Alive, ChildDone, CommandOver
<1>6. SentRight'
  BY DEF IInv, TypeOK, InOrder, Ready, SentRight, Prepare, Goto, childVars,
     history, Held
<1>7. QED BY <1>1, <1>2, <1>3, <1>4, <1>5, <1>6 DEF IInv

\* The port picked is one that nobody listens on.
LEMMA AllocateFreePortKeeps ==
    ASSUME IInv, NEW r \in Runner, AllocateFreePort(r)
    PROVE  IInv'
<1>1. TypeOK'
  BY RunClientAssumption DEF IInv, TypeOK, InOrder, AllocateFreePort, Goto,
     childVars, world, history, Ended, Alive
<1>2. InOrder'
  BY DEF IInv, TypeOK, InOrder, AllocateFreePort, Goto, childVars, world,
     history, Held, Ended, Alive, ChildDone, CommandOver
<1>3. Registered'
  BY DEF IInv, TypeOK, InOrder, Registered, RouteOf, AllocateFreePort, Goto,
     childVars, world, history, Held, Ended, Alive
<1>4. Undisturbed'
  BY RunClientAssumption DEF IInv, TypeOK, InOrder, Undisturbed, Contest,
     AllocateFreePort, Goto, childVars, world, history
<1>5. Ready'
  BY RunClientAssumption DEF IInv, TypeOK, InOrder, Ready, AllocateFreePort,
     Goto, childVars, world, history, Ended, Alive, ChildDone, CommandOver
<1>6. SentRight'
  BY DEF IInv, TypeOK, InOrder, Ready, SentRight, AllocateFreePort, Goto,
     childVars, world, history, Held
<1>7. QED BY <1>1, <1>2, <1>3, <1>4, <1>5, <1>6 DEF IInv

\* The route is in the table before the run goes on; no other run loses its
\* own.
LEMMA RegisterKeeps ==
    ASSUME IInv, NEW r \in Runner, Register(r)
    PROVE  IInv'
<1>1. TypeOK'
  <2>1. routes' \subseteq Route /\ HostsDisjoint(routes')
    BY TableKept DEF IsTable, Next, Steps
  <2>2. QED
    BY <2>1, RunClientAssumption DEF IInv, TypeOK, InOrder, Register, Goto,
       childVars, history, Ended, Alive
<1>2. InOrder'
  BY DEF IInv, TypeOK, InOrder, Register, Goto, childVars, history, Held,
     Ended, Alive, ChildDone, CommandOver
<1>3. Registered'
  <2> SUFFICES ASSUME NEW x \in Runner \ broken', pc'[x] \in Held
               PROVE  RouteOf(x)' \in routes'
    BY DEF Registered
  <2>1. CASE x = r
    <3>1. routes' = Added(routes, r, HostsOf[r], port[r])
      BY <2>1 DEF IInv, TypeOK, Register, Goto, Held
    <3>2. QED BY <2>1, <3>1, AdditionAdds DEF Register, RouteOf
  <2>2. CASE x # r
    <3>1. RouteOf(x) \in routes
      BY <2>2 DEF IInv, TypeOK, Registered, Register, Goto, history
    <3>2. RouteOf(x) \in routes'
      BY <2>2, <3>1, RouteStays
    <3>3. QED BY <3>2 DEF RouteOf, Register
  <2>3. QED BY <2>1, <2>2
<1>4. Undisturbed'
  BY RunClientAssumption DEF IInv, TypeOK, InOrder, Undisturbed, Contest,
     Register, Goto, childVars, history
<1>5. Ready'
  BY RunClientAssumption DEF IInv, TypeOK, InOrder, Ready, Register, Goto,
     childVars, history, Ended, Alive, ChildDone, CommandOver
<1>6. SentRight'
  BY DEF IInv, TypeOK, InOrder, Ready, SentRight, Register, Goto, childVars,
     history, Held
<1>7. QED BY <1>1, <1>2, <1>3, <1>4, <1>5, <1>6 DEF IInv

\* The second goroutine starts once the registration is acknowledged.
LEMMA LaunchKeeps ==
    ASSUME IInv, NEW r \in Runner, Launch(r)
    PROVE  IInv'
<1>1. TypeOK'
  BY RunClientAssumption DEF IInv, TypeOK, InOrder, Launch, announce, Goto,
     world, history, Ended, Alive
<1>2. InOrder'
  BY DEF IInv, TypeOK, InOrder, Launch, announce, Goto, world, history, Held,
     Ended, Alive, ChildDone, CommandOver
<1>3. Registered'
  BY DEF IInv, TypeOK, InOrder, Registered, RouteOf, Launch, announce, Goto,
     world, history, Held, Ended, Alive
<1>4. Undisturbed'
  BY RunClientAssumption DEF IInv, TypeOK, InOrder, Undisturbed, Contest,
     Launch, announce, Goto, world, history
<1>5. Ready'
  BY RunClientAssumption DEF IInv, TypeOK, InOrder, Ready, Launch, announce,
     Goto, world, history, Ended, Alive, ChildDone, CommandOver
<1>6. SentRight'
  BY DEF IInv, TypeOK, InOrder, Ready, SentRight, Launch, announce, Goto,
     world, history, Held
<1>7. QED BY <1>1, <1>2, <1>3, <1>4, <1>5, <1>6 DEF IInv

\* waitForReady looks whether the command has ended.
LEMMA CheckDoneKeeps ==
    ASSUME IInv, NEW r \in Runner, CheckDone(r)
    PROVE  IInv'
<1>1. TypeOK'
  BY RunClientAssumption DEF IInv, TypeOK, InOrder, CheckDone, ChildDone,
     Goto, childVars, world, history, Ended, Alive
<1>2. InOrder'
  BY DEF IInv, TypeOK, InOrder, CheckDone, ChildDone, Goto, childVars, world,
     history, Held, Ended, Alive, CommandOver
<1>3. Registered'
  BY DEF IInv, TypeOK, InOrder, Registered, RouteOf, CheckDone, ChildDone,
     Goto, childVars, world, history, Held, Ended, Alive
<1>4. Undisturbed'
  BY RunClientAssumption DEF IInv, TypeOK, InOrder, Undisturbed, Contest,
     CheckDone, ChildDone, Goto, childVars, world, history
<1>5. Ready'
  BY RunClientAssumption DEF IInv, TypeOK, InOrder, Ready, CheckDone,
     ChildDone, Goto, childVars, world, history, Ended, Alive, CommandOver
<1>6. SentRight'
  BY DEF IInv, TypeOK, InOrder, Ready, SentRight, CheckDone, ChildDone, Goto,
     childVars, world, history, Held
<1>7. QED BY <1>1, <1>2, <1>3, <1>4, <1>5, <1>6 DEF IInv

\* A readiness check that succeeds has reached the run's own command, unless
\* the run is broken.
LEMMA PollKeeps ==
    ASSUME IInv, NEW r \in Runner, Poll(r)
    PROVE  IInv'
<1>1. TypeOK'
  BY RunClientAssumption DEF IInv, TypeOK, InOrder, Poll, announce, Goto,
     childVars, world, history, Ended, Alive
<1>2. InOrder'
  BY DEF IInv, TypeOK, InOrder, Poll, announce, Goto, childVars, world,
     history, Held, Ended, Alive, ChildDone, CommandOver
<1>3. Registered'
  BY DEF IInv, TypeOK, InOrder, Registered, RouteOf, Poll, announce, Goto,
     childVars, world, history, Held, Ended, Alive
<1>4. Undisturbed'
  BY RunClientAssumption DEF IInv, TypeOK, InOrder, Undisturbed, Contest,
     Poll, announce, Goto, childVars, world, history
<1>5. Ready'
  <2> SUFFICES ASSUME NEW x \in Runner \ broken', said'[x] = "ready"
               PROVE  pc'[x] = "waiting" /\ owner'[port'[x]] = x
    BY DEF Ready
  <2>1. CASE x # r
    BY <2>1 DEF IInv, TypeOK, Ready, Poll, announce, Goto, world, history
  <2>2. CASE x = r /\ said'[r] = said[r]
    BY <2>2 DEF IInv, TypeOK, Ready, Poll, history
  <2>3. CASE x = r /\ TRUE \in readyCheck(r) /\ pc'[r] = "waiting"
    <3>1. owner[port[r]] # NoOne
      BY <2>3 DEF readyCheck
    <3>2. owner[port[r]] = r
      BY <2>3, <3>1 DEF IInv, InOrder, Held, Undisturbed, Poll, history
    <3>3. QED BY <2>3, <3>2 DEF Poll, world
  <2>4. PICK ready \in readyCheck(r) :
           IF ready THEN announce(r, "ready") /\ Goto(r, "waiting")
                    ELSE UNCHANGED said /\ Goto(r, "tick")
    BY DEF Poll
  <2>5. ready \in BOOLEAN
    BY DEF readyCheck
  <2>6. CASE ready = TRUE
    <3>1. Goto(r, "waiting")
      BY <2>4, <2>6
    <3>2. TRUE \in readyCheck(r)
      BY <2>4, <2>6, Zenon
    <3>3. pc'[r] = "waiting"
      BY <3>1 DEF IInv, TypeOK, Goto
    <3>4. QED BY <2>1, <2>3, <3>2, <3>3
  <2>7. CASE ready = FALSE
    BY <2>1, <2>2, <2>4, <2>7
  <2>8. QED BY <2>5, <2>6, <2>7
<1>6. SentRight'
  BY DEF IInv, TypeOK, InOrder, Ready, SentRight, Poll, announce, Goto,
     childVars, world, history, Held
<1>7. QED BY <1>1, <1>2, <1>3, <1>4, <1>5, <1>6 DEF IInv

\* The deadline announces the URLs as late, never as ready.
LEMMA TickKeeps ==
    ASSUME IInv, NEW r \in Runner, Tick(r)
    PROVE  IInv'
<1>1. TypeOK'
  BY RunClientAssumption DEF IInv, TypeOK, InOrder, Tick, ChildDone, announce,
     Goto, childVars, world, history, Ended, Alive
<1>2. InOrder'
  BY DEF IInv, TypeOK, InOrder, Tick, ChildDone, announce, Goto, childVars,
     world, history, Held, Ended, Alive, CommandOver
<1>3. Registered'
  BY DEF IInv, TypeOK, InOrder, Registered, RouteOf, Tick, ChildDone,
     announce, Goto, childVars, world, history, Held, Ended, Alive
<1>4. Undisturbed'
  BY RunClientAssumption DEF IInv, TypeOK, InOrder, Undisturbed, Contest,
     Tick, ChildDone, announce, Goto, childVars, world, history
<1>5. Ready'
  BY RunClientAssumption DEF IInv, TypeOK, InOrder, Ready, Tick, ChildDone,
     announce, Goto, childVars, world, history, Ended, Alive, CommandOver
<1>6. SentRight'
  BY DEF IInv, TypeOK, InOrder, Ready, SentRight, Tick, ChildDone, announce,
     Goto, childVars, world, history, Held
<1>7. QED BY <1>1, <1>2, <1>3, <1>4, <1>5, <1>6 DEF IInv

\* A run that ends has a command that ended, and is broken if it was ready.
LEMMA FinishKeeps ==
    ASSUME IInv, NEW r \in Runner, Finish(r)
    PROVE  IInv'
<1>1. TypeOK'
  BY RunClientAssumption DEF IInv, TypeOK, InOrder, Finish, ChildDone, Goto,
     childVars, world, history, Ended, Alive
<1>2. InOrder'
  BY DEF IInv, TypeOK, InOrder, Finish, ChildDone, Goto, childVars, world,
     history, Held, Ended, Alive, CommandOver
<1>3. Registered'
  BY DEF IInv, TypeOK, InOrder, Registered, RouteOf, Finish, ChildDone, Goto,
     childVars, world, history, Held, Ended, Alive
<1>4. Undisturbed'
  BY RunClientAssumption DEF IInv, TypeOK, InOrder, Undisturbed, Contest,
     Finish, ChildDone, Goto, childVars, world, history
<1>5. Ready'
  BY RunClientAssumption DEF IInv, TypeOK, InOrder, Ready, Finish, ChildDone,
     Goto, childVars, world, history, Ended, Alive, CommandOver
<1>6. SentRight'
  BY DEF IInv, TypeOK, InOrder, Ready, SentRight, Finish, ChildDone, Goto,
     childVars, world, history, Held
<1>7. QED BY <1>1, <1>2, <1>3, <1>4, <1>5, <1>6 DEF IInv

\* The command starts or cannot be started.
LEMMA StartKeeps ==
    ASSUME IInv, NEW r \in Runner, Start(r)
    PROVE  IInv'
<1>1. TypeOK'
  BY RunClientAssumption DEF IInv, TypeOK, InOrder, Start, At, To, runVars,
     world, history, Ended, Alive
<1>2. InOrder'
  BY DEF IInv, TypeOK, InOrder, Start, At, To, runVars, world, history, Held,
     Ended, Alive, ChildDone, CommandOver
<1>3. Registered'
  BY DEF IInv, TypeOK, InOrder, Registered, RouteOf, Start, At, To, runVars,
     world, history, Held, Ended, Alive
<1>4. Undisturbed'
  BY RunClientAssumption DEF IInv, TypeOK, InOrder, Undisturbed, Contest,
     Start, At, To, runVars, world, history
<1>5. Ready'
  BY RunClientAssumption DEF IInv, TypeOK, InOrder, Ready, Start, At, To,
     runVars, world, history, Ended, Alive, ChildDone, CommandOver
<1>6. SentRight'
  BY DEF IInv, TypeOK, InOrder, Ready, SentRight, Start, At, To, runVars,
     world, history, Held
<1>7. QED BY <1>1, <1>2, <1>3, <1>4, <1>5, <1>6 DEF IInv

\* childproc.Run begins to listen to signals.
LEMMA NotifyKeeps ==
    ASSUME IInv, NEW r \in Runner, Notify(r)
    PROVE  IInv'
<1>1. TypeOK'
  BY RunClientAssumption DEF IInv, TypeOK, InOrder, Notify, At, To, runVars,
     world, history, Ended, Alive
<1>2. InOrder'
  BY DEF IInv, TypeOK, InOrder, Notify, At, To, runVars, world, history, Held,
     Ended, Alive, ChildDone, CommandOver
<1>3. Registered'
  BY DEF IInv, TypeOK, InOrder, Registered, RouteOf, Notify, At, To, runVars,
     world, history, Held, Ended, Alive
<1>4. Undisturbed'
  BY RunClientAssumption DEF IInv, TypeOK, InOrder, Undisturbed, Contest,
     Notify, At, To, runVars, world, history
<1>5. Ready'
  BY RunClientAssumption DEF IInv, TypeOK, InOrder, Ready, Notify, At, To,
     runVars, world, history, Ended, Alive, ChildDone, CommandOver
<1>6. SentRight'
  BY DEF IInv, TypeOK, InOrder, Ready, SentRight, Notify, At, To, runVars,
     world, history, Held
<1>7. QED BY <1>1, <1>2, <1>3, <1>4, <1>5, <1>6 DEF IInv

\* A signal is passed on.
LEMMA ForwardKeeps ==
    ASSUME IInv, NEW r \in Runner, Forward(r)
    PROVE  IInv'
<1>1. TypeOK'
  BY RunClientAssumption DEF IInv, TypeOK, InOrder, Forward, At, runVars,
     world, history, Ended, Alive
<1>2. InOrder'
  BY DEF IInv, TypeOK, InOrder, Forward, At, runVars, world, history, Held,
     Ended, Alive, ChildDone, CommandOver
<1>3. Registered'
  BY DEF IInv, TypeOK, InOrder, Registered, RouteOf, Forward, At, runVars,
     world, history, Held, Ended, Alive
<1>4. Undisturbed'
  BY RunClientAssumption DEF IInv, TypeOK, InOrder, Undisturbed, Contest,
     Forward, At, runVars, world, history
<1>5. Ready'
  BY RunClientAssumption DEF IInv, TypeOK, InOrder, Ready, Forward, At,
     runVars, world, history, Ended, Alive, ChildDone, CommandOver
<1>6. SentRight'
  BY DEF IInv, TypeOK, InOrder, Ready, SentRight, Forward, At, runVars, world,
     history, Held
<1>7. QED BY <1>1, <1>2, <1>3, <1>4, <1>5, <1>6 DEF IInv

\* childproc.Run returns once the command has exited.
LEMMA ReapKeeps ==
    ASSUME IInv, NEW r \in Runner, Reap(r)
    PROVE  IInv'
<1>1. TypeOK'
  BY RunClientAssumption DEF IInv, TypeOK, InOrder, Reap, At, To, runVars,
     world, history, Ended, Alive
<1>2. InOrder'
  BY DEF IInv, TypeOK, InOrder, Reap, At, To, runVars, world, history, Held,
     Ended, Alive, ChildDone, CommandOver
<1>3. Registered'
  BY DEF IInv, TypeOK, InOrder, Registered, RouteOf, Reap, At, To, runVars,
     world, history, Held, Ended, Alive
<1>4. Undisturbed'
  BY RunClientAssumption DEF IInv, TypeOK, InOrder, Undisturbed, Contest,
     Reap, At, To, runVars, world, history
<1>5. Ready'
  BY RunClientAssumption DEF IInv, TypeOK, InOrder, Ready, Reap, At, To,
     runVars, world, history, Ended, Alive, ChildDone, CommandOver
<1>6. SentRight'
  BY DEF IInv, TypeOK, InOrder, Ready, SentRight, Reap, At, To, runVars,
     world, history, Held
<1>7. QED BY <1>1, <1>2, <1>3, <1>4, <1>5, <1>6 DEF IInv

\* A signal is caught or breaks the run.
LEMMA InterruptKeeps ==
    ASSUME IInv, NEW r \in Runner, Interrupt(r)
    PROVE  IInv'
<1>1. TypeOK'
  <2>1. accidents' \in 0..MaxAccidents
    BY RunClientAssumption DEF IInv, TypeOK, Interrupt, Accident
  <2>2. /\ pc' \in [Runner -> {"idle", "ready", "allocated", "registered", "check",
                              "poll", "tick", "waiting"} \cup Ended]
        /\ broken' \subseteq Runner
    BY DEF IInv, TypeOK, Interrupt, Goto, Ended
  <2>3. signal' \in [Runner -> BOOLEAN]
    BY DEF IInv, TypeOK, Interrupt
  <2>4. QED
    BY <2>1, <2>2, <2>3 DEF IInv, TypeOK, Interrupt, world
<1>2. InOrder'
  BY DEF IInv, TypeOK, InOrder, Interrupt, Goto, Accident, world, Held, Ended,
     Alive, ChildDone, CommandOver
<1>3. Registered'
  BY DEF IInv, TypeOK, InOrder, Registered, RouteOf, Interrupt, Goto,
     Accident, world, Held, Ended, Alive
<1>4. Undisturbed'
  BY RunClientAssumption DEF IInv, TypeOK, InOrder, Undisturbed, Contest,
     Interrupt, Goto, Accident, world
<1>5. Ready'
  BY RunClientAssumption DEF IInv, TypeOK, InOrder, Ready, Interrupt, Goto,
     Accident, world, Ended, Alive, ChildDone, CommandOver
<1>6. SentRight'
  BY DEF IInv, TypeOK, InOrder, Ready, SentRight, Interrupt, Goto, Accident,
     world, Held
<1>7. QED BY <1>1, <1>2, <1>3, <1>4, <1>5, <1>6 DEF IInv

\* A kill breaks the run.
LEMMA KillKeeps ==
    ASSUME IInv, NEW r \in Runner, Kill(r)
    PROVE  IInv'
<1>1. TypeOK'
  <2>1. accidents' \in 0..MaxAccidents
    BY RunClientAssumption DEF IInv, TypeOK, Kill, Accident
  <2>2. QED
    BY <2>1, RunClientAssumption DEF IInv, TypeOK, InOrder, Kill, Goto,
       Accident, childVars, world, Ended, Alive
<1>2. InOrder'
  BY DEF IInv, TypeOK, InOrder, Kill, Goto, Accident, childVars, world, Held,
     Ended, Alive, ChildDone, CommandOver
<1>3. Registered'
  BY DEF IInv, TypeOK, InOrder, Registered, RouteOf, Kill, Goto, Accident,
     childVars, world, Held, Ended, Alive
<1>4. Undisturbed'
  BY RunClientAssumption DEF IInv, TypeOK, InOrder, Undisturbed, Contest,
     Kill, Goto, Accident, childVars, world
<1>5. Ready'
  BY RunClientAssumption DEF IInv, TypeOK, InOrder, Ready, Kill, Goto,
     Accident, childVars, world, Ended, Alive, ChildDone, CommandOver
<1>6. SentRight'
  BY DEF IInv, TypeOK, InOrder, Ready, SentRight, Kill, Goto, Accident,
     childVars, world, Held
<1>7. QED BY <1>1, <1>2, <1>3, <1>4, <1>5, <1>6 DEF IInv

\* A command that listens on its port breaks the runs that picked it too.
LEMMA CommandBindsKeeps ==
    ASSUME IInv, NEW r \in Runner, CommandBinds(r)
    PROVE  IInv'
<1>1. TypeOK'
  <2>1. /\ port[r] \in Port /\ command[r] = "running"
        /\ owner' = [owner EXCEPT ![port[r]] = r]
        /\ command' = [command EXCEPT ![r] = "bound"]
        /\ port' = port
    BY DEF IInv, InOrder, CommandBinds, runVars
  <2>2. /\ owner' \in [Port -> Runner \cup {NoOne, Other}]
        /\ command' \in [Runner -> {"none", "failed", "exited"} \cup Alive]
        /\ broken' \subseteq Runner
    BY <2>1 DEF IInv, TypeOK, CommandBinds, Contest, Alive
  <2>3. ASSUME NEW p \in Port, owner'[p] \in Runner
        PROVE  /\ port'[owner'[p]] = p
               /\ command'[owner'[p]] \in {"bound", "serving"}
    BY <2>1, <2>3 DEF IInv, TypeOK
  <2>4. QED
    BY <2>2, <2>3 DEF IInv, TypeOK, CommandBinds, runVars
<1>2. InOrder'
  BY DEF IInv, TypeOK, InOrder, CommandBinds, runVars, Held, Ended, Alive,
     ChildDone, CommandOver
<1>3. Registered'
  BY DEF IInv, TypeOK, InOrder, Registered, RouteOf, CommandBinds, runVars,
     Held, Ended, Alive
<1>4. Undisturbed'
  BY RunClientAssumption DEF IInv, TypeOK, InOrder, Undisturbed, Contest,
     CommandBinds, runVars
<1>5. Ready'
  BY RunClientAssumption DEF IInv, TypeOK, InOrder, Ready, CommandBinds,
     runVars, Ended, Alive, ChildDone, CommandOver
<1>6. SentRight'
  BY DEF IInv, TypeOK, InOrder, Ready, SentRight, CommandBinds, runVars, Held
<1>7. QED BY <1>1, <1>2, <1>3, <1>4, <1>5, <1>6 DEF IInv

\* A command that listens begins to serve.
LEMMA CommandServesKeeps ==
    ASSUME IInv, NEW r \in Runner, CommandServes(r)
    PROVE  IInv'
<1>1. TypeOK'
  BY RunClientAssumption DEF IInv, TypeOK, InOrder, CommandServes, runVars,
     world, history, Ended, Alive
<1>2. InOrder'
  BY DEF IInv, TypeOK, InOrder, CommandServes, runVars, world, history, Held,
     Ended, Alive, ChildDone, CommandOver
<1>3. Registered'
  BY DEF IInv, TypeOK, InOrder, Registered, RouteOf, CommandServes, runVars,
     world, history, Held, Ended, Alive
<1>4. Undisturbed'
  BY RunClientAssumption DEF IInv, TypeOK, InOrder, Undisturbed, Contest,
     CommandServes, runVars, world, history
<1>5. Ready'
  BY RunClientAssumption DEF IInv, TypeOK, InOrder, Ready, CommandServes,
     runVars, world, history, Ended, Alive, ChildDone, CommandOver
<1>6. SentRight'
  BY DEF IInv, TypeOK, InOrder, Ready, SentRight, CommandServes, runVars,
     world, history, Held
<1>7. QED BY <1>1, <1>2, <1>3, <1>4, <1>5, <1>6 DEF IInv

\* A command that exits frees its port and breaks its run.
LEMMA ExitsKeeps ==
    ASSUME IInv, NEW r \in Runner, Exits(r)
    PROVE  IInv'
<1>1. TypeOK'
  BY RunClientAssumption DEF IInv, TypeOK, InOrder, Exits, runVars, Ended,
     Alive
<1>2. InOrder'
  BY DEF IInv, TypeOK, InOrder, Exits, runVars, Held, Ended, Alive, ChildDone,
     CommandOver
<1>3. Registered'
  BY DEF IInv, TypeOK, InOrder, Registered, RouteOf, Exits, runVars, Held,
     Ended, Alive
<1>4. Undisturbed'
  BY RunClientAssumption DEF IInv, TypeOK, InOrder, Undisturbed, Contest,
     Exits, runVars
<1>5. Ready'
  BY RunClientAssumption DEF IInv, TypeOK, InOrder, Ready, Exits, runVars,
     Ended, Alive, ChildDone, CommandOver
<1>6. SentRight'
  BY DEF IInv, TypeOK, InOrder, Ready, SentRight, Exits, runVars, Held
<1>7. QED BY <1>1, <1>2, <1>3, <1>4, <1>5, <1>6 DEF IInv

\* Another program that takes a port breaks the runs that picked it.
LEMMA OtherBindsKeeps ==
    ASSUME IInv, NEW p \in Port, OtherBinds(p)
    PROVE  IInv'
<1>1. TypeOK'
  <2>1. accidents' \in 0..MaxAccidents
    BY RunClientAssumption DEF IInv, TypeOK, OtherBinds, Accident
  <2>2. /\ owner' \in [Port -> Runner \cup {NoOne, Other}]
        /\ broken' \subseteq Runner
    BY DEF IInv, TypeOK, OtherBinds, Contest
  <2>3. \A x \in Port : owner'[x] \in Runner => owner'[x] = owner[x]
    BY RunClientAssumption DEF IInv, TypeOK, OtherBinds
  <2>4. QED
    BY <2>1, <2>2, <2>3 DEF IInv, TypeOK, OtherBinds, runVars, childVars
<1>2. InOrder'
  BY DEF IInv, TypeOK, InOrder, OtherBinds, Accident, runVars, childVars,
     Held, Ended, Alive, ChildDone, CommandOver
<1>3. Registered'
  BY DEF IInv, TypeOK, InOrder, Registered, RouteOf, OtherBinds, Accident,
     runVars, childVars, Held, Ended, Alive
<1>4. Undisturbed'
  BY RunClientAssumption DEF IInv, TypeOK, InOrder, Undisturbed, Contest,
     OtherBinds, Accident, runVars, childVars
<1>5. Ready'
  BY RunClientAssumption DEF IInv, TypeOK, InOrder, Ready, OtherBinds,
     Accident, runVars, childVars, Ended, Alive, ChildDone, CommandOver
<1>6. SentRight'
  BY DEF IInv, TypeOK, InOrder, Ready, SentRight, OtherBinds, Accident,
     runVars, childVars, Held
<1>7. QED BY <1>1, <1>2, <1>3, <1>4, <1>5, <1>6 DEF IInv

\* Routes go with the runs that ended.
LEMMA CleanupKeeps ==
    ASSUME IInv, NEW r \in Runner, Cleanup(r)
    PROVE  IInv'
<1>1. TypeOK'
  <2>1. routes' \subseteq Route /\ HostsDisjoint(routes')
    BY TableKept DEF IsTable, Next
  <2>2. QED
    BY <2>1, RunClientAssumption DEF IInv, TypeOK, InOrder, Cleanup, runVars,
       childVars, history, Ended, Alive
<1>2. InOrder'
  BY DEF IInv, TypeOK, InOrder, Cleanup, runVars, childVars, history, Held,
     Ended, Alive, ChildDone, CommandOver
<1>3. Registered'
  <2> SUFFICES ASSUME NEW x \in Runner \ broken', pc'[x] \in Held
               PROVE  RouteOf(x)' \in routes'
    BY DEF Registered
  <2>1. x # r /\ RouteOf(x) \in routes
    BY DEF IInv, Registered, Cleanup, runVars, history, Held, Ended
  <2>2. RouteOf(x) \in routes'
    BY <2>1, RouteStays
  <2>3. QED BY <2>2 DEF RouteOf, Cleanup, runVars
<1>4. Undisturbed'
  BY RunClientAssumption DEF IInv, TypeOK, InOrder, Undisturbed, Contest,
     Cleanup, runVars, childVars, history
<1>5. Ready'
  BY RunClientAssumption DEF IInv, TypeOK, InOrder, Ready, Cleanup, runVars,
     childVars, history, Ended, Alive, ChildDone, CommandOver
<1>6. SentRight'
  BY DEF IInv, TypeOK, InOrder, Ready, SentRight, Cleanup, runVars, childVars,
     history, Held
<1>7. QED BY <1>1, <1>2, <1>3, <1>4, <1>5, <1>6 DEF IInv

\* The table and the requests go with the daemon, and all its runs are broken.
LEMMA DaemonStopsKeeps ==
    ASSUME IInv, DaemonStops
    PROVE  IInv'
<1>1. TypeOK'
  <2>1. accidents' \in 0..MaxAccidents
    BY RunClientAssumption DEF IInv, TypeOK, DaemonStops, Accident
  <2>2. routes' \subseteq Route /\ HostsDisjoint(routes')
    BY TableKept DEF IsTable, Next
  <2>3. QED
    BY <2>1, <2>2, RunClientAssumption DEF IInv, TypeOK, InOrder, DaemonStops,
       Accident, runVars, childVars, Ended, Alive
<1>2. InOrder'
  BY DEF IInv, TypeOK, InOrder, DaemonStops, Accident, runVars, childVars,
     Held, Ended, Alive, ChildDone, CommandOver
<1>3. Registered'
  BY DEF IInv, TypeOK, InOrder, Registered, RouteOf, DaemonStops, Accident,
     runVars, childVars, Held, Ended, Alive
<1>4. Undisturbed'
  BY RunClientAssumption DEF IInv, TypeOK, InOrder, Undisturbed, Contest,
     DaemonStops, Accident, runVars, childVars
<1>5. Ready'
  BY RunClientAssumption DEF IInv, TypeOK, InOrder, Ready, DaemonStops,
     Accident, runVars, childVars, Ended, Alive, ChildDone, CommandOver
<1>6. SentRight'
  <2>1. \A q \in Query : query'[q] = NoQuery
    BY DEF DaemonStops
  <2>2. NoQuery.after = {} /\ NoQuery.at = "none" /\ NoQuery.to = NoPort
    BY DEF NoQuery
  <2>3. query' \in [Query -> [at : {"none", "asked"}, to : Port \cup {NoPort},
                              after : SUBSET Runner]]
    BY DEF DaemonStops, NoQuery
  <2>4. QED BY <2>1, <2>2, <2>3 DEF SentRight
<1>7. QED BY <1>1, <1>2, <1>3, <1>4, <1>5, <1>6 DEF IInv

\* A lookup finds the ports of the runs that announced the host.
LEMMA LookupKeeps ==
    ASSUME IInv, NEW q \in Query, Lookup(q)
    PROVE  IInv'
<1>1. TypeOK'
  BY RunClientAssumption DEF IInv, TypeOK, InOrder, Lookup, Set, runVars,
     childVars, history, Ended, Alive
<1>2. InOrder'
  BY DEF IInv, TypeOK, InOrder, Lookup, Set, runVars, childVars, history,
     Held, Ended, Alive, ChildDone, CommandOver
<1>3. Registered'
  BY DEF IInv, TypeOK, InOrder, Registered, RouteOf, Lookup, Set, runVars,
     childVars, history, Held, Ended, Alive
<1>4. Undisturbed'
  BY RunClientAssumption DEF IInv, TypeOK, InOrder, Undisturbed, Contest,
     Lookup, Set, runVars, childVars, history
<1>5. Ready'
  BY RunClientAssumption DEF IInv, TypeOK, InOrder, Ready, Lookup, Set,
     runVars, childVars, history, Ended, Alive, ChildDone, CommandOver
<1>6. SentRight'
  <2>1. PICK h \in HostName :
           LET target == Resolve(routes, h)
           IN  query' = [query EXCEPT ![q] =
                 [at |-> "asked",
                  to |-> IF target = None THEN NoPort ELSE target.upstream,
                  after |-> {r \in Runner : said[r] = "ready" /\ h \in HostsOf[r]}]]
    BY DEF Lookup, Set
  <2> DEFINE target == Resolve(routes, h)
             to    == IF target = None THEN NoPort ELSE target.upstream
             after == {r \in Runner : said[r] = "ready" /\ h \in HostsOf[r]}
  <2>2. to \in Port \cup {NoPort}
    BY DEF IInv, TypeOK, Resolve, Route
  <2>3. \A r \in after \ broken : said[r] = "ready" /\ to = port[r]
    <3>1. SUFFICES ASSUME NEW r \in Runner \ broken, said[r] = "ready", h \in HostsOf[r]
                   PROVE  to = port[r]
      OBVIOUS
    <3>2. RouteOf(r) \in routes /\ port[r] \in Port
      BY <3>1 DEF IInv, Ready, Registered, InOrder, Held
    <3>3. target = [upstream |-> port[r], source |-> r]
      BY <3>1, <3>2, LookupFindsPort
    <3>4. target # None /\ target.upstream = port[r]
      BY <3>2, <3>3, RunClientAssumption
    <3>5. QED BY <3>4
  <2>4. query' = [query EXCEPT ![q] = [at |-> "asked", to |-> to, after |-> after]]
    BY <2>1
  <2> HIDE DEF target, to, after
  <2>5. after \in SUBSET Runner
    BY DEF after
  <2>6. QED BY <2>2, <2>3, <2>4, <2>5 DEF IInv, SentRight, Lookup, runVars, history
<1>7. QED BY <1>1, <1>2, <1>3, <1>4, <1>5, <1>6 DEF IInv

\* A request that has ended says nothing any more.
LEMMA RespondKeeps ==
    ASSUME IInv, NEW q \in Query, Respond(q)
    PROVE  IInv'
<1>1. TypeOK'
  BY RunClientAssumption DEF IInv, TypeOK, InOrder, Respond, Set, runVars,
     childVars, history, Ended, Alive
<1>2. InOrder'
  BY DEF IInv, TypeOK, InOrder, Respond, Set, runVars, childVars, history,
     Held, Ended, Alive, ChildDone, CommandOver
<1>3. Registered'
  BY DEF IInv, TypeOK, InOrder, Registered, RouteOf, Respond, Set, runVars,
     childVars, history, Held, Ended, Alive
<1>4. Undisturbed'
  BY RunClientAssumption DEF IInv, TypeOK, InOrder, Undisturbed, Contest,
     Respond, Set, runVars, childVars, history
<1>5. Ready'
  BY RunClientAssumption DEF IInv, TypeOK, InOrder, Ready, Respond, Set,
     runVars, childVars, history, Ended, Alive, ChildDone, CommandOver
<1>6. SentRight'
  <2>1. query' = [query EXCEPT ![q] = NoQuery]
    BY DEF Respond, Set
  <2>2. /\ NoQuery.after = {}
        /\ NoQuery \in [at : {"none", "asked"}, to : Port \cup {NoPort},
                        after : SUBSET Runner]
    BY DEF NoQuery
  <2>3. QED BY <2>1, <2>2 DEF IInv, SentRight, Respond, runVars, history
<1>7. QED BY <1>1, <1>2, <1>3, <1>4, <1>5, <1>6 DEF IInv

-----------------------------------------------------------------------------
(* The theorems.                                                           *)

\* No run has begun.
LEMMA InitIInv == Init => IInv
<1> SUFFICES ASSUME Init PROVE IInv
  OBVIOUS
<1>1. TypeOK
  BY RunClientAssumption DEF Init, TypeOK, HostsDisjoint, Ended, Alive
<1>2. InOrder /\ Registered /\ Ready
  BY DEF Init, InOrder, Registered, Ready, Held, CommandOver
<1>3. Undisturbed
  BY DEF Init, Undisturbed
<1>4. SentRight
  BY DEF Init, SentRight, NoQuery
<1>5. QED BY <1>1, <1>2, <1>3, <1>4 DEF IInv

\* Every step keeps the invariant.
LEMMA IInvStep == IInv /\ [Next]_vars => IInv'
<1>1. ASSUME IInv, Next PROVE IInv'
  <2>1. ASSUME NEW r \in Runner, Steps(r) PROVE IInv'
    BY <1>1, <2>1, PrepareKeeps, AllocateFreePortKeeps, RegisterKeeps,
       LaunchKeeps, CheckDoneKeeps, PollKeeps, TickKeeps, FinishKeeps DEF Steps
  <2>2. ASSUME NEW r \in Runner, Task(r) PROVE IInv'
    BY <1>1, <2>2, StartKeeps, NotifyKeeps, ForwardKeeps, ReapKeeps DEF Task
  <2>3. QED
    BY <1>1, <2>1, <2>2, InterruptKeeps, KillKeeps, CommandBindsKeeps,
       CommandServesKeeps, ExitsKeeps, CleanupKeeps, OtherBindsKeeps,
       DaemonStopsKeeps, LookupKeeps, RespondKeeps
       DEF Next, CommandExits, CommandObeys
<1>2. ASSUME IInv, UNCHANGED vars PROVE IInv'
  BY <1>2
     DEF IInv, TypeOK, InOrder, Registered, RouteOf, NewRoute, Undisturbed, Ready,
         SentRight, CommandOver, HostsDisjoint, vars, runVars, childVars, world,
         history
<1>3. QED BY <1>1, <1>2

\* The state of the runs keeps its types: ports are held by live commands of
\* their own runs, and nothing is announced or started before the registration
\* was acknowledged.
THEOREM TypeCorrect == Spec => []TypeOK
<1>1. IInv => TypeOK BY DEF IInv
<1>2. QED BY <1>1, InitIInv, IInvStep, PTL DEF Spec

\* A request whose lookup came after the announcement of a URL as ready is sent
\* to the command of that run, however registrations, other runs, other
\* programs and signals fall, until something breaks the run.
THEOREM AnnouncedUrlsAnswer == Spec => []AnnouncedUrlAnswers
<1>1. ASSUME IInv PROVE AnnouncedUrlAnswers
  <2> SUFFICES ASSUME NEW q \in Query, NEW r \in query[q].after \ broken
               PROVE  query[q].to # NoPort /\ owner[query[q].to] = r
    BY DEF AnnouncedUrlAnswers
  <2>1. r \in Runner /\ said[r] = "ready" /\ query[q].to = port[r]
    BY <1>1 DEF IInv, SentRight
  <2>2. pc[r] = "waiting" /\ owner[port[r]] = r
    BY <1>1, <2>1 DEF IInv, Ready
  <2>3. port[r] \in Port
    BY <1>1, <2>1, <2>2 DEF IInv, InOrder, Held
  <2>4. QED BY <2>1, <2>2, <2>3, NamesFitHere DEF NamesFit
<1>2. QED BY <1>1, InitIInv, IInvStep, PTL DEF Spec

-----------------------------------------------------------------------------
(* RunClient implements RouteLease.                                        *)

\* Without a daemon nothing is served.
NoDaemonNoRoutes == ~up => routes = {}

\* What an operator of RouteSet says of a table does not depend on who uses it.
LEMMA LeaseOperators ==
    /\ \A R, s : Lease!WithoutSource(R, s) = WithoutSource(R, s)
    /\ \A R, s, keys : Lease!Collides(R, s, keys) <=> Collides(R, s, keys)
    /\ \A R : Lease!HostsDisjoint(R) <=> HostsDisjoint(R)
BY DEF Lease!WithoutSource, WithoutSource, Lease!Collides, Collides,
       Lease!HostsDisjoint, HostsDisjoint

\* A run that ended never goes on; one that is gone has no routes.
LEMMA GoneStays ==
    ASSUME routes' = routes, \A r \in Runner : pc[r] \in Ended => pc'[r] \in Ended
    PROVE  /\ Gone \subseteq Gone'
           /\ routes' = {r \in routes : r.source \notin Gone'}
BY DEF Gone, Owned

\* A step that leaves the table and the daemon alone ends runs, or nothing.
LEMMA RunsEnd ==
    ASSUME routes' = routes, up' = up,
           \A r \in Runner : pc[r] \in Ended => pc'[r] \in Ended
    PROVE  Lease!Next
<1>1. Lease!End
  BY GoneStays DEF Lease!End
<1>2. QED BY <1>1 DEF Lease!Next

\* The first step of a run, which may start the daemon.
LEMMA PrepareLeases ==
    ASSUME IInv, NoDaemonNoRoutes, NEW r \in Runner, Prepare(r)
    PROVE  [Lease!Next]_(Lease!leaseVars)
<1>0. pc[r] = "idle" /\ routes' = routes /\ \A x \in Runner \ {r} : pc'[x] = pc[x]
  BY DEF Prepare, Goto, IInv, TypeOK
<1>1. CASE up' = up
  BY <1>0, <1>1, RunsEnd DEF Ended
<1>2. CASE up' # up
  <2>1. up' = TRUE /\ pc'[r] = "ready" BY <1>2 DEF Prepare, Goto, IInv, TypeOK
  <2>2. ~up /\ routes = {} BY <1>2, <2>1 DEF NoDaemonNoRoutes, IInv, TypeOK
  <2>3. \A x \in Runner : pc'[x] \in Ended <=> pc[x] \in Ended
    BY <1>0, <2>1 DEF Ended
  <2>4. Gone' = Gone BY <1>0, <2>3 DEF Gone
  <2>5. Lease!WithoutSource(routes', None) = {} /\ Lease!HostsDisjoint(routes')
    BY <1>0, <2>2, LeaseOperators DEF WithoutSource, HostsDisjoint
  <2>6. Lease!Start BY <2>1, <2>2, <2>4, <2>5 DEF Lease!Start
  <2>7. QED BY <2>6 DEF Lease!Next
<1>3. QED BY <1>1, <1>2

\* A registration, whether or not its answer arrives, is of a run that goes on.
LEMMA RegisterLeases ==
    ASSUME IInv, NEW r \in Runner, Register(r)
    PROVE  [Lease!Next]_(Lease!leaseVars)
<1>0. pc[r] = "allocated" /\ up' = up /\ \A x \in Runner \ {r} : pc'[x] = pc[x]
  BY DEF Register, Goto, IInv, TypeOK
<1>1. CASE routes' = routes
  BY <1>0, <1>1, RunsEnd DEF Ended
<1>2. CASE /\ up /\ AddAccepted(routes, r, HostsOf[r], port[r])
           /\ routes' = Added(routes, r, HostsOf[r], port[r])
  <2> DEFINE new == NewRoute(r, HostsOf[r], port[r])
  <2>1. new \in routes' BY <1>2, AdditionAdds
  <2>2. new.source = r /\ new.hosts = normalizeHosts(HostsOf[r]) BY DEF NewRoute
  <2>3. Lease!Grant(new)
    BY <1>2, <2>2, LeaseOperators DEF Lease!Grant, AddAccepted, Added
  <2>4. r \notin Gone BY <1>0 DEF Gone, Ended
  <2>5. r \notin Gone' BY <2>1, <2>2 DEF Gone, Owned
  <2>6. \A x \in Runner \ {r} : Owned(routes', x) = Owned(routes, x)
    BY <1>2, AdditionAdds
  <2>7. Gone' = Gone BY <1>0, <2>4, <2>5, <2>6 DEF Gone
  <2>8. Lease!Register
    BY <1>0, <1>2, <2>1, <2>2, <2>3, <2>4, <2>7 DEF Lease!Register
  <2>9. QED BY <2>8 DEF Lease!Next
<1>3. QED BY <1>1, <1>2 DEF Register

\* The cleanup after a run ends its session.
LEMMA CleanupLeases ==
    ASSUME NEW r \in Runner, Cleanup(r)
    PROVE  [Lease!Next]_(Lease!leaseVars)
<1>1. /\ pc' = pc /\ up' = up /\ pc[r] \in Ended
      /\ routes' = WithoutSource(routes, r)
  BY DEF Cleanup, runVars
<1>2. Gone' = Gone \cup {r}
  BY <1>1, RemovalRemoves DEF Gone
<1>3. routes' = {q \in routes : q.source \notin Gone'}
  BY <1>1, <1>2 DEF WithoutSource, Gone, Owned
<1>4. Lease!End BY <1>1, <1>2, <1>3 DEF Lease!End
<1>5. QED BY <1>4 DEF Lease!Next

\* The end of the daemon.
LEMMA DaemonStopsLeases ==
    ASSUME DaemonStops
    PROVE  [Lease!Next]_(Lease!leaseVars)
<1>1. Gone \subseteq Gone' BY DEF DaemonStops, runVars, Gone, Owned
<1>2. Lease!Stop BY <1>1 DEF DaemonStops, Lease!Stop
<1>3. QED BY <1>2 DEF Lease!Next

\* All other steps of runs, commands, other programs and the proxy.
LEMMA OthersLease ==
    ASSUME IInv, Next, routes' = routes, up' = up
    PROVE  [Lease!Next]_(Lease!leaseVars)
<1>1. ASSUME NEW r \in Runner, Steps(r)
      PROVE  \A x \in Runner : pc[x] \in Ended => pc'[x] \in Ended
  BY <1>1 DEF Steps, Prepare, AllocateFreePort, Register, Launch, CheckDone, Poll,
              Tick, Finish, Goto, IInv, TypeOK, Ended
<1>2. ASSUME NEW r \in Runner, Interrupt(r) \/ Kill(r)
      PROVE  \A x \in Runner : pc[x] \in Ended => pc'[x] \in Ended
  BY <1>2 DEF Interrupt, Kill, Goto, IInv, TypeOK, Ended
<1>3. CASE pc' = pc
  BY <1>3, RunsEnd
<1>4. QED
  BY <1>1, <1>2, <1>3, RunsEnd
     DEF Next, Task, Start, Notify, Forward, Reap, CommandBinds, CommandServes,
         CommandExits, CommandObeys, Exits, Cleanup, OtherBinds, DaemonStops,
         Lookup, Respond, runVars

\* Every step is one of the abstract daemon, or none.
LEMMA LeaseStep ==
    ASSUME IInv, NoDaemonNoRoutes, [Next]_vars
    PROVE  [Lease!Next]_(Lease!leaseVars)
<1>1. CASE Next /\ ~(routes' = routes /\ up' = up)
  BY <1>1, PrepareLeases, RegisterLeases, CleanupLeases, DaemonStopsLeases
     DEF Next, Steps, Task, AllocateFreePort, Launch, CheckDone, Poll, Tick, Finish,
         Start, Notify, Forward, Reap, Interrupt, Kill, CommandBinds, CommandServes,
         CommandExits, CommandObeys, Exits, OtherBinds, Lookup, Respond, world
<1>2. CASE Next /\ routes' = routes /\ up' = up
  BY <1>2, OthersLease
<1>3. CASE UNCHANGED vars
  BY <1>3, RunsEnd DEF vars, runVars, world
<1>4. QED BY <1>1, <1>2, <1>3

\* Nothing is registered without a daemon.
LEMMA NoDaemonStep ==
    ASSUME IInv, NoDaemonNoRoutes, [Next]_vars
    PROVE  NoDaemonNoRoutes'
<1>1. CASE routes' = routes /\ up' = up
  BY <1>1 DEF NoDaemonNoRoutes
<1>2. ASSUME NEW r \in Runner, Prepare(r) PROVE NoDaemonNoRoutes'
  BY <1>2 DEF Prepare, NoDaemonNoRoutes
<1>3. ASSUME NEW r \in Runner, Register(r) PROVE NoDaemonNoRoutes'
  BY <1>3 DEF Register, NoDaemonNoRoutes
<1>4. ASSUME NEW r \in Runner, Cleanup(r) PROVE NoDaemonNoRoutes'
  BY <1>4 DEF Cleanup, NoDaemonNoRoutes
<1>5. CASE DaemonStops
  BY <1>5 DEF DaemonStops, NoDaemonNoRoutes
<1>6. QED
  BY <1>1, <1>2, <1>3, <1>4, <1>5
     DEF Next, Steps, Task, AllocateFreePort, Launch, CheckDone, Poll, Tick, Finish,
         Start, Notify, Forward, Reap, Interrupt, Kill, CommandBinds, CommandServes,
         CommandExits, CommandObeys, Exits, OtherBinds, Lookup, Respond, world, vars

\* Runs and the daemon implement RouteLease: a run's routes end with it, however
\* it ends, and a later daemon is not asked to serve them.
THEOREM RunsImplementRouteLease == Spec => ImplementsRouteLease
<1>1. Init => Lease!Init
  BY DEF Init, Lease!Init, Gone, Ended
<1>2. Init => NoDaemonNoRoutes
  BY DEF Init, NoDaemonNoRoutes
<1>3. IInv /\ NoDaemonNoRoutes /\ [Next]_vars => NoDaemonNoRoutes'
  BY NoDaemonStep
<1>4. IInv /\ NoDaemonNoRoutes /\ [Next]_vars => [Lease!Next]_(Lease!leaseVars)
  BY LeaseStep
<1>5. QED BY <1>1, <1>2, <1>3, <1>4, InitIInv, IInvStep, PTL
          DEF Spec, ImplementsRouteLease, Lease!Spec

-----------------------------------------------------------------------------
(* PublicUrl: sets of places, and what is at them.                         *)

\* A set of natural numbers has a least element.
LEMMA Least ==
    ASSUME NEW P \in SUBSET Nat, P # {}
    PROVE  \E m \in P : \A k \in P : m <= k
<1> DEFINE Less == {p \in Nat \X Nat : p[1] < p[2]}
<1>1. IsWellFoundedOn(Less, Nat)
  BY NatLessThanWellFounded DEF OpToRel
<1>2. \A x, y \in Nat : <<y, x>> \notin Less => x <= y
  OBVIOUS
<1> HIDE DEF Less
<1>3. \E m \in P : \A k \in P : ~(<<k, m>> \in Less)
  BY <1>1, WFMin
<1>4. QED BY <1>2, <1>3

\* And a greatest one, if it is bounded.
LEMMA Greatest ==
    ASSUME NEW n \in Nat, NEW P \in SUBSET (1 .. n), P # {}
    PROVE  \E m \in P : \A k \in P : k <= m
<1> DEFINE Q == {n - k : k \in P}
<1>0. \A k \in P : n - k \in Nat
  OBVIOUS
<1>1. Q \in SUBSET Nat /\ Q # {}
  BY <1>0
<1>2. PICK l \in Q : \A k \in Q : l <= k
  <2> HIDE DEF Q
  <2> QED BY <1>1, Least
<1>3. PICK m \in P : l = n - m
  OBVIOUS
<1>4. ASSUME NEW k \in P PROVE k <= m
  <2>1. l <= n - k
    BY <1>2
  <2> QED BY <1>3, <2>1
<1>5. QED BY <1>4

\* Every number up to the size of a set of positions is the rank of a position.
LEMMA Ranks ==
    ASSUME NEW n \in Nat, NEW P \in SUBSET (1 .. n)
    PROVE  /\ Cardinality(P) \in Nat
           /\ \A k \in 1 .. Cardinality(P) :
                 \E i \in P : Cardinality({j \in P : j <= i}) = k
<1> DEFINE Up(i) == {j \in P : j <= i}
           size == Cardinality(P)
           rank == [i \in P |-> Cardinality(Up(i))]
<1>1. IsFiniteSet(P)
  <2>1. IsFiniteSet(1 .. n)
    BY 1 \in Int, n \in Int, FS_Interval
  <2> QED BY <2>1, FS_Subset
<1>2. size \in Nat
  BY <1>1, FS_CardinalityType
<1>3. ASSUME NEW i \in P
      PROVE  /\ IsFiniteSet(Up(i)) /\ i \in Up(i)
             /\ Cardinality(Up(i)) \in 1 .. size
  <2>1. Up(i) \in SUBSET P /\ i \in Up(i)
    OBVIOUS
  <2> HIDE DEF Up
  <2>2. IsFiniteSet(Up(i)) /\ Cardinality(Up(i)) <= size
    BY <1>1, <2>1, FS_Subset
  <2>3. Cardinality(Up(i)) \in Nat /\ Cardinality(Up(i)) # 0
    BY <2>1, <2>2, FS_CardinalityType, FS_EmptySet
  <2> QED BY <1>2, <2>1, <2>2, <2>3
<1>4. ASSUME NEW i \in P, NEW k \in P, i < k
      PROVE  Cardinality(Up(i)) # Cardinality(Up(k))
  <2>0. i \in Int /\ k \in Int /\ P \in SUBSET Int
    OBVIOUS
  <2>1. Up(i) \in SUBSET Up(k)
    <3>1. \A j \in P : j \in Int /\ (j <= i => j <= k)
      BY <2>0, <1>4
    <3> QED BY <3>1
  <2>2. k \notin Up(i) /\ k \in Up(k)
    BY <2>0, <1>4
  <2> HIDE DEF Up
  <2> QED BY <1>3, <2>1, <2>2, FS_Subset
<1>5. IsFiniteSet(1 .. size) /\ Cardinality(1 .. size) = size
  BY <1>2, FS_Interval
<1>6. rank \in Injection(P, 1 .. size)
  <2>1. rank \in [P -> 1 .. size]
    BY <1>3
  <2>2. \A i, k \in P : rank[i] = rank[k] => i = k
    <3> HIDE DEF Up
    <3> SUFFICES ASSUME NEW i \in P, NEW k \in P, i # k PROVE rank[i] # rank[k]
      OBVIOUS
    <3> QED BY <1>4
  <2> HIDE DEF rank
  <2> QED BY <2>1, <2>2 DEF Injection, IsInjective
<1>7. rank \in Surjection(P, 1 .. size)
  <2> HIDE DEF rank
  <2> QED BY <1>5, <1>6, FS_Injection
<1>8. \A k \in 1 .. size : \E i \in P : rank[i] = k
  <2> HIDE DEF rank
  <2> QED BY <1>7 DEF Surjection
<1>9. QED BY <1>2, <1>8

\* A subsequence is made of what is at the chosen places.
LEMMA SubsequenceType ==
    ASSUME NEW T, NEW s \in Seq(T), NEW P \in SUBSET DOMAIN s
    PROVE  /\ Subsequence(s, P) \in Seq(T)
           /\ \A k \in DOMAIN Subsequence(s, P) :
                 \E i \in P : Subsequence(s, P)[k] = s[i]
<1> DEFINE Nth(k) == CHOOSE i \in P : Cardinality({j \in P : j <= i}) = k
           size == Cardinality(P)
<1>1. P \in SUBSET (1 .. Len(s)) /\ Len(s) \in Nat
  OBVIOUS
<1>2. size \in Nat /\ \A k \in 1 .. size : Nth(k) \in P
  BY <1>1, Ranks
<1>3. Subsequence(s, P) = [k \in 1 .. size |-> s[Nth(k)]]
  BY DEF Subsequence
<1> HIDE DEF Nth, size
<1>4. \A k \in 1 .. size : s[Nth(k)] \in T
  BY <1>2
<1>5. QED BY <1>2, <1>3, <1>4

\* Of all places it is the whole.
LEMMA SubsequenceOfAll ==
    ASSUME NEW T, NEW s \in Seq(T)
    PROVE  Subsequence(s, DOMAIN s) = s
<1> DEFINE P == DOMAIN s
           Nth(k) == CHOOSE i \in P : Cardinality({j \in P : j <= i}) = k
<1>1. P = 1 .. Len(s) /\ Len(s) \in Nat
  OBVIOUS
<1>2. ASSUME NEW i \in P PROVE Cardinality({j \in P : j <= i}) = i
  <2>1. {j \in P : j <= i} = 1 .. i /\ i \in Int /\ 1 \in Int /\ i >= 1
    BY <1>1
  <2>2. Cardinality(1 .. i) = IF 1 > i THEN 0 ELSE i - 1 + 1
    BY <2>1, FS_Interval
  <2>3. Cardinality(1 .. i) = i
    BY <2>1, <2>2
  <2> QED BY <2>1, <2>3
<1>3. Cardinality(P) = Len(s)
  BY <1>1, FS_Interval
<1>4. ASSUME NEW k \in 1 .. Len(s) PROVE Nth(k) = k
  <2> k \in P
    BY <1>1
  <2> HIDE DEF P
  <2> QED BY <1>2
<1>5. Subsequence(s, P) = [k \in 1 .. Cardinality(P) |-> s[Nth(k)]]
  BY DEF Subsequence
<1> HIDE DEF Nth
<1>6. QED BY <1>1, <1>3, <1>4, <1>5

-----------------------------------------------------------------------------
(* PublicUrl: the flags that `run` adds to a command line.                 *)

\* Arguments were appended to a command line.
Extends(out, argv) ==
    /\ Len(argv) <= Len(out)
    /\ \A k \in DOMAIN argv : out[k] = argv[k]

\* The places of the command line are places of the extended one.
LEMMA ExtendsFacts ==
    ASSUME NEW argv \in Seq(STRING), NEW out \in Seq(STRING), Extends(out, argv)
    PROVE  /\ Len(argv) \in Nat /\ Len(out) \in Nat /\ Len(argv) <= Len(out)
           /\ DOMAIN argv = 1 .. Len(argv) /\ DOMAIN out = 1 .. Len(out)
           /\ \A k \in DOMAIN argv : k \in DOMAIN out /\ out[k] = argv[k]
<1>1. Len(argv) <= Len(out)
  BY DEF Extends
<1>2. Len(argv) \in Nat /\ Len(out) \in Nat
  OBVIOUS
<1>3. DOMAIN argv = 1 .. Len(argv) /\ DOMAIN out = 1 .. Len(out)
  OBVIOUS
<1>4. \A k \in DOMAIN argv : out[k] = argv[k]
  BY DEF Extends
<1>5. \A k \in DOMAIN argv : k \in DOMAIN out
  BY <1>1, <1>2, <1>3
<1>6. QED BY <1>1, <1>2, <1>3, <1>4, <1>5

\* The search for an argument that is no flag finds the first one, or the end.
LEMMA SkipFlagsStops ==
    ASSUME NEW argv \in Seq(STRING), NEW i \in 1 .. Len(argv) + 1
    PROVE  LET j == SkipFlags(argv, i)
           IN  /\ j \in i .. Len(argv) + 1
               /\ j \in DOMAIN argv => argv[j] \notin Flag
               /\ \A k \in i .. j - 1 : argv[k] \in Flag
<1> DEFINE Stops == {k \in i .. Len(argv) + 1 : k \in DOMAIN argv => argv[k] \notin Flag}
<1>1. Stops \in SUBSET Nat /\ Len(argv) + 1 \in Stops
  OBVIOUS
<1>2. PICK j \in Stops : \A k \in Stops : j <= k
  <2> HIDE DEF Stops
  <2> QED BY <1>1, Least
<1>3. /\ j \in i .. Len(argv) + 1
      /\ j \in DOMAIN argv => argv[j] \notin Flag
  OBVIOUS
<1>4. ASSUME NEW k \in i .. j - 1 PROVE argv[k] \in Flag
  <2>1. k \in i .. Len(argv) + 1 /\ ~(j <= k)
    BY <1>3
  <2>2. k \notin Stops
    BY <1>2, <2>1
  <2> QED BY <2>1, <2>2
<1> HIDE DEF Stops
<1>5. QED BY <1>3, <1>4 DEF SkipFlags

\* What follows the argument that was found does not move it.
LEMMA SkipFlagsStays ==
    ASSUME NEW argv \in Seq(STRING), NEW out \in Seq(STRING), Extends(out, argv), NEW i \in 1 .. Len(argv) + 1,
           SkipFlags(argv, i) \in DOMAIN argv
    PROVE  SkipFlags(out, i) = SkipFlags(argv, i)
<1> DEFINE j == SkipFlags(argv, i)
           l == SkipFlags(out, i)
<1>1. /\ j \in i .. Len(argv) + 1 /\ j \in DOMAIN argv /\ argv[j] \notin Flag
      /\ \A k \in i .. j - 1 : argv[k] \in Flag
  BY SkipFlagsStops DEF Extends
<1>2. /\ l \in i .. Len(out) + 1
      /\ l \in DOMAIN out => out[l] \notin Flag
      /\ \A k \in i .. l - 1 : out[k] \in Flag
  <2>1. out \in Seq(STRING) /\ i \in 1 .. Len(out) + 1
    BY DEF Extends
  <2> HIDE DEF l
  <2> QED BY <2>1, SkipFlagsStops DEF l
<1> HIDE DEF j, l
<1>3. ~(j < l)
  <2> SUFFICES ASSUME j < l PROVE FALSE
    OBVIOUS
  <2>1. j \in i .. l - 1
    BY <1>1, <1>2
  <2>2. out[j] = argv[j]
    BY <1>1 DEF Extends
  <2> QED BY <1>1, <1>2, <2>1, <2>2
<1>4. ~(l < j)
  <2> SUFFICES ASSUME l < j PROVE FALSE
    OBVIOUS
  <2>1. l \in i .. j - 1 /\ l \in DOMAIN argv /\ l \in DOMAIN out
    BY <1>1, <1>2 DEF Extends
  <2>2. out[l] = argv[l]
    BY <2>1 DEF Extends
  <2> QED BY <1>1, <1>2, <2>1, <2>2
<1>5. j = l
  BY <1>1, <1>2, <1>3, <1>4 DEF Extends
<1>6. QED BY <1>5 DEF j, l

\* What is found is a framework of the list, or nothing.
LEMMA FrameworkFound ==
    ASSUME NEW argv
    PROVE  findFrameworkBasename(argv) \in frameworksNeedingPort \cup {""}
BY DEF findFrameworkBasename, FrameworkAt

\* The name for nothing is no framework.
LEMMA NoFramework == "" \notin frameworksNeedingPort
BY DEF frameworksNeedingPort

\* Appended arguments do not change which framework is found.
LEMMA FrameworkStays ==
    ASSUME NEW argv \in Seq(STRING), NEW out \in Seq(STRING), Extends(out, argv),
           findFrameworkBasename(argv) \in frameworksNeedingPort
    PROVE  findFrameworkBasename(out) = findFrameworkBasename(argv)
<1>0. /\ Len(argv) \in Nat /\ Len(out) \in Nat /\ Len(argv) <= Len(out)
      /\ DOMAIN argv = 1 .. Len(argv) /\ DOMAIN out = 1 .. Len(out)
      /\ \A k \in DOMAIN argv : k \in DOMAIN out /\ out[k] = argv[k]
  BY ExtendsFacts
<1>1. argv # <<>> /\ out # <<>> /\ out[1] = argv[1] /\ 1 \in DOMAIN argv
  <2>1. argv # <<>>
    BY NoFramework DEF findFrameworkBasename
  <2>2. 1 \in DOMAIN argv
    BY <1>0, <2>1
  <2>3. out[1] = argv[1] /\ 1 \in DOMAIN out
    BY <1>0, <2>2
  <2> QED BY <2>1, <2>2, <2>3
<1>2. CASE argv[1] \in frameworksNeedingPort
  BY <1>1, <1>2 DEF findFrameworkBasename
<1>3. CASE argv[1] \notin frameworksNeedingPort
  <2> DEFINE subcommands == packageRunners[argv[1]]
             i == SkipFlags(argv, 2)
             sub == i \in DOMAIN argv /\ argv[i] \in subcommands
             at_ == IF sub THEN SkipFlags(argv, i + 1) ELSE i
             i2 == SkipFlags(out, 2)
             sub2 == i2 \in DOMAIN out /\ out[i2] \in subcommands
             at2 == IF sub2 THEN SkipFlags(out, i2 + 1) ELSE i2
  <2>1. argv[1] \in DOMAIN packageRunners
    BY <1>1, <1>3, NoFramework DEF findFrameworkBasename
  <2>2. findFrameworkBasename(argv) = FrameworkAt(argv, at_)
    BY <1>1, <1>3, <2>1 DEF findFrameworkBasename
  <2>3. findFrameworkBasename(out) = FrameworkAt(out, at2)
    BY <1>1, <1>3, <2>1 DEF findFrameworkBasename
  <2>4. at_ \in DOMAIN argv
    <3> HIDE DEF at_
    <3> QED BY <2>2, NoFramework DEF FrameworkAt
  <2>5. i \in DOMAIN argv
    <3> HIDE DEF i
    <3> QED BY <2>4
  <2>6. i2 = i
    <3>1. 2 \in 1 .. Len(argv) + 1
      <4>1. 1 \in 1 .. Len(argv) /\ Len(argv) \in Nat
        BY <1>0, <1>1
      <4> QED BY <4>1
    <3> QED BY <2>5, <3>1, SkipFlagsStays
  <2>7. DOMAIN argv \subseteq DOMAIN out /\ out[i] = argv[i]
    <3> HIDE DEF i
    <3> QED BY <1>0, <2>5
  <2>8. sub2 = sub
    <3> HIDE DEF i, i2, subcommands
    <3> QED BY <2>5, <2>6, <2>7
  <2>9. at2 = at_
    <3>1. CASE sub
      <4>1. SkipFlags(argv, i + 1) \in DOMAIN argv
        <5> HIDE DEF i, sub
        <5> QED BY <2>4, <3>1
      <4>2. i + 1 \in 1 .. Len(argv) + 1
        <5> HIDE DEF i
        <5>1. i \in 1 .. Len(argv) /\ Len(argv) \in Nat
          BY <1>0, <2>5
        <5> QED BY <5>1
      <4>3. SkipFlags(out, i + 1) = SkipFlags(argv, i + 1)
        <5> HIDE DEF i
        <5> QED BY <4>1, <4>2, SkipFlagsStays
      <4> HIDE DEF i, i2, sub, sub2
      <4> QED BY <2>6, <2>8, <3>1, <4>3
    <3>2. CASE ~sub
      <4> HIDE DEF i, i2, sub, sub2
      <4> QED BY <2>6, <2>8, <3>2
    <3> QED BY <3>1, <3>2
  <2> HIDE DEF at_, at2
  <2>10. out[at_] = argv[at_] /\ at_ \in DOMAIN out
    BY <1>0, <2>4
  <2>11. FrameworkAt(out, at_) = FrameworkAt(argv, at_)
    BY <2>4, <2>10, Zenon DEF FrameworkAt
  <2> QED BY <2>2, <2>3, <2>9, <2>11, Zenon
<1>4. QED BY <1>2, <1>3

\* What Append does, place by place.
LEMMA AppendFacts ==
    ASSUME NEW T, NEW s \in Seq(T), NEW e \in T
    PROVE  /\ Append(s, e) \in Seq(T)
           /\ Len(Append(s, e)) = Len(s) + 1
           /\ \A i \in 1 .. Len(s) : Append(s, e)[i] = s[i]
           /\ Append(s, e)[Len(s) + 1] = e
OBVIOUS

\* Every form of the flag at the end of a command line counts once more.
LEMMA TimesAppend ==
    ASSUME NEW s \in Seq(STRING), NEW e \in STRING, NEW name
    PROVE  /\ Times(s, name) \in Nat
           /\ Times(Append(s, e), name)
                = Times(s, name) + (IF e \in Spells[name] THEN 1 ELSE 0)
<1> DEFINE Hits(t) == {i \in DOMAIN t : t[i] \in Spells[name]}
           n == Len(s)
           long == Append(s, e)
<1>1. n \in Nat /\ n + 1 \notin Hits(s) /\ Hits(s) \in SUBSET (1 .. n)
  OBVIOUS
<1>2. IsFiniteSet(Hits(s)) /\ Cardinality(Hits(s)) \in Nat
  <2> HIDE DEF Hits, n
  <2>1. 1 \in Int /\ n \in Int
    BY <1>1
  <2>2. IsFiniteSet(1 .. n)
    BY <2>1, FS_Interval
  <2> QED BY <1>1, <2>2, FS_Subset, FS_CardinalityType
<1>3. Hits(long) = Hits(s) \cup (IF e \in Spells[name] THEN {n + 1} ELSE {})
  <2>1. long \in Seq(STRING) /\ Len(long) = n + 1
    BY AppendFacts
  <2>2. \A i \in 1 .. n : long[i] = s[i]
    BY AppendFacts
  <2>3. long[n + 1] = e
    BY AppendFacts
  <2>4. DOMAIN s = 1 .. n /\ DOMAIN long = 1 .. n + 1
    BY <2>1
  <2>5. 1 .. n + 1 = (1 .. n) \cup {n + 1}
    BY <1>1
  <2> HIDE DEF long, n
  <2>6. \A i : i \in Hits(long) <=> i \in Hits(s) \/ (i = n + 1 /\ e \in Spells[name])
    BY <2>2, <2>3, <2>4, <2>5
  <2> HIDE DEF Hits
  <2> QED BY <2>6
<1>4. Cardinality(Hits(s) \cup {n + 1}) = Cardinality(Hits(s)) + 1
  <2> HIDE DEF Hits, n
  <2> QED BY <1>1, <1>2, FS_AddElement
<1>5. Times(s, name) = Cardinality(Hits(s)) /\ Times(long, name) = Cardinality(Hits(long))
  BY DEF Times
<1> HIDE DEF Hits, n
<1>6. CASE e \in Spells[name]
  BY <1>2, <1>3, <1>4, <1>5, <1>6
<1>7. CASE e \notin Spells[name]
  BY <1>2, <1>3, <1>5, <1>7
<1>8. QED BY <1>6, <1>7

\* A flag is counted if and only if it is seen.
LEMMA TimesZero ==
    ASSUME NEW s \in Seq(STRING), NEW name
    PROVE  Times(s, name) = 0 <=> ~argvHasFlag(s, name)
<1> DEFINE Hits == {i \in DOMAIN s : s[i] \in Spells[name]}
<1>1. IsFiniteSet(Hits)
  <2>1. Hits \in SUBSET (1 .. Len(s)) /\ 1 \in Int /\ Len(s) \in Int
    OBVIOUS
  <2> HIDE DEF Hits
  <2>2. IsFiniteSet(1 .. Len(s))
    BY <2>1, FS_Interval
  <2> QED BY <2>1, <2>2, FS_Subset
<1>2. Hits = {} <=> ~argvHasFlag(s, name)
  BY DEF argvHasFlag, Range
<1>3. Times(s, name) = Cardinality(Hits)
  BY DEF Times
<1> HIDE DEF Hits
<1>4. QED BY <1>1, <1>2, <1>3, FS_EmptySet

\* The flags that a run adds, and the values that follow them.
Given == {"--port", "--host", "--strictPort"}
Values == {PortText, HostText, "localhost"}

\* A value is no form of a flag, and a flag is a form of itself alone.
LEMMA SpellsApart ==
    /\ Given \subseteq STRING /\ Values \subseteq STRING
    /\ \A name \in Given :
         /\ name \in Spells[name]
         /\ \A v \in Values : v \notin Spells[name]
         /\ \A other \in Given : other # name => name \notin Spells[other]
<1>1. Given \subseteq STRING /\ Values \subseteq STRING
  BY FrameworkArgsAssumption, Zenon DEF Given, Values
<1>2. Given \subseteq DOMAIN Spells
  BY FrameworkArgsAssumption DEF Given
<1>3. \A name \in DOMAIN Spells :
         /\ name \in Spells[name]
         /\ Spells[name] \cap Values = {}
         /\ \A other \in DOMAIN Spells \ {name} : Spells[name] \cap Spells[other] = {}
  BY FrameworkArgsAssumption DEF Values
<1>4. QED BY <1>1, <1>2, <1>3

\* A flag that is added unless given, alone or with its value, is given once
\* afterwards, and no other flag more or less often than before.
Added1(t, s, name) ==
    /\ t \in Seq(STRING)
    /\ Extends(t, s)
    /\ \A other \in Given \ {name} : Times(t, other) = Times(s, other)
    /\ Times(t, name) = IF Times(s, name) = 0 THEN 1 ELSE Times(s, name)

\* An argument more extends a command line.
LEMMA ExtendsAppend ==
    ASSUME NEW s \in Seq(STRING), NEW e \in STRING
    PROVE  Extends(Append(s, e), s)
<1>1. Len(s) \in Nat /\ DOMAIN s = 1 .. Len(s)
  OBVIOUS
<1>2. QED BY <1>1, AppendFacts DEF Extends

\* Extending twice is extending.
LEMMA ExtendsTransitive ==
    ASSUME NEW r \in Seq(STRING), NEW s \in Seq(STRING), NEW t \in Seq(STRING),
           Extends(s, r), Extends(t, s)
    PROVE  Extends(t, r)
<1>1. Len(r) \in Nat /\ Len(s) \in Nat /\ Len(t) \in Nat
  OBVIOUS
<1>2. \A k \in DOMAIN r : t[k] = r[k]
  BY ExtendsFacts
<1>3. QED BY <1>1, <1>2 DEF Extends

\* A flag that was given is left as it was.
LEMMA FlagKept ==
    ASSUME NEW s \in Seq(STRING), NEW name \in Given, Times(s, name) # 0
    PROVE  Added1(s, s, name)
BY DEF Added1, Extends

\* A flag without a value that is added is given once.
LEMMA FlagAdded ==
    ASSUME NEW s \in Seq(STRING), NEW name \in Given, Times(s, name) = 0
    PROVE  Added1(Append(s, name), s, name)
<1> DEFINE t == Append(s, name)
<1>1. name \in STRING
  BY SpellsApart
<1>2. t \in Seq(STRING) /\ Extends(t, s)
  BY <1>1, AppendFacts, ExtendsAppend
<1>3. \A x \in Given : /\ Times(s, x) \in Nat
                       /\ Times(t, x) = Times(s, x) + (IF name \in Spells[x] THEN 1 ELSE 0)
  BY <1>1, TimesAppend
<1> HIDE DEF t
<1>4. \A x \in Given \ {name} : name \notin Spells[x]
  BY SpellsApart
<1>5. name \in Spells[name]
  BY SpellsApart
<1>6. \A x \in Given \ {name} : Times(t, x) = Times(s, x)
  BY <1>3, <1>4
<1>7. Times(t, name) = 1
  BY <1>3, <1>5
<1>8. QED BY <1>2, <1>6, <1>7 DEF Added1, t

\* So is a flag with a value, which is not mistaken for a flag.
LEMMA ValueAdded ==
    ASSUME NEW s \in Seq(STRING), NEW name \in Given, Times(s, name) = 0,
           NEW v \in Values
    PROVE  Added1(Append(Append(s, name), v), s, name)
<1> DEFINE t == Append(s, name)
           r == Append(t, v)
<1>1. name \in STRING /\ v \in STRING
  BY SpellsApart
<1>2. Added1(t, s, name)
  BY FlagAdded
<1>3. t \in Seq(STRING)
  BY <1>2 DEF Added1
<1> HIDE DEF t
<1>4. r \in Seq(STRING) /\ Extends(r, t)
  BY <1>1, <1>3, AppendFacts, ExtendsAppend
<1>5. \A x \in Given : /\ Times(t, x) \in Nat
                       /\ Times(r, x) = Times(t, x) + (IF v \in Spells[x] THEN 1 ELSE 0)
  BY <1>1, <1>3, TimesAppend
<1> HIDE DEF r
<1>6. \A x \in Given : Times(r, x) = Times(t, x)
  <2>1. \A x \in Given : v \notin Spells[x]
    BY SpellsApart
  <2> QED BY <1>5, <2>1
<1>7. Extends(r, s)
  BY <1>2, <1>3, <1>4, ExtendsTransitive DEF Added1
<1>8. QED BY <1>2, <1>4, <1>6, <1>7 DEF Added1, r, t

\* To append a tuple is to append its elements.
LEMMA OneAppended ==
    ASSUME NEW T, NEW s \in Seq(T), NEW a \in T
    PROVE  s \o <<a>> = Append(s, a)
OBVIOUS

\* The same for two elements.
LEMMA TwoAppended ==
    ASSUME NEW T, NEW s \in Seq(T), NEW a \in T, NEW b \in T
    PROVE  s \o <<a, b>> = Append(Append(s, a), b)
OBVIOUS

\* The same for none.
LEMMA NoneAppended ==
    ASSUME NEW T, NEW s \in Seq(T)
    PROVE  s \o <<>> = s
OBVIOUS

\* The same for two arguments.
LEMMA TwoArguments ==
    ASSUME NEW s \in Seq(STRING), NEW x \in STRING, NEW y \in STRING
    PROVE  s \o <<x, y>> = Append(Append(s, x), y)
<1>1. \A T : s \in Seq(T) =>
        \A a, b \in T : s \o <<a, b>> = Append(Append(s, a), b)
  BY TwoAppended
<1>2. QED BY <1>1

\* One test of InjectFrameworkArgs, on the command line as given.
LEMMA Unless ==
    ASSUME NEW argv \in Seq(STRING), NEW s \in Seq(STRING), NEW name \in Given,
           Times(s, name) = Times(argv, name),
           NEW more, more = <<name>> \/ \E v \in Values : more = <<name, v>>
    PROVE  Added1(s \o (IF argvHasFlag(argv, name) THEN <<>> ELSE more), s, name)
<1>1. name \in STRING /\ \A v \in Values : v \in STRING
  BY SpellsApart
<1>2. CASE argvHasFlag(argv, name)
  <2>1. Times(s, name) # 0
    BY <1>2, TimesZero
  <2>2. s \o <<>> = s
    BY <1>1, NoneAppended
  <2> QED BY <1>2, <2>1, <2>2, FlagKept
<1>3. CASE ~argvHasFlag(argv, name)
  <2>1. Times(s, name) = 0
    BY <1>3, TimesZero
  <2>2. CASE more = <<name>>
    <3>1. s \o more = Append(s, name)
      BY <1>1, <2>2, OneAppended
    <3> QED BY <1>3, <2>1, <3>1, FlagAdded
  <2>3. ASSUME NEW v \in Values, more = <<name, v>>
        PROVE  Added1(s \o more, s, name)
    <3>1. v \in STRING
      BY <1>1, <2>3
    <3>2. s \o <<name, v>> = Append(Append(s, name), v)
      BY <1>1, <3>1, TwoArguments, Zenon
    <3>3. Added1(Append(Append(s, name), v), s, name)
      BY <2>1, <2>3, ValueAdded
    <3> QED BY <2>3, <3>2, <3>3, Zenon
  <2> QED BY <1>3, <2>2, <2>3
<1>4. QED BY <1>2, <1>3

\* The injected flags settle, whatever the command line.
LEMMA InjectionAlwaysSettles ==
    ASSUME NEW argv \in Seq(STRING)
    PROVE  InjectionSettles(argv)
<1> DEFINE fw == findFrameworkBasename(argv)
           strict == fw \in strictPort
           told == {"--port", "--host"} \cup (IF strict THEN {"--strictPort"} ELSE {})
           unless(name, added) == IF argvHasFlag(argv, name) THEN <<>> ELSE added
           p == unless("--port", <<"--port", PortText>>)
           st == IF strict THEN unless("--strictPort", <<"--strictPort">>) ELSE <<>>
           h == unless("--host", <<"--host", IF fw = "expo" THEN "localhost" ELSE HostText>>)
           s1 == argv \o p
           s2 == s1 \o st
           out == InjectFrameworkArgs(argv)
<1>1. CASE fw = ""
  <2>1. out = argv
    BY <1>1 DEF InjectFrameworkArgs
  <2>2. IsPrefix(argv, argv)
    BY DEF IsPrefix
  <2> QED BY <1>1, <2>1, <2>2 DEF InjectionSettles
<1>2. CASE fw # ""
  <2>0. fw \in frameworksNeedingPort
    BY <1>2, FrameworkFound
  <2>1. out = s2 \o h
    BY <1>2 DEF InjectFrameworkArgs
  <2>2. /\ "--port" \in Given /\ "--strictPort" \in Given /\ "--host" \in Given
        /\ PortText \in Values
        /\ (IF fw = "expo" THEN "localhost" ELSE HostText) \in Values
    BY DEF Given, Values
  <2>3. Added1(s1, argv, "--port")
    <3> HIDE DEF fw
    <3> QED BY <2>2, Unless
  <2>4. s1 \in Seq(STRING) /\ Times(s1, "--strictPort") = Times(argv, "--strictPort")
                           /\ Times(s1, "--host") = Times(argv, "--host")
    BY <2>2, <2>3 DEF Added1
  <2>5. s2 \in Seq(STRING) /\ Extends(s2, s1)
        /\ IF strict THEN Added1(s2, s1, "--strictPort") ELSE s2 = s1
    <3>1. CASE strict
      <4>1. Added1(s2, s1, "--strictPort")
        <5> HIDE DEF fw, s1
        <5> QED BY <2>2, <2>4, <3>1, Unless
      <4> QED BY <3>1, <4>1 DEF Added1
    <3>2. CASE ~strict
      <4> HIDE DEF s1, strict
      <4> QED BY <2>4, <3>2, NoneAppended DEF Extends
    <3> QED BY <3>1, <3>2
  <2>6. Times(s2, "--host") = Times(s1, "--host") /\ Times(s2, "--port") = Times(s1, "--port")
    <3> HIDE DEF s1, s2, strict
    <3> QED BY <2>2, <2>5 DEF Added1
  <2>7. Added1(out, s2, "--host")
    <3> HIDE DEF fw, s1, s2
    <3> QED BY <2>1, <2>2, <2>4, <2>5, <2>6, Unless
  <2> HIDE DEF s1, s2, out, p, st, h
  <2>8. out \in Seq(STRING) /\ Extends(out, argv)
    <3>1. out \in Seq(STRING) /\ Extends(out, s2)
      BY <2>7 DEF Added1
    <3>2. Extends(s1, argv)
      BY <2>3 DEF Added1
    <3>3. Extends(s2, argv)
      BY <2>4, <2>5, <3>2, ExtendsTransitive
    <3> QED BY <2>5, <3>1, <3>3, ExtendsTransitive
  <2>9. findFrameworkBasename(out) = fw
    <3> HIDE DEF fw
    <3> QED BY <2>0, <2>8, FrameworkStays DEF fw
  <2>10. \A name \in told : Times(out, name) = IF Times(argv, name) = 0 THEN 1 ELSE Times(argv, name)
    <3>1. /\ Times(out, "--port") = Times(s1, "--port")
          /\ Times(out, "--strictPort") = Times(s2, "--strictPort")
      BY <2>2, <2>6, <2>7 DEF Added1
    <3>2. Times(s1, "--port") = IF Times(argv, "--port") = 0 THEN 1 ELSE Times(argv, "--port")
      BY <2>3 DEF Added1
    <3>3. strict => Times(s2, "--strictPort") = IF Times(argv, "--strictPort") = 0
                                                THEN 1 ELSE Times(argv, "--strictPort")
      <4> HIDE DEF strict
      <4> QED BY <2>4, <2>5 DEF Added1
    <3>4. Times(out, "--host") = IF Times(argv, "--host") = 0 THEN 1 ELSE Times(argv, "--host")
      BY <2>4, <2>6, <2>7 DEF Added1
    <3> HIDE DEF strict
    <3> QED BY <3>1, <3>2, <3>3, <3>4
  <2>11. \A name \in told : argvHasFlag(out, name)
    <3>1. \A name \in told : Times(out, name) # 0
      <4> HIDE DEF told
      <4> QED BY <2>10
    <3> QED BY <2>8, <3>1, TimesZero
  <2>12. InjectFrameworkArgs(out) = out
    <3>1. argvHasFlag(out, "--port") /\ argvHasFlag(out, "--host")
          /\ (strict => argvHasFlag(out, "--strictPort"))
      <4> HIDE DEF strict
      <4> QED BY <2>11
    <3>2. ((out \o <<>>) \o <<>>) \o <<>> = out
      <4>1. out \o <<>> = out
        BY <2>8
      <4> QED BY <4>1
    <3> HIDE DEF fw
    <3> QED BY <1>2, <2>9, <3>1, <3>2, Zenon DEF InjectFrameworkArgs
  <2>13. IsPrefix(argv, out)
    <3>1. Len(argv) <= Len(out) /\ \A k \in 1 .. Len(argv) : argv[k] = out[k]
      BY <2>8, ExtendsFacts
    <3>2. SubSeq(argv, 1, Len(argv)) = SubSeq(out, 1, Len(argv))
      BY <2>8, <3>1
    <3> QED BY <3>1, <3>2 DEF IsPrefix
  <2> HIDE DEF fw, told
  <2> QED BY <2>9, <2>10, <2>12, <2>13 DEF InjectionSettles, fw, out, told
<1>3. QED BY <1>1, <1>2

-----------------------------------------------------------------------------
(* PublicUrl: texts without the spaces at their ends.                      *)

\* What SubSeq returns, place by place.
LEMMA SubSeqFacts ==
    ASSUME NEW T, NEW t \in Seq(T), NEW i \in 1 .. Len(t), NEW j \in i .. Len(t)
    PROVE  /\ SubSeq(t, i, j) \in Seq(T)
           /\ Len(SubSeq(t, i, j)) = j - i + 1
           /\ DOMAIN SubSeq(t, i, j) = 1 .. j - i + 1
           /\ \A k \in 1 .. j - i + 1 : SubSeq(t, i, j)[k] = t[i + k - 1]
<1>1. Len(t) \in Nat /\ i \in Nat /\ j \in Nat
  OBVIOUS
<1>2. SubSeq(t, i, j) \in Seq(T)
  OBVIOUS
<1>3. Len(SubSeq(t, i, j)) = j - i + 1
  BY <1>1
<1>4. \A k \in 1 .. j - i + 1 : SubSeq(t, i, j)[k] = t[i + k - 1]
  BY <1>1
<1>5. DOMAIN SubSeq(t, i, j) = 1 .. j - i + 1
  BY <1>2, <1>3
<1>6. QED BY <1>2, <1>3, <1>4, <1>5

\* Nothing of S is left at the ends, and what is no member of S is kept.
LEMMA TrimmedFacts ==
    ASSUME NEW T, NEW t \in Seq(T), NEW S
    PROVE  LET r == Trimmed(t, S)
           IN  /\ r \in Seq(T)
               /\ r # <<>> => r[1] \notin S /\ r[Len(r)] \notin S
               /\ \A i \in DOMAIN t : t[i] \notin S => \E k \in DOMAIN r : r[k] = t[i]
               /\ t # <<>> /\ t[1] \notin S /\ t[Len(t)] \notin S => r = t
<1> DEFINE kept == {i \in DOMAIN t : t[i] \notin S}
           first == CHOOSE i \in kept : \A j \in kept : i <= j
           last == CHOOSE i \in kept : \A j \in kept : j <= i
           r == Trimmed(t, S)
<1>0. Len(t) \in Nat /\ DOMAIN t = 1 .. Len(t)
  OBVIOUS
<1>1. CASE kept = {}
  <2>1. r = <<>>
    BY <1>1 DEF Trimmed
  <2>2. \A i \in DOMAIN t : t[i] \in S
    BY <1>1
  <2>3. t # <<>> => 1 \in DOMAIN t
    BY <1>0
  <2>4. <<>> \in Seq(T)
    OBVIOUS
  <2> HIDE DEF r
  <2> QED BY <2>1, <2>2, <2>3, <2>4 DEF r
<1>2. CASE kept # {}
  <2>0. kept \in SUBSET Nat /\ kept \in SUBSET (1 .. Len(t))
    BY <1>0
  <2>1. r = SubSeq(t, first, last)
    BY <1>2 DEF Trimmed
  <2>2. first \in kept /\ \A j \in kept : first <= j
    <3> HIDE DEF kept
    <3> QED BY <1>2, <2>0, Least
  <2>3. last \in kept /\ \A j \in kept : j <= last
    <3> HIDE DEF kept
    <3> QED BY <1>0, <1>2, <2>0, Greatest
  <2> HIDE DEF first, last
  <2>4. first \in 1 .. Len(t) /\ last \in 1 .. Len(t) /\ first <= last
    <3> HIDE DEF kept
    <3> QED BY <2>0, <2>2, <2>3
  <2>5. last \in first .. Len(t)
    BY <2>4
  <2>6. /\ r \in Seq(T) /\ Len(r) = last - first + 1
        /\ DOMAIN r = 1 .. last - first + 1
        /\ \A k \in 1 .. last - first + 1 : r[k] = t[first + k - 1]
    BY <2>1, <2>4, <2>5, SubSeqFacts
  <2>7. r[1] = t[first] /\ r[Len(r)] = t[last]
    <3>1. 1 \in 1 .. last - first + 1 /\ last - first + 1 \in 1 .. last - first + 1
          /\ first + 1 - 1 = first /\ first + (last - first + 1) - 1 = last
      BY <2>4
    <3> QED BY <2>6, <3>1
  <2>8. t[first] \notin S /\ t[last] \notin S
    BY <2>2, <2>3
  <2>9. ASSUME NEW i \in kept PROVE \E k \in DOMAIN r : r[k] = t[i]
    <3>1. i \in first .. last
      <4> HIDE DEF kept
      <4> QED BY <2>0, <2>2, <2>3, <2>4
    <3>2. i - first + 1 \in 1 .. last - first + 1 /\ first + (i - first + 1) - 1 = i
      BY <2>4, <3>1
    <3> HIDE DEF r
    <3> QED BY <2>6, <3>2
  <2>10. ASSUME t # <<>>, t[1] \notin S, t[Len(t)] \notin S PROVE r = t
    <3>1. 1 \in kept /\ Len(t) \in kept
      BY <1>0, <2>10
    <3>2. first = 1 /\ last = Len(t)
      <4> HIDE DEF kept
      <4> QED BY <2>2, <2>3, <2>4, <3>1
    <3>3. Len(r) = Len(t) /\ \A k \in 1 .. Len(t) : r[k] = t[k]
      <4> HIDE DEF r
      <4> QED BY <1>0, <2>6, <3>2
    <3> HIDE DEF r
    <3> QED BY <2>6, <3>3
  <2> HIDE DEF r
  <2>11. QED BY <2>6, <2>7, <2>8, <2>9, <2>10 DEF r
<1>3. QED BY <1>1, <1>2

\* A text with nothing of S at its ends stays as it is.
LEMMA TrimmedStays ==
    ASSUME NEW T, NEW t \in Seq(T), NEW S,
           t # <<>>, t[1] \notin S, t[Len(t)] \notin S
    PROVE  Trimmed(t, S) = t
BY TrimmedFacts

\* A token that is not of S is still there.
LEMMA TrimmedKeeps ==
    ASSUME NEW T, NEW t \in Seq(T), NEW S, NEW i \in DOMAIN t, t[i] \notin S
    PROVE  \E k \in DOMAIN Trimmed(t, S) : Trimmed(t, S)[k] = t[i]
BY TrimmedFacts

\* What is trimmed of spaces stays as it is.
LEMMA TrimSpaceAgain ==
    ASSUME NEW T, NEW t \in Seq(T)
    PROVE  TrimSpace(TrimSpace(t)) = TrimSpace(t)
<1> DEFINE r == TrimSpace(t)
<1>1. r \in Seq(T) /\ (r # <<>> => r[1] \notin {" "} /\ r[Len(r)] \notin {" "})
  BY TrimmedFacts DEF TrimSpace
<1> HIDE DEF r
<1>2. CASE r # <<>>
  <2>1. Trimmed(r, {" "}) = r
    BY <1>1, <1>2, TrimmedStays
  <2> QED BY <2>1 DEF TrimSpace, r
<1>3. CASE r = <<>>
  <2>1. DOMAIN r = {}
    BY <1>3
  <2>2. Trimmed(r, {" "}) = <<>>
    BY <2>1 DEF Trimmed
  <2> QED BY <1>3, <2>2 DEF TrimSpace, r
<1>4. QED BY <1>2, <1>3

-----------------------------------------------------------------------------
(* PublicUrl: the two readers of a config file.                            *)

\* The places of an app's hosts, and the order of the file among them.
LEMMA PlacesOrdered ==
    ASSUME NEW apps,
           DOMAIN apps \subseteq Int, \A i \in DOMAIN apps : DOMAIN apps[i].hosts \subseteq Int,
           NEW p \in Places(apps), NEW q \in Places(apps), p # q
    PROVE  Earlier(p, q) \/ Earlier(q, p)
<1>1. PICK i \in DOMAIN apps : \E j \in DOMAIN apps[i].hosts : p = <<i, j>>
  BY DEF Places
<1>2. PICK j \in DOMAIN apps[i].hosts : p = <<i, j>>
  BY <1>1
<1>3. PICK k \in DOMAIN apps : \E l \in DOMAIN apps[k].hosts : q = <<k, l>>
  BY DEF Places
<1>4. PICK l \in DOMAIN apps[k].hosts : q = <<k, l>>
  BY <1>3
<1>5. i \in Int /\ j \in Int /\ k \in Int /\ l \in Int
  BY <1>2, <1>4
<1>6. i # k \/ j # l
  BY <1>2, <1>4
<1>7. p[1] = i /\ p[2] = j /\ q[1] = k /\ q[2] = l
  BY <1>2, <1>4
<1>8. QED BY <1>5, <1>6, <1>7 DEF Earlier

\* Check collects what validate stops at.
LEMMA CheckIsValidate ==
    ASSUME NEW raw
    PROVE  Check(raw) = {} <=> validate(Defaulted(raw))
<1> DEFINE c == Defaulted(raw)
           f1 == Finding("listen", ~ValidateListenAddr(c.listen))
           f2 == Finding("tls.listen", ~ValidateListenAddr(c.tlsListen))
           f3 == Finding("http_redirect",
                         c.redirect # Absent /\ ~ValidateListenAddr(c.redirect))
           f4 == Finding("log_format", c.logFormat \notin {Absent, "text", "json"})
           f5 == Finding("proxy", c.negative)
           f6 == Finding("tls", (c.cert = Absent) # (c.key = Absent))
           f7 == Finding("hosts", Places(c.apps) # ValidPlaces(c.apps) \/ UsedAgain(c.apps) # {})
           f8 == Finding("app", \E i \in DOMAIN c.apps :
                     c.apps[i].hosts = <<>> \/ c.apps[i].upstream \notin GoodURL)
<1>1. Check(raw) = UNION {f1, f2, f3, f4, f5, f6, f7, f8}
  BY DEF Check
<1>2. Check(raw) = {} <=> /\ f1 = {} /\ f2 = {} /\ f3 = {} /\ f4 = {}
                          /\ f5 = {} /\ f6 = {} /\ f7 = {} /\ f8 = {}
  <2> HIDE DEF f1, f2, f3, f4, f5, f6, f7, f8
  <2> QED BY <1>1
<1>3. /\ f1 = {} <=> ValidateListenAddr(c.listen)
      /\ f2 = {} <=> ValidateListenAddr(c.tlsListen)
      /\ f3 = {} <=> (c.redirect # Absent => ValidateListenAddr(c.redirect))
      /\ f4 = {} <=> c.logFormat \in {Absent, "text", "json"}
      /\ f5 = {} <=> ~c.negative
      /\ f6 = {} <=> ((c.cert = Absent) = (c.key = Absent))
      /\ f7 = {} <=> Places(c.apps) = ValidPlaces(c.apps) /\ UsedAgain(c.apps) = {}
      /\ f8 = {} <=> \A i \in DOMAIN c.apps :
                        c.apps[i].hosts # <<>> /\ c.apps[i].upstream \in GoodURL
  <2> HIDE DEF c
  <2> QED BY DEF Finding
<1>4. Places(c.apps) = ValidPlaces(c.apps) /\ UsedAgain(c.apps) = {}
      <=> \A p \in Places(c.apps) :
            /\ ValidHostToken(HostOf(c.apps, p))
            /\ ~\E q \in Places(c.apps) :
                  Earlier(q, p) /\ HostKey(HostOf(c.apps, q)) = HostKey(HostOf(c.apps, p))
  <2> HIDE DEF c
  <2> QED BY DEF ValidPlaces, UsedAgain
<1> HIDE DEF c, f1, f2, f3, f4, f5, f6, f7, f8
<1>5. QED BY <1>2, <1>3, <1>4 DEF validate, c

\* A valid host has no spaces to trim, so the check of duplicates and the
\* router compare the same text.
LEMMA ValidIsTrimmed ==
    ASSUME NEW t, ValidHostToken(t)
    PROVE  HostKey(t) = normalizeHost(t)
BY DEF ValidHostToken, HostKey, normalizeHost

\* The places of the apps and of their hosts are numbers.
LEMMA AppsPositions ==
    ASSUME NEW raw \in Config
    PROVE  LET apps == Defaulted(raw).apps
           IN  /\ DOMAIN apps \subseteq Int
               /\ \A i \in DOMAIN apps : DOMAIN apps[i].hosts \subseteq Int
<1> DEFINE d == Defaulted(raw)
           domain == NormalizeDomain(IF raw.domain = <<>> THEN DefaultDomain ELSE raw.domain)
<1>1. raw.apps \in Seq(App)
  BY DEF Config
<1>2. d.apps = [i \in DOMAIN raw.apps |->
                 [raw.apps[i] EXCEPT !.hosts = Expand(raw.apps[i].hosts, domain)]]
  <2> HIDE DEF domain
  <2> QED BY DEF Defaulted, Config, domain
<1>3. \A names, dom : DOMAIN Expand(names, dom) \subseteq Int
  BY DEF Expand, Subsequence
<1> HIDE DEF domain
<1>4. DOMAIN raw.apps \subseteq Int /\ \A i \in DOMAIN raw.apps : raw.apps[i] \in App
  BY <1>1
<1>5. ASSUME NEW i \in DOMAIN raw.apps
      PROVE  d.apps[i].hosts = Expand(raw.apps[i].hosts, domain)
  <2> HIDE DEF d
  <2> QED BY <1>2, <1>4 DEF App
<1>6. DOMAIN d.apps = DOMAIN raw.apps
  <2> HIDE DEF d
  <2> QED BY <1>2
<1> HIDE DEF d
<1>7. QED BY <1>3, <1>4, <1>5, <1>6 DEF d

\* The two readers of a config file agree on every file.
LEMMA ReadersAgree ==
    ASSUME NEW raw \in Config
    PROVE  CheckAgreesWithLoad(raw)
<1> DEFINE c == Defaulted(raw)
<1>1. Check(raw) = {} <=> Load(raw)
  BY CheckIsValidate DEF Load
<1>2. (Check(raw) = {}) = Load(raw)
  <2>1. Load(raw) \in BOOLEAN
    BY DEF Load, validate
  <2> QED BY <1>1, <2>1
<1>3. ASSUME Load(raw) PROVE StartsWith(raw)
  <2>1. /\ \A i \in DOMAIN c.apps : c.apps[i].hosts # <<>> /\ c.apps[i].upstream \in GoodURL
        /\ \A p \in Places(c.apps) :
              /\ ValidHostToken(HostOf(c.apps, p))
              /\ ~\E q \in Places(c.apps) :
                    Earlier(q, p) /\ HostKey(HostOf(c.apps, q)) = HostKey(HostOf(c.apps, p))
    <3> HIDE DEF c
    <3> QED BY <1>3 DEF Load, validate, c
  <2>2. DOMAIN c.apps \subseteq Int /\ \A i \in DOMAIN c.apps : DOMAIN c.apps[i].hosts \subseteq Int
    BY AppsPositions
  <2> HIDE DEF c
  <2>3. Absent \notin GoodURL
    BY ConfigCheckAssumption
  <2>4. ASSUME NEW p \in Places(c.apps), NEW q \in Places(c.apps), p # q
        PROVE  normalizeHost(HostOf(c.apps, p)) # normalizeHost(HostOf(c.apps, q))
    <3>1. Earlier(p, q) \/ Earlier(q, p)
      BY <2>2, <2>4, PlacesOrdered
    <3>2. HostKey(HostOf(c.apps, p)) # HostKey(HostOf(c.apps, q))
      BY <2>1, <3>1
    <3> QED BY <2>1, <3>2, ValidIsTrimmed
  <2>5. \A i \in DOMAIN c.apps : c.apps[i].hosts # <<>> /\ c.apps[i].upstream # Absent
    BY <2>1, <2>3
  <2> QED BY <2>4, <2>5 DEF StartsWith, c
<1>4. QED BY <1>2, <1>3 DEF CheckAgreesWithLoad

-----------------------------------------------------------------------------
(* PublicUrl: the hosts that are asked for.                                *)

\* The tokens that the code writes itself.
LEMMA TextTokens ==
    /\ \A x \in Word \cup Punctuation : x \in STRING
    /\ <<".">> \in Text /\ <<"-">> \in Text /\ DefaultDomain \in Text /\ <<>> \in Text
<1>1. \A x \in Word \cup Punctuation : x \in STRING
  BY HostNamesAssumption
<1>2. "." \in STRING /\ "-" \in STRING /\ "localhost" \in STRING
  BY <1>1, HostNamesAssumption DEF Punctuation
<1>3. QED BY <1>1, <1>2 DEF Text, DefaultDomain

\* A domain without spaces and final dot is a text.
LEMMA NormalizeDomainType ==
    ASSUME NEW d \in Text
    PROVE  NormalizeDomain(d) \in Text
<1> DEFINE r == TrimSpace(d)
<1>1. r \in Seq(STRING)
  BY TrimmedFacts DEF TrimSpace, Text
<1> HIDE DEF r
<1>2. r # <<>> => Front(r) \in Seq(STRING)
  BY <1>1 DEF Front
<1>3. QED BY <1>1, <1>2 DEF NormalizeDomain, TrimDot, Text, r

\* A host of Expand is one of the names without spaces, left as it is because
\* it needs no domain or there is none, or such a name with the domain.
LEMMA ExpandFacts ==
    ASSUME NEW names \in Seq(Text), NEW domain \in Text
    PROVE  /\ Expand(names, domain) \in Seq(Text)
           /\ \A i \in DOMAIN Expand(names, domain) :
                LET h == Expand(names, domain)[i]
                IN  /\ h # <<>>
                    /\ \/ /\ TrimSpace(h) = h
                          /\ needsExpansion(h) => NormalizeDomain(domain) = <<>>
                       \/ /\ NormalizeDomain(domain) # <<>>
                          /\ \E k \in DOMAIN h : h[k] = "."
<1> DEFINE d == NormalizeDomain(domain)
           full(t) == IF needsExpansion(t) /\ d # <<>> THEN t \o <<".">> \o d ELSE t
           trimmed == [i \in DOMAIN names |-> TrimSpace(names[i])]
           P == {i \in DOMAIN trimmed : trimmed[i] # <<>>}
           kept == Subsequence(trimmed, P)
           e == Expand(names, domain)
<1>1. e = [i \in DOMAIN kept |-> full(kept[i])]
  BY DEF Expand
<1>2. d \in Text
  BY NormalizeDomainType
<1>3. \A t \in Text : TrimSpace(t) \in Text /\ TrimSpace(TrimSpace(t)) = TrimSpace(t)
  BY TrimmedFacts, TrimSpaceAgain DEF TrimSpace, Text
<1>4. trimmed \in Seq(Text) /\ DOMAIN trimmed = DOMAIN names
      /\ \A i \in DOMAIN trimmed : TrimSpace(trimmed[i]) = trimmed[i]
  BY <1>3
<1> HIDE DEF trimmed
<1>5. P \in SUBSET DOMAIN trimmed
  OBVIOUS
<1>6. /\ kept \in Seq(Text)
      /\ \A k \in DOMAIN kept : \E i \in P : kept[k] = trimmed[i]
  <2> HIDE DEF P
  <2> QED BY <1>4, <1>5, SubsequenceType
<1> HIDE DEF kept, d
<1>7. \A k \in DOMAIN kept : /\ kept[k] \in Text /\ kept[k] # <<>>
                             /\ TrimSpace(kept[k]) = kept[k]
  BY <1>4, <1>6
<1>8. ASSUME NEW t \in Text
      PROVE  /\ t \o <<".">> \o d \in Text
             /\ t \o <<".">> \o d # <<>>
             /\ \E k \in DOMAIN (t \o <<".">> \o d) : (t \o <<".">> \o d)[k] = "."
  <2>1. /\ t \o <<".">> \in Seq(STRING) /\ d \in Seq(STRING) /\ t \in Seq(STRING)
        /\ Len(t \o <<".">>) = Len(t) + 1
        /\ (t \o <<".">>)[Len(t) + 1] = "."
    BY <1>2, TextTokens DEF Text
  <2> DEFINE u == t \o <<".">>
  <2>2. /\ u \o d \in Seq(STRING) /\ Len(u \o d) = Len(u) + Len(d)
        /\ \A k \in 1 .. Len(u) : (u \o d)[k] = u[k]
    <3> HIDE DEF u
    <3> QED BY <2>1 DEF u
  <2>3. Len(t) + 1 \in 1 .. Len(u) /\ Len(t) + 1 \in 1 .. Len(u \o d)
    <3> HIDE DEF u
    <3>1. Len(t) \in Nat /\ Len(d) \in Nat
      BY <2>1
    <3> QED BY <2>1, <2>2, <3>1 DEF u
  <2> HIDE DEF u
  <2>4. (u \o d)[Len(t) + 1] = "."
    BY <2>1, <2>2, <2>3 DEF u
  <2>5. Len(t) + 1 \in DOMAIN (u \o d)
    BY <2>2, <2>3
  <2>6. u \o d \in Text /\ \E k \in DOMAIN (u \o d) : (u \o d)[k] = "."
    BY <2>2, <2>4, <2>5 DEF Text
  <2>7. u \o d # <<>>
    <3> HIDE DEF u
    <3>1. DOMAIN (u \o d) # {}
      BY <2>5
    <3> QED BY <3>1
  <2> QED BY <2>6, <2>7 DEF u
<1>9. \A k \in DOMAIN kept : full(kept[k]) \in Text
  BY <1>7, <1>8
<1>10. e \in Seq(Text)
  <2> HIDE DEF full, e
  <2> QED BY <1>1, <1>6, <1>9
<1>11. ASSUME NEW i \in DOMAIN e
       PROVE  /\ e[i] # <<>>
              /\ \/ /\ TrimSpace(e[i]) = e[i]
                    /\ needsExpansion(e[i]) => d = <<>>
                 \/ d # <<>> /\ \E k \in DOMAIN e[i] : e[i][k] = "."
  <2>1. i \in DOMAIN kept /\ e[i] = full(kept[i])
    <3> HIDE DEF full, e
    <3> QED BY <1>1, <1>11
  <2>2. CASE needsExpansion(kept[i]) /\ d # <<>>
    <3>1. e[i] = kept[i] \o <<".">> \o d
      <4> HIDE DEF e
      <4> QED BY <2>1, <2>2
    <3> HIDE DEF e
    <3> QED BY <1>7, <1>8, <2>1, <2>2, <3>1
  <2>3. CASE ~(needsExpansion(kept[i]) /\ d # <<>>)
    <3>1. e[i] = kept[i]
      <4> HIDE DEF e
      <4> QED BY <2>1, <2>3
    <3> HIDE DEF e, full
    <3> QED BY <1>7, <2>1, <2>3, <3>1
  <2> QED BY <2>2, <2>3
<1> HIDE DEF e, full
<1>12. QED BY <1>10, <1>11 DEF e, d

\* Without a domain, names without spaces stay as they are.
LEMMA ExpandWithout ==
    ASSUME NEW names \in Seq(Text),
           \A i \in DOMAIN names : names[i] # <<>> /\ TrimSpace(names[i]) = names[i]
    PROVE  Expand(names, <<>>) = names
<1> DEFINE d == NormalizeDomain(<<>>)
           full(t) == IF needsExpansion(t) /\ d # <<>> THEN t \o <<".">> \o d ELSE t
           trimmed == [i \in DOMAIN names |-> TrimSpace(names[i])]
           P == {i \in DOMAIN trimmed : trimmed[i] # <<>>}
           kept == Subsequence(trimmed, P)
<1>1. d = <<>>
  <2>1. Trimmed(<<>>, {" "}) = <<>>
    <3>1. {i \in DOMAIN <<>> : <<>>[i] \notin {" "}} = {}
      OBVIOUS
    <3> QED BY <3>1 DEF Trimmed
  <2> QED BY <2>1 DEF NormalizeDomain, TrimSpace, TrimDot
<1>2. trimmed = names
  OBVIOUS
<1>3. P = DOMAIN names
  <2> HIDE DEF trimmed
  <2> QED BY <1>2
<1>4. kept = names
  <2> HIDE DEF trimmed, P
  <2>1. kept = Subsequence(names, DOMAIN names)
    BY <1>2, <1>3
  <2> QED BY <2>1, SubsequenceOfAll
<1>5. Expand(names, <<>>) = [i \in DOMAIN kept |-> full(kept[i])]
  BY DEF Expand
<1>6. \A t : full(t) = t
  <2> HIDE DEF d
  <2> QED BY <1>1
<1> HIDE DEF kept, full
<1>7. Expand(names, <<>>) = [i \in DOMAIN names |-> names[i]]
  BY <1>4, <1>5, <1>6
<1>8. QED BY <1>7

\* A function on the first n numbers is a sequence of length n.
LEMMA MappedType ==
    ASSUME NEW T, NEW n \in Nat, NEW f \in [1 .. n -> T]
    PROVE  f \in Seq(T) /\ Len(f) = n /\ DOMAIN f = 1 .. n
OBVIOUS

\* Lower case changes letters only, place by place, and once.
LEMMA ToLowerFacts ==
    ASSUME NEW t \in Text
    PROVE  /\ ToLower(t) \in Text /\ Len(ToLower(t)) = Len(t)
           /\ DOMAIN ToLower(t) = DOMAIN t
           /\ \A i \in DOMAIN t :
                 /\ ToLower(t)[i] = IF t[i] \in DOMAIN Lower THEN Lower[t[i]] ELSE t[i]
                 /\ ToLower(t)[i] \notin DOMAIN Lower
                 /\ \A c \in Punctuation : ToLower(t)[i] = c <=> t[i] = c
<1> DEFINE low(x) == IF x \in DOMAIN Lower THEN Lower[x] ELSE x
<1>1. \A x \in STRING : /\ low(x) \in STRING /\ low(x) \notin DOMAIN Lower
                        /\ \A c \in Punctuation : low(x) = c <=> x = c
  <2>1. \A x \in Word : x \notin Punctuation
    BY HostNamesAssumption
  <2>2. \A x \in DOMAIN Lower : x \in Word /\ Lower[x] \in Word /\ Lower[x] \notin DOMAIN Lower
    BY HostNamesAssumption
  <2>3. \A x \in Word : x \in STRING
    BY TextTokens
  <2> QED BY <2>1, <2>2, <2>3
<1>2. ToLower(t) = [i \in DOMAIN t |-> low(t[i])]
  BY DEF ToLower
<1>3. t \in Seq(STRING)
  BY DEF Text
<1> HIDE DEF low
<1>4. ToLower(t) \in Seq(STRING) /\ Len(ToLower(t)) = Len(t) /\ DOMAIN ToLower(t) = DOMAIN t
  <2> DEFINE u == ToLower(t)
  <2>1. Len(t) \in Nat /\ DOMAIN t = 1 .. Len(t) /\ \A i \in DOMAIN t : t[i] \in STRING
    BY <1>3
  <2>2. \A i \in DOMAIN t : low(t[i]) \in STRING
    BY <1>1, <2>1
  <2> HIDE DEF u
  <2>3. u \in [1 .. Len(t) -> STRING]
    BY <1>2, <2>1, <2>2 DEF u
  <2>4. u \in Seq(STRING) /\ Len(u) = Len(t) /\ DOMAIN u = 1 .. Len(t)
    BY <2>1, <2>3, MappedType
  <2> QED BY <2>1, <2>4 DEF u
<1>5. \A i \in DOMAIN t : t[i] \in STRING /\ ToLower(t)[i] = low(t[i])
  BY <1>2, <1>3
<1>6. \A i \in DOMAIN t :
         /\ ToLower(t)[i] \notin DOMAIN Lower
         /\ \A c \in Punctuation : ToLower(t)[i] = c <=> t[i] = c
  <2> SUFFICES ASSUME NEW i \in DOMAIN t
               PROVE  /\ ToLower(t)[i] \notin DOMAIN Lower
                      /\ \A c \in Punctuation : ToLower(t)[i] = c <=> t[i] = c
    OBVIOUS
  <2>1. t[i] \in STRING /\ ToLower(t)[i] = low(t[i])
    BY <1>5
  <2> QED BY <1>1, <2>1, Zenon
<1>7. \A i \in DOMAIN t : ToLower(t)[i] = IF t[i] \in DOMAIN Lower THEN Lower[t[i]] ELSE t[i]
  BY <1>5 DEF low
<1>8. QED BY <1>4, <1>6, <1>7 DEF Text

\* Lower case keeps the length.
LEMMA LowerType ==
    ASSUME NEW t \in Text
    PROVE  ToLower(t) \in Text /\ Len(ToLower(t)) = Len(t) /\ DOMAIN ToLower(t) = DOMAIN t
BY ToLowerFacts

\* Lower case keeps what is not a word.
LEMMA LowerKeeps ==
    ASSUME NEW t \in Text, NEW i \in DOMAIN t, NEW c \in Punctuation
    PROVE  ToLower(t)[i] = c <=> t[i] = c
BY ToLowerFacts

\* A word goes to its lower case.
LEMMA LowerToken ==
    ASSUME NEW t \in Text, NEW i \in DOMAIN t
    PROVE  ToLower(t)[i] = IF t[i] \in DOMAIN Lower THEN Lower[t[i]] ELSE t[i]
BY ToLowerFacts

\* What is inferred from a package or a directory is words joined by "-".
LEMMA InferredNameType ==
    ASSUME NEW t \in Text
    PROVE  normalizeInferredName(t) \in Text
<1> DEFINE trimmed == ToLower(TrimSpace(t))
           slash == {i \in DOMAIN trimmed : trimmed[i] = "/"}
           first == CHOOSE i \in slash : \A j \in slash : i <= j
           rest == IF trimmed # <<>> /\ trimmed[1] = "@" /\ slash # {}
                   THEN SubSeq(trimmed, 1 + first, Len(trimmed))
                   ELSE trimmed
           words == Subsequence(rest, {i \in DOMAIN rest : rest[i] \in Word})
           joined == [i \in 1 .. 2 * Len(words) - 1 |->
                        IF i % 2 = 1 THEN words[(i + 1) \div 2] ELSE "-"]
<1>1. trimmed \in Seq(STRING)
  <2>1. TrimSpace(t) \in Text
    BY TrimmedFacts DEF TrimSpace, Text
  <2> QED BY <2>1, ToLowerFacts DEF Text
<1> HIDE DEF trimmed
<1>2. slash # {} => first \in slash
  <2>1. slash \in SUBSET Nat
    BY <1>1
  <2> HIDE DEF slash
  <2> QED BY <2>1, Least
<1>3. rest \in Seq(STRING)
  <2>1. CASE slash # {}
    <3>1. first \in 1 .. Len(trimmed) /\ Len(trimmed) \in Nat
      BY <1>1, <1>2, <2>1
    <3> HIDE DEF first
    <3>2. SubSeq(trimmed, 1 + first, Len(trimmed)) \in Seq(STRING)
      BY <1>1, <3>1
    <3> QED BY <1>1, <3>2
  <2>2. CASE slash = {}
    BY <1>1, <2>2
  <2> QED BY <2>1, <2>2
<1> HIDE DEF rest
<1>4. words \in Seq(STRING)
  <2> DEFINE P == {i \in DOMAIN rest : rest[i] \in Word}
  <2>1. P \in SUBSET DOMAIN rest
    OBVIOUS
  <2> HIDE DEF P
  <2>2. Subsequence(rest, P) \in Seq(STRING)
    BY <1>3, <2>1, SubsequenceType
  <2> QED BY <2>2 DEF P
<1> HIDE DEF words
<1>5. normalizeInferredName(t) = IF words = <<>> THEN <<>> ELSE joined
  BY DEF normalizeInferredName, Hyphenated, WordsOf, words, rest, trimmed
<1>6. joined \in Seq(STRING) \/ words = <<>>
  <2>1. Len(words) \in Nat /\ \A i \in 1 .. Len(words) : words[i] \in STRING
    BY <1>4
  <2>2. words # <<>> => Len(words) > 0
    BY <1>4
  <2>3. ASSUME NEW i \in 1 .. 2 * Len(words) - 1, i % 2 = 1
        PROVE  (i + 1) \div 2 \in 1 .. Len(words)
    <3> DEFINE n == Len(words)
    <3> HIDE DEF n
    <3>1. n \in Nat
      BY <2>1 DEF n
    <3>2. i \in 1 .. 2 * n - 1
      BY DEF n
    <3>3. (i + 1) \div 2 \in 1 .. n
      BY <3>1, <3>2, SMT
    <3> QED BY <3>3 DEF n
  <2>a. "-" \in STRING
    BY TextTokens DEF Punctuation
  <2>4. \A i \in 1 .. 2 * Len(words) - 1 :
           (IF i % 2 = 1 THEN words[(i + 1) \div 2] ELSE "-") \in STRING
    <3> SUFFICES ASSUME NEW i \in 1 .. 2 * Len(words) - 1
                 PROVE  (IF i % 2 = 1 THEN words[(i + 1) \div 2] ELSE "-") \in STRING
      OBVIOUS
    <3>1. i % 2 = 1 => words[(i + 1) \div 2] \in STRING
      BY <2>1, <2>3
    <3> QED BY <2>a, <3>1, Zenon
  <2>5. words # <<>> => 2 * Len(words) - 1 \in Nat
    BY <2>1, <2>2
  <2> QED BY <2>4, <2>5
<1> HIDE DEF joined
<1>7. <<>> \in Seq(STRING)
  OBVIOUS
<1>8. QED BY <1>5, <1>6, <1>7, Zenon DEF Text

\* A prefix made of the name of a worktree is a text.
LEMMA WorktreePrefixType ==
    ASSUME NEW t \in Text
    PROVE  sanitizeWorktreePrefix(t) \in Text
<1> DEFINE dashed == [i \in DOMAIN t |-> IF t[i] \in Word THEN t[i] ELSE "-"]
           s == Trimmed(dashed, {"-"})
<1>1. "-" \in STRING /\ "worktree" \in STRING /\ \A x \in Word : x \in STRING
  BY TextTokens, HostNamesAssumption DEF Punctuation
<1>2. dashed \in Seq(STRING)
  BY <1>1 DEF Text
<1> HIDE DEF dashed
<1>3. s \in Seq(STRING)
  BY <1>2, TrimmedFacts
<1> HIDE DEF s
<1>4. sanitizeWorktreePrefix(t)
        = IF t = <<>> THEN <<>> ELSE IF s = <<>> THEN <<"worktree">> ELSE s
  BY DEF sanitizeWorktreePrefix, s, dashed
<1>5. <<"worktree">> \in Seq(STRING) /\ <<>> \in Seq(STRING)
  BY <1>1
<1>6. QED BY <1>3, <1>4, <1>5, Zenon DEF Text

-----------------------------------------------------------------------------
(* PublicUrl: hosts in URLs and in Host headers.                           *)

\* A host that is valid, as it stands in a URL: brackets end it, or it has no colon.
Shape(g) ==
    /\ g \in Text /\ g # <<>>
    /\ g[1] # " " /\ g[Len(g)] # " "
    /\ \/ /\ g[1] = "[" /\ g[Len(g)] = "]"
          /\ \A i \in 1 .. Len(g) - 1 : g[i] # "]"
       \/ g[1] # "[" /\ \A i \in DOMAIN g : g[i] # ":"

\* The last token, by its place.
LEMMA LastIs ==
    ASSUME NEW t
    PROVE  Last(t) = t[Len(t)]
BY DEF Last

\* A host in this shape is a text that is not empty.
LEMMA ShapeText ==
    ASSUME NEW g, Shape(g)
    PROVE  /\ g \in Text /\ g \in Seq(STRING) /\ g # <<>>
           /\ Len(g) \in Nat /\ Len(g) > 0 /\ DOMAIN g = 1 .. Len(g)
<1>1. g \in Seq(STRING) /\ g # <<>>
  BY DEF Shape, Text
<1>2. Len(g) \in Nat /\ Len(g) > 0 /\ DOMAIN g = 1 .. Len(g)
  BY <1>1
<1>3. QED BY <1>1, <1>2 DEF Text

\* What the validation lets through has the shape.
LEMMA ValidShape ==
    ASSUME NEW g \in Text, ValidHostToken(g)
    PROVE  Shape(g)
<1>0. g \in Seq(STRING) /\ Len(g) \in Nat /\ DOMAIN g = 1 .. Len(g)
  BY DEF Text
<1>1. g # <<>> /\ TrimSpace(g) = g
  BY DEF ValidHostToken
<1>2. g[1] # " " /\ g[Len(g)] # " "
  <2>1. TrimSpace(g) # <<>> => /\ TrimSpace(g)[1] \notin {" "}
                               /\ TrimSpace(g)[Len(TrimSpace(g))] \notin {" "}
    BY <1>0, TrimmedFacts DEF TrimSpace
  <2> QED BY <1>1, <2>1
<1>3. CASE g[1] = "[" \/ Last(g) = "]"
  <2>1. g[1] = "[" /\ Last(g) = "]" /\ SubSeq(g, 2, Len(g) - 1) \in IPv6
    BY <1>3 DEF ValidHostToken
  <2>2. g[Len(g)] = "]" /\ Len(g) # 1 /\ Len(g) # 0
    BY <1>0, <1>1, <2>1, LastIs
  <2> DEFINE inner == SubSeq(g, 2, Len(g) - 1)
  <2>3. \A i \in DOMAIN inner : inner[i] # "]"
    <3>1. "]" \notin Range(inner)
      BY <2>1, HostNamesAssumption
    <3> HIDE DEF inner
    <3> QED BY <3>1 DEF Range
  <2>4. ASSUME NEW i \in 2 .. Len(g) - 1 PROVE g[i] # "]"
    <3>1. 2 \in 1 .. Len(g) /\ Len(g) - 1 \in 2 .. Len(g) /\ i - 1 \in 1 .. (Len(g) - 1) - 2 + 1
          /\ 2 + (i - 1) - 1 = i
      BY <1>0, <2>2
    <3>2. i - 1 \in DOMAIN inner /\ inner[i - 1] = g[2 + (i - 1) - 1]
      BY <1>0, <3>1, SubSeqFacts
    <3> HIDE DEF inner
    <3> QED BY <2>3, <3>1, <3>2
  <2>5. \A i \in 1 .. Len(g) - 1 : g[i] # "]"
    <3>1. \A i \in 1 .. Len(g) - 1 : i = 1 \/ i \in 2 .. Len(g) - 1
      BY <1>0
    <3> QED BY <2>1, <2>4, <3>1
  <2> QED BY <1>1, <1>2, <2>1, <2>2, <2>5 DEF Shape
<1>4. CASE g[1] # "[" /\ Last(g) # "]"
  <2>1. ~Has(g, ":")
    BY <1>4 DEF ValidHostToken
  <2>2. \A i \in DOMAIN g : g[i] # ":"
    BY <2>1 DEF Has, Range
  <2> QED BY <1>1, <1>2, <1>4, <2>2 DEF Shape
<1>5. QED BY <1>3, <1>4

\* Lower case keeps the shape.
LEMMA LowerShape ==
    ASSUME NEW g, Shape(g)
    PROVE  Shape(ToLower(g))
<1> DEFINE l == ToLower(g)
<1>1. g \in Text /\ g # <<>> /\ Len(g) \in Nat /\ DOMAIN g = 1 .. Len(g)
  BY ShapeText
<1>2. /\ l \in Text /\ Len(l) = Len(g) /\ DOMAIN l = DOMAIN g
      /\ \A i \in DOMAIN g : \A c \in Punctuation : l[i] = c <=> g[i] = c
  <2>1. l \in Text /\ Len(l) = Len(g) /\ DOMAIN l = DOMAIN g
    BY <1>1, LowerType
  <2>2. \A i \in DOMAIN g : \A c \in Punctuation : l[i] = c <=> g[i] = c
    BY <1>1, LowerKeeps, Zenon
  <2> QED BY <2>1, <2>2
<1>3. " " \in Punctuation /\ "[" \in Punctuation /\ "]" \in Punctuation /\ ":" \in Punctuation
  BY DEF Punctuation
<1>4. 1 \in DOMAIN g /\ Len(g) \in DOMAIN g /\ \A i \in 1 .. Len(g) - 1 : i \in DOMAIN g
  BY <1>1
<1>5. l # <<>>
  <2> HIDE DEF l
  <2>1. DOMAIN l # {}
    BY <1>2, <1>4
  <2> QED BY <2>1
<1> HIDE DEF l
<1>6. l[1] # " " /\ l[Len(l)] # " "
  BY <1>2, <1>3, <1>4 DEF Shape
<1>7. CASE /\ g[1] = "[" /\ g[Len(g)] = "]"
           /\ \A i \in 1 .. Len(g) - 1 : g[i] # "]"
  <2>1. l[1] = "[" /\ l[Len(l)] = "]"
    BY <1>2, <1>3, <1>4, <1>7
  <2>2. \A i \in 1 .. Len(l) - 1 : l[i] # "]"
    BY <1>2, <1>3, <1>4, <1>7
  <2> QED BY <1>2, <1>5, <1>6, <2>1, <2>2 DEF Shape, l
<1>8. CASE g[1] # "[" /\ \A i \in DOMAIN g : g[i] # ":"
  <2>1. l[1] # "["
    BY <1>2, <1>3, <1>4, <1>8
  <2>2. \A i \in DOMAIN l : l[i] # ":"
    BY <1>2, <1>3, <1>8
  <2> QED BY <1>2, <1>5, <1>6, <2>1, <2>2 DEF Shape, l
<1>9. QED BY <1>7, <1>8 DEF Shape

\* In lower case twice is in lower case.
LEMMA LowerTwice ==
    ASSUME NEW t \in Text
    PROVE  ToLower(ToLower(t)) = ToLower(t)
<1> DEFINE l == ToLower(t)
<1>1. l \in Text /\ DOMAIN l = DOMAIN t /\ \A i \in DOMAIN t : l[i] \notin DOMAIN Lower
  BY ToLowerFacts
<1> HIDE DEF l
<1>2. ToLower(l) = [i \in DOMAIN l |-> l[i]]
  BY <1>1 DEF ToLower
<1>3. l \in Seq(STRING)
  BY <1>1 DEF Text
<1>4. QED BY <1>2, <1>3 DEF l

\* The router's normal form does not depend on the spelling.
LEMMA LowerNormalized ==
    ASSUME NEW g, Shape(g)
    PROVE  normalizeHost(ToLower(g)) = normalizeHost(g)
<1> DEFINE l == ToLower(g)
<1>1. g \in Text /\ g # <<>> /\ Len(g) \in Nat /\ DOMAIN g = 1 .. Len(g) /\ Len(g) > 0
      /\ g \in Seq(STRING)
  BY ShapeText
<1>2. Shape(l)
  BY LowerShape
<1>3. /\ l \in Text /\ Len(l) = Len(g) /\ DOMAIN l = DOMAIN g
      /\ \A i \in DOMAIN g :
            /\ l[i] = IF g[i] \in DOMAIN Lower THEN Lower[g[i]] ELSE g[i]
            /\ \A c \in Punctuation : l[i] = c <=> g[i] = c
  <2>1. l \in Text /\ Len(l) = Len(g) /\ DOMAIN l = DOMAIN g
    BY <1>1, LowerType
  <2>2. \A i \in DOMAIN g : \A c \in Punctuation : l[i] = c <=> g[i] = c
    BY <1>1, LowerKeeps, Zenon
  <2>3. \A i \in DOMAIN g : l[i] = IF g[i] \in DOMAIN Lower THEN Lower[g[i]] ELSE g[i]
    BY <1>1, LowerToken, Zenon
  <2> QED BY <2>1, <2>2, <2>3
<1>4. \A t : Shape(t) => TrimSpace(t) = t
  <2> SUFFICES ASSUME NEW t, Shape(t) PROVE TrimSpace(t) = t
    OBVIOUS
  <2>1. t \in Seq(STRING) /\ t # <<>> /\ t[1] \notin {" "} /\ t[Len(t)] \notin {" "}
    BY DEF Shape, Text
  <2>2. Trimmed(t, {" "}) = t
    BY <2>1, TrimmedStays
  <2> QED BY <2>2 DEF TrimSpace
<1> HIDE DEF l
<1>5. Last(l) = "." <=> Last(g) = "."
  <2>1. "." \in Punctuation /\ Len(g) \in DOMAIN g
    BY <1>1 DEF Punctuation
  <2> QED BY <1>3, <2>1, LastIs
<1>6. l # <<>> /\ l \in Seq(STRING)
  BY <1>2 DEF Shape, Text
<1>7. ToLower(l) = ToLower(g)
  BY <1>1, LowerTwice DEF l
<1>8. CASE Last(g) = "."
  <2>1. /\ Front(g) \in Text /\ DOMAIN Front(g) = 1 .. Len(g) - 1
        /\ \A i \in 1 .. Len(g) - 1 : Front(g)[i] = g[i]
    BY <1>1 DEF Front, Text
  <2>2. /\ Front(l) \in Text /\ DOMAIN Front(l) = 1 .. Len(g) - 1
        /\ \A i \in 1 .. Len(g) - 1 : Front(l)[i] = l[i]
    BY <1>1, <1>3, <1>6 DEF Front, Text
  <2>3. Front(l) = ToLower(Front(g))
    <3> DEFINE f == Front(g)
               e == Front(l)
    <3>1. ToLower(f) = [i \in DOMAIN f |-> IF f[i] \in DOMAIN Lower THEN Lower[f[i]] ELSE f[i]]
      BY DEF ToLower
    <3>2. e = [i \in DOMAIN e |-> e[i]]
      BY <2>2 DEF Text
    <3>3. \A i \in 1 .. Len(g) - 1 : i \in DOMAIN g
      BY <1>1
    <3>4. \A i \in DOMAIN e : e[i] = IF f[i] \in DOMAIN Lower THEN Lower[f[i]] ELSE f[i]
      <4> HIDE DEF e, f
      <4> QED BY <1>3, <2>1, <2>2, <3>3 DEF e, f
    <3> HIDE DEF e, f
    <3> QED BY <2>1, <2>2, <3>1, <3>2, <3>4 DEF e, f
  <2>4. ToLower(Front(l)) = ToLower(Front(g))
    BY <2>1, <2>3, LowerTwice
  <2>5. TrimDot(g) = Front(g) /\ TrimDot(l) = Front(l)
    BY <1>1, <1>5, <1>6, <1>8 DEF TrimDot
  <2> QED BY <1>2, <1>4, <2>4, <2>5 DEF normalizeHost, l
<1>9. CASE Last(g) # "."
  <2>1. TrimDot(g) = g /\ TrimDot(l) = l
    BY <1>5, <1>9 DEF TrimDot
  <2> QED BY <1>2, <1>4, <1>7, <2>1 DEF normalizeHost, l
<1>10. QED BY <1>8, <1>9

\* A host with a port appended, place by place.
LEMMA PortFacts ==
    ASSUME NEW T, NEW g \in Seq(T), NEW c \in T, NEW p \in T
    PROVE  LET t == g \o <<c, p>>
           IN  /\ t \in Seq(T) /\ Len(t) = Len(g) + 2
               /\ \A k \in 1 .. Len(g) : t[k] = g[k]
               /\ t[Len(g) + 1] = c /\ t[Len(g) + 2] = p
<1>1. \A S : g \in Seq(S) => \A a, b \in S : g \o <<a, b>> = Append(Append(g, a), b)
  BY TwoAppended
<1>2. g \o <<c, p>> = Append(Append(g, c), p)
  BY <1>1
<1> DEFINE u == Append(g, c)
<1>3. /\ u \in Seq(T) /\ Len(u) = Len(g) + 1 /\ u[Len(g) + 1] = c
      /\ \A k \in 1 .. Len(g) : u[k] = g[k]
  BY AppendFacts
<1> HIDE DEF u
<1>4. /\ Append(u, p) \in Seq(T) /\ Len(Append(u, p)) = Len(u) + 1
      /\ Append(u, p)[Len(u) + 1] = p
      /\ \A k \in 1 .. Len(u) : Append(u, p)[k] = u[k]
  BY <1>3, AppendFacts
<1>5. Len(g) \in Nat
  OBVIOUS
<1> DEFINE t == Append(u, p)
<1> HIDE DEF t
<1>6. /\ t \in Seq(T) /\ Len(t) = Len(g) + 2
      /\ \A k \in 1 .. Len(g) : t[k] = g[k]
      /\ t[Len(g) + 1] = c /\ t[Len(g) + 2] = p
  BY <1>3, <1>4, <1>5 DEF t
<1>7. t = g \o <<c, p>>
  BY <1>2 DEF t, u
<1>8. QED BY <1>6, <1>7

\* The two ways to take the port off find the host, for the texts that a
\* client makes of a valid one.
LEMMA HostOfHeader ==
    ASSUME NEW g, Shape(g), NEW p, p \notin {":", "]"},
           NEW t, t = g \/ t = g \o <<":", p>>
    PROVE  stripPort(t) = g /\ requestHostname(t) = g
<1> DEFINE n == Len(g)
           colons == {i \in DOMAIN t : t[i] = ":"}
           closing == {i \in DOMAIN t : t[i] = "]"}
           Bracketed == g[1] = "[" /\ g[n] = "]" /\ \A i \in 1 .. n - 1 : g[i] # "]"
           Plain == g[1] # "[" /\ \A i \in DOMAIN g : g[i] # ":"
<1>1. g \in Seq(STRING) /\ g # <<>> /\ n \in Nat /\ n > 0 /\ DOMAIN g = 1 .. n
  BY ShapeText
<1>2. Bracketed \/ Plain
  BY DEF Shape
<1> HIDE DEF n, Plain, Bracketed
<1>3. CASE t = g
  <2>1. CASE Plain
    <3>1. colons = {}
      BY <1>3, <2>1 DEF Plain
    <3>2. LastColon(t) = 0
      BY <3>1 DEF LastColon
    <3>3. t[1] # "["
      BY <1>3, <2>1 DEF Plain
    <3> QED BY <1>3, <3>2, <3>3 DEF stripPort, requestHostname
  <2>2. CASE Bracketed
    <3>1. closing = {n}
      BY <1>1, <1>3, <2>2 DEF Bracketed
    <3>2. requestHostname(t) = SubSeq(t, 1, n)
      <4>1. t # <<>> /\ t[1] = "["
        BY <1>1, <1>3, <2>2 DEF Bracketed
      <4>2. (CHOOSE i \in closing : \A j \in closing : i <= j) = n
        <5> HIDE DEF closing
        <5> QED BY <1>1, <3>1
      <4>3. closing # {}
        BY <3>1
      <4>4. requestHostname(t)
              = SubSeq(t, 1, CHOOSE i \in closing : \A j \in closing : i <= j)
        BY <4>1, <4>3 DEF requestHostname
      <4> QED BY <4>2, <4>4
    <3>3. SubSeq(t, 1, n) = g
      BY <1>1, <1>3 DEF n
    <3>4. stripPort(t) = t
      <4> DEFINE i == LastColon(t)
      <4> SUFFICES ASSUME i # 0 PROVE Has(SubSeq(t, i, Len(t)), "]")
        BY DEF stripPort
      <4>1. colons # {} /\ colons \in SUBSET (1 .. n)
        BY <1>1, <1>3 DEF LastColon
      <4>2. i = CHOOSE k \in colons : \A j \in colons : j <= k
        BY <4>1 DEF LastColon
      <4>3. i \in colons
        <5> HIDE DEF colons, i
        <5> QED BY <1>1, <4>1, <4>2, Greatest
      <4> HIDE DEF i
      <4>4. i \in 1 .. n /\ Len(t) = n /\ n \in i .. n
        BY <1>1, <1>3, <4>1, <4>3 DEF n
      <4>5. /\ n - i + 1 \in 1 .. n - i + 1 /\ i + (n - i + 1) - 1 = n
            /\ i \in 1 .. Len(t) /\ Len(t) \in i .. Len(t)
        BY <1>1, <4>4
      <4>6. n - i + 1 \in DOMAIN SubSeq(t, i, Len(t)) /\ SubSeq(t, i, Len(t))[n - i + 1] = t[n]
        BY <1>1, <1>3, <4>4, <4>5, SubSeqFacts
      <4>7. t[n] = "]"
        BY <1>3, <2>2 DEF Bracketed
      <4> QED BY <4>6, <4>7 DEF Has, Range
    <3> QED BY <1>3, <3>2, <3>3, <3>4
  <2> QED BY <1>2, <2>1, <2>2
<1>4. CASE t = g \o <<":", p>>
  <2> DEFINE T == STRING \cup {":", p}
  <2>1. g \in Seq(T) /\ ":" \in T /\ p \in T
    BY <1>1
  <2> HIDE DEF T
  <2>2. /\ t \in Seq(T) /\ Len(t) = n + 2
        /\ \A k \in 1 .. n : t[k] = g[k]
        /\ t[n + 1] = ":" /\ t[n + 2] = p
    BY <1>4, <2>1, PortFacts DEF n
  <2>3. DOMAIN t = 1 .. n + 2 /\ SubSeq(t, 1, n) = g
    <3>1. DOMAIN t = 1 .. n + 2
      BY <2>2
    <3>2. 1 \in 1 .. Len(t) /\ n \in 1 .. Len(t)
      BY <1>1, <2>2
    <3>3. /\ SubSeq(t, 1, n) \in Seq(T) /\ Len(SubSeq(t, 1, n)) = n - 1 + 1
          /\ \A k \in 1 .. n - 1 + 1 : SubSeq(t, 1, n)[k] = t[1 + k - 1]
      BY <2>2, <3>2, SubSeqFacts
    <3>4. Len(SubSeq(t, 1, n)) = Len(g) /\ \A k \in 1 .. Len(g) : SubSeq(t, 1, n)[k] = g[k]
      BY <1>1, <2>2, <3>3 DEF n
    <3> QED BY <2>1, <3>1, <3>3, <3>4
  <2>4. LastColon(t) = n + 1
    <3>1. n + 1 \in colons /\ \A j \in colons : j <= n + 1
      BY <1>1, <2>2, <2>3
    <3>2. colons \in SUBSET Int
      BY <2>3
    <3>3. LastColon(t) = CHOOSE i \in colons : \A j \in colons : j <= i
      BY <3>1 DEF LastColon
    <3>4. (CHOOSE i \in colons : \A j \in colons : j <= i) = n + 1
      <4> DEFINE c == CHOOSE i \in colons : \A j \in colons : j <= i
      <4>1. c \in colons /\ \A j \in colons : j <= c
        <5> HIDE DEF colons
        <5> QED BY <3>1
      <4> HIDE DEF c, colons
      <4>2. c <= n + 1 /\ n + 1 <= c /\ c \in Int
        BY <3>1, <3>2, <4>1
      <4>3. c = n + 1
        BY <1>1, <4>2
      <4> QED BY <4>3 DEF c
    <3> QED BY <3>3, <3>4
  <2>5. ~Has(SubSeq(t, n + 1, Len(t)), "]")
    <3>1. n + 1 \in 1 .. Len(t) /\ Len(t) \in n + 1 .. Len(t) /\ Len(t) - (n + 1) + 1 = 2
      BY <1>1, <2>2
    <3>2. /\ DOMAIN SubSeq(t, n + 1, Len(t)) = 1 .. 2
          /\ \A k \in 1 .. 2 : SubSeq(t, n + 1, Len(t))[k] = t[n + 1 + k - 1]
      BY <2>2, <3>1, SubSeqFacts
    <3>3. \A k \in 1 .. 2 : t[n + 1 + k - 1] # "]"
      BY <1>1, <2>2
    <3>4. \A k \in DOMAIN SubSeq(t, n + 1, Len(t)) : SubSeq(t, n + 1, Len(t))[k] # "]"
      BY <3>2, <3>3
    <3> DEFINE r == SubSeq(t, n + 1, Len(t))
    <3> HIDE DEF r
    <3>5. "]" \notin Range(r)
      BY <3>4 DEF Range, r
    <3> QED BY <3>5 DEF Has, r
  <2>6. stripPort(t) = g
    <3>1. (n + 1) - 1 = n /\ n + 1 # 0
      BY <1>1
    <3> QED BY <2>3, <2>4, <2>5, <3>1 DEF stripPort
  <2>7. t # <<>> /\ t[1] = g[1]
    BY <1>1, <2>2
  <2>8. CASE Plain
    <3>1. (n + 1) - 1 = n /\ n + 1 # 0
      BY <1>1
    <3> QED BY <2>3, <2>4, <2>6, <2>7, <2>8, <3>1 DEF requestHostname, Plain
  <2>9. CASE Bracketed
    <3>1. closing = {n}
      <4>1. n \in closing
        BY <1>1, <2>2, <2>3, <2>9 DEF Bracketed
      <4>2. \A i \in 1 .. n + 2 : i = n \/ i \in 1 .. n - 1 \/ i = n + 1 \/ i = n + 2
        BY <1>1
      <4>3. \A i \in 1 .. n - 1 : t[i] # "]"
        BY <1>1, <2>2, <2>9 DEF Bracketed
      <4>4. t[n + 1] # "]" /\ t[n + 2] # "]"
        BY <2>2
      <4> QED BY <2>3, <4>1, <4>2, <4>3, <4>4
    <3>2. (CHOOSE i \in closing : \A j \in closing : i <= j) = n
      <4> HIDE DEF closing
      <4> QED BY <1>1, <3>1
    <3>3. requestHostname(t)
            = SubSeq(t, 1, CHOOSE i \in closing : \A j \in closing : i <= j)
      BY <2>7, <2>9, <3>1 DEF requestHostname, Bracketed
    <3> QED BY <2>3, <2>6, <3>2, <3>3
  <2> QED BY <1>2, <2>8, <2>9
<1>5. QED BY <1>3, <1>4

-----------------------------------------------------------------------------
(* PublicUrl: the way of a link.                                           *)

\* The daemon has a route for the host.
HostRegistered(h) == h \in Text /\ ValidHostToken(h) /\ normalizeHost(h) \in table

\* What a link rests on at every step of its way.
UrlInv ==
    /\ ask \in Ask
    /\ at \in {"start", "serving", "refused", "announced", "redirect", "arrived", "answered"}
    /\ at \notin {"start", "refused"} =>
         daemon.domain \in Text /\ daemon.port \in STRING \ {"0", ":", "]"}
    /\ at \in {"announced", "redirect", "arrived"} =>
         \A i \in DOMAIN urls : HostRegistered(urls[i].host)
    /\ at = "announced" => urls = Printed(RunHosts)
    /\ at = "redirect" =>
         \E i \in DOMAIN urls : \E shown \in {"0", "8080"} :
            header \in HostHeader(urls[i].host, shown)
    /\ at = "arrived" =>
         \E i \in DOMAIN urls : \E shown \in {"0", daemon.port} :
            header \in HostHeader(urls[i].host, shown)
    /\ at = "answered" => found

\* What the user asks for, typed.
LEMMA AskType ==
    ASSUME ask \in Ask
    PROVE  /\ ask.started \in {NoFile} \cup Config
           /\ ask.fileDomain \in Text /\ ask.names \in Seq(Text) /\ ask.sources \in Seq(Text)
           /\ ask.prefix \in Text /\ ask.worktree \in Text /\ ask.domain \in Text
           /\ ask.argv \in Seq(STRING)
BY PublicUrlAssumption

\* Texts joined are a text.
LEMMA ConcatType ==
    ASSUME NEW T, NEW s \in Seq(T), NEW t \in Seq(T)
    PROVE  s \o t \in Seq(T)
OBVIOUS

\* The requested hosts are none, or names that went through Expand.
LEMMA RequestedFacts ==
    ASSUME ask \in Ask
    PROVE  \/ RequestedHosts = <<>>
           \/ \E names \in Seq(Text), domain \in Text : RequestedHosts = Expand(names, domain)
<1> DEFINE names == resolveRequestedNames(ask.names, ask.sources)
           prefix == resolvePrefix(ask.prefix, ask.noPrefix, ask.worktree)
           domain == NormalizeDomain(ask.domain)
           full == [i \in DOMAIN names |->
                      IF prefix = <<>> THEN names[i] ELSE prefix \o <<"-">> \o names[i]]
<1>1. names \in Seq(Text)
  <2> DEFINE named == {i \in DOMAIN ask.sources : normalizeInferredName(ask.sources[i]) # <<>>}
             first == CHOOSE i \in named : \A j \in named : i <= j
  <2>1. named \in SUBSET Nat
    BY AskType
  <2>2. named # {} => first \in named
    <3> HIDE DEF named
    <3> QED BY <2>1, Least
  <2>3. named # {} => ask.sources[first] \in Text
    <3> HIDE DEF first
    <3> QED BY <2>2, AskType
  <2> HIDE DEF first
  <2>4. named # {} => <<normalizeInferredName(ask.sources[first])>> \in Seq(Text)
    <3>1. named # {} => normalizeInferredName(ask.sources[first]) \in Text
      BY <2>3, InferredNameType
    <3> HIDE DEF named
    <3> QED BY <3>1
  <2>5. names = IF ask.names # <<>> THEN ask.names
                ELSE IF named # {} THEN <<normalizeInferredName(ask.sources[first])>>
                ELSE <<>>
    BY DEF resolveRequestedNames, first
  <2>6. <<>> \in Seq(Text) /\ ask.names \in Seq(Text)
    BY AskType
  <2> HIDE DEF named, names
  <2> QED BY <2>4, <2>5, <2>6
<1>2. prefix \in Text
  BY AskType, WorktreePrefixType, TextTokens DEF resolvePrefix
<1>3. domain \in Text
  BY AskType, NormalizeDomainType
<1> HIDE DEF names, prefix, domain
<1>4. full \in Seq(Text)
  <2>1. DOMAIN names = 1 .. Len(names) /\ Len(names) \in Nat
    BY <1>1
  <2>2. \A i \in DOMAIN names : names[i] \in Text
    BY <1>1
  <2>3. \A i \in DOMAIN names : prefix \o <<"-">> \o names[i] \in Text
    <3>1. prefix \o <<"-">> \in Seq(STRING)
      BY <1>2, TextTokens, ConcatType DEF Text
    <3> SUFFICES ASSUME NEW i \in DOMAIN names PROVE prefix \o <<"-">> \o names[i] \in Text
      OBVIOUS
    <3>2. names[i] \in Seq(STRING)
      BY <2>2 DEF Text
    <3> QED BY <3>1, <3>2, ConcatType DEF Text
  <2>4. full \in [1 .. Len(names) -> Text]
    BY <2>1, <2>2, <2>3
  <2> HIDE DEF full
  <2> QED BY <2>1, <2>4, MappedType
<1>5. resolveRequestedHosts(names, prefix, ask.domain) = Expand(full, domain)
  BY DEF resolveRequestedHosts, domain
<1>6. \/ RequestedHosts = <<>>
      \/ RequestedHosts = resolveRequestedHosts(names, prefix, ask.domain)
  BY DEF RequestedHosts, names, prefix
<1> HIDE DEF full
<1>7. QED BY <1>3, <1>4, <1>5, <1>6

\* The hosts of a run are texts.
LEMMA RunHostsType ==
    ASSUME ask \in Ask, daemon.domain \in Text
    PROVE  RequestedHosts \in Seq(Text) /\ RunHosts \in Seq(Text)
<1>1. RequestedHosts \in Seq(Text)
  <2>1. <<>> \in Seq(Text)
    OBVIOUS
  <2>2. \A names \in Seq(Text), domain \in Text : Expand(names, domain) \in Seq(Text)
    BY ExpandFacts
  <2> QED BY <2>1, <2>2, RequestedFacts
<1>2. Expand(RequestedHosts, daemon.domain) \in Seq(Text)
  BY <1>1, ExpandFacts
<1>3. QED BY <1>1, <1>2 DEF RunHosts

\* Requested hosts with a bare one among them are all as the user gave them.
LEMMA BareStay ==
    ASSUME ask \in Ask, HasBare(RequestedHosts)
    PROVE  Expand(RequestedHosts, <<>>) = RequestedHosts
<1> DEFINE hosts == RequestedHosts
<1>1. PICK i \in DOMAIN hosts : needsExpansion(TrimSpace(hosts[i]))
  BY DEF HasBare
<1>2. hosts # <<>>
  <2> HIDE DEF hosts
  <2>1. DOMAIN hosts # {}
    BY <1>1
  <2> QED BY <2>1
<1>3. PICK names \in Seq(Text) : \E domain \in Text : hosts = Expand(names, domain)
  BY <1>2, RequestedFacts
<1>4. PICK domain \in Text : hosts = Expand(names, domain)
  BY <1>3
<1> HIDE DEF hosts
<1> DEFINE d == NormalizeDomain(domain)
<1> HIDE DEF d
<1>5. /\ hosts \in Seq(Text)
      /\ \A k \in DOMAIN hosts :
           /\ hosts[k] # <<>>
           /\ \/ TrimSpace(hosts[k]) = hosts[k] /\ (needsExpansion(hosts[k]) => d = <<>>)
              \/ d # <<>> /\ \E l \in DOMAIN hosts[k] : hosts[k][l] = "."
  BY <1>4, ExpandFacts DEF d
<1>6. ~Has(TrimSpace(hosts[i]), ".")
  BY <1>1 DEF needsExpansion
<1>7. ~\E l \in DOMAIN hosts[i] : hosts[i][l] = "."
  <2> DEFINE h == hosts[i]
             r == TrimSpace(h)
  <2>1. h \in Seq(STRING)
    BY <1>5 DEF Text
  <2> HIDE DEF h
  <2>2. \A l \in DOMAIN h : h[l] \notin {" "} => \E k \in DOMAIN r : r[k] = h[l]
    <3> SUFFICES ASSUME NEW l \in DOMAIN h, h[l] \notin {" "}
                 PROVE  \E k \in DOMAIN r : r[k] = h[l]
      OBVIOUS
    <3>1. \E k \in DOMAIN Trimmed(h, {" "}) : Trimmed(h, {" "})[k] = h[l]
      BY <2>1, TrimmedKeeps
    <3> QED BY <3>1 DEF TrimSpace
  <2> HIDE DEF r
  <2>3. \A k \in DOMAIN r : r[k] # "."
    <3>1. ~Has(r, ".")
      BY <1>6 DEF r, h
    <3>2. "." \notin Range(r)
      BY <3>1 DEF Has
    <3> QED BY <3>2 DEF Range
  <2> QED BY <2>2, <2>3 DEF h
<1>8. d = <<>>
  BY <1>1, <1>5, <1>7
<1>9. \A k \in DOMAIN hosts : hosts[k] # <<>> /\ TrimSpace(hosts[k]) = hosts[k]
  BY <1>5, <1>8
<1>10. Expand(hosts, <<>>) = hosts
  BY <1>5, <1>9, ExpandWithout
<1>11. QED BY <1>10 DEF hosts

\* The inductive invariant of the way of a link holds at the start ...
LEMMA UrlInitInv == ASSUME UrlInit PROVE UrlInv
BY DEF UrlInit, UrlInv

\* A daemon that serves has a domain and a port that is a number.
LEMMA StartDaemonInv ==
    ASSUME UrlInv, StartDaemon
    PROVE  UrlInv'
<1>1. \A a \in DOMAIN ListenAddr : ListenAddr[a] \in STRING \ {"0", ":", "]"}
  BY ConfigCheckAssumption
<1>2. CASE ask.started = NoFile
  <2>1. DefaultTLSListen \in DOMAIN ListenAddr
    BY ConfigCheckAssumption
  <2>2. daemon'.domain = <<>> /\ daemon'.port = ListenAddr[DefaultTLSListen]
        /\ at' = "serving" /\ ask' = ask
    BY <1>2 DEF StartDaemon, BoundPort
  <2>3. daemon'.domain \in Text /\ daemon'.port \in STRING \ {"0", ":", "]"}
    BY <1>1, <2>1, <2>2, TextTokens
  <2> QED BY <2>2, <2>3 DEF UrlInv
<1>3. CASE ask.started # NoFile /\ Load(ask.started)
  <2> DEFINE raw == ask.started
             c == Defaulted(raw)
             listen == Or(raw.listen, DefaultTLSListen)
  <2>1. raw \in Config
    BY <1>3, AskType DEF UrlInv
  <2> HIDE DEF raw
  <2>2. c.domain = NormalizeDomain(IF raw.domain = <<>> THEN DefaultDomain ELSE raw.domain)
        /\ c.tlsListen = Or(raw.tlsListen, listen)
    BY <2>1 DEF Defaulted, Config
  <2>3. raw.domain \in Text /\ raw.listen \in {Absent} \cup BadAddr \cup DOMAIN ListenAddr
        /\ raw.tlsListen \in {Absent} \cup BadAddr \cup DOMAIN ListenAddr
    BY <2>1 DEF Config
  <2>4. c.domain \in Text
    BY <2>2, <2>3, NormalizeDomainType, TextTokens
  <2>5. c.tlsListen \notin BadAddr
    BY <1>3 DEF Load, validate, ValidateListenAddr, raw
  <2>6. c.tlsListen \in DOMAIN ListenAddr
    BY <2>2, <2>3, <2>5, ConfigCheckAssumption DEF Or
  <2> HIDE DEF c
  <2>7. daemon'.domain = c.domain /\ daemon'.port = ListenAddr[c.tlsListen]
        /\ at' = "serving" /\ ask' = ask
    BY <1>3 DEF StartDaemon, BoundPort, c, raw
  <2>8. daemon'.domain \in Text /\ daemon'.port \in STRING \ {"0", ":", "]"}
    BY <1>1, <2>4, <2>6, <2>7
  <2> QED BY <2>7, <2>8 DEF UrlInv
<1>4. CASE ask.started # NoFile /\ ~Load(ask.started)
  <2>1. at' = "refused" /\ ask' = ask
    BY <1>4 DEF StartDaemon
  <2> QED BY <2>1 DEF UrlInv
<1>5. QED BY <1>2, <1>3, <1>4

\* Every announced URL is of a host that is registered.
LEMMA AnnounceInv ==
    ASSUME UrlInv, Announce
    PROVE  UrlInv'
<1>0. /\ at = "serving" /\ UNCHANGED <<ask, daemon, header, found>> /\ ask \in Ask
      /\ daemon.domain \in Text /\ daemon.port \in STRING \ {"0", ":", "]"}
  BY DEF Announce, UrlInv
<1>1. CASE RunHosts # <<>> /\ \A i \in DOMAIN RunHosts : ValidHostToken(RunHosts[i])
  <2>1. /\ table' = {normalizeHost(RunHosts[i]) : i \in DOMAIN RunHosts}
        /\ urls' = Printed(RunHosts) /\ at' = "announced"
    BY <1>1 DEF Announce
  <2>2. Printed(RunHosts)' = Printed(RunHosts)
    BY <1>0 DEF Printed, RunHosts, RequestedHosts
  <2>3. RunHosts \in Seq(Text)
    BY <1>0, RunHostsType
  <2> DEFINE hosts == RunHosts
  <2> HIDE DEF hosts
  <2>4. DOMAIN urls' = DOMAIN hosts /\ \A i \in DOMAIN hosts : urls'[i].host = hosts[i]
    BY <2>1 DEF Printed, formatPublicURL, hosts
  <2>5. \A i \in DOMAIN hosts : hosts[i] \in Text /\ ValidHostToken(hosts[i])
                                /\ normalizeHost(hosts[i]) \in table'
    BY <1>1, <2>1, <2>3 DEF hosts
  <2>6. \A i \in DOMAIN urls' : HostRegistered(urls[i].host)'
    BY <2>4, <2>5 DEF HostRegistered
  <2> QED BY <1>0, <2>1, <2>2, <2>6 DEF UrlInv
<1>2. CASE ~(RunHosts # <<>> /\ \A i \in DOMAIN RunHosts : ValidHostToken(RunHosts[i]))
  <2>1. at' = "refused"
    BY <1>2 DEF Announce
  <2> QED BY <1>0, <2>1 DEF UrlInv
<1>3. QED BY <1>1, <1>2

\* A request for a URL as it is shown arrives, whether its port is written,
\* the default one, or hidden.
LEMMA ShownPortArrives ==
    ASSUME NEW host, NEW shown,
           daemon.port \in STRING \ {"0", ":", "]"},
           shown = (IF advertisedPort(daemon) = "443" THEN "0" ELSE advertisedPort(daemon)),
           Get(host, shown)
    PROVE  at' = "arrived" /\ shown \in {"0", daemon.port} /\ header' \in HostHeader(host, shown)
<1> DEFINE p == daemon.port
<1>1. p # "0"
  OBVIOUS
<1> HIDE DEF p
<1>2. CASE daemon.hide
  <2>1. shown = "0"
    BY <1>2 DEF advertisedPort
  <2> QED BY <1>2, <2>1 DEF Get
<1>3. CASE ~daemon.hide /\ p = "443"
  <2>1. shown = "0"
    BY <1>3 DEF advertisedPort, p
  <2> QED BY <1>3, <2>1 DEF Get, p
<1>4. CASE ~daemon.hide /\ p # "443"
  <2>1. shown = p
    BY <1>4 DEF advertisedPort, p
  <2> QED BY <1>1, <1>4, <2>1 DEF Get, p
<1>5. QED BY <1>2, <1>3, <1>4

\* A browser that follows a link sends a host that is registered.
LEMMA FollowInv ==
    ASSUME UrlInv, Follow
    PROVE  UrlInv'
<1>0. /\ at = "announced" /\ UNCHANGED <<ask, daemon, table, urls, found>>
      /\ daemon.domain \in Text /\ daemon.port \in STRING \ {"0", ":", "]"}
      /\ urls = Printed(RunHosts)
  BY DEF Follow, UrlInv
<1>1. PICK i \in DOMAIN urls : Get(urls[i].host, urls[i].port)
  BY DEF Follow
<1> DEFINE host == urls[i].host
           shown == urls[i].port
<1>2. shown = IF advertisedPort(daemon) = "443" THEN "0" ELSE advertisedPort(daemon)
  BY <1>0, <1>1 DEF Printed, formatPublicURL
<1> HIDE DEF shown
<1>3. at' = "arrived" /\ shown \in {"0", daemon.port} /\ header' \in HostHeader(host, shown)
  BY <1>0, <1>1, <1>2, ShownPortArrives DEF shown
<1>4. \A k \in DOMAIN urls : HostRegistered(urls[k].host)'
  BY <1>0 DEF UrlInv, HostRegistered
<1>5. \E k \in DOMAIN urls : \E q \in {"0", daemon.port} : header' \in HostHeader(urls[k].host, q)
  BY <1>1, <1>3
<1>6. QED BY <1>0, <1>3, <1>4, <1>5 DEF UrlInv

\* One that comes by plain HTTP does so too.
LEMMA FollowPlainInv ==
    ASSUME UrlInv, FollowPlain
    PROVE  UrlInv'
<1>1. /\ at = "announced" /\ at' = "redirect" /\ UNCHANGED <<ask, daemon, table, urls, found>>
      /\ \E i \in DOMAIN urls : \E shown \in {"0", "8080"} :
            header' \in HostHeader(urls[i].host, shown)
  BY DEF FollowPlain
<1>2. \A k \in DOMAIN urls : HostRegistered(urls[k].host)'
  BY <1>1 DEF UrlInv, HostRegistered
<1>3. QED BY <1>1, <1>2 DEF UrlInv

\* A Host header made of a registered host, as it is or in lower case, gives
\* that text back however its port is taken off.
LEMMA HeaderGivesHost ==
    ASSUME NEW host, host \in Text, ValidHostToken(host), NEW shown, shown \notin {":", "]"},
           NEW text \in HostHeader(host, shown)
    PROVE  \E g \in {host, ToLower(host)} :
              Shape(g) /\ stripPort(text) = g /\ requestHostname(text) = g
<1>1. PICK g \in {host, ToLower(host)} :
         text = g \o (IF shown = "0" THEN <<>> ELSE <<":", shown>>)
  BY DEF HostHeader
<1>2. Shape(g)
  BY <1>1, ValidShape, LowerShape
<1>3. text = g \/ text = g \o <<":", shown>>
  <2>1. g \in Seq(STRING)
    BY <1>2, ShapeText
  <2>2. g \o <<>> = g
    BY <2>1, NoneAppended
  <2> QED BY <1>1, <2>2
<1>4. stripPort(text) = g /\ requestHostname(text) = g
  BY <1>2, <1>3, HostOfHeader
<1>5. QED BY <1>2, <1>4

\* The redirect names the host that was asked for, so the browser asks again
\* for the same one.
LEMMA RedirectInv ==
    ASSUME UrlInv, Redirect
    PROVE  UrlInv'
<1>0. /\ at = "redirect" /\ UNCHANGED <<ask, daemon, table, urls, found>>
      /\ daemon.domain \in Text /\ daemon.port \in STRING \ {"0", ":", "]"}
  BY DEF Redirect, UrlInv
<1>1. PICK i \in DOMAIN urls : \E p \in {"0", "8080"} : header \in HostHeader(urls[i].host, p)
  BY <1>0 DEF UrlInv
<1>2. PICK p \in {"0", "8080"} : header \in HostHeader(urls[i].host, p)
  BY <1>1
<1> DEFINE host == urls[i].host
           shown == IF advertisedPort(daemon) = "443" THEN "0" ELSE advertisedPort(daemon)
<1>3. host \in Text /\ ValidHostToken(host)
  BY <1>0 DEF UrlInv, HostRegistered
<1> HIDE DEF host, shown
<1>4. PICK g \in {host, ToLower(host)} : Shape(g) /\ requestHostname(header) = g
  <2>1. p \notin {":", "]"}
    OBVIOUS
  <2>2. header \in HostHeader(host, p)
    BY <1>2 DEF host
  <2> QED BY <1>3, <2>1, <2>2, HeaderGivesHost
<1>5. Get(g, shown)
  BY <1>4 DEF Redirect, shown
<1>6. at' = "arrived" /\ shown \in {"0", daemon.port} /\ header' \in HostHeader(g, shown)
  BY <1>0, <1>5, ShownPortArrives DEF shown
<1>7. HostHeader(g, shown) \subseteq HostHeader(host, shown)
  <2>1. ToLower(ToLower(host)) = ToLower(host)
    BY <1>3, LowerTwice
  <2>2. g \in {host, ToLower(host)} /\ ToLower(g) \in {host, ToLower(host)}
    BY <1>4, <2>1
  <2> QED BY <2>2 DEF HostHeader
<1>8. \A k \in DOMAIN urls : HostRegistered(urls[k].host)'
  BY <1>0 DEF UrlInv, HostRegistered
<1>9. \E k \in DOMAIN urls : \E q \in {"0", daemon.port} : header' \in HostHeader(urls[k].host, q)
  BY <1>1, <1>6, <1>7 DEF host
<1>10. QED BY <1>0, <1>6, <1>8, <1>9 DEF UrlInv

\* The proxy finds the route.
LEMMA LookupHostInv ==
    ASSUME UrlInv, LookupHost
    PROVE  UrlInv'
<1>0. /\ at = "arrived" /\ at' = "answered" /\ UNCHANGED <<ask, daemon, table, urls, header>>
      /\ found' = (normalizeHost(stripPort(header)) \in table)
      /\ daemon.domain \in Text /\ daemon.port \in STRING \ {"0", ":", "]"}
  BY DEF LookupHost, UrlInv
<1>1. PICK i \in DOMAIN urls : \E p \in {"0", daemon.port} : header \in HostHeader(urls[i].host, p)
  BY <1>0 DEF UrlInv
<1>2. PICK p \in {"0", daemon.port} : header \in HostHeader(urls[i].host, p)
  BY <1>1
<1> DEFINE host == urls[i].host
<1>3. host \in Text /\ ValidHostToken(host) /\ normalizeHost(host) \in table
  BY <1>0 DEF UrlInv, HostRegistered
<1> HIDE DEF host
<1>4. PICK g \in {host, ToLower(host)} : stripPort(header) = g
  <2>1. p \notin {":", "]"}
    BY <1>0
  <2>2. header \in HostHeader(host, p)
    BY <1>2 DEF host
  <2> QED BY <1>3, <2>1, <2>2, HeaderGivesHost
<1>5. normalizeHost(g) = normalizeHost(host)
  <2>1. Shape(host)
    BY <1>3, ValidShape
  <2> QED BY <1>4, <2>1, LowerNormalized
<1>6. found'
  BY <1>0, <1>3, <1>4, <1>5
<1>7. QED BY <1>0, <1>6 DEF UrlInv

\* Every step keeps the invariant.
LEMMA UrlNextInv ==
    ASSUME UrlInv, [UrlNext]_urlVars
    PROVE  UrlInv'
<1>1. CASE StartDaemon
  BY <1>1, StartDaemonInv
<1>2. CASE Announce
  BY <1>2, AnnounceInv
<1>3. CASE Follow
  BY <1>3, FollowInv
<1>4. CASE FollowPlain
  BY <1>4, FollowPlainInv
<1>5. CASE Redirect
  BY <1>5, RedirectInv
<1>6. CASE LookupHost
  BY <1>6, LookupHostInv
<1>7. CASE UNCHANGED urlVars
  BY <1>7 DEF urlVars, UrlInv, HostRegistered, Printed, RunHosts, RequestedHosts
<1>8. QED BY <1>1, <1>2, <1>3, <1>4, <1>5, <1>6, <1>7 DEF UrlNext

\* What a link rests on holds in every state.
THEOREM UrlInvariant == UrlSpec => []UrlInv
<1>1. QED BY UrlInitInv, UrlNextInv, PTL DEF UrlSpec

\* Every URL that a run announces leads to its route, whatever the words,
\* domains, prefixes, addresses and ports, for IPv6 literals too, at once or by
\* way of the redirect from plain HTTP.
THEOREM LinksWork == UrlSpec => []AnnouncedLinksWork
<1>1. UrlInv => AnnouncedLinksWork
  BY DEF UrlInv, AnnouncedLinksWork
<1>2. QED BY <1>1, UrlInvariant, PTL

\* Where no domain is reported, bare hosts stay as they are on both ways.
LEMMA UrlMatches == ASSUME UrlInv PROVE UrlMatchesRun
<1> SUFFICES ASSUME at = "announced", daemon.domain # <<>> \/ ask.fileDomain = <<>>
             PROVE  runURL = urls
  BY DEF UrlMatchesRun
<1>1. urls = Printed(RunHosts) /\ ask \in Ask
  BY DEF UrlInv
<1>2. CASE ~HasBare(RequestedHosts)
  BY <1>1, <1>2 DEF runURL, RunHosts
<1>3. CASE HasBare(RequestedHosts) /\ daemon.domain # <<>>
  BY <1>1, <1>3 DEF runURL, RunHosts
<1>4. CASE HasBare(RequestedHosts) /\ daemon.domain = <<>>
  <2>1. RunHosts = RequestedHosts
    BY <1>1, <1>4, BareStay DEF RunHosts
  <2>2. runURL = Printed(RequestedHosts)
    BY <1>4 DEF runURL
  <2> QED BY <1>1, <2>1, <2>2
<1>5. QED BY <1>2, <1>3, <1>4

\* The url command prints what the run announced, unless a daemon without a
\* domain meets a config file that has come to name one.
THEOREM CommandsPrintTheSame == UrlSpec => []UrlMatchesRun
<1>1. UrlInv => UrlMatchesRun
  BY UrlMatches
<1>2. QED BY <1>1, UrlInvariant, PTL

\* Check finds no error exactly in the files that Load takes, and a daemon
\* never fails to start on the routes of a file that Load took.
THEOREM ReadersAlwaysAgree == UrlSpec => []ConfigReadersAgree
<1>1. UrlInv => ConfigReadersAgree
  BY AskType, ReadersAgree DEF UrlInv, ConfigReadersAgree
<1>2. QED BY <1>1, UrlInvariant, PTL

\* A dev server is told its port exactly once, whatever its command line says.
THEOREM FlagsSettle == UrlSpec => []FrameworkFlagsSettle
<1>1. UrlInv => FrameworkFlagsSettle
  BY AskType, InjectionAlwaysSettles DEF UrlInv, FrameworkFlagsSettle
<1>2. QED BY <1>1, UrlInvariant, PTL

=============================================================================
