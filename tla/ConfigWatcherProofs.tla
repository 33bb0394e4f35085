------------------------- MODULE ConfigWatcherProofs -------------------------
(***************************************************************************)
(* Proofs about ConfigWatcher, for any contents of the file, any hosts and *)
(* any number of saves.                                                    *)
(*                                                                         *)
(* Two of the five properties except what happens once a callback began    *)
(* before the last one had ended (overlapped).  They rest on a             *)
(* strengthening that says, until then, what the one callback in flight    *)
(* has done and has still to do (InTurn).                                  *)
(***************************************************************************)
EXTENDS ConfigWatcher, TLAPS

CallbackState == [pc : Steps, got : Loaded \cup {None}]

\* A callback past its Load has a version of the file in hand.
HasLoaded == {"storing", "checking", "applying", "naming"}

Loads ==
    /\ \A k \in DOMAIN callbacks : callbacks[k].pc \in HasLoaded =>
           callbacks[k].got \in Loaded
    /\ boot \in {"loaded", "watching", "installed", "running"} =>
           current \in Loaded

\* Whatever overlaps.
TInv ==
    /\ TypeOK
    /\ HostsDisjoint(routes)
    /\ events <= file.rev
    /\ Loads
    /\ RoutesOfOneConfig

\* Nothing is armed or called back unless Run runs, and one callback at a time.
OneInFlight ==
    /\ boot # "running" => ~armed /\ callbacks = <<>>
    /\ \A j, k \in InFlight : j = k

\* What is stored, or about to be stored, is no newer than the file, and what
\* is about to be stored is no older than what is stored.
NoneNewer ==
    /\ current # None => current.rev <= file.rev
    /\ \A k \in DOMAIN callbacks : At(k, "storing") =>
           /\ callbacks[k].got.rev <= file.rev
           /\ current # None => current.rev <= callbacks[k].got.rev

Fits == \E x \in Config : /\ Owned(routes, ConfigSource) = RoutesOf(x)
                          /\ domain = x.domain

\* Routes and domain fit but between the two halves of an installation; there
\* the routes are those of the version whose domain comes next.
HalfInstalled ==
    boot \in {"installed", "running"} =>
        /\ (\A k \in DOMAIN callbacks : ~At(k, "naming")) => Fits
        /\ \A k \in DOMAIN callbacks : At(k, "naming") =>
               Owned(routes, ConfigSource) = RoutesOf(callbacks[k].got.cfg)

InTurn == OneInFlight /\ NoneNewer /\ HalfInstalled

IInv == TInv /\ (~overlapped => InTurn)

-----------------------------------------------------------------------------
(* Lemmas.                                                                 *)

\* Hosts and upstreams are as the lemmas about tables assume.
LEMMA NamesFitHere == NamesFit
BY ConfigWatcherAssumption

\* A callback that takes a step changes its own place and keeps what it loaded.
LEMMA StepMoves ==
    ASSUME callbacks \in Seq(CallbackState), NEW k \in DOMAIN callbacks,
           NEW where \in Steps, Step(k, where)
    PROVE  /\ callbacks' \in Seq(CallbackState)
           /\ DOMAIN callbacks' = DOMAIN callbacks
           /\ callbacks'[k].pc = where /\ callbacks'[k].got = callbacks[k].got
           /\ \A j \in DOMAIN callbacks : j # k => callbacks'[j] = callbacks[j]
<1>1. callbacks' = [callbacks EXCEPT ![k] = [callbacks[k] EXCEPT !.pc = where]]
  BY DEF Step
<1>2. callbacks[k] \in CallbackState
  OBVIOUS
<1>3. [callbacks[k] EXCEPT !.pc = where] = [pc |-> where, got |-> callbacks[k].got]
  BY <1>2 DEF CallbackState
<1>4. QED BY <1>1, <1>2, <1>3 DEF CallbackState

\* The same for the step that loads a version of the file.
LEMMA LoadMoves ==
    ASSUME callbacks \in Seq(CallbackState), NEW k \in DOMAIN callbacks, file \in Loaded,
           callbacks' = [callbacks EXCEPT ![k] = [pc |-> "storing", got |-> file]]
    PROVE  /\ callbacks' \in Seq(CallbackState)
           /\ DOMAIN callbacks' = DOMAIN callbacks
           /\ callbacks'[k].pc = "storing" /\ callbacks'[k].got = file
           /\ \A j \in DOMAIN callbacks : j # k => callbacks'[j] = callbacks[j]
BY DEF CallbackState, Steps

\* A timer that fires adds a callback, at its beginning.
LEMMA FireAppends ==
    ASSUME callbacks \in Seq(CallbackState), Fire
    PROVE  /\ callbacks' \in Seq(CallbackState)
           /\ DOMAIN callbacks' = DOMAIN callbacks \cup {Len(callbacks) + 1}
           /\ Len(callbacks) + 1 \notin DOMAIN callbacks
           /\ callbacks'[Len(callbacks) + 1].pc = "fired"
           /\ \A j \in DOMAIN callbacks : callbacks'[j] = callbacks[j]
BY DEF Fire, CallbackState, Steps

\* An accepted replacement by a version of the file is a table whose config
\* routes are that version's.
LEMMA VersionInstalled ==
    ASSUME IsTable(routes), NEW x \in Config,
           ReplaceAccepted(routes, ConfigSource, x.entries)
    PROVE  /\ IsTable(Replaced(routes, ConfigSource, x.entries))
           /\ Owned(Replaced(routes, ConfigSource, x.entries), ConfigSource) = RoutesOf(x)
<1>1. \A i \in DOMAIN x.entries : x.entries[i] \in Request
  BY ConfigWatcherAssumption
<1>2. QED
  BY <1>1, NamesFitHere, ReplacementKeepsTable, ReplacementReplaces
     DEF RoutesOf, ConfigSource

\* What another source does is to a table, and leaves the config routes alone.
LEMMA OthersKeepConfig ==
    ASSUME IsTable(routes), OtherClaims \/ OtherReleases
    PROVE  /\ IsTable(routes')
           /\ Owned(routes', ConfigSource) = Owned(routes, ConfigSource)
<1>1. CASE OtherClaims
  <2>1. PICK u \in Upstream : /\ AddAccepted(routes, OtherSource, OtherHosts, u)
                              /\ routes' = Added(routes, OtherSource, OtherHosts, u)
    BY <1>1 DEF OtherClaims
  <2>2. OtherHosts \in SUBSET HostName
    BY ConfigWatcherAssumption
  <2>3. QED
    BY <2>1, <2>2, NamesFitHere, AdditionKeepsTable, AdditionAdds
       DEF ConfigSource, OtherSource
<1>2. CASE OtherReleases
  BY <1>2, NamesFitHere, RemovalKeepsTable, RemovalRemoves
     DEF OtherReleases, ConfigSource, OtherSource
<1>3. QED BY <1>1, <1>2

-----------------------------------------------------------------------------
(* The invariant that holds whatever overlaps.                             *)

\* Nothing is loaded and nobody has been called back.
LEMMA InitTInv == Init => TInv
<1>1. ASSUME Init PROVE TInv
  <2>1. callbacks \in Seq(CallbackState) /\ callbacks = <<>>
    BY <1>1 DEF Init
  <2>2. TypeOK
    <3>1. file \in File /\ events \in 0..MaxSaves
      BY <1>1, ConfigWatcherAssumption DEF Init, File
    <3>2. QED BY <1>1, <2>1, <3>1 DEF Init, TypeOK, CallbackState, Boots
  <2>3. HostsDisjoint(routes) /\ RoutesOfOneConfig
    BY <1>1 DEF Init, HostsDisjoint, RoutesOfOneConfig, Owned
  <2>4. events <= file.rev /\ Loads
    BY <1>1, <2>1, ConfigWatcherAssumption DEF Init, Loads, File
  <2>5. QED BY <2>2, <2>3, <2>4 DEF TInv
<1>2. QED BY <1>1

\* What a callback's step leaves of the invariant when it touches no route.
LEMMA CallbackKeepsLoads ==
    ASSUME TInv, NEW k \in DOMAIN callbacks, Callback(k)
    PROVE  /\ callbacks' \in Seq(CallbackState)
           /\ DOMAIN callbacks' = DOMAIN callbacks
           /\ Loads'
           /\ current' \in Loaded \cup {None}
<1>0. /\ callbacks \in Seq(CallbackState) /\ Loads
      /\ callbacks[k] \in CallbackState
      /\ file.cfg \in Config => file \in Loaded
      /\ current \in Loaded \cup {None}
  <2>1. callbacks \in Seq(CallbackState) /\ file \in File
    BY DEF TInv, TypeOK, CallbackState
  <2>2. QED BY <2>1 DEF TInv, TypeOK, File, Loaded
<1>1. ASSUME NEW where \in Steps, Step(k, where), UNCHANGED <<boot, current>>,
             where \in HasLoaded => callbacks[k].pc \in HasLoaded
      PROVE  /\ callbacks' \in Seq(CallbackState)
             /\ DOMAIN callbacks' = DOMAIN callbacks
             /\ Loads'
  BY <1>0, <1>1, StepMoves DEF Loads
<1>2. CASE CheckBeforeLoad(k)
  BY <1>0, <1>1, <1>2 DEF CheckBeforeLoad, Steps, HasLoaded
<1>3. CASE Load(k)
  <2>1. CASE file.cfg \in Config
    BY <1>0, <1>3, <2>1, LoadMoves DEF Load, Loads
  <2>2. CASE file.cfg \notin Config
    BY <1>0, <1>1, <1>3, <2>2 DEF Load, Steps, HasLoaded
  <2>3. QED BY <2>1, <2>2
<1>4. CASE StoreCurrent(k)
  <2>1. callbacks[k].got \in Loaded
    BY <1>0, <1>4 DEF StoreCurrent, At, Loads, HasLoaded
  <2>2. QED BY <1>0, <1>4, <2>1, StepMoves
               DEF StoreCurrent, At, Loads, HasLoaded, Steps
<1>5. CASE CheckBeforeApply(k)
  BY <1>0, <1>1, <1>5 DEF CheckBeforeApply, At, Steps, HasLoaded
<1>6. CASE Apply(k)
  BY <1>0, <1>1, <1>6 DEF Apply, At, Steps, HasLoaded
<1>7. CASE StoreDomain(k)
  BY <1>0, <1>1, <1>7 DEF StoreDomain, At, Steps, HasLoaded
<1>8. QED BY <1>2, <1>3, <1>4, <1>5, <1>6, <1>7 DEF Callback

\* The table, and the version that its config routes are of.
LEMMA RoutesKept ==
    ASSUME TInv, Next
    PROVE  IsTable(routes') /\ RoutesOfOneConfig'
<1>0. IsTable(routes) /\ RoutesOfOneConfig
  BY DEF TInv, TypeOK, IsTable
<1>1. CASE routes' = routes
  BY <1>0, <1>1 DEF RoutesOfOneConfig
<1>2. CASE OtherClaims \/ OtherReleases
  BY <1>0, <1>2, OthersKeepConfig DEF RoutesOfOneConfig
<1>3. ASSUME NEW x \in Config, ReplaceAccepted(routes, ConfigSource, x.entries),
             routes' = Replaced(routes, ConfigSource, x.entries)
      PROVE  IsTable(routes') /\ RoutesOfOneConfig'
  BY <1>0, <1>3, VersionInstalled DEF RoutesOfOneConfig
<1>4. CASE InstallFirst
  <2>1. current.cfg \in Config
    BY <1>4 DEF InstallFirst, TInv, Loads, Loaded
  <2>2. QED BY <1>3, <1>4, <2>1 DEF InstallFirst
<1>5. ASSUME NEW k \in DOMAIN callbacks, Apply(k)
      PROVE  IsTable(routes') /\ RoutesOfOneConfig'
  <2>1. callbacks[k].got.cfg \in Config
    BY <1>5 DEF Apply, At, TInv, Loads, HasLoaded, Loaded
  <2>2. QED BY <1>1, <1>3, <1>5, <2>1 DEF Apply
<1>6. CASE Exit
  BY <1>6 DEF Exit, IsTable, HostsDisjoint, RoutesOfOneConfig, Owned
<1>7. QED
  BY <1>1, <1>2, <1>4, <1>5, <1>6
     DEF Next, Save, Boot, CheckConfig, LoadFirst, AddWatch, StartRun, Receive,
         RunReturns, Fire, Callback, CheckBeforeLoad, Load, StoreCurrent,
         CheckBeforeApply, StoreDomain, Signal, Cancel, NoticeCancel

\* A step keeps the types: every write of a version of the file is of one that
\* was loaded.
LEMMA TypesKept ==
    ASSUME TInv, Next
    PROVE  TypeOK' /\ (events <= file.rev)' /\ Loads'
<1>0. /\ TypeOK /\ Loads /\ events <= file.rev
      /\ callbacks \in Seq(CallbackState)
      /\ routes' \subseteq Route
  BY RoutesKept DEF TInv, TypeOK, CallbackState, IsTable
<1> DEFINE Kept == TypeOK' /\ (events <= file.rev)' /\ Loads'
<1> HIDE DEF Kept
<1>1. ASSUME NEW x \in Config \cup {Broken, Missing}, Save(x)
      PROVE  Kept
  <2>1. /\ file' \in File /\ file'.rev = file.rev + 1 /\ file.rev \in Nat
        /\ events' \in {events, events + 1}
    BY <1>0, <1>1, ConfigWatcherAssumption DEF Save, TypeOK, File
  <2>2. events' <= file'.rev /\ events' \in 0..MaxSaves
    BY <1>0, <2>1, ConfigWatcherAssumption DEF TypeOK, File
  <2>3. QED BY <1>0, <1>1, <2>1, <2>2
               DEF Kept, Save, watchVars, stopVars, TypeOK, Loads, CallbackState
<1>2. CASE OtherClaims \/ OtherReleases
  BY <1>0, <1>2
     DEF Kept, OtherClaims, OtherReleases, filesVars, watchVars, stopVars,
         TypeOK, Loads, CallbackState
<1>3. CASE Boot
  <2>1. CASE CheckConfig \/ AddWatch \/ StartRun
    BY <1>0, <2>1
       DEF Kept, CheckConfig, AddWatch, StartRun, filesVars, watchVars, stopVars,
           TypeOK, Loads, CallbackState, Boots, Loaded, File
  <2>2. CASE LoadFirst
    BY <1>0, <2>2
       DEF Kept, LoadFirst, filesVars, watchVars, stopVars,
           TypeOK, Loads, CallbackState, Boots, Loaded, File
  <2>3. CASE InstallFirst
    BY <1>0, <2>3
       DEF Kept, InstallFirst, filesVars, watchVars, stopVars,
           TypeOK, Loads, CallbackState, Boots, Loaded
  <2>4. QED BY <1>3, <2>1, <2>2, <2>3 DEF Boot
<1>4. CASE Receive \/ RunReturns
  <2>1. events' <= events /\ events' \in 0..MaxSaves
    BY <1>0, <1>4, ConfigWatcherAssumption DEF Receive, RunReturns, TypeOK, filesVars
  <2>2. file' = file /\ file.rev \in Int /\ events \in Int
    BY <1>0, <1>4, ConfigWatcherAssumption
       DEF Receive, RunReturns, TypeOK, filesVars, File
  <2>3. events' <= file'.rev
    BY <1>0, <2>1, <2>2, ConfigWatcherAssumption
  <2>4. QED BY <1>0, <1>4, <2>1, <2>3
               DEF Kept, Receive, RunReturns, filesVars, watchVars, stopVars,
                   TypeOK, Loads, CallbackState
<1>5. CASE Fire
  <2>1. Loads'
    BY <1>0, <1>5, FireAppends DEF Fire, Loads, HasLoaded
  <2>2. QED BY <1>0, <1>5, <2>1, FireAppends
               DEF Kept, Fire, filesVars, stopVars, TypeOK, CallbackState
<1>6. ASSUME NEW k \in DOMAIN callbacks, Callback(k)
      PROVE  Kept
  <2>1. /\ callbacks' \in Seq(CallbackState) /\ Loads'
        /\ current' \in Loaded \cup {None}
    BY <1>6, CallbackKeepsLoads
  <2>2. /\ file' = file /\ events' = events /\ boot' = boot /\ armed' = armed
        /\ stopping' = stopping /\ ctxDone' = ctxDone
        /\ watchedFrom' = watchedFrom /\ overlapped' = overlapped
        /\ outcome' \in {outcome, "unreadable", "rejected", "installed"}
    BY <1>6 DEF Callback, CheckBeforeLoad, Load, StoreCurrent, CheckBeforeApply,
                Apply, StoreDomain, filesVars, stopVars
  <2>3. domain' \in {x.domain : x \in Config} \cup {None}
    <3>1. CASE StoreDomain(k)
      BY <1>0, <3>1 DEF StoreDomain, At, Loads, HasLoaded, Loaded
    <3>2. CASE ~StoreDomain(k)
      BY <1>0, <1>6, <3>2
         DEF Callback, CheckBeforeLoad, Load, StoreCurrent, CheckBeforeApply,
             Apply, TypeOK
    <3>3. QED BY <3>1, <3>2
  <2>4. QED BY <1>0, <2>1, <2>2, <2>3 DEF Kept, TypeOK, CallbackState
<1>7. CASE Signal \/ Cancel \/ NoticeCancel
  BY <1>0, <1>7
     DEF Kept, Signal, Cancel, NoticeCancel, filesVars, watchVars, stopVars,
         TypeOK, Loads, CallbackState
<1>8. CASE Exit
  <2>1. callbacks' \in Seq(CallbackState) /\ callbacks' = <<>>
    BY <1>8 DEF Exit
  <2>2. events' \in 0..MaxSaves /\ events' <= file'.rev
    BY <1>0, <1>8, ConfigWatcherAssumption DEF Exit, TypeOK, File
  <2>3. Loads'
    BY <1>8, <2>1 DEF Exit, Loads
  <2>4. QED BY <1>0, <1>8, <2>1, <2>2, <2>3
               DEF Kept, Exit, TypeOK, CallbackState, Boots
<1>9. QED
  BY <1>1, <1>2, <1>3, <1>4, <1>5, <1>6, <1>7, <1>8 DEF Next, Kept

\* Every step keeps it.
LEMMA TInvStep == TInv /\ [Next]_vars => TInv'
<1>1. ASSUME TInv, Next PROVE TInv'
  BY <1>1, TypesKept, RoutesKept DEF TInv, IsTable
<1>2. ASSUME TInv, UNCHANGED vars PROVE TInv'
  BY <1>2
     DEF TInv, TypeOK, HostsDisjoint, Loads, RoutesOfOneConfig, vars, filesVars,
         watchVars, stopVars
<1>3. QED BY <1>1, <1>2

-----------------------------------------------------------------------------
(* The invariant that holds until a callback overlaps another.             *)

\* What a callback's step leaves of what is said about one at a time.
LEMMA CallbackInTurn ==
    ASSUME TInv, InTurn, NEW k \in DOMAIN callbacks, Callback(k)
    PROVE  InTurn'
<1>0. /\ callbacks \in Seq(CallbackState) /\ IsTable(routes)
      /\ callbacks' \in Seq(CallbackState)
      /\ DOMAIN callbacks' = DOMAIN callbacks
      /\ file.cfg \in Config => file \in Loaded
  <2>1. callbacks \in Seq(CallbackState) /\ file \in File /\ IsTable(routes)
    BY DEF TInv, TypeOK, CallbackState, IsTable
  <2>2. QED BY <2>1, CallbackKeepsLoads DEF File, Loaded
<1>1. /\ k \in InFlight
      /\ boot = "running" /\ boot' = boot /\ file' = file
      /\ \A j \in DOMAIN callbacks : j # k => callbacks[j].pc = "done"
  <2>1. k \in InFlight /\ boot' = boot /\ file' = file
    BY DEF Callback, CheckBeforeLoad, Load, StoreCurrent, CheckBeforeApply,
           Apply, StoreDomain, At, InFlight, filesVars
  <2>2. callbacks # <<>>
    BY <1>0
  <2>3. QED BY <2>1, <2>2 DEF InTurn, OneInFlight, InFlight
<1>2. \A j \in DOMAIN callbacks : j # k => callbacks'[j].pc = "done"
  <2>1. \A j \in DOMAIN callbacks : j # k => callbacks'[j] = callbacks[j]
    <3>1. CASE Load(k) /\ file.cfg \in Config
      BY <1>0, <3>1, LoadMoves DEF Load
    <3>2. CASE ~(Load(k) /\ file.cfg \in Config)
      <4>1. PICK where \in Steps : Step(k, where)
        BY <3>2 DEF Callback, CheckBeforeLoad, Load, StoreCurrent,
                    CheckBeforeApply, Apply, StoreDomain, Steps
      <4>2. QED BY <1>0, <4>1, StepMoves
    <3>3. QED BY <3>1, <3>2
  <2>2. QED BY <1>1, <2>1
<1>3. OneInFlight'
  BY <1>0, <1>1, <1>2 DEF OneInFlight, InFlight
<1>4. \A j \in DOMAIN callbacks : At(j, "naming") \/ At(j, "storing") => j = k
  BY <1>1 DEF At
<1>5. \A j \in DOMAIN callbacks' : At(j, "naming")' \/ At(j, "storing")' => j = k
  BY <1>0, <1>2 DEF At
<1>6. ASSUME NEW where \in Steps, Step(k, where), where \notin {"storing", "naming"},
             ~At(k, "naming"), UNCHANGED <<routes, domain>>
      PROVE  /\ ~At(k, "storing")' /\ ~At(k, "naming")'
             /\ HalfInstalled'
             /\ current' = current => NoneNewer'
  <2>1. ~At(k, "storing")' /\ ~At(k, "naming")'
    BY <1>0, <1>6, StepMoves DEF At
  <2>2. Fits
    BY <1>1, <1>4, <1>6 DEF InTurn, HalfInstalled
  <2>3. Fits'
    BY <1>6, <2>2 DEF Fits
  <2>4. QED BY <1>1, <1>5, <2>1, <2>3 DEF HalfInstalled, InTurn, NoneNewer
<1>7. CASE CheckBeforeLoad(k)
  BY <1>3, <1>6, <1>7 DEF CheckBeforeLoad, At, Steps, InTurn
<1>8. CASE Load(k)
  <2>1. CASE file.cfg \in Config
    <3>1. /\ callbacks'[k].pc = "storing" /\ callbacks'[k].got = file
          /\ UNCHANGED <<routes, domain, current>> /\ ~At(k, "naming")
          /\ file.rev <= file.rev
      BY <1>0, <1>8, <2>1, LoadMoves, ConfigWatcherAssumption
         DEF Load, At, Loaded
    <3>2. NoneNewer'
      BY <1>1, <1>5, <3>1 DEF InTurn, NoneNewer
    <3>3. Fits'
      BY <1>1, <1>4, <3>1 DEF InTurn, HalfInstalled, Fits
    <3>4. HalfInstalled'
      BY <1>5, <3>1, <3>3 DEF HalfInstalled, At
    <3>5. QED BY <1>3, <3>2, <3>4 DEF InTurn
  <2>2. CASE file.cfg \notin Config
    BY <1>3, <1>6, <1>8, <2>2 DEF Load, At, Steps, InTurn
  <2>3. QED BY <2>1, <2>2
<1>9. CASE StoreCurrent(k)
  <2>1. ~At(k, "storing")' /\ HalfInstalled'
    BY <1>6, <1>9 DEF StoreCurrent, At, Steps
  <2>2. current' # None => current'.rev <= file'.rev
    BY <1>1, <1>9 DEF StoreCurrent, InTurn, NoneNewer
  <2>3. QED BY <1>3, <1>5, <2>1, <2>2 DEF InTurn, NoneNewer
<1>10. CASE CheckBeforeApply(k)
  BY <1>3, <1>6, <1>10 DEF CheckBeforeApply, At, Steps, InTurn
<1>11. CASE Apply(k)
  <2> DEFINE x == callbacks[k].got.cfg
  <2>1. CASE ReplaceAccepted(routes, ConfigSource, x.entries)
    <3>1. /\ routes' = Replaced(routes, ConfigSource, x.entries)
          /\ Step(k, "naming") /\ current' = current
      BY <1>11, <2>1 DEF Apply
    <3>2. callbacks'[k].pc = "naming" /\ callbacks'[k].got = callbacks[k].got
      BY <1>0, <3>1, StepMoves DEF Steps
    <3>3. x \in Config
      BY <1>11 DEF Apply, At, TInv, Loads, HasLoaded, Loaded
    <3>4. Owned(routes', ConfigSource) = RoutesOf(x)
      BY <1>0, <2>1, <3>1, <3>3, VersionInstalled
    <3>5. HalfInstalled'
      BY <1>0, <1>5, <3>2, <3>4 DEF HalfInstalled, At
    <3>6. NoneNewer'
      BY <1>1, <1>5, <3>1, <3>2 DEF InTurn, NoneNewer, At
    <3>7. QED BY <1>3, <3>5, <3>6 DEF InTurn
  <2>2. CASE ~ReplaceAccepted(routes, ConfigSource, x.entries)
    BY <1>3, <1>6, <1>11, <2>2 DEF Apply, At, Steps, InTurn
  <2>3. QED BY <2>1, <2>2
<1>12. CASE StoreDomain(k)
  <2>1. /\ Step(k, "done") /\ current' = current /\ routes' = routes
        /\ domain' = callbacks[k].got.cfg.domain
    BY <1>12 DEF StoreDomain
  <2>2. callbacks'[k].pc = "done"
    BY <1>0, <2>1, StepMoves DEF Steps
  <2>3. callbacks[k].got.cfg \in Config
    BY <1>12 DEF StoreDomain, At, TInv, Loads, HasLoaded, Loaded
  <2>4. Owned(routes, ConfigSource) = RoutesOf(callbacks[k].got.cfg)
    BY <1>1, <1>12 DEF StoreDomain, InTurn, HalfInstalled
  <2>5. Fits'
    BY <2>1, <2>3, <2>4 DEF Fits
  <2>6. HalfInstalled' /\ NoneNewer'
    BY <1>1, <1>5, <2>1, <2>2, <2>5 DEF HalfInstalled, InTurn, NoneNewer, At
  <2>7. QED BY <1>3, <2>6 DEF InTurn
<1>13. QED
  BY <1>7, <1>8, <1>9, <1>10, <1>11, <1>12 DEF Callback

\* No callback runs before the first load.
LEMMA InitInTurn == Init => InTurn
BY ConfigWatcherAssumption
   DEF Init, InTurn, OneInFlight, InFlight, NoneNewer, HalfInstalled, File

\* Every other step leaves callbacks alone, or starts one when none is in
\* flight, or ends the daemon.
LEMMA InTurnStep ==
    ASSUME TInv, InTurn, ~overlapped', Next
    PROVE  InTurn'
<1>0. /\ callbacks \in Seq(CallbackState) /\ IsTable(routes) /\ file \in File
      /\ current \in Loaded \cup {None}
      /\ boot # "running" => ~armed /\ callbacks = <<>>
  BY DEF TInv, TypeOK, CallbackState, IsTable, InTurn, OneInFlight
<1>1. ASSUME UNCHANGED <<callbacks, current, domain>>,
             boot' # "running" => ~armed' /\ callbacks = <<>>,
             boot' \in {"installed", "running"} => boot \in {"installed", "running"},
             Owned(routes', ConfigSource) = Owned(routes, ConfigSource),
             file'.rev >= file.rev, file'.rev \in Int
      PROVE  InTurn'
  <2>1. OneInFlight'
    BY <1>1 DEF InTurn, OneInFlight, InFlight
  <2>2. NoneNewer'
    <3>1. file.rev \in Int /\ (current # None => current.rev \in Int)
      BY <1>0, ConfigWatcherAssumption DEF File, Loaded
    <3>2. \A k \in DOMAIN callbacks : At(k, "storing") => callbacks[k].got.rev \in Int
      BY ConfigWatcherAssumption DEF TInv, Loads, HasLoaded, At, Loaded
    <3>3. QED BY <1>1, <3>1, <3>2 DEF InTurn, NoneNewer, At
  <2>3. HalfInstalled'
    BY <1>1 DEF InTurn, HalfInstalled, Fits, At
  <2>4. QED BY <2>1, <2>2, <2>3 DEF InTurn
<1>2. file.rev \in Int /\ file.rev >= file.rev /\ file.rev + 1 >= file.rev
  BY <1>0, ConfigWatcherAssumption DEF File
<1>3. ASSUME NEW x \in Config \cup {Broken, Missing}, Save(x)
      PROVE  InTurn'
  <2>1. file'.rev = file.rev + 1
    BY <1>3 DEF Save
  <2>2. file'.rev >= file.rev /\ file'.rev \in Int
    BY <1>2, <2>1
  <2>3. QED BY <1>0, <1>1, <1>3, <2>2 DEF Save, watchVars, stopVars
<1>4. CASE OtherClaims \/ OtherReleases
  <2>1. Owned(routes', ConfigSource) = Owned(routes, ConfigSource)
    BY <1>0, <1>4, OthersKeepConfig
  <2>2. QED BY <1>0, <1>1, <1>2, <1>4, <2>1
               DEF OtherClaims, OtherReleases, filesVars, watchVars
<1>5. CASE CheckConfig \/ AddWatch \/ StartRun
  <2>1. CASE CheckConfig
    <3>1. boot' \in {"checked", "unwatched", "failed"}
      BY <1>0, <2>1 DEF CheckConfig, File
    <3>2. QED BY <1>0, <1>1, <1>2, <2>1, <3>1 DEF CheckConfig, filesVars, watchVars
  <2>2. CASE AddWatch \/ StartRun
    BY <1>0, <1>1, <1>2, <2>2 DEF AddWatch, StartRun, filesVars, watchVars
  <2>3. QED BY <1>5, <2>1, <2>2
<1>6. CASE LoadFirst
  BY <1>0, <1>2, <1>6
     DEF LoadFirst, filesVars, InTurn, OneInFlight, InFlight, NoneNewer,
         HalfInstalled
<1>7. CASE InstallFirst
  <2>1. /\ current.cfg \in Config
        /\ ReplaceAccepted(routes, ConfigSource, current.cfg.entries)
        /\ routes' = Replaced(routes, ConfigSource, current.cfg.entries)
        /\ domain' = current.cfg.domain
    BY <1>7 DEF InstallFirst, TInv, Loads, Loaded
  <2>2. Fits'
    BY <1>0, <2>1, VersionInstalled DEF Fits
  <2>3. QED BY <1>0, <1>7, <2>2
               DEF InstallFirst, filesVars, InTurn, OneInFlight, InFlight,
                   NoneNewer, HalfInstalled
<1>8. CASE Receive \/ RunReturns \/ Signal \/ Cancel \/ NoticeCancel
  BY <1>0, <1>1, <1>2, <1>8
     DEF Receive, RunReturns, Signal, Cancel, NoticeCancel, filesVars, watchVars
<1>9. CASE Fire
  <2>1. /\ InFlight = {} /\ boot = "running"
        /\ UNCHANGED <<routes, file, boot, current, domain>>
    BY <1>0, <1>9 DEF Fire, filesVars, InTurn, OneInFlight
  <2>2. \A k \in DOMAIN callbacks : callbacks[k].pc = "done"
    BY <2>1 DEF InFlight
  <2>3. \A k \in DOMAIN callbacks' : k # Len(callbacks) + 1 => callbacks'[k].pc = "done"
    BY <1>0, <1>9, <2>2, FireAppends
  <2>4. callbacks'[Len(callbacks) + 1].pc = "fired"
    BY <1>0, <1>9, FireAppends
  <2>5. OneInFlight'
    BY <2>1, <2>3 DEF OneInFlight, InFlight
  <2>6. \A k \in DOMAIN callbacks' : ~At(k, "storing")' /\ ~At(k, "naming")'
    BY <2>3, <2>4 DEF At
  <2>7. NoneNewer'
    BY <2>1, <2>6 DEF InTurn, NoneNewer
  <2>8. HalfInstalled'
    BY <2>1, <2>2, <2>6 DEF InTurn, HalfInstalled, At, Fits
  <2>9. QED BY <2>5, <2>7, <2>8 DEF InTurn
<1>10. ASSUME NEW k \in DOMAIN callbacks, Callback(k)
       PROVE  InTurn'
  BY <1>10, CallbackInTurn
<1>11. CASE Exit
  BY <1>0, <1>2, <1>11
     DEF Exit, InTurn, OneInFlight, InFlight, NoneNewer, HalfInstalled
<1>12. QED
  BY <1>3, <1>4, <1>5, <1>6, <1>7, <1>8, <1>9, <1>10, <1>11 DEF Next, Boot

\* That a callback overlapped another is never forgotten.
LEMMA NeverForgotten ==
    ASSUME Next PROVE overlapped => overlapped'
BY DEF Next, Save, OtherClaims, OtherReleases, Boot, CheckConfig, LoadFirst,
       AddWatch, InstallFirst, StartRun, Receive, RunReturns, Fire, Callback,
       CheckBeforeLoad, Load, StoreCurrent, CheckBeforeApply, Apply, StoreDomain,
       Signal, Cancel, NoticeCancel, Exit, watchVars

\* Both invariants hold initially.
LEMMA InitIInv == Init => IInv
BY InitTInv, InitInTurn DEF IInv

\* Every step keeps both invariants.
LEMMA IInvStep == IInv /\ [Next]_vars => IInv'
<1>1. ASSUME IInv, Next PROVE IInv'
  <2>1. overlapped => overlapped'
    BY <1>1, NeverForgotten
  <2>2. QED BY <1>1, <2>1, TInvStep, InTurnStep DEF IInv
<1>2. ASSUME IInv, UNCHANGED vars PROVE IInv'
  <2>1. TInv' BY <1>2, TInvStep DEF IInv
  <2>2. QED
    BY <1>2, <2>1
       DEF IInv, InTurn, OneInFlight, InFlight, NoneNewer, HalfInstalled, Fits,
           At, vars, filesVars, watchVars
<1>3. QED BY <1>1, <1>2

-----------------------------------------------------------------------------
(* The theorems.                                                           *)

\* The watcher's variables have their types; no more events are pending than
\* the file was saved.
THEOREM TypeCorrect == Spec => []TypeOK
<1>1. IInv => TypeOK BY DEF IInv, TInv
<1>2. QED BY <1>1, InitIInv, IInvStep, PTL DEF Spec

\* The config routes are always those of one version of the file that Load
\* accepted, or none, however saves, callbacks and other sources interleave.
THEOREM OneConfig == Spec => []RoutesOfOneConfig
<1>1. IInv => RoutesOfOneConfig BY DEF IInv, TInv
<1>2. QED BY <1>1, InitIInv, IInvStep, PTL DEF Spec

\* As long as no callback began before the last one had ended, the base domain
\* and the config routes come from one version of the file whenever no reload
\* is under way.
THEOREM DomainFits == Spec => []DomainFitsRoutes
<1>1. IInv => DomainFitsRoutes
  BY DEF IInv, InTurn, HalfInstalled, DomainFitsRoutes, InFlight, At, Fits
<1>2. QED BY <1>1, InitIInv, IInvStep, PTL DEF Spec

\* The version that Current returns is never lost, and never goes back as long
\* as no callback began before the last one had ended.
THEOREM CurrentOnlyAdvances == Spec => CurrentAdvancesInTurn
<1>1. ASSUME IInv, Next, current # None
      PROVE  current' # None /\ (~overlapped => current'.rev >= current.rev)
  <2>1. current \in Loaded /\ file \in File
    BY <1>1 DEF IInv, TInv, TypeOK
  <2>2. current.rev \in Int /\ file.rev \in Int
    BY <2>1, ConfigWatcherAssumption DEF Loaded, File
  <2>3. CASE LoadFirst /\ current' = file
    <3>1. file \in Loaded
      BY <2>1, <2>3, ConfigWatcherAssumption DEF LoadFirst, File, Loaded
    <3>2. ~overlapped => current.rev <= file.rev
      BY <1>1 DEF IInv, InTurn, NoneNewer
    <3>3. QED BY <2>1, <2>2, <2>3, <3>1, <3>2, ConfigWatcherAssumption
  <2>4. ASSUME NEW k \in DOMAIN callbacks, StoreCurrent(k)
        PROVE  current' # None /\ (~overlapped => current'.rev >= current.rev)
    <3>1. current' = callbacks[k].got /\ callbacks[k].got \in Loaded
      BY <1>1, <2>4 DEF StoreCurrent, IInv, TInv, Loads, HasLoaded, At
    <3>2. ~overlapped => current.rev <= callbacks[k].got.rev
      BY <1>1, <2>4 DEF StoreCurrent, IInv, At, InTurn, NoneNewer
    <3>3. callbacks[k].got.rev \in Int
      BY <3>1, ConfigWatcherAssumption DEF Loaded
    <3>4. QED BY <2>2, <3>1, <3>2, <3>3, ConfigWatcherAssumption
  <2>5. CASE current' = current
    BY <1>1, <2>2, <2>5
  <2>6. QED
    BY <1>1, <2>3, <2>4, <2>5
       DEF Next, Save, OtherClaims, OtherReleases, Boot, CheckConfig, LoadFirst,
           AddWatch, InstallFirst, StartRun, Receive, RunReturns, Fire, Callback,
           CheckBeforeLoad, Load, CheckBeforeApply, Apply, StoreDomain, Signal,
           Cancel, NoticeCancel, Exit, watchVars
<1>2. IInv /\ [Next]_vars =>
          [/\ ~overlapped => NeverGoesBack
           /\ current # None => current' # None]_vars
  BY <1>1 DEF NeverGoesBack
<1>3. QED BY <1>2, InitIInv, IInvStep, PTL DEF Spec, CurrentAdvancesInTurn

-----------------------------------------------------------------------------
(* ConfigWatcher implements RouteLease.                                    *)

\* Once the process has ended there is nothing that could run.
NothingRuns == boot = "exited" => routes = {} /\ ~armed /\ callbacks = <<>>

\* The look for a config file has three outcomes.
LEMMA CheckConfigGoes ==
    ASSUME TInv, CheckConfig
    PROVE  boot' \in {"checked", "unwatched", "failed"}
<1>1. file.cfg \in Config \cup {Broken, Missing}
  BY DEF TInv, TypeOK, File
<1>2. QED BY <1>1 DEF CheckConfig

\* Nothing starts in a process that has ended.
LEMMA NothingRunsStep ==
    ASSUME TInv, NothingRuns, [Next]_vars
    PROVE  NothingRuns'
<1> USE DEF NothingRuns, filesVars, watchVars, stopVars
<1>1. ASSUME NEW x, Save(x) PROVE NothingRuns'
  BY <1>1 DEF Save
<1>2. CASE OtherClaims
  BY <1>2 DEF OtherClaims
<1>3. CASE OtherReleases
  BY <1>3 DEF OtherReleases, Owned
<1>4. CASE Boot
  <2>1. CheckConfig => boot' \in {"checked", "unwatched", "failed"}
    BY CheckConfigGoes
  <2>2. QED
    BY <1>4, <2>1 DEF Boot, CheckConfig, LoadFirst, AddWatch, InstallFirst, StartRun
<1>5. CASE Receive \/ RunReturns
  BY <1>5 DEF Receive, RunReturns
<1>6. CASE Fire
  BY <1>6 DEF Fire
<1>7. ASSUME NEW k \in DOMAIN callbacks, Callback(k) PROVE NothingRuns'
  <2>1. callbacks # <<>> BY <1>7
  <2>2. boot' = boot
    BY <1>7 DEF Callback, CheckBeforeLoad, Load, StoreCurrent, CheckBeforeApply,
                Apply, StoreDomain
  <2>3. QED BY <2>1, <2>2
<1>8. CASE Signal \/ Cancel \/ NoticeCancel \/ Exit
  BY <1>8 DEF Signal, Cancel, NoticeCancel, Exit
<1>9. CASE UNCHANGED vars
  BY <1>9 DEF vars
<1>10. QED BY <1>1, <1>2, <1>3, <1>4, <1>5, <1>6, <1>7, <1>8, <1>9 DEF Next

\* What an operator of RouteSet says of a table does not depend on who uses it.
LEMMA LeaseOperators ==
    /\ \A R, s : Lease!WithoutSource(R, s) = WithoutSource(R, s)
    /\ \A R, s, keys : Lease!Collides(R, s, keys) <=> Collides(R, s, keys)
    /\ \A R : Lease!HostsDisjoint(R) <=> HostsDisjoint(R)
BY DEF Lease!WithoutSource, WithoutSource, Lease!Collides, Collides,
       Lease!HostsDisjoint, HostsDisjoint

\* A replacement of the config routes is the abstract reload.
LEMMA ReplacementReloads ==
    ASSUME IsTable(routes'), boot # "exited", boot' # "exited", NEW entries,
           routes' = Replaced(routes, ConfigSource, entries)
    PROVE  Lease!Reload
<1>1. WithoutSource(routes', ConfigSource) = WithoutSource(routes, ConfigSource)
  BY DEF Replaced, WithoutSource, NewRoutes, NewRoute
<1>2. HostsDisjoint(routes')
  BY DEF IsTable
<1>3. QED BY <1>1, <1>2, LeaseOperators DEF Lease!Reload

\* Every step of the watcher is a step of RouteLease, or none.
LEMMA LeaseStep ==
    ASSUME TInv, NothingRuns, [Next]_vars
    PROVE  [Lease!Next]_(Lease!leaseVars)
<1> USE DEF filesVars, watchVars, stopVars
<1>1. CASE /\ routes' = routes
           /\ (boot # "exited") <=> (boot' # "exited")
  BY <1>1 DEF Lease!leaseVars
<1>2. CASE OtherClaims
  <2>1. PICK u \in Upstream : /\ AddAccepted(routes, OtherSource, OtherHosts, u)
                              /\ routes' = Added(routes, OtherSource, OtherHosts, u)
    BY <1>2 DEF OtherClaims
  <2> DEFINE r == NewRoute(OtherSource, OtherHosts, u)
  <2>2. r \in routes' BY <2>1, AdditionAdds
  <2>3. r.source = OtherSource /\ r.hosts = normalizeHosts(OtherHosts)
    BY DEF NewRoute
  <2>4. Lease!Grant(r)
    BY <2>1, <2>3, LeaseOperators DEF Lease!Grant, AddAccepted, Added
  <2>5. Lease!Expose
    BY <1>2, <2>2, <2>3, <2>4 DEF OtherClaims, Lease!Expose
  <2>6. QED BY <2>5 DEF Lease!Next
<1>3. CASE OtherReleases
  <2>1. boot # "exited" /\ boot' = boot
    BY <1>3 DEF OtherReleases, NothingRuns, Owned
  <2>2. Lease!Unexpose
    BY <1>3, <2>1, LeaseOperators DEF OtherReleases, Lease!Unexpose
  <2>3. QED BY <2>2 DEF Lease!Next
<1>4. CASE InstallFirst
  <2>1. IsTable(routes') BY <1>4, RoutesKept DEF Next, Boot
  <2>2. Lease!Reload
    BY <1>4, <2>1, ReplacementReloads DEF InstallFirst
  <2>3. QED BY <2>2 DEF Lease!Next
<1>5. ASSUME NEW k \in DOMAIN callbacks, Apply(k), routes' # routes
      PROVE  [Lease!Next]_(Lease!leaseVars)
  <2>1. IsTable(routes') BY <1>5, RoutesKept DEF Next, Callback
  <2>2. boot # "exited" /\ boot' = boot
    BY <1>5 DEF NothingRuns, Apply
  <2>3. Lease!Reload
    BY <1>5, <2>1, <2>2, ReplacementReloads DEF Apply
  <2>4. QED BY <2>3 DEF Lease!Next
<1>6. CASE Exit
  <2>1. Lease!Stop
    BY <1>6 DEF Exit, Lease!Stop
  <2>2. QED BY <2>1 DEF Lease!Next
<1>7. ASSUME NEW k \in DOMAIN callbacks, Callback(k), ~Apply(k)
      PROVE  [Lease!Next]_(Lease!leaseVars)
  BY <1>1, <1>7 DEF Callback, CheckBeforeLoad, Load, StoreCurrent, CheckBeforeApply,
                    StoreDomain
<1>8. ASSUME NEW k \in DOMAIN callbacks, Apply(k), routes' = routes
      PROVE  [Lease!Next]_(Lease!leaseVars)
  BY <1>1, <1>8 DEF Apply
<1>9. CASE CheckConfig \/ LoadFirst \/ AddWatch \/ StartRun
  <2>1. CASE CheckConfig
    <3>1. boot' \in {"checked", "unwatched", "failed"}
      BY <2>1, CheckConfigGoes
    <3>2. QED BY <1>1, <2>1, <3>1 DEF CheckConfig
  <2>2. QED BY <1>1, <1>9, <2>1 DEF LoadFirst, AddWatch, StartRun
<1>10. ASSUME NEW x, Save(x) PROVE [Lease!Next]_(Lease!leaseVars)
  BY <1>1, <1>10 DEF Save
<1>11. CASE Receive \/ RunReturns \/ Fire \/ Signal \/ Cancel \/ NoticeCancel
  BY <1>1, <1>11 DEF Receive, RunReturns, Fire, Signal, Cancel, NoticeCancel
<1>12. CASE UNCHANGED vars
  BY <1>1, <1>12 DEF vars
<1>13. QED
  BY <1>2, <1>3, <1>4, <1>5, <1>6, <1>7, <1>8, <1>9, <1>10, <1>11, <1>12
     DEF Next, Boot

\* Reloads, first, later and overlapping, implement RouteLease: the routes of
\* the file change in one step, and never at the cost of another source.
THEOREM WatcherImplementsRouteLease == Spec => ImplementsRouteLease
<1>1. Init => Lease!Init
  BY DEF Init, Lease!Init
<1>2. Init => NothingRuns
  BY DEF Init, NothingRuns
<1>3. IInv => TInv
  BY DEF IInv
<1>4. TInv /\ NothingRuns /\ [Next]_vars => NothingRuns'
  BY NothingRunsStep
<1>5. TInv /\ NothingRuns /\ [Next]_vars => [Lease!Next]_(Lease!leaseVars)
  BY LeaseStep
<1>6. QED BY <1>1, <1>2, <1>3, <1>4, <1>5, InitIInv, IInvStep, PTL
          DEF Spec, ImplementsRouteLease, Lease!Spec

=============================================================================
