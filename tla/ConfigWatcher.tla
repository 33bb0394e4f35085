---------------------------- MODULE ConfigWatcher ----------------------------
(***************************************************************************)
(* internal/config's Watcher and the part of serve.go that installs what   *)
(* it loads: the two loads of the start, the directory watch, the          *)
(* debounce timer whose callbacks run on goroutines of their own, the      *)
(* replacement of the routes of the source "config", and the base domain   *)
(* that is stored separately.  Saves of the file, routes of other sources  *)
(* and the daemon's teardown happen at any time.                           *)
(*                                                                         *)
(* Time is left out: a timer fires 200 ms after the last event, so a       *)
(* callback overlaps the next one only if it takes longer than that, which *)
(* nothing prevents (history: overlapped).                                 *)
(***************************************************************************)
EXTENDS Integers, Sequences

CONSTANTS
    HostName, Upstream, NoUpstream, Canonical, None,    \* as in RouteSet
    Config,         \* contents that Load accepts: [entries, domain]
    Broken,         \* content that Load rejects: unparsable or invalid
    Missing,        \* no file
    OtherHosts,     \* hosts that another source may come to own
    MaxSaves        \* bound on saves of the file

ConfigSource == "config"
OtherSource  == "other"

INSTANCE RouteSetProofs WITH Source <- {ConfigSource, OtherSource}

\* What the file can be: a content, and how often it was saved.
File   == [cfg : Config \cup {Broken, Missing}, rev : 0..MaxSaves]
Loaded == [cfg : Config, rev : 0..MaxSaves]

ASSUME ConfigWatcherAssumption ==
    /\ NamesFit
    /\ \A x \in Config : /\ \A i \in DOMAIN x.entries : x.entries[i] \in Request
                         /\ WellFormed(x.entries)
    /\ Broken \notin Config /\ Missing \notin Config
    /\ OtherHosts \subseteq HostName
    /\ MaxSaves \in Nat
    /\ None \notin Loaded

VARIABLES
    routes,     \* the router's table
    file,       \* the config file: its content and how often it was saved
    boot,       \* where the start of the daemon stands
    events,     \* file events that Run has not received
    armed,      \* whether the debounce timer is pending
    callbacks,  \* the debounce callbacks started so far
    current,    \* Watcher.current, as a file
    domain,     \* currentDomain
    outcome,    \* what became of the last reload that ran to its end
    stopping,   \* the daemon has begun to shut down
    ctxDone,    \* the context is cancelled
    watchedFrom,\* history: how often the file was saved before it was watched
    overlapped  \* history: a callback began before the last one had ended

filesVars == <<file, events, watchedFrom>>
watchVars == <<armed, callbacks, overlapped, current, domain, outcome>>
stopVars  == <<stopping, ctxDone>>
vars == <<routes, filesVars, boot, watchVars, stopVars>>

Boots == {"start", "checked", "loaded", "watching", "installed", "running",
          "unwatched", "failed", "exited"}

Steps == {"fired", "loading", "storing", "checking", "applying", "naming", "done"}

TypeOK ==
    /\ routes \subseteq Route
    /\ file \in File
    /\ boot \in Boots
    /\ events \in 0..MaxSaves
    /\ armed \in BOOLEAN
    /\ callbacks \in Seq([pc : Steps, got : Loaded \cup {None}])
    /\ current \in Loaded \cup {None}
    /\ domain \in {x.domain : x \in Config} \cup {None}
    /\ outcome \in {"none", "installed", "rejected", "unreadable"}
    /\ stopping \in BOOLEAN /\ ctxDone \in BOOLEAN
    /\ watchedFrom \in 0..MaxSaves
    /\ overlapped \in BOOLEAN

Init ==
    /\ routes = {}
    /\ file \in [cfg : Config \cup {Broken, Missing}, rev : {0}]
    /\ boot = "start"
    /\ events = 0
    /\ armed = FALSE
    /\ callbacks = <<>>
    /\ current = None
    /\ domain = None
    /\ outcome = "none"
    /\ stopping = FALSE /\ ctxDone = FALSE
    /\ watchedFrom = 0
    /\ overlapped = FALSE

Watching == boot \in {"watching", "installed", "running"}

-----------------------------------------------------------------------------
(* The environment.                                                        *)

\* The file is written, replaced or removed.  A save in two writes is two
\* saves, the first of Broken content.
Save(x) ==
    /\ file.rev < MaxSaves
    /\ file' = [cfg |-> x, rev |-> file.rev + 1]
    /\ events' = IF Watching THEN events + 1 ELSE events
    /\ UNCHANGED <<routes, boot, watchedFrom, watchVars, stopVars>>

\* A route of another source comes and goes (AddEntry, RemoveBySource).
OtherClaims ==
    /\ boot \in {"installed", "running"}
    /\ \E u \in Upstream :
           /\ AddAccepted(routes, OtherSource, OtherHosts, u)
           /\ routes' = Added(routes, OtherSource, OtherHosts, u)
    /\ UNCHANGED <<filesVars, boot, watchVars, stopVars>>

OtherReleases ==
    /\ Owned(routes, OtherSource) # {}
    /\ routes' = WithoutSource(routes, OtherSource)
    /\ UNCHANGED <<filesVars, boot, watchVars, stopVars>>

-----------------------------------------------------------------------------
(* The start (runForegroundDaemon, NewWatcher).                            *)

\* loadOptionalConfig: without a file the daemon runs and never watches.
CheckConfig ==
    /\ boot = "start"
    /\ boot' = CASE file.cfg \in Config  -> "checked"
                 [] file.cfg = Missing   -> "unwatched"
                 [] file.cfg = Broken    -> "failed"
    /\ UNCHANGED <<routes, filesVars, watchVars, stopVars>>

\* NewWatcher loads first ...
LoadFirst ==
    /\ boot = "checked"
    /\ \/ /\ file.cfg \in Config
          /\ current' = file
          /\ boot' = "loaded"
       \/ /\ file.cfg \notin Config
          /\ boot' = "failed"
          /\ UNCHANGED current
    /\ UNCHANGED <<routes, filesVars, armed, callbacks, overlapped, domain, outcome,
                   stopVars>>

\* ... and watches the directory afterwards: a save in between raises no event.
AddWatch ==
    /\ boot = "loaded"
    /\ boot' = "watching"
    /\ watchedFrom' = file.rev
    /\ UNCHANGED <<routes, file, events, watchVars, stopVars>>

InstallFirst ==
    /\ boot = "watching"
    /\ ReplaceAccepted(routes, ConfigSource, current.cfg.entries)
    /\ routes' = Replaced(routes, ConfigSource, current.cfg.entries)
    /\ domain' = current.cfg.domain
    /\ boot' = "installed"
    /\ UNCHANGED <<filesVars, armed, callbacks, overlapped, current, outcome,
                   stopVars>>

StartRun ==
    /\ boot = "installed"
    /\ boot' = "running"
    /\ UNCHANGED <<routes, filesVars, watchVars, stopVars>>

-----------------------------------------------------------------------------
(* Run, and the timer.                                                     *)

InFlight == {k \in DOMAIN callbacks : callbacks[k].pc # "done"}

\* A mutation: the pending timer is stopped and no other is started.
ReceiveWithoutRearming ==
    /\ boot = "running" /\ ~ctxDone
    /\ events > 0
    /\ events' = events - 1
    /\ armed' = ~armed
    /\ UNCHANGED <<routes, file, watchedFrom, boot, callbacks, overlapped, current,
                   domain, outcome, stopVars>>

\* An event on the file stops the pending timer and starts another.
Receive ==
    /\ boot = "running" /\ ~ctxDone
    /\ events > 0
    /\ events' = events - 1
    /\ armed' = TRUE
    /\ UNCHANGED <<routes, file, watchedFrom, boot, callbacks, overlapped, current,
                   domain, outcome, stopVars>>

\* Run returns when the context is cancelled and stops the pending timer;
\* a callback that has started is not waited for.
RunReturns ==
    /\ boot = "running" /\ ctxDone /\ armed
    /\ armed' = FALSE
    /\ UNCHANGED <<routes, filesVars, boot, callbacks, overlapped, current, domain,
                   outcome, stopVars>>

\* The callback runs on a goroutine of its own, whatever the last one does.
Fire ==
    /\ armed
    /\ overlapped' = (overlapped \/ InFlight # {})
    /\ armed' = FALSE
    /\ callbacks' = Append(callbacks, [pc |-> "fired", got |-> None])
    /\ UNCHANGED <<routes, filesVars, boot, current, domain, outcome, stopVars>>

-----------------------------------------------------------------------------
(* One callback.                                                           *)

At(k, where) == callbacks[k].pc = where

Step(k, where) == callbacks' = [callbacks EXCEPT ![k].pc = where]

\* The first look at the context.
CheckBeforeLoad(k) ==
    /\ At(k, "fired")
    /\ Step(k, IF ctxDone THEN "done" ELSE "loading")
    /\ UNCHANGED <<routes, filesVars, boot, armed, overlapped, current, domain,
                   outcome, stopVars>>

\* Mutations of Load: a file is handed on unvalidated; what Load returns is
\* stored before its error is looked at.
LoadUnvalidated(k) ==
    /\ At(k, "loading")
    /\ callbacks' = [callbacks EXCEPT ![k] = [pc |-> "storing", got |-> file]]
    /\ UNCHANGED <<routes, filesVars, boot, armed, overlapped, current, domain,
                   outcome, stopVars>>

LoadStoringFirst(k) ==
    /\ At(k, "loading")
    /\ \/ /\ file.cfg \in Config
          /\ callbacks' = [callbacks EXCEPT ![k] = [pc |-> "storing", got |-> file]]
          /\ UNCHANGED <<current, outcome>>
       \/ /\ file.cfg \notin Config
          /\ Step(k, "done")
          /\ current' = None
          /\ outcome' = "unreadable"
    /\ UNCHANGED <<routes, filesVars, boot, armed, overlapped, domain, stopVars>>

\* Load: a file that is broken or gone is reported, and nothing changes.
Load(k) ==
    /\ At(k, "loading")
    /\ \/ /\ file.cfg \in Config
          /\ callbacks' = [callbacks EXCEPT ![k] = [pc |-> "storing", got |-> file]]
          /\ UNCHANGED outcome
       \/ /\ file.cfg \notin Config
          /\ Step(k, "done")
          /\ outcome' = "unreadable"
    /\ UNCHANGED <<routes, filesVars, boot, armed, overlapped, current, domain,
                   stopVars>>

StoreCurrent(k) ==
    /\ At(k, "storing")
    /\ current' = callbacks[k].got
    /\ Step(k, "checking")
    /\ UNCHANGED <<routes, filesVars, boot, armed, overlapped, domain, outcome,
                   stopVars>>

\* The second look at the context.
CheckBeforeApply(k) ==
    /\ At(k, "checking")
    /\ Step(k, IF ctxDone THEN "done" ELSE "applying")
    /\ UNCHANGED <<routes, filesVars, boot, armed, overlapped, current, domain,
                   outcome, stopVars>>

\* Mutations of onReload: the new entries are added to the old ones; the
\* domain is stored although the routes were rejected.
ApplyOnTop(k) ==
    LET entries == callbacks[k].got.cfg.entries
    IN  /\ At(k, "applying")
        /\ routes' = routes \cup NewRoutes(ConfigSource, entries)
        /\ Step(k, "naming")
        /\ UNCHANGED <<filesVars, boot, armed, overlapped, current, domain,
                       outcome, stopVars>>

ApplyIgnoringRejection(k) ==
    LET entries == callbacks[k].got.cfg.entries
    IN  /\ At(k, "applying")
        /\ routes' = IF ReplaceAccepted(routes, ConfigSource, entries)
                     THEN Replaced(routes, ConfigSource, entries) ELSE routes
        /\ Step(k, "naming")
        /\ UNCHANGED <<filesVars, boot, armed, overlapped, current, domain,
                       outcome, stopVars>>

\* onReload: ReplaceSource, which rejects entries whose hosts another source
\* owns; nothing tries again.
Apply(k) ==
    LET entries == callbacks[k].got.cfg.entries
    IN  /\ At(k, "applying")
        /\ \/ /\ ReplaceAccepted(routes, ConfigSource, entries)
              /\ routes' = Replaced(routes, ConfigSource, entries)
              /\ Step(k, "naming")
              /\ UNCHANGED outcome
           \/ /\ ~ReplaceAccepted(routes, ConfigSource, entries)
              /\ Step(k, "done")
              /\ outcome' = "rejected"
              /\ UNCHANGED routes
        /\ UNCHANGED <<filesVars, boot, armed, overlapped, current, domain,
                       stopVars>>

StoreDomain(k) ==
    /\ At(k, "naming")
    /\ domain' = callbacks[k].got.cfg.domain
    /\ outcome' = "installed"
    /\ Step(k, "done")
    /\ UNCHANGED <<routes, filesVars, boot, armed, overlapped, current, stopVars>>

Callback(k) ==
    \/ CheckBeforeLoad(k)
    \/ Load(k)
    \/ StoreCurrent(k)
    \/ CheckBeforeApply(k)
    \/ Apply(k)
    \/ StoreDomain(k)

-----------------------------------------------------------------------------
(* Teardown.  A signal starts it without cancelling the context, which is  *)
(* cancelled only when the function returns; a shutdown request and the    *)
(* failure of an HTTP server cancel the context first.                     *)

Signal ==
    /\ boot = "running" /\ ~stopping
    /\ stopping' = TRUE
    /\ UNCHANGED <<routes, filesVars, boot, watchVars, ctxDone>>

Cancel ==
    /\ boot = "running" /\ ~ctxDone
    /\ ctxDone' = TRUE
    /\ UNCHANGED <<routes, filesVars, boot, watchVars, stopping>>

NoticeCancel ==
    /\ boot = "running" /\ ctxDone /\ ~stopping
    /\ stopping' = TRUE
    /\ UNCHANGED <<routes, filesVars, boot, watchVars, ctxDone>>

\* runForegroundDaemon returns: the process and its table are gone.
Exit ==
    /\ boot = "running" /\ stopping
    /\ boot' = "exited"
    /\ ctxDone' = TRUE
    /\ routes' = {}
    /\ armed' = FALSE
    /\ callbacks' = <<>>
    /\ events' = 0
    /\ UNCHANGED <<file, watchedFrom, overlapped, current, domain, outcome,
                   stopping>>

-----------------------------------------------------------------------------

Boot == CheckConfig \/ LoadFirst \/ AddWatch \/ InstallFirst \/ StartRun

Next ==
    \/ \E x \in Config \cup {Broken, Missing} : Save(x)
    \/ OtherClaims
    \/ OtherReleases
    \/ Boot
    \/ Receive
    \/ RunReturns
    \/ Fire
    \/ \E k \in DOMAIN callbacks : Callback(k)
    \/ Signal
    \/ Cancel
    \/ NoticeCancel
    \/ Exit

Spec == Init /\ [][Next]_vars

\* The daemon's goroutines run and its timer fires.  Nothing is assumed of
\* saves, other routes or the end of the daemon.
FairSpec ==
    /\ Spec
    /\ WF_vars(Boot)
    /\ WF_vars(Receive)
    /\ WF_vars(Fire)
    /\ \A k \in 1..MaxSaves : WF_vars(k \in DOMAIN callbacks /\ Callback(k))

-----------------------------------------------------------------------------
(* Properties.                                                             *)

RoutesOf(x) == NewRoutes(ConfigSource, x.entries)

\* The config routes are those of one version of the file, or none: never a
\* mixture of two, and never anything of a broken file.
RoutesOfOneConfig ==
    \/ Owned(routes, ConfigSource) = {}
    \/ \E x \in Config : Owned(routes, ConfigSource) = RoutesOf(x)

Lease == INSTANCE RouteLease WITH
    Source <- {ConfigSource, OtherSource}, Session <- {}, Name <- {OtherSource},
    File <- ConfigSource, up <- boot # "exited", table <- routes, over <- {}

\* Reloads, overlapping or not, keep the promises of SockServer's daemon: no
\* other source loses a route to the file.
ImplementsRouteLease == Lease!Spec

\* Between reloads, the base domain that clients are told and the config
\* routes come from the same version of the file, even after a reload was
\* rejected (the early return of onReload in serve.go), as long as no callback
\* began before the last one had ended.
DomainFitsRoutes ==
    (boot \in {"installed", "running"} /\ InFlight = {}) =>
        \/ overlapped
        \/ \E x \in Config : /\ Owned(routes, ConfigSource) = RoutesOf(x)
                             /\ domain = x.domain

\* "Current returns the most recently loaded Config" (config.go:464): once
\* there is one, it is never lost to a file that cannot be loaded, and the
\* version returned never goes back.
NeverGoesBack == current # None => current' # None /\ current'.rev >= current.rev

CurrentNeverGoesBack == [][NeverGoesBack]_vars

\* That much is true as long as no callback begins before the last one has
\* ended; and whatever overlaps, current is never lost.
CurrentAdvancesInTurn ==
    [][/\ ~overlapped => NeverGoesBack
       /\ current # None => current' # None]_vars

InService == boot = "running" /\ ~stopping /\ ~ctxDone

FileInstalled ==
    /\ current = file
    /\ \/ outcome = "rejected"
       \/ /\ Owned(routes, ConfigSource) = RoutesOf(file.cfg)
          /\ domain = file.cfg.domain

\* The last version saved, if Load accepts it, is eventually loaded by a
\* callback, however saves, the timer and callbacks fall, unless it was saved
\* before the directory was watched; and if no callback ever began before the
\* last one had ended, it is what is then installed, or rejected because
\* another source owned one of its hosts.
WatchedSaveIsLoaded ==
    <>[](InService /\ file.cfg \in Config /\ file.rev > watchedFrom =>
            /\ \E k \in DOMAIN callbacks : At(k, "done") /\ callbacks[k].got = file
            /\ overlapped \/ FileInstalled)

\* The documentation: the file is hot-reloaded on save.
SavedFileIsLoaded ==
    <>[](InService /\ file.cfg \in Config => FileInstalled)

\* "... so a reload cannot fire after the daemon has begun shutting down"
\* (config.go:477-478): the config routes of a daemon that is shutting down
\* do not change until it exits.
NoReloadDuringTeardown ==
    [][stopping /\ boot' # "exited" =>
           Owned(routes', ConfigSource) = Owned(routes, ConfigSource)]_vars

=============================================================================
