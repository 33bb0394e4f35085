------------------------------ MODULE Persist ------------------------------
(***************************************************************************)
(* The config file as several programs write it: `hostmux expose           *)
(* --persist` (expose.go, persist.go), which first registers the route     *)
(* with the daemon and then appends it to the file, `hostmux init`         *)
(* (initcfg.go), and editors; and the daemon that reads it at its start,   *)
(* possibly long before it takes over from another one, and after each     *)
(* change (serve.go, with a callback of ConfigWatcher taken as one step).  *)
(*                                                                         *)
(* `expose --persist` serializes with itself by an exclusive lock on       *)
(* "<path>.lock"; `init` and editors take no lock.                         *)
(*                                                                         *)
(* Hosts are completed with a base domain when they are exposed and again  *)
(* when they are loaded.  Every file here has the same base domain; a name *)
(* is not given both bare and complete in one block.                       *)
(***************************************************************************)
EXTENDS Integers, Sequences

CONSTANTS
    HostName, Upstream, NoUpstream, Canonical, None,    \* as in RouteSet
    Exposer,        \* runs of `hostmux expose`
    Creator,        \* runs of `hostmux init`
    Extra,          \* app blocks that an editor adds
    Name,           \* route names (the first --name)
    NameOf,         \* the name each exposer gives its route
    Block,          \* what each exposer is given: --name and --upstream
    DomainFlag,     \* its --domain, or NoDomain
    Domain, NoDomain,
    FileDomain,     \* the base domain of the config file, "localhost" if unset
    Qualified,      \* hosts with a base domain: what is complete stays as it is
    NoOne,          \* the lock is free
    NoFile,         \* there is no config file
    Garbled,        \* content that does not parse or validate
    MaxEdits,       \* bound on saves by editors
    MaxStarts       \* bound on starts of a daemon

ConfigSource == "config"

INSTANCE RouteSetProofs WITH Source <- Name \cup {ConfigSource}

ASSUME PersistAssumption ==
    /\ Exposer \cap Creator = {}
    /\ NoOne \notin Exposer
    /\ ConfigSource \notin Name
    /\ NameOf \in [Exposer -> Name]
    /\ Block \in [Exposer -> Request] /\ Extra \subseteq Request
    /\ NoFile \notin Seq(Request) /\ Garbled \notin Seq(Request) /\ NoFile # Garbled
    /\ MaxEdits \in Nat /\ MaxStarts \in Nat
    /\ NamesFit

ASSUME DomainAssumption ==
    /\ FileDomain \in Domain /\ NoDomain \notin Domain
    /\ DomainFlag \in [Exposer -> Domain \cup {NoDomain}]
    /\ Qualified \in [Domain -> [HostName -> HostName]]
    /\ \A c, d \in Domain, h \in HostName :
           Qualified[c][Qualified[d][h]] = Qualified[d][h]

VARIABLES
    file,       \* the app blocks in their order, or Garbled, or NoFile
    lock,       \* who holds the lock file
    pc,         \* where each command stands
    app,        \* the block of each exposer, once exposed with its hosts expanded
    seen,       \* what each exposer has read
    boot,       \* where a daemon stands that has started but not taken over
    read,       \* what that daemon has loaded
    queued,     \* the file changed since that daemon watches it
    up,         \* a daemon serves
    watching,   \* and watches the file: only if there was one at its start
    pending,    \* its debounce timer runs
    routes,     \* its table
    edits, starts,
    kept,       \* history: reported persisted, and in what was written since
    readKept,   \* history: what was kept when the starting daemon loaded
    lost        \* history: the serving daemon does not owe the route of e: it
                \* ended or was displaced, and has not been loaded since

fileVars   == <<file, lock, pc, app, seen, edits, kept>>
bootVars   == <<boot, read, queued, starts, readKept>>
daemonVars == <<up, watching, pending, routes, lost>>
vars == <<fileVars, bootVars, daemonVars>>

\* hostnames.Expand.
Expand(hosts, d) ==
    IF d = NoDomain THEN hosts ELSE {Qualified[d][h] : h \in hosts}

\* A block as Load makes it an entry (applyDefaults, normalize).
Loaded(a) == [a EXCEPT !.hosts = Expand(a.hosts, FileDomain)]

Entries(f) == [i \in DOMAIN f |-> Loaded(f[i])]

\* config.Check finds no error, and config.Load accepts.
Valid(f) == f \notin {NoFile, Garbled} /\ WellFormed(Entries(f))

Init ==
    /\ file \in {NoFile, <<>>, Garbled}
    /\ lock = NoOne
    /\ pc = [c \in Exposer \cup Creator |-> "idle"]
    /\ app = Block
    /\ seen = [e \in Exposer |-> NoFile]
    /\ boot = "none" /\ read = NoFile /\ queued = FALSE
    /\ up = FALSE /\ watching = FALSE /\ pending = FALSE
    /\ routes = {}
    /\ edits = 0 /\ starts = 0
    /\ kept = {} /\ readKept = {}
    /\ lost = [e \in Exposer |-> TRUE]

Goto(c, l) == pc' = [pc EXCEPT ![c] = l]

\* Whoever changes the file in place or by a rename causes an event in every
\* daemon that watches it, whether or not it has taken over.
Written(f) ==
    /\ file' = f
    /\ pending' = (pending \/ (up /\ watching))
    /\ queued' = (queued \/ (boot = "ready" /\ read # NoFile))
    /\ UNCHANGED <<boot, read, starts, readKept, up, watching, routes, lost>>

\* The command ends, which frees its lock.
Ends(e, l) ==
    /\ Goto(e, l)
    /\ lock' = IF lock = e THEN NoOne ELSE lock
    /\ seen' = [seen EXCEPT ![e] = NoFile]

-----------------------------------------------------------------------------
(* hostmux expose and unexpose.                                            *)

RouteOf(a, s) == NewRoute(s, a.hosts, a.upstream)

\* The live route of e, as opposed to its entry in the file.
Exposed(e) == RouteOf(app[e], NameOf[e]) \in routes

\* What the daemon tells its clients (serve.go).
currentDomain == IF watching THEN FileDomain ELSE NoDomain

\* Exposing a name again takes the live routes that share a host with the new.
Displaced(e, hosts) ==
    {d \in Exposer \ {e} : /\ NameOf[d] = NameOf[e] /\ Exposed(d)
                           /\ normalizeHosts(app[d].hosts)
                                 \cap normalizeHosts(hosts) # {}}

\* runExpose up to the daemon's answer: its flags may be wrong, no daemon or no
\* base domain be there; and an answer may be lost although the route is there.
Expose(e) ==
    LET domain == IF DomainFlag[e] # NoDomain THEN DomainFlag[e] ELSE currentDomain
        hosts  == Expand(Block[e].hosts, domain)
        target == Block[e].upstream
    IN  /\ pc[e] = "idle"
        /\ \/ /\ up /\ AddAccepted(routes, NameOf[e], hosts, target)
              /\ routes' = Added(routes, NameOf[e], hosts, target)
              /\ app' = [app EXCEPT ![e] = [hosts |-> hosts, upstream |-> target]]
              /\ lost' = [d \in Exposer |-> IF d = e THEN FALSE
                                ELSE lost[d] \/ d \in Displaced(e, hosts)]
              /\ \E l \in {"live", "done", "refused"} : Goto(e, l)
           \/ Goto(e, "refused") /\ UNCHANGED <<routes, app, lost>>
        /\ UNCHANGED <<file, lock, seen, edits, kept, bootVars, up, watching, pending>>

runUnexpose(n) ==
    /\ up
    /\ Owned(routes, n) # {}
    /\ routes' = WithoutSource(routes, n)
    /\ lost' = [e \in Exposer |-> lost[e] \/ (NameOf[e] = n /\ Exposed(e))]
    /\ UNCHANGED <<fileVars, bootVars, up, watching, pending>>

(***************************************************************************)
(* persistExposedRoute: lock, read, append, check a temporary file, rename *)
(* it over the file.                                                       *)
(***************************************************************************)
\* Mutation: read what the file holds before waiting for the lock.
LockConfigWithoutWaiting(e) ==
    /\ pc[e] = "live"
    /\ lock' = e
    /\ Goto(e, "locked")
    /\ UNCHANGED <<file, app, seen, edits, kept, bootVars, daemonVars>>

LockConfig(e) ==
    /\ pc[e] = "live"
    /\ lock = NoOne
    /\ lock' = e
    /\ Goto(e, "locked")
    /\ UNCHANGED <<file, app, seen, edits, kept, bootVars, daemonVars>>

ReadConfig(e) ==
    /\ pc[e] = "locked"
    /\ seen' = [seen EXCEPT ![e] = file]
    /\ Goto(e, "read")
    /\ UNCHANGED <<file, lock, app, edits, kept, bootVars, daemonVars>>

\* No file reads as an empty one; what does not parse still does not.
Appended(e) ==
    CASE seen[e] = NoFile -> <<app[e]>>
      [] seen[e] = Garbled -> Garbled
      [] OTHER -> Append(seen[e], app[e])

\* Mutation: the file that is checked is the old one.
CheckOldFile(e) ==
    /\ pc[e] = "read"
    /\ IF seen[e] # Garbled
       THEN Goto(e, "checked") /\ UNCHANGED <<lock, seen>>
       ELSE Ends(e, "unpersisted")
    /\ UNCHANGED <<file, app, edits, kept, bootVars, daemonVars>>

CheckTemp(e) ==
    /\ pc[e] = "read"
    /\ IF Valid(Appended(e))
       THEN Goto(e, "checked") /\ UNCHANGED <<lock, seen>>
       ELSE Ends(e, "unpersisted")
    /\ UNCHANGED <<file, app, edits, kept, bootVars, daemonVars>>

Rename(e) ==
    /\ pc[e] = "checked"
    /\ Written(Appended(e))
    /\ Ends(e, "done")
    /\ kept' = kept \cup {e}
    /\ UNCHANGED <<app, edits>>

\* Locking, reading, writing or renaming fails, or the command dies and the
\* kernel releases its lock: the file is untouched and the route stays live.
PersistFails(e) ==
    /\ pc[e] \in {"live", "locked", "read", "checked"}
    /\ Ends(e, "unpersisted")
    /\ UNCHANGED <<file, app, edits, kept, bootVars, daemonVars>>

-----------------------------------------------------------------------------
(* hostmux init, and editors.                                              *)

\* The flags, and the test for an existing file, which --force leaves out.
StatConfig(i) ==
    /\ pc[i] = "idle"
    /\ \E valid, force \in BOOLEAN :
         Goto(i, IF valid /\ (file = NoFile \/ force) THEN "stated" ELSE "refused")
    /\ UNCHANGED <<file, lock, app, seen, edits, kept, bootVars, daemonVars>>

\* generateConfigTemplate has no apps.
WriteTemplate(i) ==
    /\ pc[i] = "stated"
    /\ Written(<<>>)
    /\ Goto(i, "done")
    /\ kept' = {}
    /\ UNCHANGED <<lock, app, seen, edits>>

\* An editor adds a block, empties the file, or leaves it unreadable.
Edit ==
    /\ edits < MaxEdits
    /\ edits' = edits + 1
    /\ \/ /\ file \notin {NoFile, Garbled}
          /\ \E x \in Extra : Written(Append(file, x))
          /\ UNCHANGED kept
       \/ \E f \in {<<>>, Garbled} : Written(f) /\ kept' = {}
    /\ UNCHANGED <<lock, pc, app, seen>>

-----------------------------------------------------------------------------
(* The daemon.                                                             *)

\* runForegroundDaemon loads the file long before it has the PID lock, while
\* another daemon may still serve.  A file that does not load ends it; without
\* a file it goes on and never watches.
LoadConfig ==
    /\ boot = "none"
    /\ starts < MaxStarts
    /\ starts' = starts + 1
    /\ file = NoFile \/ Valid(file)
    /\ read' = file
    /\ readKept' = kept
    /\ boot' = IF file = NoFile THEN "ready" ELSE "loaded"
    /\ UNCHANGED <<fileVars, queued, daemonVars>>

\* NewWatcher watches the directory after it has loaded the file.
AddWatch ==
    /\ boot = "loaded"
    /\ boot' = "ready"
    /\ UNCHANGED <<fileVars, read, queued, starts, readKept, daemonVars>>

NotStarting == boot' = "none" /\ read' = NoFile /\ queued' = FALSE /\ readKept' = {}

\* The certificate, the PID lock of a daemon that serves, a port, or a signal
\* ends it.
StartEnds ==
    /\ boot # "none"
    /\ NotStarting
    /\ UNCHANGED <<fileVars, starts, daemonVars>>

\* It has the PID lock, at once or after it has stopped the other daemon
\* (--force), and serves what it loaded; Run finds the events since its watch.
TakeOver ==
    /\ boot = "ready"
    /\ ~up
    /\ up' = TRUE
    /\ watching' = (read # NoFile)
    /\ pending' = queued
    /\ routes' = IF read = NoFile THEN {}
                 ELSE Replaced({}, ConfigSource, Entries(read))
    /\ lost' = [e \in Exposer |-> e \notin readKept]
    /\ NotStarting
    /\ UNCHANGED <<fileVars, starts>>

StopDaemon ==
    /\ up
    /\ up' = FALSE /\ watching' = FALSE /\ pending' = FALSE
    /\ routes' = {}
    /\ UNCHANGED <<fileVars, bootVars, lost>>

\* What the daemon owes once it has loaded the file: what is persisted, and
\* what was exposed to it.
Owes == lost' = [e \in Exposer |-> e \notin kept /\ ~Exposed(e)]

\* Mutation: the routes of the file go before the new ones are looked at.
ReloadClearingFirst ==
    /\ pending
    /\ pending' = FALSE
    /\ LET cleared == WithoutSource(routes, ConfigSource)
       IN  \/ /\ Valid(file) /\ ReplaceAccepted(cleared, ConfigSource, Entries(file))
              /\ routes' = Replaced(cleared, ConfigSource, Entries(file))
              /\ Owes
           \/ /\ ~(Valid(file) /\ ReplaceAccepted(cleared, ConfigSource, Entries(file)))
              /\ routes' = cleared
              /\ UNCHANGED lost
    /\ UNCHANGED <<fileVars, bootVars, up, watching>>

\* The watcher's callback and onReload, which installs a file that loads and
\* takes no host from another source, or does nothing.
Reload ==
    /\ pending
    /\ pending' = FALSE
    /\ \/ /\ Valid(file) /\ ReplaceAccepted(routes, ConfigSource, Entries(file))
          /\ routes' = Replaced(routes, ConfigSource, Entries(file))
          /\ Owes
       \/ /\ ~(Valid(file) /\ ReplaceAccepted(routes, ConfigSource, Entries(file)))
          /\ UNCHANGED <<routes, lost>>
    /\ UNCHANGED <<fileVars, bootVars, up, watching>>

Next ==
    \/ \E e \in Exposer :
         \/ Expose(e) \/ LockConfig(e) \/ ReadConfig(e) \/ CheckTemp(e)
         \/ Rename(e) \/ PersistFails(e)
    \/ \E n \in Name : runUnexpose(n)
    \/ \E i \in Creator : StatConfig(i) \/ WriteTemplate(i)
    \/ Edit
    \/ LoadConfig \/ AddWatch \/ StartEnds \/ TakeOver
    \/ StopDaemon \/ Reload

Spec == Init /\ [][Next]_vars

-----------------------------------------------------------------------------
(***************************************************************************)
(* The file is a sequence of blocks or what an accident left, the lock is  *)
(* with an exposer that works, and the daemon's table holds routes.        *)
(***************************************************************************)
TypeOK ==
    LET Text == Seq(Request) \cup {NoFile, Garbled}
    IN  /\ file \in Text
        /\ lock \in Exposer \cup {NoOne}
        /\ pc \in [Exposer \cup Creator ->
                     {"idle", "refused", "live", "locked", "read", "checked", "done",
                      "unpersisted", "stated"}]
        /\ lock # NoOne => pc[lock] \in {"locked", "read", "checked"}
        /\ app \in [Exposer -> Request]
        /\ seen \in [Exposer -> Text]
        /\ boot \in {"none", "loaded", "ready"}
        /\ read \in Text /\ (read # NoFile => Valid(read))
        /\ queued \in BOOLEAN
        /\ up \in BOOLEAN /\ watching \in BOOLEAN /\ pending \in BOOLEAN
        /\ routes \subseteq Route /\ HostsDisjoint(routes)
        /\ edits \in 0 .. MaxEdits /\ starts \in 0 .. MaxStarts
        /\ kept \subseteq Exposer /\ readKept \subseteq Exposer
        /\ lost \in [Exposer -> BOOLEAN]

Blocks(f) == IF f \in {NoFile, Garbled} THEN {} ELSE {f[i] : i \in DOMAIN f}

AppsOf(es) == {app[e] : e \in es}

\* No append loses another: what `expose --persist` reported as persisted
\* is in the file until an editor or `init` writes a file without it, even
\* if that happens between another append's read and its rename (the lock
\* of persistExposedRoute).
NothingPersistedIsLost == AppsOf(kept) \subseteq Blocks(file)

\* An append installs only contents that validate, whatever it read and
\* whatever happened to the file meanwhile.
BadAppendNeverCorrupts ==
    [][\A e \in Exposer : pc[e] = "checked" /\ pc'[e] = "done" => Valid(file')]_vars

Served(a) ==
    \E r \in routes : /\ normalizeHosts(a.hosts) \subseteq r.hosts
                      /\ r.upstream = a.upstream

\* A route that was reported live and persisted is served from then on, by the
\* daemon it was exposed to and by every daemon that loads the file afterwards,
\* at its start or in a reload, through reloads that are rejected, until it is
\* unexposed, its name exposed again, or the file written without it.  It is
\* served under the hosts it was exposed as, completed with the base domain of
\* the file once it comes from there.  A daemon that had loaded the file before
\* the route was persisted, and took over afterwards, owes it only from the
\* next reload that is accepted.
PersistedStaysServed ==
    up => \A e \in kept : lost[e] \/ Served(app[e]) \/ Served(Loaded(app[e]))

\* The documentation: "... so it is restored on the next daemon start", under
\* the hosts that were exposed and printed (README.md:123-127).
PersistedIsRestored ==
    up => \A e \in kept : lost[e] \/ Served(app[e])

Lease == INSTANCE RouteLease WITH
    Source <- Name \cup {ConfigSource}, Session <- {}, File <- ConfigSource,
    table <- routes, over <- {}

\* The daemon that `expose` and `unexpose` meet here keeps the promises of
\* SockServer's, through stops, starts and reloads.
ImplementsRouteLease == Lease!Spec

\* The documentation: the file is hot-reloaded on save.
SavedFileIsServed ==
    up /\ watching /\ ~pending /\ Valid(file) =>
        Owned(routes, ConfigSource) = NewRoutes(ConfigSource, Entries(file))

=============================================================================
