# hostmux: a TLA+ verification project

hostmux is a reverse proxy for local development. One daemon per control socket
holds a table of host names and upstreams; `hostmux run` starts a process and
registers its host for as long as the process lives, `hostmux expose` registers
a route that stays, and an optional TOML file adds routes that are reloaded when
the file changes. This directory models the parts of it that are hard to test:
the routing table under competing owners, the control socket's connections, the
configuration watcher and the programs that write its file, the lock that decides
which daemon serves, the certificate that daemons and commands share, the life of
a run, and the way of a name to a link that works. All paths below are relative
to the repository.

## Inventory

Each part: its state, its operations, what is hard about it, what makes it
correct.

| Part | State | Operations | Hard | Correct when |
|---|---|---|---|---|
| Router (`internal/router`) | `byHost`, `bySource` under one lock | `AddEntry`, `RemoveBySource`, `RemoveSource`, `ReplaceSource`, `LookupSource`, `Snapshot` | two indexes kept by hand; refreshes under overlapping host lists | the indexes describe one table; no owner takes another's host; lookups agree with the listing |
| Control socket (`internal/sockserver`, `internal/sockproto`) | connection counter; per connection a goroutine, a deadline, its routes | `Listen`, `Serve`, `serveConn` with seven ops, `Close` | clients that vanish, stall or never speak; a deferred cleanup that must run whatever happened; teardown | connection routes live exactly as long as the connection; exposed routes outlive it; acknowledged means in force |
| Config watcher (`internal/config`) | `current`, a pending timer, callbacks on goroutines of their own | `Load`, `NewWatcher`, `Run`, `Current` | events, timer, overlapping callbacks, teardown | whole versions are installed, the last one wins, none is lost |
| Daemon start and stop (`serve.go`, `internal/daemonctl`, `internal/filelock`) | the PID file and its lock, the socket file, the discovery file | `runForegroundDaemon`, `acquirePIDLock`, `--force`, `Stop` | several starting, stopping and dying processes; probes that take the lock; stale and recycled PIDs | one daemon per socket; `stop` reports what happened; takeover ends with a new daemon |
| Socket discovery (`internal/sockpath`), spawning (`internal/daemon`) | `~/.hostmux/socket` | `Resolve`, `WriteDiscovery`, `RemoveDiscovery`, `LiveDiscovery`, `EnsureRunning` | several daemons share one file; written in two steps | clients find a live daemon |
| Managed certificate (`internal/tlsconfig`, `cert.go`) | certificate and key file, a lock | `EnsurePair`, `Renew` | crashes between two writes; a daemon that loads while another renews | a pair always matches; a start never gets stuck |
| Persisted routes (`persist.go`), `init` (`initcfg.go`), `expose` (`expose.go`) | the config file and its lock | read, append, check, rename | writers that take no lock; the watcher and the live route it collides with | no update lost; what is persisted is restored |
| `run` (`run.go`, `readiness.go`, `internal/childproc`) | connection, child, port, readiness | register, start, wait, forward signals | port reuse, early exit, signals, readiness against timeout | announced once; the route ends with the child |
| Proxy (`internal/proxy`) | none | lookup, forward, record | the route changes after the lookup | a request goes where some table in force during it said |
| Trust store (`internal/trust`, `trust.go`) | the system's store; on Linux an anchor file besides | `Trust`, `Untrust`, `IsTrusted`, `auto_trust` | two steps on Linux; a renewal or another command in between; tools that fail | "trusted" is true of what the daemon serves |
| Host names (`internal/hostnames`, `hosts.go`), URLs (`publicurl.go`, `redirect.go`, `url.go`), config checks (`internal/config`), framework arguments | none | pure functions, one after the other | each treats spelling, ports and literals in its own way | an announced link leads to its route; two readers of one file agree |
| Worktree detection, service units, logs, doctor, share, completion, other commands | files, OS tools | I/O and printing | little that is concurrent | out of scope |

How they interact: the daemon's start loads the file into the router, then binds
listeners, then serves the control socket. Every connection's goroutine, every
debounce callback and every proxied request call the router, whose lock makes
each call one step. Clients find the daemon through `internal/sockpath` and talk
to it in newline-delimited JSON. `Stop` goes through the socket first and through
the PID file after that. Teardown drains HTTP servers first and closes the socket
last.

## Modules

| Module | What it is |
|---|---|
| `RouteSet` | Operators: what each router operation does to a set of routes. Used by every module that calls the router. |
| `RouteSetProofs` | Lemmas about those operators. The modules that call the router instantiate it, and `RouteSet` with it. |
| `RouteTable` | Abstract specification: the table of routes its callers see, with each call's answer. |
| `Router` | The two-index implementation. Refines `RouteTable`. |
| `RouterProofs` | Theorems about `Router`. |
| `RouteLease` | Abstract specification: what the daemon promises to owners of routes. Sessions, names and the file are owners; no sockets, messages or files. |
| `SockServer` | The control socket: clients, connections, exposed routes, reloads, teardown, crash. Calls the router through `RouteSet`. Refines `RouteLease`. |
| `SockServerProofs` | Theorems about `SockServer`. |
| `ConfigWatcher` | The two loads of the start, the watch, the debounce timer, its callbacks, `onReload`, teardown. Calls the router through `RouteSet`. |
| `ConfigWatcherProofs` | Theorems about `ConfigWatcher`. |
| `DaemonLock` | Daemon processes on one socket path, with `stop`, `start`, `start --force` and `run`'s auto-start around them. |
| `DaemonLockProofs` | Theorems about `DaemonLock`. |
| `TlsPair` | Certificate and key file under their lock: `EnsurePair`, `Renew`, the daemon's listeners that read the files. |
| `TrustStore` | `TlsPair` with the trust store: `trust`, `untrust` and `auto_trust` on three platforms. |
| `TrustStoreProofs` | Theorems about both. |
| `Persist` | The config file as `expose --persist`, `init`, editors and daemons use it. Calls the router through `RouteSet`. |
| `PersistProofs` | Theorems about `Persist`. |
| `RunClient` | `hostmux run` with its command, the daemon's table, the ports and the proxy. Calls the router through `RouteSet`. |
| `HostNames` | Functions on host names: validation, normal forms, inference, prefixes, expansion, ports. |
| `ConfigCheck` | `Load` and `Check` of the config file, on `HostNames`. |
| `FrameworkArgs` | The flags injected into a dev server's command line. |
| `PublicUrl` | From config file and flags to URLs, and through redirect and proxy back to the route. Composes the three above. |
| `RunProofs` | Theorems about `RunClient`, and about `PublicUrl` with its three parts. |
| `MCRouter`, `MCSockServer`, `MCConfigWatcher`, `MCDaemonLock`, `MCTrustStore`, `MCPersist`, `MCRunClient`, `MCPublicUrl` | Values of the constants for TLC. |

Definitions that stand for code have the name of the function where there is one
(`AddEntry`, `handleExpose`, `serveConn`, `Load`). `PROJECT.json` lists for each
the lines it models.

### Router

`byHost` and `bySource` are functions over all hosts and sources that hold `None`
where the Go map has no key: `RemoveSource` answers from the presence of the key,
so an empty list and an absent one differ. Entries are immutable, so a pointer is
its value; this is sound because two distinct entries of one table have disjoint
hosts and so differ. A source's list is a set, since `Snapshot` sorts it.
`Canonical` tabulates `normalizeHost` and is any function of hosts to hosts: the
proofs do not need it to be idempotent (it is not: it strips one dot).
A refused call changes nothing, and `reply` records the answer. The empty source
name that `AddEntry` and `ReplaceSource` refuse is no member of `Source`.

### SockServer

`pc[c]` says where `serveConn` stands on connection `c`. Decoding a message and
handling it is one step (the handler's only shared effect is one call of the
router), writing the answer is another, and the deferred cleanup is two: routes
first, then the close. A client may send, hang up or stay silent at any moment;
what it sent before hanging up is still read. `Answer.next` carries what follows
the write: the next message, the end, or the shutdown goroutine. `acked` is the
client's knowledge, a history variable: nothing in the daemon reads it.
A peer of another user is a nondeterministic choice in `Begin`.

### RouteLease

Owners are of three kinds: sessions, whose routes go in the moment they end and who
never come by a route again; names, whose routes go when the name is unexposed or
exposed again over one of their hosts; and the file, whose routes are replaced
together. No step of one owner touches a route of another, but for the end of the
daemon. `SockServer` implements this with `over <- EndedSessions`: a session is the
number of a connection, and it is over once the deferred cleanup has run. `RunClient`,
`Persist` and `ConfigWatcher` each have a daemon of their own, reduced to what they
are about. Each implements `RouteLease` too (a session is then a run that was cleaned up
after), so none of them lets its daemon do what the contract forbids; that it does
everything `SockServer`'s may do is not shown.

### ConfigWatcher

The file is a content with a revision number that grows at each save; contents
are two accepted configurations, one that `Load` rejects, and no file. A callback
runs in six steps, as its code does: look at the context, load, store `current`,
look again, replace the routes, store the domain. Saves fall anywhere, between
`NewWatcher`'s read and its watch too. Time is left out: a callback is started
200 ms after the last event, so two overlap if one takes longer than that, which
the code does not prevent and the model allows at any step. Two history variables
say what the properties may promise: `watchedFrom`, the revision of the file when the
directory came to be watched, and `overlapped`, that a callback began before the last
one had ended. The file is one place: a symlink that is pointed elsewhere is not
modelled.

### DaemonLock

`pc[p]` follows `runForegroundDaemon` in each process: try the lock, truncate and
write the PID file, bind the port, remove and make the socket file, catch signals,
serve, drain, close, return. `Stop` is a second machine (`call`), run by
`hostmux stop` and by a daemon with `--force`; clients (`EnsureRunning`, preceded
by the liveness test of `sockpath`) and `start --force` are a third (`job`). A
probe takes the lock for a moment, as the code does: every other process finds it
held meanwhile. PIDs are reused as soon as their process is gone, also by
processes that are not hostmux; a signal to one of those succeeds or fails. The
kernel's part is modelled from its use: a lock ends with its process, a socket
file outlives a crash, SIGTERM ends a process that does not catch it yet.
`call[a].target`, `job[r].served` and `disturbed` are history variables.
`askSocketShutdown`'s half second may pass with the request carried out or not.
Initially no daemon runs and the PID file is empty or stale.

### TlsPair and TrustStore

A file holds nothing, a torn content (`os.WriteFile` truncates before it writes)
or one half of the pair of a number. Each process runs one command; `pc[p]`
follows `EnsurePair` and `Renew` file operation by file operation, inside a lock
that is waited for, and a daemon's `ServeTLS` after it, once per listener,
certificate first. A process may die at any step, which frees its lock. Getting the
lock may fail (`LockError`: its directory or file cannot be made, opened or locked,
as with a configured certificate in a directory of somebody else), and so may any
reading, removing and writing under it (`FileError`); `os.Stat` and the reads of the
listeners do not fail of themselves. `forced` is `cert renew --force`, `managed` says that no
certificate is configured. `renewed[p]` and `faulty` are history: a renewal got
the lock after `p` had left it; a process died or failed inside it.

`TrustStore` adds what a command does once `EnsurePair` has returned (`step[p]`).
On Linux the certificate is copied to an anchor file and a tool rebuilds the store
from it; on macOS and Windows one tool adds or removes a certificate, on Windows
by the name that all of hostmux's certificates share. `security` and `certutil`
are external and modelled from their arguments. A tool that could do its work may
fail all the same (one accident), one that cannot fails. `meddled[p]` is history:
another process changed the store or the anchor since `p` began.

### Persist

The file is a sequence of app blocks, or nothing, or garbled. A block has hosts and
an upstream. An exposer registers its route with the daemon first and then goes
through `persistExposedRoute`: lock, read, append, check a temporary file, rename;
each step may fail (`PersistFails`). `init` tests for the file and then writes it;
editors append a block, empty the file or garble it. Neither takes the lock.

Hosts pass through `hostnames.Expand` twice: when they are exposed, with `--domain` or
the domain that the daemon reports (none if it has no config file), and when `Load`
makes entries of the blocks, with the file's domain. `Qualified` tabulates the
expansion, and is any function that leaves complete hosts alone. All files have one
base domain, and no block has a host both bare and complete.

A daemon starts in steps: it loads the file (`LoadConfig`), watches it if there was
one (`AddWatch`), and takes over when no other daemon serves (`TakeOver`), or ends
before that (`StartEnds`). Between these everybody else goes on, the daemon that still
serves included. `LoadConfig` is the second of the two loads of `serve.go:74-79`, the
one whose content is installed; a file that changes between them is a start that
ends, or a load of the changed file. The watcher's callback is one step here
(`ConfigWatcher` has its steps).

`kept`, `readKept` and `lost` are history: who was told that its route is persisted and
is still in what was written since; who was so when the starting daemon loaded; and
whose route the serving daemon does not owe, because the live one is gone by its
own name's doing or with its daemon, or was persisted after the daemon had
loaded, and has not been loaded since. A name displaces its own earlier routes by
canonical host, however the hosts were spelled.

### RunClient

A run is at two places at once: `pc[r]` is `runCommand` and `waitForReady`,
`task[r]` is `childproc.Run`, which with `--wait` has a goroutine of its own. Ports
are picked free and bound later by the command, by the command of another run or
by another program. A request takes its upstream from the table in one step
(`Lookup`) and goes there in a later one. `Interrupt` kills a run wherever
`childproc.Run` does not listen for signals; the command, in a process group of
its own, goes on. `query[q].after` and `broken` are history.

### HostNames, ConfigCheck, FrameworkArgs, PublicUrl

A text is a sequence of words and marks ("api", ".", "-", "_", " ", ":"), so that
splitting, trimming and case are what they are in Go without spelling words out:
`Lower` tabulates lower case of words, `IPv4` and `IPv6` name the texts that
`net.ParseIP` takes. A filter over a text or a list is `Subsequence`, the places kept
in their order. The limits of 63 and 253 characters are left out.
`PublicUrl` is a small state machine around these functions: the daemon starts
with a config file or without, a run registers and announces, a browser follows a
link, directly or through the redirect, and the proxy looks the host up. `Ask` is
the set of what users ask for: any set of config files, names, prefixes, domains and
command lines of the right types.

## Runs

| Run | Question | Bounds, and why they are enough |
|---|---|---|
| `router` | Are the indexes one table, is no host taken over, do lookups agree, is `RouteTable` implemented? | 3 hosts, one with a second spelling; 3 sources; 2 upstreams; reloads of up to 2 entries. Two hosts make overlapping lists, the third lets a dropped entry leave one behind; a third source is a bystander. The proofs cover the rest. |
| `sock_safety` | Do routes live as long as what owns them; is `RouteLease` implemented? | 2 connections, 1 request in flight each, 1 exposed name, 2 good hosts and 1 bad. Every pair of owners (connection, other connection, name, file) can compete for one host. The messages of `sock_live` are left to it. The proofs cover the rest. |
| `sock_live` | Are silent and vanished clients cleaned up after; does a shutdown happen? | 2 connections; register, shutdown, garbage. |
| `watcher` | Are whole versions installed whatever overlaps, in order if nothing did, and is a save after the watch began always loaded? | 3 saves at any time after any initial file: good, broken or missing in any order; up to 3 callbacks, each of which may overlap the others; another source takes and frees a host of one version. The proofs cover the rest but for `WatchedSaveIsLoaded`. |
| `daemon_stop` | Does the daemon that answers own its files; does `stop` say "stopped", and a restart "ok", only when that is so? | 2 processes, 2 PIDs, so that a PID is recycled and a process can meet a predecessor in every state; started by hand with or without `--force`; 1 `stop`, 1 forced restart, which with the processes' own takeovers makes up to 3 concurrent `Stop` calls. The proofs cover the rest. |
| `daemon_start` | Is every client that spawns a daemon served? | 2 clients that spawn, 1 process started by hand: two losers and a winner in every order of lock, PID file and socket. |
| `tls` | Is a pair always whole, served as checked, trusted as reported; does every command end? | 3 processes, the fewest for a command, a renewal and a third that meets both; 2 listeners; up to 3 new pairs beside an initial one; 1 accident. The commands and platforms of `Cases`, which between them have every action; the proofs cover the rest. |
| `persist` | Is no append lost, nothing invalid installed, and what is persisted served? | 3 exposers, two of one name over one host that they spell differently, one of them over a bare name too, and a third that exposes the bare name with `--domain`; 1 `init`, 1 save of an editor, 2 starts of a daemon: one to register with, and one that loads while the first serves or after it. (3 starts were checked once and add nothing.) The proofs cover the rest. |
| `client` | Does a link announced as ready work until something breaks it, and is nothing left behind? | 2 runs, one with `--wait`, 2 ports, so that each may meet the other's; 1 request; 1 accident (a signal, a kill, a port taken, the end of the daemon). The proofs cover the rest but for `NothingIsLeftBehind`. |
| `announce` | Do announced links lead home, does `url` say what `run` says, do `Check` and `Load` agree, do injected flags settle? | About 10000 requests: every name with every domain, prefix and port; every field of the config file good, bad and absent; up to two apps of lists that repeat a host in every way; command lines of up to 3 words, and of 6. The proofs cover the rest. |
| `stop_twice`, `persist_restore` | Statements of the documentation that the code does not keep. | The smallest that show it. |

`sock_live` and `watcher` assume weak fairness of the daemon's goroutines and of
its timers (a read deadline passes, the debounce timer fires, `Shutdown` of the
HTTP servers is bounded by 5 s in `serve.go`). `daemon_start` assumes weak
fairness of every started process and of every command that has begun; its
clients time out only when something disturbed the daemons (a stop, a signal, a
crash, a taken port), because 8 s is more than an undisturbed start takes
(`spawn.go:16-20`). `tls` assumes weak fairness of every command that has begun,
which includes that the kernel grants a free lock to a waiting process and that a
tool of the trust store returns (its limit is 30 s); nobody has to begin, exit or
die. `client` assumes it of both goroutines of a run, of the daemon's cleanup and
of a command that was sent SIGINT or SIGTERM; a command that ignores both is not
considered, and nothing makes a command end, become ready or bind its port.
Forwarding a signal and reaping are fair on their own, because Go's `select`
chooses at random among what is ready. Nothing is assumed of clients,
saves, signals or reloads. Deadlock checking is off where connections and commands
are used once or the daemon exits.

Two bounds are guards of `DaemonLock`: a process is started at most once, and
`Run` leaves enough processes for the commands that are yet to spawn theirs.

In `router`, `sock_safety` and `daemon_stop` interchangeable values are declared symmetric; the
liveness runs use no symmetry.

## What the runs show

The properties of the passing runs hold; each is broken by at least one plausible
slip in the code (the operators commented as mutations in each module, listed in
`PROJECT.json`). The violation runs show:

* **`persist_restore`**: with no config file the daemon has no base domain, so
  `expose --name api --persist`, the example of `README.md:129-131`, serves, prints and persists
  the bare `api`. The file now exists and its domain defaults to `localhost`: the
  next daemon serves `api.localhost` and not `api`. `README.md:124-125` says that the
  route is restored on the next daemon start.
* **`stop_twice`**: the probe that asks whether a daemon runs takes the lock it
  asks about. Two `hostmux stop` at once, with no daemon: one sees the other's
  probe, takes it for a daemon, finds nobody on the socket and no PID, and fails.
  `daemonctl.go:112-113` says that no daemon running is no error.

The passing runs also say where the code is careful: an
error of `EnsurePair` under the lock is always the trace of an accident; a daemon serves the pair
it has checked unless a renewal overlaps its start; no command is left waiting for
the lock; `expose --persist` validates before it installs; `--wait` does not
announce a port that answers with an error, or nobody.

### Known divergences that no run shows

These were met while modelling. Each is a definition of its module, or a choice in
it, that TLC refutes or shows at once; the runs above leave them out.

* `ExposedHostsPersist` (`SockServer`): exposing one name over `{a, b}` and again
  over `{a}` drops `b`. `README.md:123` says that exposed routes persist until they
  are unexposed.
* `NoReloadDuringTeardown` (`ConfigWatcher`): a signal starts the teardown without
  cancelling the context that `Run` and its callbacks look at, so a reload can be
  applied while the servers drain, which the comment at `config.go:477` rules out.
* `SavedFileIsLoaded` (`ConfigWatcher`): a save between `NewWatcher`'s read and its
  watch is never loaded, and a start that finds no file never watches for one, both
  against `README.md:357`. `WatchedSaveIsLoaded` is what does hold.
* `CurrentNeverGoesBack` (`ConfigWatcher`): a debounce callback that is delayed past
  the next one stores the older file last, in `Watcher.current`, in the router and in
  the domain, against `config.go:464` ("Current returns the most recently loaded
  Config"). `CurrentAdvancesInTurn`, `DomainFitsRoutes` and `WatchedSaveIsLoaded` speak
  of order only until callbacks overlap (`overlapped`).
* What `expose --persist` writes after a starting daemon has loaded the file is not in
  what that daemon installs when it takes over (`LoadConfig`, `TakeOver`): it loads
  it at the next accepted reload, and never if there was no file when it loaded.
  `PersistedStaysServed` leaves these routes out (`readKept`).
* `SavedFileIsServed` (`Persist`): after `expose --persist` the file names a host
  that the live route of the name owns, so every reload is rejected until that
  route or the daemon goes, also against `README.md:357`.
* `StartSeesNoHalfPair` (`TlsPair`): a daemon whose listeners load the files while
  a renewal is at work finds no certificate, a torn one or one without its key, and
  goes down; `tlsconfig.go:83-85` says that the lock prevents this. The lock is
  free again when the listeners read.
* `AlreadyIsTrusted` (`TrustStore`): on Linux `IsTrusted` compares the anchor file
  only (`trust.go:242-254`). After a copy whose rebuild failed it says "already
  trusted" of a certificate that no store has.
* `init` tests for the file and then writes it (`initcfg.go:88`): what is created in
  between is overwritten without `--force` (`StatConfig`, `WriteTemplate`).
* A signal between the start of the command and `signal.Notify` ends
  `hostmux run` and leaves the command running (`Interrupt`).
* `hostmux url` expands with the config file's domain when the daemon reports none,
  `hostmux run` does not (`UrlMatchesRun` leaves that case out).
* `sockpath.Resolve` may remove a discovery file that a daemon has just written
  (`sockpath.go:36-41`); the file is not modelled.

## Proofs

Every assumption is named, stands in the module whose constants it is about, and is
evaluated by TLC in each run. What the modules that hold a routing table assume in
common is `NamesFit`: the canonical form maps hosts to hosts, and the empty upstream
(or port) is none of the non-empty ones. The rest says that values which stand for
"nothing" are none of the values they stand beside, that bounds are numbers, and
that inputs have their types.

`RouteSetProofs` has the lemmas that all proofs about routing tables rest on: what
the accepted form of each router call adds, removes and keeps of every source's
routes, that it keeps a table a table (no host claimed twice), and that a lookup
finds the one route that claims the host. They hold for any canonical form.

`RouterProofs` proves for all finite or infinite sets of hosts, sources and
upstreams and every bound on reloads, from `RouterAssumption`:

* `TypeCorrect`, `IndexesAlwaysAgree`: by the inductive invariant
  `TypeOK /\ IndexesAgree`. `IndexesAgree` must be as strong as it is: that listed
  entries are indexed is what makes a removal complete, that indexed entries are
  listed is what makes it findable, and that no list is empty is what makes the
  answer of `RemoveSource` true.
* The induction goes through one lemma (`UpdateKeepsAgreement`) about installing a
  set of entries for a source after deleting another; adding, removing and
  replacing are instances of it.
* `HostsAreNeverTaken` and `LookupAlwaysAgrees` follow from that invariant.
* `RouterImplementsRouteTable`: under the mapping `routes <- Snapshot` every step
  of the router is the step of the same name of the table. That the collision test
  on `byHost` equals the one on routes needs the invariant.

`SockServerProofs` proves all the safety properties of `sock_safety` for any number
of connections, names and messages, any length of the inbox and any reloads, from
`SockServerAssumption`:

* `TypeCorrect`, `NoOrphans` and `RegistrationsHold`, by the inductive invariant
  `IInv`. `AckedRegistrationHolds` speaks of what a client knows, and what it is
  about to be told was decided a step before: so `ConnOK` follows a registration from
  the table (`InForce`) through the answer under way (`Told`) to the client. It also
  says that no client of a connection with a read deadline knows of a registration. `Numbered` is
  what keeps the connections apart: a connection owns routes by its number, and two
  with one number would remove each other's.
* `SockServerImplementsRouteLease`: every step is a step of `RouteLease`, or none. An
  abstract session ends at once, with all its routes; here it ends with a number that
  the daemon handed out itself, on a goroutine of its own. So the step needs that no
  other connection has that number (`Numbered`), that nothing of an ended session is
  left over (`NoOrphanRoutes`), and that no handler is at work in a process that has
  ended (`AllOver`).
* `QuietCorrect` (a registered client that says nothing keeps its connection while the daemon lives),
  `OwnHandlerOnly` (a connection's routes change only by its own handler and its own
  cleanup) and `ExposedCorrect` (nothing but an `expose`, an `unexpose` or the end
  of the daemon removes an exposed route) are action properties on top of it.

`ConfigWatcherProofs` proves for any configurations, saves and number of callbacks,
from `ConfigWatcherAssumption`:

* `TypeCorrect` and `OneConfig`, whatever overlaps: the config routes are those of
  one version, because a callback replaces them in one call and from one load.
* `DomainFits` and `CurrentOnlyAdvances`, for every behaviour. What they say of order
  is said until `overlapped`, and the invariant is the implication
  `~overlapped => InTurn`: at most one callback is in flight (`OneInFlight`), what it
  is about to store is no older than what is stored (`NoneNewer`), and when routes and
  domain do not fit, the routes are those of the version whose domain comes next
  (`HalfInstalled`). That current is never lost needs no order (`NeverForgotten`).
* `WatcherImplementsRouteLease`, whatever overlaps: a reload is one abstract step, and
  takes no host from another source.

`DaemonLockProofs` proves for any number of processes, PIDs and commands:

* `TypeCorrect`, which includes that no signal is sent without a PID.
* `InvariantHolds`: the inductive invariant `IInv`. Its parts: a daemon from the
  truncation on, and a probe, holds the lock (`LockHeld`); a lock held by a process
  is a running daemon's or its own probe's (`LockHolder`), without which the target
  of a `Stop` would not be known to run; a daemon that has written its PID finds it
  in the file, and one that listens is where the path leads (`FilesOwned`); the
  target of a `Stop` holds the lock until it is gone (`TargetKnown`); who served
  when a restart began has the old PID until it is gone (`ServedKnown`). TLC checked
  `IInv` in both instances above before it was proved.
* `ServerCorrect`, `StopCorrect` and `RestartCorrect` follow from it. That a PID is
  reused does no harm to the last two: "stopped" rests on the lock alone, and the
  old PID is compared while its process still holds the lock.

`DaemonLockAssumption` says only that processes, `stop` commands and clients are
distinct.

`TrustStoreProofs` proves for any number of processes, listeners, pairs and
accidents, from `TlsPairAssumption` (the bounds are numbers, nobody is `NoProc`):

* `TypeCorrect`, for the files, the lock and the processes.
* `PairCorrect` and `ErrorsCorrect` (whose errors are those of processes that got the
  lock; that it could not be had leaves no trace), by `PairInv`: the lock is with whoever stands
  inside it (`LockHeld`); what the two files hold is known for each place inside
  (`Progress`); without an accident they are whole when the lock is free (`Sound`).
  `PairIsWhole` alone is not inductive, because a writer goes through halves.
* `ServesCorrect`, `TrustCorrect` and `ReplaceCorrect`, by `IInv`, which adds what
  those outside the lock rely on. Its core is `OnlyRemoveCert`: of all steps only a
  renewal's first removal takes a pair that loads away, since every other writer
  has made it unloadable before; and by then `Overlap` has marked everybody who
  relies on the pair. So an unmarked process keeps the pair (`Kept`), and the store
  has it if the process says so (`Achieved`). TLC checked each part before the proof.

`PersistProofs` proves for any number of commands, editors, saves and starts, from
`PersistAssumption` and `DomainAssumption` (an expanded host expands to itself):

* `PersistCorrect`: while an append holds the lock, what it has read contains all
  that is kept (`Basis`). Other appends cannot come between; editors and `init`,
  which can, either add or leave nothing kept.
* `AppendCorrect`: what is installed is what was checked, as `seen` does not change
  between the two.
* `TypeCorrect` and `ServedCorrect`, by two more invariants that use the first. `BInv`
  is about a daemon that has not taken over: what it has loaded validates and holds
  the blocks of everything that was kept then (`BootBasis`), whatever is written,
  kept or lost meanwhile. `DInv` is about the one that serves: a route it owes is in
  the table as it was exposed, or as the entry that the file's block is loaded as
  (`Live`). A takeover keeps this by `BootBasis`, an accepted reload because what is
  kept is in the file (`NothingPersistedIsLost`), a rejected one by changing nothing.
  `Live` holds only if `Displaced` compares canonical hosts, as the router does; the
  run has two spellings of one host for this case.
* `PersistImplementsRouteLease`: the daemon's table changes by abstract steps only,
  through stops and starts (`NoDaemonNoRoutes`: no reload is pending without one).

`RunProofs` proves about `RunClient`, for any number of runs, hosts, ports, requests and
accidents, from `RunClientAssumption`:

* `TypeCorrect`, and `AnnouncedUrlsAnswer` by a chain through all the parties, each
  link for runs that nothing has broken: an acknowledged registration is in the
  daemon's table (`Registered`); the port picked for a run is free or its command's
  (`Undisturbed`); so a readiness check that succeeds has reached that command
  (`Ready`); and a request whose lookup came after the announcement found that port
  (`SentRight`). `InOrder` relates the two goroutines of a run, without which a
  command that ends before the announcement could not be told from one that runs.
  TLC checked each link before the proof.
* `RunsImplementRouteLease`: a run is over when it has ended and was cleaned up after;
  its routes are then gone for good, also where a registration succeeded and its
  answer was lost, and where the daemon ended and another was started.

The four refinements of `RouteLease` were checked by TLC in the instances above; a
run repeats the one of `SockServer`, whose daemon is the real one.

`RunProofs` proves about `PublicUrl`, for any words, addresses, config files, names,
prefixes, domains and command lines of any length, from `HostNamesAssumption` (words
and marks differ, lower case is settled, an IPv6 literal has a colon and no bracket),
`ConfigCheckAssumption` (a listen address has a port that is no mark and not 0),
`FrameworkArgsAssumption` (a form belongs to one flag) and `PublicUrlAssumption`:

* `LinksWork`, by the inductive invariant `UrlInv`. Its core is `Shape`, what a valid
  host looks like: it has no colon, or it is closed in brackets with no bracket inside. Expansion and lower case keep the shape, trimming leaves it alone, and
  each of the ways to take off a port (the proxy's, the redirect's) takes exactly what
  a client appended. So the text the proxy looks up is the text that was registered.
* `CommandsPrintTheSame`: both commands expand the same text, and where the daemon
  has no domain, a bare host stays as it is in both.
* `ReadersAlwaysAgree`: `Load` and `Check` accept the same files. They find a repeated
  host in different ways, one by a set that grows along the list, one by pairs.
* `FlagsSettle`: what is appended is found again, and the framework's name with it.

These are facts about texts and lists of any length, and for every one of them an
induction over the list can be avoided: a set of naturals has a least element (`Least`,
from the library's well-foundedness of `<`), which gives the first and the last place
of a mark and the element of each rank of a `Subsequence`. TLC checked `UrlInv` before
the proof.

Only model-checked: liveness (`ClientsAreServed`, `GoneClientsAreCleanedUp`,
`SilentClientsAreReleased`, `ShutdownIsCarriedOut`, `WatchedSaveIsLoaded`,
`EveryCommandEnds`, `NothingIsLeftBehind`), which the prover does not reach.

## Plan

1. Done: every module of the table above.
2. Done: every safety invariant, action property and refinement that a run checks is
   a theorem.
3. Done: `RouteLease`, implemented by `SockServer` and by the daemons that `RunClient`,
   `Persist` and `ConfigWatcher` have inside.
4. The discovery file with two sockets, should the code come to promise something
   of it.

## Not modelled, and why

* Service units, doctor, share, cloudflare, completion, logs and the access log:
  they format, print, follow files or call the system's tools, and keep no state
  that another part relies on.
* The discovery file (`internal/sockpath`): two daemons on two sockets overwrite and
  remove each other's, and a reader may find none, but nothing in the repository says
  what it should hold then, and every reader falls back to the default socket.
* `net/http` itself, HTTP headers, and the transport's settings; the JSON encoding
  and the size limit of a line; the peer's credentials beyond their outcome; labels
  and process data carried with a route.
* The Windows variants of signals and of `Stop`, which only terminate.
* The detection of a git worktree, which reads git's files; what is made of its name
  is in `HostNames`.
* The syntax of durations and of upstream URLs, and the warnings of `Check`; the
  limits of 63 and 253 characters.
* In `Persist`, `init`'s write is one step: a reader that meets the truncated file
  finds it empty, which an editor's save covers.

`PROJECT.json` lists every component with its status.
