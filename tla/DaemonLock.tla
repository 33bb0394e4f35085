----------------------------- MODULE DaemonLock -----------------------------
(***************************************************************************)
(* One daemon per control socket: the life of `hostmux start --foreground` *)
(* processes that share a socket path, and the commands that start, stop   *)
(* and replace them (serve.go, internal/daemonctl, internal/daemon).       *)
(*                                                                         *)
(* The PID file's lock decides who may serve.  Whoever asks "is a daemon   *)
(* running" takes that lock for a moment, and the PID written in the file  *)
(* is read without it.  Processes die at any time; a PID is reused once    *)
(* its process is gone, also by processes that are not hostmux.            *)
(***************************************************************************)
EXTENDS Integers, FiniteSets

CONSTANTS
    Proc,         \* daemon processes, each started at most once
    PID,          \* process numbers
    Stoppers,     \* `hostmux stop` commands, each run once
    Restarters,   \* `hostmux start --force` commands (not --foreground)
    Clients,      \* `hostmux start` and `hostmux run`: EnsureRunning
    Forces,       \* whether processes started by hand have --force
    None

ASSUME DaemonLockAssumption ==
    /\ None \notin Proc \cup PID \cup Stoppers \cup Clients
    /\ Proc \cap (Stoppers \cup Clients) = {}
    /\ Stoppers \cap Clients = {}
    /\ Restarters \cap Clients = {}
    /\ Forces \subseteq BOOLEAN

VARIABLES
    pc,         \* where runForegroundDaemon stands in each process
    pid,        \* the PID of each process that was started
    force,      \* whether it was started with --force
    asked,      \* its context is cancelled by a shutdown request
    lock,       \* who holds the lock of the PID file
    pidFile,    \* the PID in the file, None when it is empty
    sock,       \* the process whose listener the socket path leads to
    call,       \* the Stop call of each caller
    job,        \* where each client and restarter stands
    disturbed   \* some process was asked to stop, was signalled, or failed

fileVars == <<lock, pidFile, sock>>
procVars == <<pc, pid, force, asked>>
vars == <<procVars, fileVars, call, job, disturbed>>

\* Daemon.Stop is called by `hostmux stop` and by a daemon that takes over.
Callers == Stoppers \cup Proc

Where == {"none", "locking", "stopping", "retrying", "truncating", "writing",
          "binding", "unlinking", "listening", "settling", "serving",
          "draining", "closed", "exited"}

Call == [at     : {"idle", "probing", "asking", "reading", "signalling",
                   "waiting", "released", "returned"},
         hard   : BOOLEAN,                 \* SIGKILL rather than SIGTERM
         read   : PID \cup {None},         \* the PID read
         target : Proc \cup {None},        \* the daemon found running
         result : {"none", "not running", "stopped", "error"}]

Job == [at     : {"idle", "probing", "dialing", "spawning", "polling",
                  "ok", "timeout"},
        old    : PID \cup {None},
        served : Proc \cup {None}]   \* who served when the command began

\* A signal is sent to a PID that was read, never to 0 or to a process group.
SignalsAPID == \A a \in Callers :
    call[a].at = "signalling" => call[a].read # None

TypeOK ==
    /\ pc \in [Proc -> Where]
    /\ pid \in [Proc -> PID \cup {None}]
    /\ force \in [Proc -> BOOLEAN]
    /\ asked \in [Proc -> BOOLEAN]
    /\ lock \in Proc \cup Stoppers \cup Clients \cup {None}
    /\ pidFile \in PID \cup {None}
    /\ sock \in Proc \cup {None}
    /\ call \in [Callers -> Call] /\ SignalsAPID
    /\ job \in [Restarters \cup Clients -> Job]
    /\ disturbed \in BOOLEAN

Init ==
    /\ pc = [p \in Proc |-> "none"]
    /\ pid = [p \in Proc |-> None]
    /\ force = [p \in Proc |-> FALSE]
    /\ asked = [p \in Proc |-> FALSE]
    /\ lock = None
    /\ pidFile \in PID \cup {None}      \* left by an earlier daemon
    /\ sock = None
    /\ call = [a \in Callers |-> [at |-> "idle", hard |-> FALSE, read |-> None,
                                  target |-> None, result |-> "none"]]
    /\ job = [c \in Restarters \cup Clients |->
                 [at |-> "idle", old |-> None, served |-> None]]
    /\ disturbed = FALSE

Alive(p) == pc[p] \notin {"none", "exited"}

\* A dial of the socket path is answered.
Answers(p) == pc[p] \in {"settling", "serving", "draining"}
Dialled    == IF sock # None /\ Answers(sock) THEN sock ELSE None

Goto(p, where) == pc' = [pc EXCEPT ![p] = where]

\* The daemon that holds the lock, if it is not held by a probe.
DaemonHolding == IF lock \in Proc /\ pc[lock] # "stopping" THEN lock ELSE None

FreePID == PID \ {pid[p] : p \in {q \in Proc : Alive(q)}}

\* The process is gone, and the kernel releases its lock.  Its socket file
\* stays.
Die(p) ==
    /\ Goto(p, "exited")
    /\ lock' = IF lock = p THEN None ELSE lock

-----------------------------------------------------------------------------
(* Starting: runForegroundDaemon up to the loop that waits for signals.    *)

Start(p, withForce) ==
    /\ pc[p] = "none"
    /\ \E k \in FreePID : pid' = [pid EXCEPT ![p] = k]
    /\ force' = [force EXCEPT ![p] = withForce]
    /\ Goto(p, "locking")
    /\ UNCHANGED <<asked, fileVars, call>>

\* Bound: processes are kept for the commands that are yet to spawn one.
Run(p) ==
    /\ Cardinality({q \in Proc : pc[q] = "none"}) >
           Cardinality({c \in Restarters \cup Clients :
                           job[c].at \in {"idle", "probing", "dialing", "spawning"}})
    /\ \E withForce \in Forces : Start(p, withForce)
    /\ UNCHANGED <<job, disturbed>>

\* Mutations of acquirePIDLock: the file is opened with O_TRUNC; the loser of
\* the contention removes the socket on its way out.
TryLockTruncating(p) ==
    /\ pc[p] \in {"locking", "retrying"}
    /\ pidFile' = None
    /\ \/ /\ lock = None
          /\ lock' = p
          /\ Goto(p, "truncating")
       \/ /\ lock # None
          /\ Goto(p, IF pc[p] = "locking" /\ force[p] THEN "stopping" ELSE "exited")
          /\ UNCHANGED lock
    /\ UNCHANGED <<pid, force, asked, sock, call, job, disturbed>>

TryLockCleaningUp(p) ==
    /\ pc[p] \in {"locking", "retrying"}
    /\ \/ /\ lock = None
          /\ lock' = p
          /\ Goto(p, "truncating")
          /\ UNCHANGED sock
       \/ /\ lock # None
          /\ Goto(p, IF pc[p] = "locking" /\ force[p] THEN "stopping" ELSE "exited")
          /\ sock' = IF pc'[p] = "exited" THEN None ELSE sock
          /\ UNCHANGED lock
    /\ UNCHANGED <<pid, force, asked, pidFile, call, job, disturbed>>

\* acquirePIDLock: the lock decides; with --force it is tried once more after
\* the other daemon was stopped.
TryLock(p) ==
    /\ pc[p] \in {"locking", "retrying"}
    /\ \/ /\ lock = None
          /\ lock' = p
          /\ Goto(p, "truncating")
       \/ /\ lock # None
          /\ Goto(p, IF pc[p] = "locking" /\ force[p] THEN "stopping" ELSE "exited")
          /\ UNCHANGED lock
    /\ UNCHANGED <<pid, force, asked, pidFile, sock, call, job, disturbed>>

Truncate(p) ==
    /\ pc[p] = "truncating"
    /\ pidFile' = None
    /\ Goto(p, "writing")
    /\ UNCHANGED <<pid, force, asked, lock, sock, call, job, disturbed>>

WritePID(p) ==
    /\ pc[p] = "writing"
    /\ pidFile' = pid[p]
    /\ Goto(p, "binding")
    /\ UNCHANGED <<pid, force, asked, lock, sock, call, job, disturbed>>

\* --force: Stop has returned.
TakeOver(p) ==
    /\ pc[p] = "stopping"
    /\ call[p].at = "returned"
    /\ Goto(p, IF call[p].result = "error" THEN "exited" ELSE "retrying")
    /\ UNCHANGED <<pid, force, asked, fileVars, call, job, disturbed>>

\* The public port is bound, or taken by some other program.
BindPort(p) ==
    /\ pc[p] = "binding"
    /\ \/ /\ Goto(p, "unlinking")
          /\ UNCHANGED <<lock, disturbed>>
       \/ /\ Die(p)
          /\ disturbed' = TRUE
    /\ UNCHANGED <<pid, force, asked, pidFile, sock, call, job>>

\* sockserver.Listen removes the socket file of an earlier daemon ...
Unlink(p) ==
    /\ pc[p] = "unlinking"
    /\ sock' = None
    /\ Goto(p, "listening")
    /\ UNCHANGED <<pid, force, asked, lock, pidFile, call, job, disturbed>>

\* ... and makes its own.  The daemon answers from here on.
Listen(p) ==
    /\ pc[p] = "listening"
    /\ sock' = p
    /\ Goto(p, "settling")
    /\ UNCHANGED <<pid, force, asked, lock, pidFile, call, job, disturbed>>

\* Signals are caught from here on.
CatchSignals(p) ==
    /\ pc[p] = "settling"
    /\ Goto(p, "serving")
    /\ UNCHANGED <<pid, force, asked, fileVars, call, job, disturbed>>

-----------------------------------------------------------------------------
(* Stopping: the teardown of runForegroundDaemon.                          *)

NoticeShutdown(p) ==
    /\ pc[p] = "serving" /\ asked[p]
    /\ Goto(p, "draining")
    /\ UNCHANGED <<pid, force, asked, fileVars, call, job, disturbed>>

\* The listener is closed, which removes the socket file.
CloseSocket(p) ==
    /\ pc[p] = "draining"
    /\ Goto(p, "closed")
    /\ sock' = None
    /\ UNCHANGED <<pid, force, asked, lock, pidFile, call, job, disturbed>>

\* The function returns and with it the lock; the PID file stays.
Return(p) ==
    /\ pc[p] = "closed"
    /\ Die(p)
    /\ UNCHANGED <<pid, force, asked, pidFile, sock, call, job, disturbed>>

\* The process crashes or is killed by somebody else.
Crash(p) ==
    /\ Alive(p)
    /\ Die(p)
    /\ disturbed' = TRUE
    /\ UNCHANGED <<pid, force, asked, pidFile, sock, call, job>>

\* Somebody else sends a SIGTERM, or an HTTP server fails.
Interrupt(p) ==
    /\ pc[p] = "serving"
    /\ Goto(p, "draining")
    /\ disturbed' = TRUE
    /\ UNCHANGED <<pid, force, asked, fileVars, call, job>>

Daemon(p) ==
    \/ TryLock(p)
    \/ Truncate(p)
    \/ WritePID(p)
    \/ TakeOver(p)
    \/ BindPort(p)
    \/ Unlink(p)
    \/ Listen(p)
    \/ CatchSignals(p)
    \/ NoticeShutdown(p)
    \/ CloseSocket(p)
    \/ Return(p)

-----------------------------------------------------------------------------
(* daemonctl.Stop, called by a.                                            *)

At(a, where) == call[a].at = where

Set(a, new) == call' = [call EXCEPT ![a] = new]

\* probeFlock: the lock is tried, and held for a moment when it is free.  A
\* caller that lives holds no other lock.
Free(a) == a \in Proc => Alive(a)

ProbeFree(a, then) ==
    /\ lock = None
    /\ lock' = a
    /\ Set(a, [call[a] EXCEPT !.at = then])

Probe(a) ==
    /\ Free(a)
    /\ At(a, "idle")
    /\ a \in Proc => pc[a] = "stopping"
    /\ \/ ProbeFree(a, "probing")
       \/ /\ lock # None
          /\ Set(a, [call[a] EXCEPT !.at = "asking", !.target = DaemonHolding])
          /\ UNCHANGED lock
    /\ disturbed' = TRUE
    /\ UNCHANGED <<procVars, pidFile, sock, job>>

\* The probe is over.
Unprobe(a) ==
    /\ Free(a)
    /\ At(a, "probing") \/ At(a, "released")
    /\ lock' = None
    /\ Set(a, [call[a] EXCEPT !.at = "returned",
                  !.result = IF At(a, "probing") THEN "not running" ELSE "stopped"])
    /\ UNCHANGED <<procVars, pidFile, sock, job, disturbed>>

\* A mutation: the answer to the shutdown request is taken for its completion.
AskAndReturn(a) ==
    /\ Free(a)
    /\ At(a, "asking")
    /\ \/ /\ Dialled # None
          /\ asked' = [asked EXCEPT ![Dialled] = TRUE]
          /\ \/ Set(a, [call[a] EXCEPT !.at = "returned", !.result = "stopped"])
             \/ Set(a, [call[a] EXCEPT !.at = "reading"])
       \/ /\ Set(a, [call[a] EXCEPT !.at = "reading"])
          /\ UNCHANGED asked
    /\ UNCHANGED <<pc, pid, force, fileVars, job, disturbed>>

\* askSocketShutdown: whoever listens is asked.  The answer may be late, and
\* then the request is carried out all the same; or the dial may fail.
Ask(a) ==
    /\ Free(a)
    /\ At(a, "asking")
    /\ \/ /\ Dialled # None
          /\ asked' = [asked EXCEPT ![Dialled] = TRUE]
          /\ \/ Set(a, [call[a] EXCEPT !.at = "waiting"])
             \/ Set(a, [call[a] EXCEPT !.at = "reading"])
       \/ /\ Set(a, [call[a] EXCEPT !.at = "reading"])
          /\ UNCHANGED asked
    /\ UNCHANGED <<pc, pid, force, fileVars, job, disturbed>>

\* A mutation: an empty file is not noticed.
ReadPIDUnchecked(a) ==
    /\ Free(a)
    /\ At(a, "reading")
    /\ Set(a, [call[a] EXCEPT !.at = "signalling", !.read = pidFile])
    /\ UNCHANGED <<procVars, fileVars, job, disturbed>>

\* killProcess reads the PID ...
ReadPID(a) ==
    /\ Free(a)
    /\ At(a, "reading")
    /\ Set(a, IF pidFile = None
              THEN [call[a] EXCEPT !.at = "returned", !.result = "error"]
              ELSE [call[a] EXCEPT !.at = "signalling", !.read = pidFile])
    /\ UNCHANGED <<procVars, fileVars, job, disturbed>>

\* A signal reaches p.  SIGTERM ends a process that does not catch it, starts
\* the teardown of one that serves, and is ignored by one that drains.
Deliver(a, p) ==
    \/ /\ call[a].hard \/ pc[p] \notin {"serving", "draining", "closed"}
       /\ Die(p)
    \/ /\ ~call[a].hard /\ pc[p] = "serving"
       /\ Goto(p, "draining")
       /\ UNCHANGED lock
    \/ /\ ~call[a].hard /\ pc[p] \in {"draining", "closed"}
       /\ UNCHANGED <<pc, lock>>

\* ... and signals the process that has it by now: a daemon, a process that
\* is none, or nobody, which is an error.
Kill(a) ==
    /\ Free(a)
    /\ At(a, "signalling")
    /\ \/ \E p \in Proc :
             /\ Alive(p) /\ pid[p] = call[a].read
             /\ Deliver(a, p)
             /\ Set(a, [call[a] EXCEPT !.at = "waiting", !.read = None])
       \/ /\ call[a].read \in FreePID
          /\ \/ Set(a, [call[a] EXCEPT !.at = "waiting", !.read = None])
             \/ Set(a, [call[a] EXCEPT !.at = "returned", !.read = None,
                                       !.result = "error"])
          /\ UNCHANGED <<pc, lock>>
    /\ UNCHANGED <<pid, force, asked, pidFile, sock, job, disturbed>>

\* waitForFlockRelease: a probe that finds the lock free ends the wait.
Poll(a) ==
    /\ Free(a)
    /\ At(a, "waiting")
    /\ ProbeFree(a, "released")
    /\ UNCHANGED <<procVars, pidFile, sock, job, disturbed>>

\* It is held for too long: by SIGKILL then, and after that an error.
WaitTimesOut(a) ==
    /\ Free(a)
    /\ At(a, "waiting")
    /\ lock # None
    /\ Set(a, IF call[a].hard
              THEN [call[a] EXCEPT !.at = "returned", !.result = "error"]
              ELSE [call[a] EXCEPT !.at = "reading", !.hard = TRUE])
    /\ UNCHANGED <<procVars, fileVars, job, disturbed>>

Stop(a) ==
    \/ Probe(a)
    \/ Unprobe(a)
    \/ Ask(a)
    \/ ReadPID(a)
    \/ Kill(a)
    \/ Poll(a)
    \/ WaitTimesOut(a)

-----------------------------------------------------------------------------
(* Clients: LiveDiscovery, then EnsureRunning.                             *)

Become(c, where) == job' = [job EXCEPT ![c].at = where]

\* discoveryAlive: a discovery file may lead here; if nobody answers, the
\* lock is tried.
Discover(c) ==
    /\ job[c].at = "idle"
    /\ \/ /\ Dialled = None /\ lock = None
          /\ lock' = c
          /\ Become(c, "probing")
       \/ /\ Become(c, "dialing")
          /\ UNCHANGED lock
    /\ UNCHANGED <<procVars, pidFile, sock, call, disturbed>>

Discovered(c) ==
    /\ job[c].at = "probing"
    /\ lock' = None
    /\ Become(c, "dialing")
    /\ UNCHANGED <<procVars, pidFile, sock, call, disturbed>>

Dial(c) ==
    /\ job[c].at = "dialing"
    /\ Become(c, IF Dialled # None THEN "ok" ELSE "spawning")
    /\ UNCHANGED <<procVars, fileVars, call, disturbed>>

\* Each client spawns once and polls from then on.
Spawn(c) ==
    /\ c \in Clients
    /\ job[c].at = "spawning"
    /\ \E p \in Proc : Start(p, FALSE)
    /\ Become(c, "polling")
    /\ UNCHANGED disturbed

Reach(c) ==
    /\ c \in Clients
    /\ job[c].at = "polling"
    /\ Dialled # None
    /\ Become(c, "ok")
    /\ UNCHANGED <<procVars, fileVars, call, disturbed>>

\* The time the client allows (8 s) is more than an undisturbed start takes.
GiveUp(c) ==
    /\ job[c].at = "polling"
    /\ disturbed
    /\ Become(c, "timeout")
    /\ UNCHANGED <<procVars, fileVars, call, disturbed>>

Client(c) == Discover(c) \/ Discovered(c) \/ Dial(c) \/ Spawn(c) \/ Reach(c)

-----------------------------------------------------------------------------
(* startForcedDetachedDaemon.                                              *)

ReadOldPID(r) ==
    /\ job[r].at = "idle"
    /\ job' = [job EXCEPT ![r] = [at |-> "spawning", old |-> pidFile,
                                  served |-> Dialled]]
    /\ UNCHANGED <<procVars, fileVars, call, disturbed>>

SpawnForced(r) ==
    /\ job[r].at = "spawning"
    /\ \E p \in Proc : Start(p, TRUE)
    /\ Become(r, "polling")
    /\ UNCHANGED disturbed

\* A mutation of waitForReplacementDaemon: the PID is not compared.
SeeAnyDaemon(r) ==
    /\ job[r].at = "polling"
    /\ pidFile # None
    /\ Dialled # None
    /\ Become(r, "ok")
    /\ UNCHANGED <<procVars, fileVars, call, disturbed>>

\* waitForReplacementDaemon: the file names another process than before, and
\* the socket answers.  One step: what the file says of the old daemon, that it
\* is gone, is still true when the socket is dialled.
SeeReplacement(r) ==
    /\ job[r].at = "polling"
    /\ pidFile \notin {None, job[r].old}
    /\ Dialled # None
    /\ Become(r, "ok")
    /\ UNCHANGED <<procVars, fileVars, call, disturbed>>

Restarter(r) == ReadOldPID(r) \/ SpawnForced(r) \/ SeeReplacement(r)

-----------------------------------------------------------------------------

Next ==
    \/ \E p \in Proc : Run(p) \/ Daemon(p) \/ Crash(p) \/ Interrupt(p)
    \/ \E a \in Callers : Stop(a)
    \/ \E c \in Clients : Client(c)
    \/ \E r \in Restarters : Restarter(r)
    \/ \E c \in Clients \cup Restarters : GiveUp(c)

Spec == Init /\ [][Next]_vars

\* Processes that were started go on, and so do clients that have begun.
FairSpec ==
    /\ Spec
    /\ \A p \in Proc : WF_vars(Daemon(p)) /\ WF_vars(Stop(p))
    /\ \A a \in Stoppers : WF_vars(~At(a, "idle") /\ Stop(a))
    /\ \A c \in Clients :
           WF_vars(job[c].at # "idle" /\ Client(c))

-----------------------------------------------------------------------------
(* What the properties rest on: an inductive invariant.                    *)

Bound   == {"settling", "serving", "draining", "closed"}
Written == Bound \cup {"binding", "unlinking", "listening"}
Holding == Written \cup {"truncating", "writing"}

\* The lock is held by the daemon that runs, or by a probe.
LockHeld ==
    /\ \A p \in Proc : pc[p] \in Holding => lock = p
    /\ \A a \in Callers :
          Free(a) /\ call[a].at \in {"probing", "released"} => lock = a
    /\ \A c \in Restarters \cup Clients :
          job[c].at = "probing" => c \in Clients /\ lock = c

\* Only a process in "stopping" is within Stop, and a lock that a process
\* holds is that of a running daemon or of its own probe.
LockHolder ==
    /\ \A p \in Proc : call[p].at \notin {"idle", "returned"}
                           => pc[p] \in {"stopping", "exited"}
    /\ lock \in Proc /\ pc[lock] \notin Holding =>
          pc[lock] = "stopping" /\ call[lock].at \in {"probing", "released"}

FilesOwned ==
    \A p \in Proc : /\ pc[p] \in Written => pidFile = pid[p]
                    /\ Answers(p) => sock = p

\* The daemon found running holds the lock until it is gone.
TargetKnown ==
    \A a \in Callers :
        /\ call[a].result = "stopped" => call[a].at = "returned"
        /\ call[a].target \in Proc =>
              /\ pc[call[a].target] \in Holding \cup {"exited"}
              /\ call[a].at = "released" => pc[call[a].target] = "exited"
              /\ call[a].result = "stopped" => pc[call[a].target] = "exited"

\* The daemon that served is gone, or its PID is the old one.
ServedKnown ==
    \A r \in Restarters :
        job[r].served \in Proc =>
            /\ pc[job[r].served] \in Bound \cup {"exited"}
            /\ pc[job[r].served] # "exited" =>
                  /\ job[r].at # "ok"
                  /\ job[r].old = pid[job[r].served]

IInv == LockHeld /\ LockHolder /\ FilesOwned /\ TargetKnown /\ ServedKnown

-----------------------------------------------------------------------------
(* Properties.                                                             *)

\* A daemon that answers is the one the socket path leads to and the one the
\* PID file names, whoever starts, probes, stops or dies meanwhile: clients
\* reach it, `hostmux stop` signals it, and nobody's teardown unlinks the
\* socket of its successor (the comments at serve.go:134-137 and 419-424).
ServerOwnsFiles ==
    \A p \in Proc : Answers(p) => sock = p /\ pidFile = pid[p]

\* Stop says "stopped" only when the daemon it found running has released
\* everything, however it was asked (daemonctl.go:110-113).
StoppedMeansGone ==
    \A a \in Callers :
        call[a].result = "stopped" /\ call[a].target \in Proc
            => ~Alive(call[a].target)

\* A restart that reports success has replaced the daemon that served when it
\* began (waitForReplacementDaemon).
RestartedMeansReplaced ==
    \A r \in Restarters :
        job[r].at = "ok" /\ job[r].served # None => ~Alive(job[r].served)

\* When several clients find no daemon and each spawn one, every client gets
\* a daemon, unless somebody stops or kills one or a port is taken: the losers
\* of the lock leave the winner alone, and no probe of a client turns the last
\* starter away (EnsureRunning spawns only once).
ClientsAreServed ==
    \A c \in Clients : job[c].at = "polling" ~> job[c].at = "ok" \/ disturbed

\* "Returns nil error both when a daemon was successfully stopped AND when no
\* daemon was running" (daemonctl.go:112-113): an error means that a daemon
\* was running and still is.
ErrorMeansStillRunning ==
    [][\A a \in Stoppers :
           call'[a].result = "error" /\ call[a].result = "none" =>
               \E p \in Proc : Alive(p)]_vars

=============================================================================
