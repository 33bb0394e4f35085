------------------------------ MODULE TlsPair ------------------------------
(***************************************************************************)
(* The certificate and the key file of a daemon's HTTPS edge, and the      *)
(* processes that read and write them: daemons (`hostmux start`), `hostmux *)
(* trust` and `untrust`, all of which call EnsurePair, and `hostmux cert   *)
(* renew`, which calls Renew (internal/tlsconfig/tlsconfig.go).            *)
(*                                                                         *)
(* EnsurePair and Renew hold an exclusive lock on "<cert>.lock".  Nothing  *)
(* else does: a daemon reads the two files again when its listeners start  *)
(* serving (ServeTLS, once per listener, cert first, then key).            *)
(*                                                                         *)
(* A process may die between any two file operations.  Getting the lock    *)
(* may fail, and so may any operation under it; os.Stat and the reads of   *)
(* the listeners are taken to succeed.  os.WriteFile truncates the file    *)
(* before it writes.                                                       *)
(***************************************************************************)
EXTENDS Integers

CONSTANTS
    Proc,       \* processes; each runs one command
    NoProc,     \* the lock is free
    Listener,   \* the daemon's TLS listeners (IPv4 and IPv6 loopback)
    MaxPair,    \* bound: how many pairs are ever generated
    MaxAccident \* bound: how many processes die or fail in a file operation

ASSUME TlsPairAssumption == 
    /\ NoProc \notin Proc
    /\ MaxPair \in Nat
    /\ MaxAccident \in Nat

\* What a file holds: nothing, a truncated or half-written content, or one
\* half of the pair of that number.
Missing == 0
Torn == -1
Pair == 1 .. MaxPair
Content == Pair \cup {Missing, Torn}

Command == {"start", "trust", "untrust", "renew"}

VARIABLES
    cert, key,  \* the two files
    made,       \* pairs generated so far
    managed,    \* no tls.cert is configured: the files are hostmux's own
    lock,       \* who holds the pair lock
    pc,         \* where each process stands
    cmd,        \* what each process runs
    forced,     \* its --force
    mine,       \* the pair it generated, or Missing
    read,       \* read[p][l]: what listener l of daemon p read as certificate
    served,     \* served[p][l]: the pair listener l serves, or Missing
    renewed,    \* history: a renewal began after p's EnsurePair returned
    accidents,  \* how many processes died or failed so far
    faulty      \* history: a process died or failed while it held the lock

pairVars == <<cert, key, made, managed, lock, pc, cmd, forced, mine, read,
              served, renewed, accidents, faulty>>

files == <<cert, key>>
fixed == <<managed, cmd, forced>>
daemons == <<read, served>>

\* What was there before: nothing, or a pair.
Init ==
    /\ \E n \in {0, 1} \cap 0 .. MaxPair : cert = n /\ key = n /\ made = n
    /\ managed \in BOOLEAN
    /\ lock = NoProc
    /\ pc = [p \in Proc |-> "idle"]
    /\ cmd \in [Proc -> Command]
    /\ forced = [p \in Proc |-> FALSE]
    /\ mine = [p \in Proc |-> Missing]
    /\ read = [p \in Proc |-> [l \in Listener |-> Missing]]
    /\ served = [p \in Proc |-> [l \in Listener |-> Missing]]
    /\ renewed = [p \in Proc |-> FALSE]
    /\ accidents = 0
    /\ faulty = FALSE

Goto(p, l) == pc' = [pc EXCEPT ![p] = l]

(***************************************************************************)
(* The commands up to the lock.  `cert renew` refuses to overwrite a       *)
(* configured certificate unless it is forced.                             *)
(***************************************************************************)
certManaged == managed

Begin(p) ==
    /\ pc[p] = "idle"
    /\ \E f \in IF cmd[p] = "renew" THEN BOOLEAN ELSE {FALSE} :
         /\ forced' = [forced EXCEPT ![p] = f]
         /\ Goto(p, IF cmd[p] = "renew" /\ ~certManaged /\ ~f
                    THEN "refused" ELSE "lock")
    /\ UNCHANGED <<files, made, managed, cmd, lock, mine, daemons, renewed, accidents,
                   faulty>>

\* Where a process relies on what EnsurePair left behind, or did.
Relying == {"ensured", "loading", "serving", "down", "done", "dead"}

\* A renewal that gets the lock overlaps whoever relies on the files by now.
Overlapped(p) ==
    [q \in Proc |-> renewed[q] \/ (cmd[p] = "renew" /\ pc[q] \in Relying)]

\* Mutation: take "held by another process" for success.
AcquireWithoutWaiting(p) ==
    /\ pc[p] = "lock"
    /\ lock' = p
    /\ Goto(p, IF cmd[p] = "renew" THEN "removeCert" ELSE "inspect")
    /\ renewed' = Overlapped(p)
    /\ UNCHANGED <<files, made, fixed, mine, daemons, accidents, faulty>>

acquirePairLock(p) ==
    /\ pc[p] = "lock"
    /\ lock = NoProc
    /\ lock' = p
    /\ Goto(p, IF cmd[p] = "renew" THEN "removeCert" ELSE "inspect")
    /\ renewed' = Overlapped(p)
    /\ UNCHANGED <<files, made, fixed, mine, daemons, accidents, faulty>>

\* acquirePairLock returns an error: the directory of the lock file cannot
\* be made, or the file not opened or locked (a configured certificate in a
\* directory that is not the user's).
LockError(p) ==
    /\ pc[p] = "lock"
    /\ Goto(p, "lockless")
    /\ UNCHANGED <<files, made, fixed, lock, mine, daemons, renewed, accidents, faulty>>

\* Mutation: the halves are not compared with each other.
LoadsAnyHalves(c, k) == c # Missing /\ k # Missing

\* tls.LoadX509KeyPair succeeds on these contents.
Loads(c, k) == c \in Pair /\ k = c

(***************************************************************************)
(* EnsurePair: a pair that loads is kept, none is generated, and anything  *)
(* else is an error.                                                       *)
(***************************************************************************)
\* Mutation: two files are a pair.
VerdictByExistence ==
    CASE cert = Missing /\ key = Missing -> "generate"
      [] cert # Missing /\ key # Missing -> "release"
      [] OTHER -> "fail"

Verdict ==
    CASE cert = Missing /\ key = Missing -> "generate"
      [] Loads(cert, key) -> "release"
      [] OTHER -> "fail"

Inspect(p) ==
    /\ pc[p] = "inspect"
    /\ Goto(p, Verdict)
    /\ UNCHANGED <<files, made, fixed, lock, mine, daemons, renewed, accidents, faulty>>

(***************************************************************************)
(* Renew removes both files and generates.                                 *)
(***************************************************************************)
RemoveCert(p) ==
    /\ pc[p] = "removeCert"
    /\ cert' = Missing
    /\ Goto(p, "removeKey")
    /\ UNCHANGED <<key, made, fixed, lock, mine, daemons, renewed, accidents, faulty>>

\* Mutation: the lock covers the removal only.
RemoveKeyAndRelease(p) ==
    /\ pc[p] = "removeKey"
    /\ key' = Missing
    /\ lock' = NoProc
    /\ Goto(p, "generate")
    /\ UNCHANGED <<cert, made, fixed, mine, daemons, renewed, accidents, faulty>>

RemoveKey(p) ==
    /\ pc[p] = "removeKey"
    /\ key' = Missing
    /\ Goto(p, "generate")
    /\ UNCHANGED <<cert, made, fixed, lock, mine, daemons, renewed, accidents, faulty>>

(***************************************************************************)
(* generateAndWritePair: a new pair, the certificate, the key, and a look  *)
(* at the result.                                                          *)
(***************************************************************************)
Generate(p) ==
    /\ pc[p] = "generate"
    /\ made < MaxPair
    /\ made' = made + 1
    /\ mine' = [mine EXCEPT ![p] = made + 1]
    /\ Goto(p, "openCert")
    /\ UNCHANGED <<files, fixed, lock, daemons, renewed, accidents, faulty>>

OpenCert(p) ==
    /\ pc[p] = "openCert"
    /\ cert' = Torn
    /\ Goto(p, "writeCert")
    /\ UNCHANGED <<key, made, fixed, lock, mine, daemons, renewed, accidents, faulty>>

WriteCert(p) ==
    /\ pc[p] = "writeCert"
    /\ cert' = mine[p]
    /\ Goto(p, "openKey")
    /\ UNCHANGED <<key, made, fixed, lock, mine, daemons, renewed, accidents, faulty>>

OpenKey(p) ==
    /\ pc[p] = "openKey"
    /\ key' = Torn
    /\ Goto(p, "writeKey")
    /\ UNCHANGED <<cert, made, fixed, lock, mine, daemons, renewed, accidents, faulty>>

WriteKey(p) ==
    /\ pc[p] = "writeKey"
    /\ key' = mine[p]
    /\ Goto(p, "verify")
    /\ UNCHANGED <<cert, made, fixed, lock, mine, daemons, renewed, accidents, faulty>>

Verify(p) ==
    /\ pc[p] = "verify"
    /\ Goto(p, IF Loads(cert, key) THEN "release" ELSE "fail")
    /\ UNCHANGED <<files, made, fixed, lock, mine, daemons, renewed, accidents, faulty>>

\* Reading, removing, making the directory, generating or writing fails.
FileError(p) ==
    /\ pc[p] \in {"inspect", "removeCert", "removeKey", "generate", "openCert",
                  "writeCert", "openKey", "writeKey", "verify"}
    /\ accidents < MaxAccident
    /\ accidents' = accidents + 1
    /\ Goto(p, "fail")
    /\ faulty' = TRUE
    /\ UNCHANGED <<files, made, fixed, lock, mine, daemons, renewed>>

(***************************************************************************)
(* The deferred lock.Close, and what the caller makes of the result.       *)
(***************************************************************************)
\* Mutation: an error returns without the deferred close.
ReleaseOnSuccess(p) ==
    /\ pc[p] \in {"release", "fail"}
    /\ lock' = IF pc[p] = "release" THEN NoProc ELSE lock
    /\ Goto(p, IF pc[p] = "release" THEN "ensured" ELSE "failed")
    /\ UNCHANGED <<files, made, fixed, mine, daemons, renewed, accidents, faulty>>

Release(p) ==
    /\ pc[p] \in {"release", "fail"}
    /\ lock' = NoProc
    /\ Goto(p, IF pc[p] = "release" THEN "ensured" ELSE "failed")
    /\ UNCHANGED <<files, made, fixed, mine, daemons, renewed, accidents, faulty>>

\* A daemon goes on to its listeners; the other commands end.
Proceed(p) ==
    /\ pc[p] = "ensured"
    /\ Goto(p, IF cmd[p] = "start" THEN "loading" ELSE "done")
    /\ UNCHANGED <<files, made, fixed, lock, mine, daemons, renewed, accidents, faulty>>

(***************************************************************************)
(* ServeTLS, on a goroutine per listener: tls.LoadX509KeyPair reads the    *)
(* certificate and then the key.  The first error cancels the daemon.      *)
(***************************************************************************)
ReadCert(p, l) ==
    /\ pc[p] = "loading"
    /\ read[p][l] = Missing
    /\ IF cert = Missing
       THEN Goto(p, "down") /\ UNCHANGED read
       ELSE read' = [read EXCEPT ![p][l] = cert] /\ UNCHANGED pc
    /\ UNCHANGED <<files, made, fixed, lock, mine, served, renewed, accidents, faulty>>

ReadKey(p, l) ==
    /\ pc[p] = "loading"
    /\ read[p][l] # Missing
    /\ served[p][l] = Missing
    /\ IF Loads(read[p][l], key)
       THEN /\ served' = [served EXCEPT ![p][l] = key]
            /\ Goto(p, IF \A m \in Listener \ {l} : served[p][m] # Missing
                       THEN "serving" ELSE "loading")
       ELSE Goto(p, "down") /\ UNCHANGED served
    /\ UNCHANGED <<files, made, fixed, lock, mine, read, renewed, accidents, faulty>>

Ended == {"idle", "refused", "lockless", "failed", "down", "done", "dead"}

\* A process dies; the kernel releases its lock.
Crash(p) ==
    /\ pc[p] \notin Ended
    /\ accidents < MaxAccident
    /\ accidents' = accidents + 1
    /\ Goto(p, "dead")
    /\ lock' = IF lock = p THEN NoProc ELSE lock
    /\ faulty' = (faulty \/ lock = p)
    /\ UNCHANGED <<files, made, fixed, mine, daemons, renewed>>

\* The steps a process takes of its own accord, but for Proceed.  LockError
\* is none of them: a process that waits for the lock may wait for ever.
Working(p) ==
    \/ acquirePairLock(p) \/ Inspect(p)
    \/ RemoveCert(p) \/ RemoveKey(p)
    \/ Generate(p) \/ OpenCert(p) \/ WriteCert(p) \/ OpenKey(p) \/ WriteKey(p)
    \/ Verify(p) \/ FileError(p) \/ Release(p)
    \/ \E l \in Listener : ReadCert(p, l) \/ ReadKey(p, l)

Step(p) == Begin(p) \/ LockError(p) \/ Working(p) \/ Crash(p)

Next == \E p \in Proc : Step(p) \/ Proceed(p)

Spec == Init /\ [][Next]_pairVars

-----------------------------------------------------------------------------
(***************************************************************************)
(* The two files hold contents that exist, only pairs that were generated, *)
(* and the lock is with a process or free.                                 *)
(***************************************************************************)
TypeOK ==
    /\ cert \in 1 .. made \cup {Missing, Torn}
    /\ key \in 1 .. made \cup {Missing, Torn}
    /\ made \in 0 .. MaxPair
    /\ managed \in BOOLEAN
    /\ lock \in Proc \cup {NoProc}
    /\ pc \in [Proc -> {"idle", "refused", "lock", "lockless", "inspect",
                        "removeCert", "removeKey", "generate", "openCert", "writeCert",
                        "openKey", "writeKey", "verify", "release", "fail", "ensured",
                        "failed", "loading", "serving", "down", "done", "dead"}]
    /\ cmd \in [Proc -> Command]
    /\ forced \in [Proc -> BOOLEAN]
    /\ mine \in [Proc -> 0 .. made]
    /\ read \in [Proc -> [Listener -> 1 .. made \cup {Missing, Torn}]]
    /\ served \in [Proc -> [Listener -> 0 .. made]]
    /\ renewed \in [Proc -> BOOLEAN]
    /\ accidents \in 0 .. MaxAccident
    /\ faulty \in BOOLEAN

Whole == cert = key /\ cert # Torn

\* Whoever takes the lock finds no certificate without its key and no half
\* of another pair, unless a process died or failed while it held the lock
\* (EnsurePair and Renew, whatever runs at the same time).
PairIsWhole == lock = NoProc /\ ~faulty => Whole

\* Once they have the lock, EnsurePair and Renew report an error only after
\* such an accident, their own or another's: two processes that start at once
\* never see each other's half-made pair.  (That the lock cannot be had is an
\* error of its own, LockError.)
ErrorsFollowAccidents ==
    \A p \in Proc : pc[p] \in {"fail", "failed"} => faulty

\* A daemon whose start no renewal overlaps serves, on every listener, the
\* one pair that EnsurePair left behind, and does not fail to load it, even
\* if other processes die (the files are read after the lock is released).
StartServesWhatItChecked ==
    \A p \in Proc : cmd[p] = "start" /\ ~renewed[p] =>
        /\ pc[p] # "down"
        /\ pc[p] \in {"ensured", "loading", "serving"} =>
             /\ Loads(cert, key)
             /\ \A l \in Listener : served[p][l] \in {Missing, cert}

\* A pair that loads is replaced only by a renewal, and one that the user
\* configured only by a forced renewal (EnsurePair reuses what is there).
OnlyRenewalsReplace ==
    [][Loads(cert, key) /\ <<cert', key'>> # <<cert, key>> =>
         \E p \in Proc : /\ lock = p /\ cmd[p] = "renew"
                         /\ managed \/ forced[p]]_pairVars

\* The documentation of Renew: a daemon that starts at the same time does
\* not observe a half-written pair.
StartSeesNoHalfPair == \A p \in Proc : pc[p] # "down"

=============================================================================
