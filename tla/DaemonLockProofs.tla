-------------------------- MODULE DaemonLockProofs --------------------------
(***************************************************************************)
(* Theorems about DaemonLock: the lock of the PID file gives each daemon   *)
(* its files to itself, Stop reports "stopped" only of daemons that are    *)
(* gone, and a restart that succeeds has replaced the daemon it found.     *)
(***************************************************************************)
EXTENDS DaemonLock, TLAPS

LEMMA InitType == Init => TypeOK
<1> SUFFICES ASSUME Init PROVE TypeOK
  OBVIOUS
<1> USE DEF Init
<1>1. pc \in [Proc -> Where] BY DEF Where
<1>2. /\ pid \in [Proc -> PID \cup {None}]
      /\ force \in [Proc -> BOOLEAN]
      /\ asked \in [Proc -> BOOLEAN]
  OBVIOUS
<1>3. call \in [Callers -> Call] BY DEF Call
<1>4. SignalsAPID BY DEF SignalsAPID
<1>5. job \in [Restarters \cup Clients -> Job] BY DEF Job
<1>6. QED BY <1>1, <1>2, <1>3, <1>4, <1>5 DEF TypeOK

\* A call as TypeOK has it.
CallOK(x) == x \in Call /\ (x.at = "signalling" => x.read # None)

LEMMA CallType ==
    ASSUME TypeOK, NEW a \in Callers, NEW new, CallOK(new), Set(a, new)
    PROVE  call' \in [Callers -> Call] /\ SignalsAPID'
BY DEF TypeOK, SignalsAPID, Set, CallOK

\* The calls that the steps of Stop leave behind.
LEMMA CallFields ==
    ASSUME NEW x \in Call
    PROVE  /\ CallOK([x EXCEPT !.at = "probing"])
           /\ CallOK([x EXCEPT !.at = "reading"])
           /\ CallOK([x EXCEPT !.at = "waiting"])
           /\ CallOK([x EXCEPT !.at = "released"])
           /\ \A w \in Proc \cup {None} :
                 CallOK([x EXCEPT !.at = "asking", !.target = w])
           /\ CallOK([x EXCEPT !.at = "returned", !.result = "not running"])
           /\ CallOK([x EXCEPT !.at = "returned", !.result = "stopped"])
           /\ CallOK([x EXCEPT !.at = "returned", !.result = "error"])
           /\ \A k \in PID : CallOK([x EXCEPT !.at = "signalling", !.read = k])
           /\ CallOK([x EXCEPT !.at = "waiting", !.read = None])
           /\ CallOK([x EXCEPT !.at = "returned", !.read = None, !.result = "error"])
           /\ CallOK([x EXCEPT !.at = "reading", !.hard = TRUE])
BY DaemonLockAssumption DEF CallOK, Call

LEMMA StartType ==
    ASSUME TypeOK, NEW p \in Proc, NEW f \in BOOLEAN, Start(p, f)
    PROVE  /\ pc' \in [Proc -> Where]
           /\ pid' \in [Proc -> PID \cup {None}]
           /\ force' \in [Proc -> BOOLEAN]
           /\ UNCHANGED <<asked, fileVars, call>>
BY DEF TypeOK, Start, Goto, Where, FreePID

\* Every step keeps the types of the state.
LEMMA TypeStep == TypeOK /\ [Next]_vars => TypeOK'
<1> SUFFICES ASSUME TypeOK, [Next]_vars PROVE TypeOK'
  OBVIOUS
<1> USE DEF procVars, fileVars, Callers
<1>1. ASSUME NEW p \in Proc, Run(p) PROVE TypeOK'
  BY <1>1, StartType, DaemonLockAssumption DEF Run, TypeOK, SignalsAPID
<1>2. ASSUME NEW p \in Proc, Daemon(p) PROVE TypeOK'
  <2> USE DEF TypeOK, SignalsAPID, Goto, Die, Where
  <2>1. CASE TryLock(p) BY <2>1 DEF TryLock
  <2>2. CASE Truncate(p) BY <2>2 DEF Truncate
  <2>3. CASE WritePID(p) BY <2>3 DEF WritePID
  <2>4. CASE TakeOver(p) BY <2>4 DEF TakeOver
  <2>5. CASE BindPort(p) BY <2>5 DEF BindPort
  <2>6. CASE Unlink(p) BY <2>6 DEF Unlink
  <2>7. CASE Listen(p) BY <2>7 DEF Listen
  <2>8. CASE CatchSignals(p) BY <2>8 DEF CatchSignals
  <2>9. CASE NoticeShutdown(p) BY <2>9 DEF NoticeShutdown
  <2>10. CASE CloseSocket(p) BY <2>10 DEF CloseSocket
  <2>11. CASE Return(p) BY <2>11 DEF Return
  <2>12. QED
    BY <1>2, <2>1, <2>2, <2>3, <2>4, <2>5, <2>6, <2>7, <2>8, <2>9, <2>10, <2>11
       DEF Daemon
<1>3. ASSUME NEW p \in Proc, Crash(p) \/ Interrupt(p) PROVE TypeOK'
  BY <1>3 DEF Crash, Interrupt, Die, Goto, TypeOK, SignalsAPID, Where
<1>4. ASSUME NEW a \in Callers, Stop(a) PROVE TypeOK'
  <2>1. /\ call' \in [Callers -> Call]
        /\ SignalsAPID'
    <3>1. \A new : CallOK(new) /\ Set(a, new)
                       => call' \in [Callers -> Call] /\ SignalsAPID'
      BY CallType
    <3>2. call[a] \in Call BY DEF TypeOK
    <3>3. CASE Probe(a)
      <4>1. DaemonHolding \in Proc \cup {None} BY DEF DaemonHolding
      <4>2. /\ CallOK([call[a] EXCEPT !.at = "probing"])
            /\ CallOK([call[a] EXCEPT !.at = "asking", !.target = DaemonHolding])
        BY <3>2, <4>1, CallFields
      <4>3. \/ Set(a, [call[a] EXCEPT !.at = "probing"])
            \/ Set(a, [call[a] EXCEPT !.at = "asking", !.target = DaemonHolding])
        BY <3>3 DEF Probe, ProbeFree
      <4>4. QED BY <3>1, <4>2, <4>3, Zenon
    <3>4. CASE Unprobe(a)
      BY <3>1, <3>2, <3>4, CallFields DEF Unprobe
    <3>5. CASE Ask(a)
      <4>1. /\ CallOK([call[a] EXCEPT !.at = "waiting"])
            /\ CallOK([call[a] EXCEPT !.at = "reading"])
        BY <3>2, CallFields
      <4>2. QED BY <3>1, <3>5, <4>1, Zenon DEF Ask
    <3>6. CASE ReadPID(a)
      <4>1. CASE pidFile = None
        BY <3>1, <3>2, <3>6, <4>1, CallFields DEF ReadPID
      <4>2. CASE pidFile # None
        <5>1. pidFile \in PID BY <4>2 DEF TypeOK
        <5>2. CallOK([call[a] EXCEPT !.at = "signalling", !.read = pidFile])
          BY <3>2, <5>1, CallFields
        <5>3. QED BY <3>1, <3>6, <4>2, <5>2, Zenon DEF ReadPID
      <4>3. QED BY <4>1, <4>2
    <3>7. CASE Kill(a)
      <4>1. /\ CallOK([call[a] EXCEPT !.at = "waiting", !.read = None])
            /\ CallOK([call[a] EXCEPT !.at = "returned", !.read = None,
                                      !.result = "error"])
        BY <3>2, CallFields
      <4>2. QED BY <3>1, <3>7, <4>1, Zenon DEF Kill
    <3>8. CASE Poll(a)
      <4>1. CallOK([call[a] EXCEPT !.at = "released"])
        BY <3>2, CallFields
      <4>2. QED BY <3>1, <3>8, <4>1, Zenon DEF Poll, ProbeFree
    <3>9. CASE WaitTimesOut(a)
      BY <3>1, <3>2, <3>9, CallFields DEF WaitTimesOut
    <3>10. QED
      BY <1>4, <3>3, <3>4, <3>5, <3>6, <3>7, <3>8, <3>9 DEF Stop
  <2> USE DEF TypeOK, At
  <2>2. CASE Probe(a) BY <2>1, <2>2 DEF Probe, ProbeFree
  <2>3. CASE Unprobe(a) BY <2>1, <2>3 DEF Unprobe
  <2>4. CASE Ask(a) BY <2>1, <2>4, Zenon DEF Ask, Dialled
  <2>5. CASE ReadPID(a) BY <2>1, <2>5 DEF ReadPID
  <2>6. CASE Kill(a) BY <2>1, <2>6 DEF Kill, Deliver, Die, Goto, Where
  <2>7. CASE Poll(a) BY <2>1, <2>7 DEF Poll, ProbeFree
  <2>8. CASE WaitTimesOut(a) BY <2>1, <2>8 DEF WaitTimesOut
  <2>9. QED BY <1>4, <2>2, <2>3, <2>4, <2>5, <2>6, <2>7, <2>8 DEF Stop
<1>5. ASSUME NEW c \in Clients, Client(c) PROVE TypeOK'
  <2> USE DEF Become, Job
  <2>1. CASE Discover(c) BY <2>1 DEF Discover, TypeOK, SignalsAPID
  <2>2. CASE Discovered(c) BY <2>2 DEF Discovered, TypeOK, SignalsAPID
  <2>3. CASE Dial(c) BY <2>3 DEF Dial, TypeOK, SignalsAPID
  <2>4. CASE Spawn(c) BY <2>4, StartType DEF Spawn, TypeOK, SignalsAPID
  <2>5. CASE Reach(c) BY <2>5 DEF Reach, TypeOK, SignalsAPID
  <2>6. QED BY <1>5, <2>1, <2>2, <2>3, <2>4, <2>5 DEF Client
<1>6. ASSUME NEW r \in Restarters, Restarter(r) PROVE TypeOK'
  <2> USE DEF Become, Job
  <2>1. CASE ReadOldPID(r)
    BY <2>1 DEF ReadOldPID, Dialled, TypeOK, SignalsAPID
  <2>2. CASE SpawnForced(r) BY <2>2, StartType DEF SpawnForced, TypeOK,
      SignalsAPID
  <2>3. CASE SeeReplacement(r) BY <2>3 DEF SeeReplacement, TypeOK, SignalsAPID
  <2>4. QED BY <1>6, <2>1, <2>2, <2>3 DEF Restarter
<1>7. ASSUME NEW c \in Clients \cup Restarters, GiveUp(c) PROVE TypeOK'
  BY <1>7 DEF GiveUp, Become, Job, TypeOK, SignalsAPID
<1>8. CASE UNCHANGED vars
  BY <1>8 DEF vars, TypeOK, SignalsAPID
<1>9. QED
  BY <1>1, <1>2, <1>3, <1>4, <1>5, <1>6, <1>7, <1>8 DEF Next

\* The state keeps its types, and no signal is sent without a PID.
THEOREM TypeCorrect == Spec => []TypeOK
<1>1. QED BY InitType, TypeStep, PTL DEF Spec

-----------------------------------------------------------------------------
(* The inductive invariant IInv.                                           *)

LEMMA InitInv == Init => IInv
BY DaemonLockAssumption
   DEF Init, IInv, LockHeld, LockHolder, FilesOwned, TargetKnown, ServedKnown,
       Holding, Written, Bound, Answers, Callers

\* A daemon's own steps.
LEMMA DaemonInv ==
    ASSUME TypeOK, IInv, NEW p \in Proc, Daemon(p) \/ Crash(p) \/ Interrupt(p)
    PROVE  IInv'
<1> USE DaemonLockAssumption DEF IInv, TypeOK, Callers, procVars, fileVars,
    Goto
<1>1. ASSUME TryLock(p) PROVE IInv'
  <2>1. LockHeld'
    BY <1>1 DEF TryLock, LockHeld, Holding, Written, Bound, Free, Alive
  <2>2. LockHolder'
    BY <1>1 DEF TryLock, LockHolder, Holding, Written, Bound
  <2>3. FilesOwned'
    BY <1>1 DEF TryLock, FilesOwned, Answers, Written, Bound
  <2>4. TargetKnown'
    BY <1>1 DEF TryLock, TargetKnown, Holding, Written, Bound
  <2>5. ServedKnown'
    BY <1>1 DEF TryLock, ServedKnown, Bound
  <2>6. QED BY <2>1, <2>2, <2>3, <2>4, <2>5
<1>2. ASSUME Truncate(p) PROVE IInv'
  <2>1. LockHeld'
    BY <1>2 DEF Truncate, LockHeld, Holding, Free, Alive
  <2>2. LockHolder'
    BY <1>2 DEF Truncate, LockHolder, Holding
  <2>3. FilesOwned'
    BY <1>2
       DEF Truncate, FilesOwned, LockHeld, Answers, Holding, Written, Bound
  <2>4. TargetKnown'
    BY <1>2 DEF Truncate, TargetKnown, Holding
  <2>5. ServedKnown'
    BY <1>2 DEF Truncate, ServedKnown, Bound
  <2>6. QED BY <2>1, <2>2, <2>3, <2>4, <2>5
<1>3. ASSUME WritePID(p) PROVE IInv'
  <2>1. LockHeld'
    BY <1>3 DEF WritePID, LockHeld, Holding, Free, Alive
  <2>2. LockHolder'
    BY <1>3 DEF WritePID, LockHolder, Holding, Written
  <2>3. FilesOwned'
    BY <1>3 DEF WritePID, FilesOwned, LockHeld, Answers, Holding
  <2>4. TargetKnown'
    BY <1>3 DEF WritePID, TargetKnown, Holding, Written
  <2>5. ServedKnown'
    BY <1>3 DEF WritePID, ServedKnown, Bound
  <2>6. QED BY <2>1, <2>2, <2>3, <2>4, <2>5
<1>4. ASSUME TakeOver(p) PROVE IInv'
  <2>1. LockHeld'
    BY <1>4 DEF TakeOver, LockHeld, Holding, Written, Bound, Free, Alive
  <2>2. LockHolder'
    BY <1>4 DEF TakeOver, LockHolder, Holding, Written, Bound
  <2>3. FilesOwned'
    BY <1>4 DEF TakeOver, FilesOwned, Answers, Written, Bound
  <2>4. TargetKnown'
    BY <1>4 DEF TakeOver, TargetKnown, Holding, Written, Bound
  <2>5. ServedKnown'
    BY <1>4 DEF TakeOver, ServedKnown, Bound
  <2>6. QED BY <2>1, <2>2, <2>3, <2>4, <2>5
<1>5. ASSUME BindPort(p) PROVE IInv'
  <2>1. LockHeld'
    BY <1>5 DEF BindPort, Die, LockHeld, Holding, Written, Bound, Free, Alive
  <2>2. LockHolder'
    BY <1>5 DEF BindPort, Die, LockHolder, Holding, Written
  <2>3. FilesOwned'
    BY <1>5 DEF BindPort, Die, FilesOwned, Answers, Written
  <2>4. TargetKnown'
    BY <1>5 DEF BindPort, Die, TargetKnown, Holding, Written
  <2>5. ServedKnown'
    BY <1>5
       DEF BindPort, Die, ServedKnown, FilesOwned, Holding, Written, Bound,
           Alive, Answers
  <2>6. QED BY <2>1, <2>2, <2>3, <2>4, <2>5
<1>6. ASSUME Unlink(p) PROVE IInv'
  <2>1. LockHeld'
    BY <1>6 DEF Unlink, LockHeld, Holding, Written, Free, Alive
  <2>2. LockHolder'
    BY <1>6 DEF Unlink, LockHolder, Holding, Written
  <2>3. FilesOwned'
    BY <1>6 DEF Unlink, FilesOwned, LockHeld, Answers, Holding, Written, Bound
  <2>4. TargetKnown'
    BY <1>6 DEF Unlink, TargetKnown, Holding, Written
  <2>5. ServedKnown'
    BY <1>6 DEF Unlink, ServedKnown, Bound
  <2>6. QED BY <2>1, <2>2, <2>3, <2>4, <2>5
<1>7. ASSUME Listen(p) PROVE IInv'
  <2>1. LockHeld'
    BY <1>7 DEF Listen, LockHeld, Holding, Written, Free, Alive
  <2>2. LockHolder'
    BY <1>7 DEF Listen, LockHolder, Holding, Written, Bound
  <2>3. FilesOwned'
    BY <1>7 DEF Listen, FilesOwned, LockHeld, Answers, Holding, Written, Bound
  <2>4. TargetKnown'
    BY <1>7 DEF Listen, TargetKnown, Holding, Written, Bound
  <2>5. ServedKnown'
    BY <1>7 DEF Listen, ServedKnown, Bound
  <2>6. QED BY <2>1, <2>2, <2>3, <2>4, <2>5
<1>8. ASSUME CatchSignals(p) PROVE IInv'
  <2>1. LockHeld'
    BY <1>8 DEF CatchSignals, LockHeld, Holding, Written, Bound, Free, Alive
  <2>2. LockHolder'
    BY <1>8 DEF CatchSignals, LockHolder, Holding, Written, Bound
  <2>3. FilesOwned'
    BY <1>8 DEF CatchSignals, FilesOwned, Answers, Written, Bound
  <2>4. TargetKnown'
    BY <1>8 DEF CatchSignals, TargetKnown, Holding, Written, Bound
  <2>5. ServedKnown'
    BY <1>8 DEF CatchSignals, ServedKnown, Bound
  <2>6. QED BY <2>1, <2>2, <2>3, <2>4, <2>5
<1>9. ASSUME NoticeShutdown(p) PROVE IInv'
  <2>1. LockHeld'
    BY <1>9 DEF NoticeShutdown, LockHeld, Holding, Written, Bound, Free, Alive
  <2>2. LockHolder'
    BY <1>9 DEF NoticeShutdown, LockHolder, Holding, Written, Bound
  <2>3. FilesOwned'
    BY <1>9 DEF NoticeShutdown, FilesOwned, Answers, Written, Bound
  <2>4. TargetKnown'
    BY <1>9 DEF NoticeShutdown, TargetKnown, Holding, Written, Bound
  <2>5. ServedKnown'
    BY <1>9 DEF NoticeShutdown, ServedKnown, Bound
  <2>6. QED BY <2>1, <2>2, <2>3, <2>4, <2>5
<1>10. ASSUME CloseSocket(p) PROVE IInv'
  <2>1. LockHeld'
    BY <1>10 DEF CloseSocket, LockHeld, Holding, Written, Bound, Free, Alive
  <2>2. LockHolder'
    BY <1>10
       DEF CloseSocket, LockHolder, LockHeld, Holding, Written, Bound, Free,
           Alive
  <2>3. FilesOwned'
    BY <1>10
       DEF CloseSocket, FilesOwned, LockHeld, Answers, Holding, Written, Bound,
           Free, Alive
  <2>4. TargetKnown'
    BY <1>10 DEF CloseSocket, TargetKnown, Holding, Written, Bound
  <2>5. ServedKnown'
    BY <1>10 DEF CloseSocket, ServedKnown, Bound
  <2>6. QED BY <2>1, <2>2, <2>3, <2>4, <2>5
<1>11. ASSUME Return(p) PROVE IInv'
  <2>1. LockHeld'
    BY <1>11
       DEF Return, Die, LockHeld, LockHolder, Holding, Written, Bound, Free,
           Alive
  <2>2. LockHolder'
    BY <1>11 DEF Return, Die, LockHolder
  <2>3. FilesOwned'
    BY <1>11 DEF Return, Die, FilesOwned, Answers, Written, Bound
  <2>4. TargetKnown'
    BY <1>11 DEF Return, Die, TargetKnown
  <2>5. ServedKnown'
    BY <1>11 DEF Return, Die, ServedKnown
  <2>6. QED BY <2>1, <2>2, <2>3, <2>4, <2>5
<1>12. ASSUME Crash(p) PROVE IInv'
  <2>1. LockHeld'
    BY <1>12 DEF Crash, Die, LockHeld, Holding, Written, Bound, Free, Alive
  <2>2. LockHolder'
    BY <1>12 DEF Crash, Die, LockHolder
  <2>3. FilesOwned'
    BY <1>12 DEF Crash, Die, FilesOwned, Answers, Written, Bound
  <2>4. TargetKnown'
    BY <1>12 DEF Crash, Die, TargetKnown
  <2>5. ServedKnown'
    BY <1>12 DEF Crash, Die, ServedKnown
  <2>6. QED BY <2>1, <2>2, <2>3, <2>4, <2>5
<1>13. ASSUME Interrupt(p) PROVE IInv'
  <2>1. LockHeld'
    BY <1>13 DEF Interrupt, LockHeld, Holding, Written, Bound, Free, Alive
  <2>2. LockHolder'
    BY <1>13 DEF Interrupt, LockHolder, Holding, Written, Bound
  <2>3. FilesOwned'
    BY <1>13 DEF Interrupt, FilesOwned, Answers, Written, Bound
  <2>4. TargetKnown'
    BY <1>13 DEF Interrupt, TargetKnown, Holding, Written, Bound
  <2>5. ServedKnown'
    BY <1>13 DEF Interrupt, ServedKnown, Bound
  <2>6. QED BY <2>1, <2>2, <2>3, <2>4, <2>5
<1>14. QED
  BY <1>1, <1>2, <1>3, <1>4, <1>5, <1>6, <1>7, <1>8, <1>9, <1>10, <1>11, <1>12, <1>13
     DEF Daemon

\* A step of a Stop call.
LEMMA StopInv ==
    ASSUME TypeOK, IInv, NEW a \in Callers, Stop(a)
    PROVE  IInv'
<1> USE DaemonLockAssumption DEF IInv, TypeOK, Callers, procVars, fileVars, At,
    Set
<1>1. ASSUME Probe(a) PROVE IInv'
  <2>1. CASE ProbeFree(a, "probing")
    <3>1. /\ \A b \in Callers : b # a => call'[b] = call[b]
          /\ call'[a].at = "probing"
          /\ call'[a].target = call[a].target
          /\ call'[a].result = call[a].result
          /\ lock = None /\ lock' = a
      BY <2>1 DEF ProbeFree
    <3>2. a \in Proc => pc[a] = "stopping"
      BY <1>1 DEF Probe
    <3> HIDE DEF Set
    <3>3. LockHeld'
      BY <1>1, <3>1, <3>2 DEF Probe, LockHeld, Free, Alive
    <3>4. LockHolder'
      BY <1>1, <3>1, <3>2 DEF Probe, LockHolder
    <3>5. FilesOwned' BY <1>1 DEF Probe, FilesOwned, Answers
    <3>6. TargetKnown'
      BY <1>1, <3>1 DEF Probe, TargetKnown
    <3>7. ServedKnown' BY <1>1 DEF Probe, ServedKnown
    <3>8. QED BY <3>3, <3>4, <3>5, <3>6, <3>7
  <2>2. CASE /\ lock # None
             /\ Set(a, [call[a] EXCEPT !.at = "asking", !.target = DaemonHolding])
             /\ UNCHANGED lock
    <3>1. /\ \A b \in Callers : b # a => call'[b] = call[b]
          /\ call'[a].at = "asking"
          /\ call'[a].target = DaemonHolding
          /\ call'[a].result = call[a].result
          /\ UNCHANGED lock
      BY <2>2
    <3>2. /\ a \in Proc => pc[a] = "stopping"
          /\ call[a].at = "idle"
      BY <1>1 DEF Probe
    <3>3. DaemonHolding \in Proc => pc[DaemonHolding] \in Holding
      BY DEF DaemonHolding, LockHolder
    <3> HIDE DEF Set
    <3>4. LockHeld'
      BY <1>1, <3>1, <3>2 DEF Probe, LockHeld, Free, Alive
    <3>5. LockHolder'
      BY <1>1, <3>1, <3>2 DEF Probe, LockHolder
    <3>6. FilesOwned' BY <1>1 DEF Probe, FilesOwned, Answers
    <3>7. TargetKnown'
      BY <1>1, <3>1, <3>2, <3>3 DEF Probe, TargetKnown
    <3>8. ServedKnown' BY <1>1 DEF Probe, ServedKnown
    <3>9. QED BY <3>4, <3>5, <3>6, <3>7, <3>8
  <2>3. QED BY <1>1, <2>1, <2>2, Zenon DEF Probe
<1>2. ASSUME Unprobe(a) PROVE IInv'
  <2>1. LockHeld'
    BY <1>2
       DEF Unprobe, LockHeld, LockHolder, Holding, Written, Bound, Free, Alive
  <2>2. LockHolder'
    BY <1>2 DEF Unprobe, LockHolder
  <2>3. FilesOwned'
    BY <1>2 DEF Unprobe, FilesOwned, Answers
  <2>4. TargetKnown'
    BY <1>2 DEF Unprobe, TargetKnown
  <2>5. ServedKnown'
    BY <1>2 DEF Unprobe, ServedKnown
  <2>6. QED BY <2>1, <2>2, <2>3, <2>4, <2>5
<1>3. ASSUME Ask(a) PROVE IInv'
  <2>1. /\ \A b \in Callers : b # a => call'[b] = call[b]
        /\ call'[a].at \in {"waiting", "reading"}
        /\ call'[a].target = call[a].target
        /\ call'[a].result = call[a].result
    <3>1. \/ Set(a, [call[a] EXCEPT !.at = "waiting"])
          \/ Set(a, [call[a] EXCEPT !.at = "reading"])
      BY <1>3, Zenon DEF Ask
    <3>2. call[a].at = "asking" BY <1>3, Zenon DEF Ask
    <3>3. CASE Set(a, [call[a] EXCEPT !.at = "waiting"]) BY <3>2, <3>3
    <3>4. CASE Set(a, [call[a] EXCEPT !.at = "reading"]) BY <3>2, <3>4
    <3> HIDE DEF Set
    <3>5. QED BY <3>1, <3>3, <3>4
  <2>2. /\ Free(a) /\ call[a].at = "asking"
        /\ UNCHANGED <<pc, pid, force, lock, pidFile, sock, job>>
    BY <1>3, Zenon DEF Ask
  <2> HIDE DEF Set
  <2>3. LockHeld' BY <2>1, <2>2 DEF LockHeld, Free, Alive
  <2>4. LockHolder'
    BY <2>1, <2>2 DEF LockHolder
  <2>5. FilesOwned' BY <2>2 DEF FilesOwned, Answers
  <2>6. TargetKnown' BY <2>1, <2>2 DEF TargetKnown
  <2>7. ServedKnown' BY <2>2 DEF ServedKnown
  <2>8. QED BY <2>3, <2>4, <2>5, <2>6, <2>7
<1>4. ASSUME ReadPID(a) PROVE IInv'
  <2>1. LockHeld'
    BY <1>4 DEF ReadPID, LockHeld, Free, Alive
  <2>2. LockHolder'
    BY <1>4 DEF ReadPID, LockHolder
  <2>3. FilesOwned'
    BY <1>4 DEF ReadPID, FilesOwned, Answers
  <2>4. TargetKnown'
    BY <1>4 DEF ReadPID, TargetKnown
  <2>5. ServedKnown'
    BY <1>4 DEF ReadPID, ServedKnown
  <2>6. QED BY <2>1, <2>2, <2>3, <2>4, <2>5
<1>5. ASSUME Kill(a) PROVE IInv'
  <2>1. /\ \A b \in Callers : b # a => call'[b] = call[b]
        /\ call'[a].at \in {"waiting", "returned"}
        /\ call'[a].target = call[a].target
        /\ call'[a].result \in {call[a].result, "error"}
        /\ call[a].at = "signalling"
    <3>1. \/ Set(a, [call[a] EXCEPT !.at = "waiting", !.read = None])
          \/ Set(a, [call[a] EXCEPT !.at = "returned", !.read = None,
                                    !.result = "error"])
      BY <1>5, Zenon DEF Kill
    <3>2. call[a].at = "signalling" BY <1>5, Zenon DEF Kill
    <3>3. CASE Set(a, [call[a] EXCEPT !.at = "waiting", !.read = None])
      BY <3>2, <3>3
    <3>4. CASE Set(a, [call[a] EXCEPT !.at = "returned", !.read = None,
                                    !.result = "error"])
      BY <3>2, <3>4
    <3> HIDE DEF Set
    <3>5. QED BY <3>1, <3>3, <3>4
  <2>2. UNCHANGED <<pid, force, pidFile, sock, job>>
    BY <1>5, Zenon DEF Kill
  <2>3. \/ UNCHANGED <<pc, lock>>
        \/ \E p \in Proc :
              /\ pc[p] \notin {"none", "exited"}
              /\ \/ /\ pc' = [pc EXCEPT ![p] = "exited"]
                    /\ lock' = IF lock = p THEN None ELSE lock
                 \/ /\ pc[p] = "serving"
                    /\ pc' = [pc EXCEPT ![p] = "draining"]
                    /\ UNCHANGED lock
    BY <1>5, Zenon DEF Kill, Deliver, Die, Goto, Alive
  <2> HIDE DEF Set
  <2>4. LockHeld'
    BY <2>1, <2>2, <2>3 DEF LockHeld, Free, Alive, Holding, Written, Bound
  <2>5. LockHolder'
    BY <2>1, <2>2, <2>3 DEF LockHolder, Holding, Written, Bound
  <2>6. FilesOwned'
    BY <2>2, <2>3 DEF FilesOwned, Answers, Written, Bound
  <2>7. TargetKnown'
    BY <2>1, <2>2, <2>3 DEF TargetKnown, Holding, Written, Bound
  <2>8. ServedKnown' BY <2>2, <2>3 DEF ServedKnown, Bound
  <2>9. QED BY <2>4, <2>5, <2>6, <2>7, <2>8
<1>6. ASSUME Poll(a) PROVE IInv'
  <2>1. LockHeld'
    BY <1>6 DEF Poll, ProbeFree, LockHeld, Free, Alive
  <2>2. LockHolder'
    BY <1>6 DEF Poll, ProbeFree, LockHolder, Free, Alive
  <2>3. FilesOwned'
    BY <1>6 DEF Poll, FilesOwned, Answers
  <2>4. TargetKnown'
    BY <1>6 DEF Poll, ProbeFree, TargetKnown, LockHeld
  <2>5. ServedKnown'
    BY <1>6 DEF Poll, ServedKnown
  <2>6. QED BY <2>1, <2>2, <2>3, <2>4, <2>5
<1>7. ASSUME WaitTimesOut(a) PROVE IInv'
  <2>1. LockHeld'
    BY <1>7 DEF WaitTimesOut, LockHeld, Free, Alive
  <2>2. LockHolder'
    BY <1>7 DEF WaitTimesOut, LockHolder
  <2>3. FilesOwned'
    BY <1>7 DEF WaitTimesOut, FilesOwned, Answers
  <2>4. TargetKnown'
    BY <1>7 DEF WaitTimesOut, TargetKnown
  <2>5. ServedKnown'
    BY <1>7 DEF WaitTimesOut, ServedKnown
  <2>6. QED BY <2>1, <2>2, <2>3, <2>4, <2>5
<1>8. QED
  BY <1>1, <1>2, <1>3, <1>4, <1>5, <1>6, <1>7 DEF Stop

\* A step of a client.
LEMMA ClientInv ==
    ASSUME TypeOK, IInv, NEW c \in Clients, Client(c)
    PROVE  IInv'
<1> USE DaemonLockAssumption DEF IInv, TypeOK, Callers, procVars, fileVars,
    Become, Job
<1>1. ASSUME Discover(c) PROVE IInv'
  <2>1. LockHeld'
    BY <1>1 DEF Discover, LockHeld, Free, Alive
  <2>2. LockHolder'
    BY <1>1 DEF Discover, LockHolder
  <2>3. FilesOwned'
    BY <1>1 DEF Discover, FilesOwned, Answers
  <2>4. TargetKnown'
    BY <1>1 DEF Discover, TargetKnown
  <2>5. ServedKnown'
    BY <1>1 DEF Discover, ServedKnown
  <2>6. QED BY <2>1, <2>2, <2>3, <2>4, <2>5
<1>2. ASSUME Discovered(c) PROVE IInv'
  <2>1. LockHeld'
    BY <1>2 DEF Discovered, LockHeld, Free, Alive
  <2>2. LockHolder'
    BY <1>2 DEF Discovered, LockHolder
  <2>3. FilesOwned'
    BY <1>2 DEF Discovered, FilesOwned, Answers
  <2>4. TargetKnown'
    BY <1>2 DEF Discovered, TargetKnown
  <2>5. ServedKnown'
    BY <1>2 DEF Discovered, ServedKnown
  <2>6. QED BY <2>1, <2>2, <2>3, <2>4, <2>5
<1>3. ASSUME Dial(c) PROVE IInv'
  <2>1. LockHeld'
    BY <1>3 DEF Dial, LockHeld, Free, Alive
  <2>2. LockHolder'
    BY <1>3 DEF Dial, LockHolder
  <2>3. FilesOwned'
    BY <1>3 DEF Dial, FilesOwned, Answers
  <2>4. TargetKnown'
    BY <1>3 DEF Dial, TargetKnown
  <2>5. ServedKnown'
    BY <1>3 DEF Dial, ServedKnown
  <2>6. QED BY <2>1, <2>2, <2>3, <2>4, <2>5
<1>4. ASSUME Spawn(c) PROVE IInv'
  <2>1. LockHeld'
    BY <1>4
       DEF Spawn, Start, Goto, LockHeld, LockHolder, Holding, Written, Bound,
           Free, Alive
  <2>2. LockHolder'
    BY <1>4 DEF Spawn, Start, Goto, LockHolder, Holding, Written, Bound
  <2>3. FilesOwned'
    BY <1>4 DEF Spawn, Start, Goto, FilesOwned, Answers, Written, Bound
  <2>4. TargetKnown'
    BY <1>4 DEF Spawn, Start, Goto, TargetKnown, Holding, Written, Bound
  <2>5. ServedKnown'
    BY <1>4 DEF Spawn, Start, Goto, ServedKnown, Bound
  <2>6. QED BY <2>1, <2>2, <2>3, <2>4, <2>5
<1>5. ASSUME Reach(c) PROVE IInv'
  <2>1. LockHeld'
    BY <1>5 DEF Reach, LockHeld, Free, Alive
  <2>2. LockHolder'
    BY <1>5 DEF Reach, LockHolder
  <2>3. FilesOwned'
    BY <1>5 DEF Reach, FilesOwned, Answers
  <2>4. TargetKnown'
    BY <1>5 DEF Reach, TargetKnown
  <2>5. ServedKnown'
    BY <1>5 DEF Reach, ServedKnown
  <2>6. QED BY <2>1, <2>2, <2>3, <2>4, <2>5
<1>6. QED
  BY <1>1, <1>2, <1>3, <1>4, <1>5 DEF Client

\* A step of a restarter.
LEMMA RestarterInv ==
    ASSUME TypeOK, IInv, NEW r \in Restarters, Restarter(r)
    PROVE  IInv'
<1> USE DaemonLockAssumption DEF IInv, TypeOK, Callers, procVars, fileVars,
    Become, Job
<1>1. ASSUME ReadOldPID(r) PROVE IInv'
  <2>1. LockHeld'
    BY <1>1 DEF ReadOldPID, LockHeld, Free, Alive
  <2>2. LockHolder'
    BY <1>1 DEF ReadOldPID, LockHolder
  <2>3. FilesOwned'
    BY <1>1 DEF ReadOldPID, FilesOwned, Answers
  <2>4. TargetKnown'
    BY <1>1 DEF ReadOldPID, TargetKnown
  <2>5. ServedKnown'
    BY <1>1
       DEF ReadOldPID, Dialled, ServedKnown, FilesOwned, Written, Bound,
           Answers
  <2>6. QED BY <2>1, <2>2, <2>3, <2>4, <2>5
<1>2. ASSUME SpawnForced(r) PROVE IInv'
  <2>1. LockHeld'
    BY <1>2
       DEF SpawnForced, Start, Goto, LockHeld, LockHolder, Holding, Written,
           Bound, Free, Alive
  <2>2. LockHolder'
    BY <1>2 DEF SpawnForced, Start, Goto, LockHolder, Holding, Written, Bound
  <2>3. FilesOwned'
    BY <1>2 DEF SpawnForced, Start, Goto, FilesOwned, Answers, Written, Bound
  <2>4. TargetKnown'
    BY <1>2 DEF SpawnForced, Start, Goto, TargetKnown, Holding, Written, Bound
  <2>5. ServedKnown'
    BY <1>2 DEF SpawnForced, Start, Goto, ServedKnown, Bound
  <2>6. QED BY <2>1, <2>2, <2>3, <2>4, <2>5
<1>3. ASSUME SeeReplacement(r) PROVE IInv'
  <2>1. LockHeld'
    BY <1>3 DEF SeeReplacement, LockHeld, Free, Alive
  <2>2. LockHolder'
    BY <1>3 DEF SeeReplacement, LockHolder
  <2>3. FilesOwned'
    BY <1>3 DEF SeeReplacement, FilesOwned, Answers
  <2>4. TargetKnown'
    BY <1>3 DEF SeeReplacement, TargetKnown
  <2>5. ServedKnown'
    BY <1>3 DEF SeeReplacement, ServedKnown, FilesOwned, Written
  <2>6. QED BY <2>1, <2>2, <2>3, <2>4, <2>5
<1>4. QED
  BY <1>1, <1>2, <1>3 DEF Restarter

\* A process that somebody starts.
LEMMA RunInv ==
    ASSUME TypeOK, IInv, NEW p \in Proc, Run(p)
    PROVE  IInv'
<1> USE DaemonLockAssumption DEF IInv, TypeOK, Callers, procVars, fileVars,
    Goto
<1>1. LockHeld'
  BY DEF Run, Start, LockHeld, LockHolder, Holding, Written, Bound, Free, Alive
<1>2. LockHolder'
  BY DEF Run, Start, LockHolder, Holding, Written, Bound
<1>3. FilesOwned'
  BY DEF Run, Start, FilesOwned, Answers, Written, Bound
<1>4. TargetKnown'
  BY DEF Run, Start, TargetKnown, Holding, Written, Bound
<1>5. ServedKnown'
  BY DEF Run, Start, ServedKnown, Bound
<1>6. QED BY <1>1, <1>2, <1>3, <1>4, <1>5

\* A command that gives up.
LEMMA GiveUpInv ==
    ASSUME TypeOK, IInv, NEW c \in Clients \cup Restarters, GiveUp(c)
    PROVE  IInv'
<1> USE DaemonLockAssumption DEF IInv, TypeOK, Callers, procVars, fileVars,
    Become, Job
<1>1. LockHeld'
  BY DEF GiveUp, LockHeld, Free, Alive
<1>2. LockHolder'
  BY DEF GiveUp, LockHolder
<1>3. FilesOwned'
  BY DEF GiveUp, FilesOwned, Answers
<1>4. TargetKnown'
  BY DEF GiveUp, TargetKnown
<1>5. ServedKnown'
  BY DEF GiveUp, ServedKnown
<1>6. QED BY <1>1, <1>2, <1>3, <1>4, <1>5

LEMMA InvStep == TypeOK /\ IInv /\ [Next]_vars => IInv'
<1> SUFFICES ASSUME TypeOK, IInv, [Next]_vars PROVE IInv'
  OBVIOUS
<1>1. ASSUME NEW p \in Proc, Run(p) PROVE IInv'
  BY <1>1, RunInv
<1>2. ASSUME NEW p \in Proc, Daemon(p) \/ Crash(p) \/ Interrupt(p) PROVE IInv'
  BY <1>2, DaemonInv
<1>3. ASSUME NEW a \in Callers, Stop(a) PROVE IInv'
  BY <1>3, StopInv
<1>4. ASSUME NEW c \in Clients, Client(c) PROVE IInv'
  BY <1>4, ClientInv
<1>5. ASSUME NEW r \in Restarters, Restarter(r) PROVE IInv'
  BY <1>5, RestarterInv
<1>6. ASSUME NEW c \in Clients \cup Restarters, GiveUp(c) PROVE IInv'
  BY <1>6, GiveUpInv
<1>7. CASE UNCHANGED vars
  BY <1>7 DEF vars, procVars, fileVars, IInv, LockHeld, LockHolder, FilesOwned,
              TargetKnown, ServedKnown, Free, Alive, Answers
<1>8. QED
  BY <1>1, <1>2, <1>3, <1>4, <1>5, <1>6, <1>7 DEF Next

THEOREM InvariantHolds == Spec => [](TypeOK /\ IInv)
<1>1. QED BY InitType, InitInv, TypeStep, InvStep, PTL DEF Spec

\* Whoever starts, probes, stops or dies meanwhile, a daemon that answers
\* is the one its socket and its PID file lead to.
THEOREM ServerCorrect == Spec => []ServerOwnsFiles
<1>1. TypeOK /\ IInv => ServerOwnsFiles
  BY DEF IInv, FilesOwned, ServerOwnsFiles, Answers, Written, Bound
<1>2. QED BY <1>1, InvariantHolds, PTL

\* A daemon that Stop reports as stopped has ended, with everything it held.
THEOREM StopCorrect == Spec => []StoppedMeansGone
<1>1. TypeOK /\ IInv => StoppedMeansGone
  BY DEF IInv, TargetKnown, StoppedMeansGone, Alive
<1>2. QED BY <1>1, InvariantHolds, PTL

\* A restart that succeeds has replaced the daemon that served before it.
THEOREM RestartCorrect == Spec => []RestartedMeansReplaced
<1>1. TypeOK /\ IInv => RestartedMeansReplaced
  BY DEF IInv, ServedKnown, RestartedMeansReplaced, Alive, TypeOK, Job
<1>2. QED BY <1>1, InvariantHolds, PTL

=============================================================================
