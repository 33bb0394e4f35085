------------------------- MODULE TrustStoreProofs -------------------------
(***************************************************************************)
(* Proofs about TrustStore, for any number of processes, listeners, pairs  *)
(* and accidents.                                                          *)
(*                                                                         *)
(* Everything rests on what the holder of the pair lock has done so far:   *)
(* Progress says, for each place inside the lock, what the two files hold. *)
(* Only a renewal's first removal can take a pair that loads away, and by  *)
(* then everybody who relies on the pair counts as overlapped (Overlap);   *)
(* so whoever does not is left with the pair it has checked (Kept).        *)
(***************************************************************************)
EXTENDS TrustStore, TLAPS

(***************************************************************************)
(* Types.                                                                  *)
(***************************************************************************)
\* The initial states have their types.
LEMMA InitType == TrustInit => TypeOK /\ TrustTypeOK
<1> SUFFICES ASSUME TrustInit PROVE TypeOK /\ TrustTypeOK
  OBVIOUS
<1> USE TlsPairAssumption DEF TrustInit, Init, Missing, Torn
<1>1. TypeOK
  <2>1. PICK n \in {0, 1} \cap 0 .. MaxPair : cert = n /\ key = n /\ made = n
    OBVIOUS
  <2>2. /\ made \in 0 .. MaxPair
        /\ cert \in 1 .. made \cup {Missing, Torn}
        /\ key \in 1 .. made \cup {Missing, Torn}
        /\ 0 \in 0 .. made
    BY <2>1
  <2>3. /\ accidents \in 0 .. MaxAccident
        /\ lock \in Proc \cup {NoProc}
        /\ read \in [Proc -> [Listener -> 1 .. made \cup {Missing, Torn}]]
        /\ served \in [Proc -> [Listener -> 0 .. made]]
        /\ mine \in [Proc -> 0 .. made]
    BY <2>2
  <2>4. QED BY <2>2, <2>3 DEF TypeOK
<1>2. TrustTypeOK BY DEF TrustTypeOK
<1>3. QED BY <1>1, <1>2

\* A step of EnsurePair, Renew or ServeTLS keeps the types of the pair, and
\* no pair is ever forgotten.
LEMMA PairType ==
    ASSUME TypeOK, NEW p \in Proc, Step(p) \/ Proceed(p)
    PROVE  TypeOK' /\ made \in Nat /\ made' \in Nat /\ made <= made'
<1> USE TlsPairAssumption
    DEF TypeOK, Goto, Missing, Torn, Pair, files, fixed, daemons
<1>1. CASE Begin(p)
  <2>1. PICK f \in BOOLEAN :
          /\ forced' = [forced EXCEPT ![p] = f]
          /\ Goto(p, IF cmd[p] = "renew" /\ ~certManaged /\ ~f THEN "refused" ELSE "lock")
    BY <1>1 DEF Begin
  <2>2. QED BY <1>1, <2>1 DEF Begin
<1>2. CASE acquirePairLock(p) \/ LockError(p)
  <2>1. CASE acquirePairLock(p) BY <2>1 DEF acquirePairLock, Overlapped
  <2>2. CASE LockError(p) BY <2>2 DEF LockError
  <2>3. QED BY <1>2, <2>1, <2>2
<1>3. CASE Inspect(p) BY <1>3 DEF Inspect, Verdict
<1>4. CASE RemoveCert(p) BY <1>4 DEF RemoveCert
<1>5. CASE RemoveKey(p) BY <1>5 DEF RemoveKey
<1>6. CASE Generate(p)
  <2> USE <1>6 DEF Generate
  <2>1. /\ made \in Nat /\ made' = made + 1 /\ made' \in 0 .. MaxPair
        /\ 1 .. made \subseteq 1 .. made' /\ 0 .. made \subseteq 0 .. made'
    OBVIOUS
  <2>2. mine' \in [Proc -> 0 .. made']
    BY <2>1
  <2>3. /\ read' \in [Proc -> [Listener -> 1 .. made' \cup {Missing, Torn}]]
        /\ served' \in [Proc -> [Listener -> 0 .. made']]
    BY <2>1
  <2>4. QED BY <2>1, <2>2, <2>3
<1>7. CASE OpenCert(p) BY <1>7 DEF OpenCert
<1>8. CASE WriteCert(p) BY <1>8 DEF WriteCert
<1>9. CASE OpenKey(p) BY <1>9 DEF OpenKey
<1>10. CASE WriteKey(p) BY <1>10 DEF WriteKey
<1>11. CASE Verify(p) BY <1>11 DEF Verify
<1>12. CASE FileError(p)
  <2>1. pc' \in [Proc -> {"fail"} \cup {pc[q] : q \in Proc}] BY <1>12 DEF FileError
  <2>2. accidents' \in 0 .. MaxAccident /\ faulty' = TRUE BY <1>12 DEF FileError
  <2>3. UNCHANGED <<cert, key, made, managed, cmd, forced, lock, mine, read, served, renewed>>
    BY <1>12 DEF FileError
  <2>4. QED BY <2>1, <2>2, <2>3
<1>13. CASE Release(p) BY <1>13 DEF Release
<1>14. ASSUME NEW l \in Listener, ReadCert(p, l)
       PROVE  TypeOK' /\ made \in Nat /\ made' \in Nat /\ made <= made'
  <2>1. CASE cert = Missing
    <3>1. /\ pc' = [pc EXCEPT ![p] = "down"]
          /\ UNCHANGED <<cert, key, made, managed, lock, cmd, forced, mine, read,
                         served, renewed, accidents, faulty>>
      BY <1>14, <2>1 DEF ReadCert
    <3>2. QED BY <3>1
  <2>2. CASE cert # Missing
    <3>1. read' = [read EXCEPT ![p][l] = cert] BY <1>14, <2>2 DEF ReadCert
    <3>2. read' \in [Proc -> [Listener -> 1 .. made \cup {Missing, Torn}]]
      BY <3>1
    <3>3. QED BY <1>14, <2>2, <3>2 DEF ReadCert
  <2>3. QED BY <2>1, <2>2
<1>15. ASSUME NEW l \in Listener, ReadKey(p, l)
       PROVE  TypeOK' /\ made \in Nat /\ made' \in Nat /\ made <= made'
  <2>1. CASE Loads(read[p][l], key)
    <3>1. key \in 0 .. made BY <2>1 DEF Loads
    <3>2. served' = [served EXCEPT ![p][l] = key] BY <1>15, <2>1 DEF ReadKey
    <3>3. served' \in [Proc -> [Listener -> 0 .. made]] BY <3>1, <3>2
    <3>4. pc' \in [Proc -> {"loading", "serving"} \cup {pc[q] : q \in Proc}]
      BY <1>15, <2>1 DEF ReadKey
    <3>5. QED BY <1>15, <2>1, <3>3, <3>4 DEF ReadKey
  <2>2. CASE ~Loads(read[p][l], key)
    <3>1. /\ pc' = [pc EXCEPT ![p] = "down"]
          /\ UNCHANGED <<cert, key, made, managed, lock, cmd, forced, mine, read,
                         served, renewed, accidents, faulty>>
      BY <1>15, <2>2 DEF ReadKey
    <3>2. QED BY <3>1
  <2>3. QED BY <2>1, <2>2
<1>16. CASE Proceed(p) BY <1>16 DEF Proceed
<1>17. CASE Crash(p) BY <1>17 DEF Crash
<1>18. QED
  BY <1>1, <1>2, <1>3, <1>4, <1>5, <1>6, <1>7, <1>8, <1>9, <1>10, <1>11, <1>12,
     <1>13, <1>14, <1>15, <1>16, <1>17 DEF Step, Working

\* What a trust operation leaves of the pair, and that it keeps the types.
LEMMA TrustType ==
    ASSUME TypeOK, TrustTypeOK, NEW p \in Proc, Trusting(p)
    PROVE  /\ TypeOK' /\ TrustTypeOK'
           /\ UNCHANGED <<cert, key, made, managed, lock, pc, cmd, forced, mine,
                          read, served, renewed, faulty, os, auto>>
<1> USE TlsPairAssumption
    DEF TypeOK, TrustTypeOK, pairVars, files, fixed, daemons, At, To, Say, Missing,
        Torn, Pair
<1>1. CASE Skip(p) BY <1>1 DEF Skip
<1>2. CASE Insist(p) BY <1>2 DEF Insist
<1>3. CASE Ask(p)
  <2>1. CASE IsTrusted
    <3>1. /\ step' = [step EXCEPT ![p] = "settled"]
          /\ said' = [said EXCEPT ![p] = "already"]
          /\ UNCHANGED <<pairVars, os, auto, anchor, store, meddled>>
      BY <1>3, <2>1 DEF Ask
    <3>2. QED BY <3>1
  <2>2. CASE ~IsTrusted
    <3>1. /\ step' = [step EXCEPT ![p] = "install"]
          /\ UNCHANGED <<pairVars, os, auto, anchor, store, said, meddled>>
      BY <1>3, <2>2 DEF Ask
    <3>2. QED BY <3>1
  <2>3. QED BY <2>1, <2>2
<1>4. CASE CopyAnchor(p) BY <1>4 DEF CopyAnchor, Meddle
<1>5. CASE RemoveAnchor(p) BY <1>5 DEF RemoveAnchor, Meddle
<1>6. CASE UpdateStore(p)
  <2>1. store' \subseteq 1 .. made BY <1>6 DEF UpdateStore
  <2>2. QED BY <1>6, <2>1 DEF UpdateStore, Meddle
<1>7. CASE AddCert(p)
  <2>1. store' \subseteq 1 .. made BY <1>7 DEF AddCert
  <2>2. QED BY <1>7, <2>1 DEF AddCert, Meddle
<1>8. CASE RemoveByFile(p) BY <1>8 DEF RemoveByFile, Removed, Meddle
<1>9. CASE RemoveByName(p) BY <1>9 DEF RemoveByName, Removed, Meddle
<1>10. CASE ToolFails(p) BY <1>10 DEF ToolFails
<1>11. QED
  BY <1>1, <1>2, <1>3, <1>4, <1>5, <1>6, <1>7, <1>8, <1>9, <1>10
     DEF Trusting, UseTools

\* Every step keeps both types.
LEMMA TypeStep ==
    TypeOK /\ TrustTypeOK /\ [TrustNext]_vars => TypeOK' /\ TrustTypeOK'
<1> SUFFICES ASSUME TypeOK, TrustTypeOK, [TrustNext]_vars
             PROVE  TypeOK' /\ TrustTypeOK'
  OBVIOUS
<1>1. ASSUME NEW p \in Proc, Step(p) \/ Proceed(p), UNCHANGED trustVars
      PROVE  TypeOK' /\ TrustTypeOK'
  <2>1. TypeOK' /\ made \in Nat /\ made' \in Nat /\ made <= made'
    BY <1>1, PairType
  <2>2. 1 .. made \subseteq 1 .. made' BY <2>1
  <2>3. QED BY <1>1, <2>1, <2>2 DEF trustVars, TrustTypeOK
<1>2. ASSUME NEW p \in Proc, Trusting(p) PROVE TypeOK' /\ TrustTypeOK'
  BY <1>2, TrustType
<1>3. CASE UNCHANGED vars
  BY <1>3 DEF vars, pairVars, trustVars, TypeOK, TrustTypeOK
<1>4. QED BY <1>1, <1>2, <1>3 DEF TrustNext, Settled

\* Whatever processes do or suffer, the files hold nothing, a torn content or
\* halves of pairs that were generated, and the lock is with a process or free.
THEOREM TypeCorrect == TrustSpec => []TypeOK
<1>1. TrustInit => TypeOK /\ TrustTypeOK BY InitType
<1>2. TypeOK /\ TrustTypeOK /\ [TrustNext]_vars => TypeOK' /\ TrustTypeOK'
  BY TypeStep
<1>3. QED BY <1>1, <1>2, PTL DEF TrustSpec

(***************************************************************************)
(* What the holder of the pair lock knows.                                 *)
(***************************************************************************)
Holding == {"inspect", "removeCert", "removeKey", "generate", "openCert", "writeCert",
            "openKey", "writeKey", "verify", "release", "fail"}

\* The lock is with whoever stands inside it.
LockHeld == \A p \in Proc : pc[p] \in Holding <=> lock = p

Allowed(p) == managed \/ forced[p]

\* What p knows of the files inside the lock, whatever went wrong before.
FilesAt(p) ==
    /\ pc[p] = "removeKey" => cert = Missing
    /\ pc[p] \in {"generate", "openCert", "writeCert", "openKey"} => key = Missing
    /\ pc[p] \in {"generate", "openCert"} => cert = Missing
    /\ pc[p] = "writeCert" => cert = Torn
    /\ pc[p] \in {"openKey", "writeKey", "verify"} => cert = mine[p]
    /\ pc[p] = "writeKey" => key = Torn
    /\ pc[p] = "verify" => key = mine[p]
    /\ pc[p] = "release" => Loads(cert, key)

\* Only renewals remove, and a renewal that goes on is allowed to.
Entitled(p) ==
    /\ pc[p] \in {"removeCert", "removeKey"} => cmd[p] = "renew"
    /\ cmd[p] = "renew" /\ pc[p] \notin {"idle", "refused"} => Allowed(p)

Made(p) ==
    pc[p] \in {"openCert", "writeCert", "openKey", "writeKey", "verify"} => mine[p] \in Pair

Progress == \A p \in Proc : FilesAt(p) /\ Entitled(p) /\ Made(p)

\* Without an accident nobody meets a half-made pair.
Sound ==
    ~faulty =>
        /\ lock = NoProc => Whole
        /\ \A p \in Proc : pc[p] \in {"inspect", "removeCert"} => Whole
        /\ \A p \in Proc : pc[p] \notin {"fail", "failed"}

PairInv == LockHeld /\ Progress /\ Sound

\* Nobody stands inside the lock and everything is whole.
LEMMA InitPairInv == TrustInit => PairInv
<1> SUFFICES ASSUME TrustInit PROVE PairInv
  OBVIOUS
<1>1. /\ \A p \in Proc : pc[p] = "idle"
      /\ lock = NoProc /\ ~faulty /\ cert = key /\ cert # Torn
  <2>1. PICK n \in {0, 1} \cap 0 .. MaxPair : cert = n /\ key = n /\ made = n
    BY DEF TrustInit, Init
  <2>2. cert = key /\ cert # Torn BY <2>1 DEF Torn
  <2>3. QED BY <2>2 DEF TrustInit, Init
<1>2. LockHeld BY <1>1, TlsPairAssumption DEF LockHeld, Holding
<1>3. Progress BY <1>1 DEF Progress, FilesAt, Entitled, Made
<1>4. Sound BY <1>1 DEF Sound, Whole
<1>5. QED BY <1>2, <1>3, <1>4 DEF PairInv

\* The lock goes to one process at a time and back when it leaves or dies.
LEMMA LockStep ==
    ASSUME TypeOK, LockHeld, NEW p \in Proc, Step(p) \/ Proceed(p)
    PROVE  LockHeld'
<1> USE TlsPairAssumption DEF LockHeld, Holding, Goto, TypeOK, fixed, files, daemons
<1>1. CASE Begin(p)
  <2>1. \E l \in {"refused", "lock"} : pc' = [pc EXCEPT ![p] = l]
    BY <1>1 DEF Begin
  <2>2. QED BY <1>1, <2>1 DEF Begin
<1>2. CASE acquirePairLock(p) \/ LockError(p) BY <1>2 DEF acquirePairLock, LockError
<1>3. CASE Inspect(p)
  <2>1. Verdict \in Holding BY DEF Verdict
  <2>2. QED BY <1>3, <2>1 DEF Inspect
<1>4. CASE RemoveCert(p) BY <1>4 DEF RemoveCert
<1>5. CASE RemoveKey(p) BY <1>5 DEF RemoveKey
<1>6. CASE Generate(p) BY <1>6 DEF Generate
<1>7. CASE OpenCert(p) BY <1>7 DEF OpenCert
<1>8. CASE WriteCert(p) BY <1>8 DEF WriteCert
<1>9. CASE OpenKey(p) BY <1>9 DEF OpenKey
<1>10. CASE WriteKey(p) BY <1>10 DEF WriteKey
<1>11. CASE Verify(p) BY <1>11 DEF Verify
<1>12. CASE FileError(p) BY <1>12 DEF FileError
<1>13. CASE Release(p) BY <1>13 DEF Release
<1>14. ASSUME NEW l \in Listener, ReadCert(p, l) \/ ReadKey(p, l)
       PROVE  LockHeld'
  <2>1. /\ pc[p] = "loading" /\ UNCHANGED lock
        /\ \/ UNCHANGED pc
           \/ \E s \in {"down", "loading", "serving"} : pc' = [pc EXCEPT ![p] = s]
    BY <1>14 DEF ReadCert, ReadKey
  <2>2. QED BY <2>1
<1>15. CASE Proceed(p) BY <1>15 DEF Proceed
<1>16. CASE Crash(p) BY <1>16 DEF Crash
<1>17. QED
  BY <1>1, <1>2, <1>3, <1>4, <1>5, <1>6, <1>7, <1>8, <1>9, <1>10, <1>11, <1>12,
     <1>13, <1>14, <1>15, <1>16 DEF Step, Working

\* Whoever does not stand inside the lock changes neither file.
LEMMA FilesStep ==
    ASSUME TypeOK, LockHeld, NEW p \in Proc, Step(p) \/ Proceed(p)
    PROVE  /\ <<cert', key'>> # <<cert, key>> => lock = p
           /\ \A q \in Proc \ {p} : pc'[q] = pc[q] /\ mine'[q] = mine[q]
           /\ UNCHANGED <<managed, cmd>>
           /\ pc[p] # "idle" => UNCHANGED forced
           /\ \A q \in Proc \ {p} : forced'[q] = forced[q]
<1> USE DEF LockHeld, Holding, Goto, TypeOK, fixed, files, daemons
<1>1. CASE Begin(p) BY <1>1 DEF Begin
<1>2. CASE acquirePairLock(p) \/ LockError(p) \/ Inspect(p)
  BY <1>2 DEF acquirePairLock, LockError, Inspect
<1>3. CASE RemoveCert(p) \/ RemoveKey(p) BY <1>3 DEF RemoveCert, RemoveKey
<1>4. CASE Generate(p) BY <1>4 DEF Generate
<1>5. CASE OpenCert(p) \/ WriteCert(p) BY <1>5 DEF OpenCert, WriteCert
<1>6. CASE OpenKey(p) \/ WriteKey(p) BY <1>6 DEF OpenKey, WriteKey
<1>7. CASE Verify(p) BY <1>7 DEF Verify
<1>8. CASE FileError(p) BY <1>8 DEF FileError
<1>9. CASE Release(p) BY <1>9 DEF Release
<1>10. ASSUME NEW l \in Listener, ReadCert(p, l) \/ ReadKey(p, l)
       PROVE  /\ UNCHANGED <<cert, key, managed, cmd, forced, mine>>
              /\ \A q \in Proc \ {p} : pc'[q] = pc[q]
  BY <1>10 DEF ReadCert, ReadKey
<1>11. CASE Proceed(p) BY <1>11 DEF Proceed
<1>12. CASE Crash(p) BY <1>12 DEF Crash
<1>13. QED
  BY <1>1, <1>2, <1>3, <1>4, <1>5, <1>6, <1>7, <1>8, <1>9, <1>10, <1>11, <1>12
     DEF Step, Working

\* What a process knows inside the lock holds until its own next step.
LEMMA OthersProgress ==
    ASSUME TypeOK, LockHeld, Progress, NEW p \in Proc, Step(p) \/ Proceed(p),
           NEW q \in Proc \ {p}
    PROVE  FilesAt(q)' /\ Entitled(q)' /\ Made(q)'
<1>1. /\ <<cert', key'>> # <<cert, key>> => lock = p
      /\ pc'[q] = pc[q] /\ mine'[q] = mine[q] /\ forced'[q] = forced[q]
      /\ managed' = managed /\ cmd' = cmd
  BY FilesStep
<1>2. FilesAt(q) /\ Entitled(q) /\ Made(q) BY DEF Progress
<1>3. FilesAt(q)'
  <2>1. CASE pc[q] \in Holding
    <3>1. lock = q BY <2>1 DEF LockHeld
    <3>2. cert' = cert /\ key' = key BY <1>1, <3>1
    <3>3. QED BY <1>1, <1>2, <3>2 DEF FilesAt, Loads
  <2>2. CASE pc[q] \notin Holding BY <1>1, <2>2 DEF FilesAt, Holding
  <2>3. QED BY <2>1, <2>2
<1>4. Entitled(q)' BY <1>1, <1>2 DEF Entitled, Allowed
<1>5. Made(q)' BY <1>1, <1>2 DEF Made
<1>6. QED BY <1>3, <1>4, <1>5

\* The holder of the lock finds the files as it left them.
LEMMA OwnProgress ==
    ASSUME TypeOK, LockHeld, Progress, NEW p \in Proc, Step(p) \/ Proceed(p)
    PROVE  FilesAt(p)' /\ Entitled(p)' /\ Made(p)'
<1>1. FilesAt(p) /\ Entitled(p) /\ Made(p) BY DEF Progress
<1> USE <1>1 DEF FilesAt, Entitled, Made, Allowed, Goto, TypeOK, fixed, files, daemons
<1>2. CASE Begin(p)
  <2>1. PICK f \in IF cmd[p] = "renew" THEN BOOLEAN ELSE {FALSE} :
          /\ forced' = [forced EXCEPT ![p] = f]
          /\ Goto(p, IF cmd[p] = "renew" /\ ~certManaged /\ ~f THEN "refused" ELSE "lock")
    BY <1>2 DEF Begin
  <2>2. /\ pc'[p] \in {"refused", "lock"} /\ forced'[p] = f
        /\ pc'[p] = "lock" /\ cmd[p] = "renew" => managed \/ f
    BY <2>1 DEF certManaged
  <2>3. cmd' = cmd /\ managed' = managed BY <1>2 DEF Begin
  <2>4. QED BY <2>2, <2>3
<1>3. CASE acquirePairLock(p) \/ LockError(p) BY <1>3 DEF acquirePairLock, LockError
<1>4. CASE Inspect(p)
  <2>1. /\ Verdict \in {"generate", "release", "fail"}
        /\ Verdict = "generate" => cert = Missing /\ key = Missing
        /\ Verdict = "release" => Loads(cert, key)
    BY DEF Verdict
  <2>2. QED BY <1>4, <2>1 DEF Inspect, Loads
<1>5. CASE RemoveCert(p) BY <1>5 DEF RemoveCert
<1>6. CASE RemoveKey(p) BY <1>6 DEF RemoveKey
<1>7. CASE Generate(p)
  <2>1. made + 1 \in Pair BY <1>7, TlsPairAssumption DEF Generate, Pair
  <2>2. QED BY <1>7, <2>1 DEF Generate
<1>8. CASE OpenCert(p) BY <1>8 DEF OpenCert
<1>9. CASE WriteCert(p) BY <1>9 DEF WriteCert
<1>10. CASE OpenKey(p) BY <1>10 DEF OpenKey
<1>11. CASE WriteKey(p) BY <1>11 DEF WriteKey
<1>12. CASE Verify(p) BY <1>12 DEF Verify, Loads
<1>13. CASE FileError(p) BY <1>13 DEF FileError
<1>14. CASE Release(p) BY <1>14 DEF Release
<1>15. ASSUME NEW l \in Listener, ReadCert(p, l) \/ ReadKey(p, l)
       PROVE  FilesAt(p)' /\ Entitled(p)' /\ Made(p)'
  <2>1. /\ pc[p] = "loading" /\ UNCHANGED <<managed, forced, cmd>>
        /\ pc'[p] \in {"down", "loading", "serving"}
    BY <1>15 DEF ReadCert, ReadKey
  <2>2. QED BY <2>1
<1>16. CASE Proceed(p) BY <1>16 DEF Proceed
<1>17. CASE Crash(p) BY <1>17 DEF Crash, Ended
<1>18. QED
  BY <1>2, <1>3, <1>4, <1>5, <1>6, <1>7, <1>8, <1>9, <1>10, <1>11, <1>12, <1>13,
     <1>14, <1>15, <1>16, <1>17 DEF Step, Working

\* A step without an accident leaves the files whole when it frees the lock.
LEMMA SoundStep ==
    ASSUME TypeOK, LockHeld, Progress, Sound, NEW p \in Proc, Step(p) \/ Proceed(p)
    PROVE  Sound'
<1> SUFFICES ASSUME ~faulty'
             PROVE  /\ (lock = NoProc => Whole)'
                    /\ \A q \in Proc : (pc[q] \in {"inspect", "removeCert"} => Whole)'
                    /\ \A q \in Proc : (pc[q] \notin {"fail", "failed"})'
  BY DEF Sound
<1>1. ~faulty
  BY DEF Step, Working, Begin, LockError, acquirePairLock, Inspect, RemoveCert,
         RemoveKey, Generate,
         OpenCert, WriteCert, OpenKey, WriteKey, Verify, FileError, Release, ReadCert,
         ReadKey, Crash, Proceed, TypeOK
<1>2. /\ lock = NoProc => Whole
      /\ \A q \in Proc : pc[q] \in {"inspect", "removeCert"} => Whole
      /\ \A q \in Proc : pc[q] \notin {"fail", "failed"}
  BY <1>1 DEF Sound
<1>3. FilesAt(p) /\ Made(p) BY DEF Progress
<1>4. Loads(cert, key) => Whole
  BY TlsPairAssumption DEF Loads, Whole, Pair, Torn
<1> USE <1>2, <1>3, TlsPairAssumption
    DEF LockHeld, Holding, Goto, TypeOK, fixed, files, daemons, Whole
<1>5. CASE Begin(p)
  <2>1. \E l \in {"refused", "lock"} : pc' = [pc EXCEPT ![p] = l]
    BY <1>5 DEF Begin
  <2>2. QED BY <1>5, <2>1 DEF Begin
<1>6. CASE acquirePairLock(p) \/ LockError(p) BY <1>6 DEF acquirePairLock, LockError
<1>7. CASE Inspect(p)
  <2>1. Whole BY <1>7 DEF Inspect
  <2>2. Verdict \in {"generate", "release"}
    BY <2>1 DEF Verdict, Loads, Pair, Missing, Torn
  <2>3. QED BY <1>7, <2>2 DEF Inspect
<1>8. CASE RemoveCert(p) BY <1>8 DEF RemoveCert
<1>9. CASE RemoveKey(p) BY <1>9 DEF RemoveKey
<1>10. CASE Generate(p) BY <1>10 DEF Generate
<1>11. CASE OpenCert(p) BY <1>11 DEF OpenCert
<1>12. CASE WriteCert(p) BY <1>12 DEF WriteCert
<1>13. CASE OpenKey(p) BY <1>13 DEF OpenKey
<1>14. CASE WriteKey(p) BY <1>14 DEF WriteKey
<1>15. CASE Verify(p)
  <2>1. Loads(cert, key) BY <1>15 DEF Verify, FilesAt, Made, Loads
  <2>2. QED BY <1>15, <2>1 DEF Verify
<1>16. CASE FileError(p) BY <1>16 DEF FileError
<1>17. CASE Release(p)
  <2>1. pc[p] = "release" /\ Whole BY <1>4, <1>17 DEF Release, FilesAt
  <2>2. QED BY <1>17, <2>1 DEF Release
<1>18. ASSUME NEW l \in Listener, ReadCert(p, l) \/ ReadKey(p, l)
       PROVE  /\ (lock = NoProc => Whole)'
              /\ \A q \in Proc : (pc[q] \in {"inspect", "removeCert"} => Whole)'
              /\ \A q \in Proc : (pc[q] \notin {"fail", "failed"})'
  <2>1. /\ UNCHANGED <<lock, cert, key>>
        /\ \/ UNCHANGED pc
           \/ \E s \in {"down", "loading", "serving"} : pc' = [pc EXCEPT ![p] = s]
    BY <1>18 DEF ReadCert, ReadKey
  <2>2. QED BY <2>1
<1>19. CASE Proceed(p) BY <1>19 DEF Proceed
<1>20. CASE Crash(p)
  <2>1. lock # p BY <1>20 DEF Crash
  <2>2. QED BY <1>20, <2>1 DEF Crash
<1>21. QED
  BY <1>5, <1>6, <1>7, <1>8, <1>9, <1>10, <1>11, <1>12, <1>13, <1>14, <1>15, <1>16,
     <1>17, <1>18, <1>19, <1>20 DEF Step, Working

\* The operations on the trust store leave the pair alone.
LEMMA PairInvStep == TypeOK /\ TrustTypeOK /\ PairInv /\ [TrustNext]_vars => PairInv'
<1> SUFFICES ASSUME TypeOK, TrustTypeOK, PairInv, [TrustNext]_vars PROVE PairInv'
  OBVIOUS
<1> USE DEF PairInv
<1>1. ASSUME NEW p \in Proc, Step(p) \/ Proceed(p) PROVE PairInv'
  <2>1. LockHeld' /\ Sound' BY <1>1, LockStep, SoundStep
  <2>2. \A q \in Proc \ {p} : FilesAt(q)' /\ Entitled(q)' /\ Made(q)'
    BY <1>1, OthersProgress
  <2>3. FilesAt(p)' /\ Entitled(p)' /\ Made(p)' BY <1>1, OwnProgress
  <2>4. Progress' BY <2>2, <2>3 DEF Progress
  <2>5. QED BY <2>1, <2>4
<1>2. ASSUME UNCHANGED <<cert, key, managed, lock, pc, cmd, forced, mine, faulty>>
      PROVE  PairInv'
  BY <1>2 DEF LockHeld, Progress, FilesAt, Entitled, Made, Allowed, Sound, Whole, Loads
<1>3. ASSUME NEW p \in Proc, Trusting(p) PROVE PairInv'
  BY <1>2, <1>3, TrustType
<1>4. CASE UNCHANGED vars BY <1>2, <1>4 DEF vars, pairVars
<1>5. QED BY <1>1, <1>3, <1>4 DEF TrustNext, Settled

\* Two processes that start, trust or renew at once never see each other's
\* half-made pair: whatever EnsurePair or Renew complains of once it has the
\* lock is the trace of a process, itself or another, that died or failed while
\* it held the lock.  That the lock cannot be had (LockError) is no such error.
THEOREM ErrorsCorrect == TrustSpec => []ErrorsFollowAccidents
<1> DEFINE Inv == TypeOK /\ TrustTypeOK /\ PairInv
<1>1. TrustInit => Inv BY InitType, InitPairInv
<1>2. Inv /\ [TrustNext]_vars => Inv' BY TypeStep, PairInvStep
<1>3. Inv => ErrorsFollowAccidents
  BY DEF PairInv, Sound, ErrorsFollowAccidents, TypeOK
<1> HIDE DEF Inv
<1>4. QED BY <1>1, <1>2, <1>3, PTL DEF TrustSpec

\* Whoever takes the lock finds no certificate without its key and no half of
\* another pair, unless a process died or failed while it held the lock.
THEOREM PairCorrect == TrustSpec => []PairIsWhole
<1> DEFINE Inv == TypeOK /\ TrustTypeOK /\ PairInv
<1>1. TrustInit => Inv BY InitType, InitPairInv
<1>2. Inv /\ [TrustNext]_vars => Inv' BY TypeStep, PairInvStep
<1>3. Inv => PairIsWhole BY DEF PairInv, Sound, PairIsWhole
<1> HIDE DEF Inv
<1>4. QED BY <1>1, <1>2, <1>3, PTL DEF TrustSpec

(***************************************************************************)
(* What those who have left the lock rely on.                              *)
(***************************************************************************)
\* p has been through EnsurePair or Renew and still counts on the result.
Relies(p) == pc[p] \in {"ensured", "loading", "serving", "done"} \/ said[p] # "nothing"

\* The trust operation begins when EnsurePair or Renew has returned, and the
\* report is its end.
Reported ==
    \A p \in Proc : /\ step[p] # "ask" => pc[p] \in Relying
                    /\ said[p] # "nothing" => step[p] = "settled"

\* A renewal that holds the lock overlaps everybody who relies on the pair.
Overlap ==
    \A p, q \in Proc : lock = q /\ cmd[q] = "renew" /\ Relies(p) => renewed[p]

\* What p reads and serves, if no renewal overlaps it.
KeptBy(p) ==
    ~renewed[p] =>
        /\ pc[p] # "down"
        /\ Relies(p) => /\ Loads(cert, key)
                        /\ \A l \in Listener : /\ read[p][l] \in {Missing, cert}
                                               /\ served[p][l] \in {Missing, cert}

Kept == \A p \in Proc : KeptBy(p)

\* Only a daemon's listeners read.
Idle ==
    \A p \in Proc : pc[p] \notin {"loading", "serving", "down", "dead"} =>
        \A l \in Listener : read[p][l] = Missing /\ served[p][l] = Missing

ServeInv == Reported /\ Overlap /\ Kept /\ Idle

\* Nobody has begun.
LEMMA InitServeInv == TrustInit => ServeInv
<1> SUFFICES ASSUME TrustInit PROVE ServeInv
  OBVIOUS
<1> USE TlsPairAssumption DEF TrustInit, Init
<1>1. Reported BY DEF Reported
<1>2. \A p \in Proc : ~Relies(p) /\ pc[p] = "idle" BY DEF Relies
<1>3. Overlap BY <1>2 DEF Overlap
<1>4. Kept BY <1>2 DEF Kept, KeptBy
<1>5. Idle BY DEF Idle
<1>6. QED BY <1>1, <1>3, <1>4, <1>5 DEF ServeInv

\* The places where a step of the pair can take a process, the trust
\* operation aside.
LEMMA Moves ==
    ASSUME TypeOK, LockHeld, NEW p \in Proc, Step(p) \/ Proceed(p)
    PROVE  /\ \A q \in Proc \ {p} : /\ pc'[q] = pc[q]
                                    /\ read'[q] = read[q] /\ served'[q] = served[q]
           /\ pc[p] \in Relying => pc'[p] \in Relying
           /\ pc'[p] \in {"ensured", "loading", "serving", "done"} =>
                \/ pc[p] = "release" /\ lock' = NoProc
                \/ /\ pc[p] \in {"ensured", "loading", "serving", "done"}
                   /\ lock' = lock
           /\ cmd' = cmd
           /\ \A q \in Proc : renewed[q] => renewed'[q]
           /\ lock' \in {lock, NoProc, p}
           /\ lock' = p /\ lock # p => /\ renewed' = Overlapped(p)
                                       /\ pc[p] = "lock"
                                       /\ pc'[p] \in {"removeCert", "inspect"}
<1> USE DEF LockHeld, Holding, Goto, TypeOK, fixed, files, daemons, Relying
<1>1. CASE Begin(p)
  <2>1. \E l \in {"refused", "lock"} : pc' = [pc EXCEPT ![p] = l]
    BY <1>1 DEF Begin
  <2>2. QED BY <1>1, <2>1 DEF Begin
<1>2. CASE acquirePairLock(p) \/ LockError(p)
  BY <1>2 DEF acquirePairLock, LockError, Overlapped
<1>3. CASE Inspect(p)
  <2>1. Verdict \in {"generate", "release", "fail"} BY DEF Verdict
  <2>2. QED BY <1>3, <2>1 DEF Inspect
<1>4. CASE RemoveCert(p) \/ RemoveKey(p) BY <1>4 DEF RemoveCert, RemoveKey
<1>5. CASE Generate(p) BY <1>5 DEF Generate
<1>6. CASE OpenCert(p) \/ WriteCert(p) BY <1>6 DEF OpenCert, WriteCert
<1>7. CASE OpenKey(p) \/ WriteKey(p) BY <1>7 DEF OpenKey, WriteKey
<1>8. CASE Verify(p) BY <1>8 DEF Verify
<1>9. CASE FileError(p) BY <1>9 DEF FileError
<1>10. CASE Release(p) BY <1>10 DEF Release
<1>11. ASSUME NEW l \in Listener, ReadCert(p, l)
       PROVE  /\ pc[p] = "loading" /\ pc'[p] \in {"down", "loading"}
              /\ UNCHANGED <<lock, cmd, renewed, served>>
              /\ \A q \in Proc \ {p} : pc'[q] = pc[q] /\ read'[q] = read[q]
  BY <1>11 DEF ReadCert
<1>12. ASSUME NEW l \in Listener, ReadKey(p, l)
       PROVE  /\ pc[p] = "loading" /\ pc'[p] \in {"down", "loading", "serving"}
              /\ UNCHANGED <<lock, cmd, renewed, read>>
              /\ \A q \in Proc \ {p} : pc'[q] = pc[q] /\ served'[q] = served[q]
  BY <1>12 DEF ReadKey
<1>13. CASE Proceed(p) BY <1>13 DEF Proceed
<1>14. CASE Crash(p) BY <1>14, TlsPairAssumption DEF Crash, Ended
<1>15. QED
  BY <1>1, <1>2, <1>3, <1>4, <1>5, <1>6, <1>7, <1>8, <1>9, <1>10, <1>11, <1>12,
     <1>13, <1>14 DEF Step, Working

\* Whoever counts on the pair is marked when a renewal gets the lock.
LEMMA OverlapStep ==
    ASSUME TypeOK, PairInv, Reported, Overlap,
           NEW p \in Proc, Step(p) \/ Proceed(p), UNCHANGED trustVars
    PROVE  Reported' /\ Overlap'
<1> USE DEF PairInv
<1>1. /\ \A q \in Proc \ {p} : pc'[q] = pc[q]
      /\ pc[p] \in Relying => pc'[p] \in Relying
      /\ pc'[p] \in {"ensured", "loading", "serving", "done"} =>
           \/ pc[p] = "release" /\ lock' = NoProc
           \/ /\ pc[p] \in {"ensured", "loading", "serving", "done"}
              /\ lock' = lock
      /\ cmd' = cmd
      /\ \A q \in Proc : renewed[q] => renewed'[q]
      /\ lock' \in {lock, NoProc, p}
      /\ lock' = p /\ lock # p => /\ renewed' = Overlapped(p)
                                  /\ pc[p] = "lock"
                                  /\ pc'[p] \in {"removeCert", "inspect"}
  BY Moves
<1>2. Reported' BY <1>1 DEF Reported, trustVars
<1>3. Overlap'
  <2> SUFFICES ASSUME NEW q \in Proc, NEW r \in Proc,
                      lock' = r, cmd'[r] = "renew", Relies(q)'
               PROVE  renewed'[q]
    BY DEF Overlap
  <2>1. CASE lock = r
    <3>1. Relies(q)
      BY <1>1, <2>1, TlsPairAssumption DEF Relies, trustVars
    <3>2. QED BY <1>1, <2>1, <3>1 DEF Overlap
  <2>2. CASE lock # r
    <3>1. /\ r = p /\ renewed' = Overlapped(p) /\ cmd[p] = "renew"
          /\ pc[p] = "lock" /\ pc'[p] \in {"removeCert", "inspect"}
      BY <1>1, <2>2, TlsPairAssumption
    <3>2. pc[q] \in Relying
      <4>1. said'[q] = said[q] /\ step'[q] = step[q] BY DEF trustVars
      <4>2. CASE said[q] # "nothing" BY <4>1, <4>2 DEF Reported
      <4>3. CASE said[q] = "nothing"
        <5>1. pc'[q] \in {"ensured", "loading", "serving", "done"}
          BY <4>1, <4>3 DEF Relies
        <5>2. q # p BY <3>1, <5>1
        <5>3. QED BY <1>1, <5>1, <5>2 DEF Relying
      <4>4. QED BY <4>2, <4>3
    <3>3. QED BY <3>1, <3>2 DEF Overlapped
  <2>3. QED BY <2>1, <2>2
<1>4. QED BY <1>2, <1>3

\* A step that changes a pair that loads is a renewal's first removal.
LEMMA OnlyRemoveCert ==
    ASSUME TypeOK, PairInv, NEW p \in Proc, Step(p) \/ Proceed(p),
           Loads(cert, key), <<cert', key'>> # <<cert, key>>
    PROVE  RemoveCert(p) /\ lock = p /\ cmd[p] = "renew" /\ Allowed(p)
<1> USE DEF PairInv
<1>1. FilesAt(p) /\ Entitled(p) /\ Made(p) BY DEF Progress
<1>2. cert # Missing /\ cert # Torn /\ key # Missing /\ key # Torn
  BY DEF Loads, Pair, Missing, Torn
<1>3. RemoveCert(p)
  BY <1>1, <1>2
     DEF Step, Working, Begin, LockError, acquirePairLock, Inspect, RemoveCert,
         RemoveKey, Generate,
         OpenCert, WriteCert, OpenKey, WriteKey, Verify, FileError, Release, ReadCert,
         ReadKey, Crash, Proceed, files, FilesAt
<1>4. lock = p BY <1>3 DEF RemoveCert, LockHeld, Holding
<1>5. cmd[p] = "renew" /\ Allowed(p) BY <1>1, <1>3 DEF RemoveCert, Entitled
<1>6. QED BY <1>3, <1>4, <1>5

\* A listener reads nothing before its daemon gets there.
LEMMA IdleStep ==
    ASSUME TypeOK, LockHeld, Idle, NEW p \in Proc, Step(p) \/ Proceed(p)
    PROVE  Idle'
<1>1. \A q \in Proc \ {p} : pc'[q] = pc[q] /\ read'[q] = read[q] /\ served'[q] = served[q]
  BY Moves
<1> SUFFICES ASSUME pc'[p] \notin {"loading", "serving", "down", "dead"}, NEW l \in Listener
             PROVE  read'[p][l] = Missing /\ served'[p][l] = Missing
  BY <1>1 DEF Idle
<1>2. /\ UNCHANGED <<read, served>>
      /\ pc[p] \notin {"loading", "serving", "down", "dead"}
  BY DEF Step, Working, Begin, LockError, acquirePairLock, Inspect, RemoveCert,
         RemoveKey, Generate,
         OpenCert, WriteCert, OpenKey, WriteKey, Verify, FileError, Release, ReadCert,
         ReadKey, Crash, Proceed, TypeOK, Goto, daemons, Ended
<1>3. QED BY <1>2 DEF Idle

\* Who is not overlapped keeps the pair through the steps of others.
LEMMA OthersKept ==
    ASSUME TypeOK, PairInv, Reported, Overlap, Kept,
           NEW p \in Proc, Step(p) \/ Proceed(p), UNCHANGED trustVars,
           NEW q \in Proc \ {p}
    PROVE  KeptBy(q)'
<1>1. /\ pc'[q] = pc[q] /\ read'[q] = read[q] /\ served'[q] = served[q]
      /\ renewed[q] => renewed'[q]
  BY Moves DEF PairInv
<1>2. said'[q] = said[q] BY DEF trustVars
<1>3. KeptBy(q) BY DEF Kept
<1>4. Relies(q) /\ ~renewed[q] => cert' = cert /\ key' = key
  <2> SUFFICES ASSUME Relies(q), ~renewed[q], <<cert', key'>> # <<cert, key>> PROVE FALSE
    OBVIOUS
  <2>1. Loads(cert, key) BY <1>3 DEF KeptBy
  <2>2. lock = p /\ cmd[p] = "renew" BY <2>1, OnlyRemoveCert
  <2>3. QED BY <2>2 DEF Overlap
<1>5. QED BY <1>1, <1>2, <1>3, <1>4 DEF KeptBy, Relies, Loads

\* Who is not overlapped keeps the pair through its own steps: EnsurePair
\* leaves it, and the listeners read no other.
LEMMA OwnKept ==
    ASSUME TypeOK, PairInv, Reported, Overlap, Kept, Idle,
           NEW p \in Proc, Step(p) \/ Proceed(p), UNCHANGED trustVars
    PROVE  KeptBy(p)'
<1> SUFFICES ASSUME ~renewed'[p]
             PROVE  /\ pc'[p] # "down"
                    /\ Relies(p)' =>
                         /\ Loads(cert', key')
                         /\ \A l \in Listener : /\ read'[p][l] \in {Missing, cert'}
                                                /\ served'[p][l] \in {Missing, cert'}
  BY DEF KeptBy, Loads
<1> USE DEF PairInv, Goto, TypeOK, fixed, files, daemons
<1>1. ~renewed[p] BY Moves
<1>2. KeptBy(p) BY DEF Kept
<1>3. said' = said BY DEF trustVars
<1>4. FilesAt(p) BY DEF Progress
<1>5. said[p] # "nothing" => pc[p] \in Relying BY DEF Reported
<1>6. ASSUME pc[p] \notin Relying, pc'[p] \notin Relying
      PROVE  pc'[p] # "down" /\ ~Relies(p)'
  BY <1>3, <1>5, <1>6 DEF Relies, Relying
<1>7. CASE Begin(p) BY <1>6, <1>7 DEF Begin, Relying
<1>8. CASE acquirePairLock(p) \/ LockError(p)
  BY <1>6, <1>8 DEF acquirePairLock, LockError, Relying
<1>9. CASE Inspect(p)
  <2>1. Verdict \notin Relying BY DEF Verdict, Relying
  <2>2. QED BY <1>6, <1>9, <2>1 DEF Inspect, Relying
<1>10. CASE RemoveCert(p) \/ RemoveKey(p)
  BY <1>6, <1>10 DEF RemoveCert, RemoveKey, Relying
<1>11. CASE Generate(p) BY <1>6, <1>11 DEF Generate, Relying
<1>12. CASE OpenCert(p) \/ WriteCert(p)
  BY <1>6, <1>12 DEF OpenCert, WriteCert, Relying
<1>13. CASE OpenKey(p) \/ WriteKey(p)
  BY <1>6, <1>13 DEF OpenKey, WriteKey, Relying
<1>14. CASE Verify(p) BY <1>6, <1>14 DEF Verify, Relying
<1>15. CASE FileError(p) BY <1>6, <1>15 DEF FileError, Relying
<1>16. CASE Release(p)
  <2>1. CASE pc[p] = "fail" BY <1>6, <1>16, <2>1 DEF Release, Relying
  <2>2. CASE pc[p] = "release"
    <3>1. Loads(cert, key) BY <1>4, <2>2 DEF FilesAt
    <3>2. \A l \in Listener : read[p][l] = Missing /\ served[p][l] = Missing
      BY <2>2 DEF Idle
    <3>3. pc'[p] = "ensured" /\ UNCHANGED <<cert, key, read, served>>
      BY <1>16, <2>2 DEF Release
    <3>4. QED BY <3>1, <3>2, <3>3
  <2>3. QED BY <1>16, <2>1, <2>2 DEF Release
<1>17. ASSUME pc[p] = "loading"
       PROVE  /\ Loads(cert, key)
              /\ \A l \in Listener : /\ read[p][l] \in {Missing, cert}
                                     /\ served[p][l] \in {Missing, cert}
  BY <1>1, <1>2, <1>17 DEF KeptBy, Relies
<1>18. ASSUME NEW l \in Listener, ReadCert(p, l)
       PROVE  /\ pc'[p] # "down" /\ Loads(cert', key')
              /\ \A m \in Listener : /\ read'[p][m] \in {Missing, cert'}
                                     /\ served'[p][m] \in {Missing, cert'}
  <2>1. pc[p] = "loading" BY <1>18 DEF ReadCert
  <2>2. cert # Missing BY <1>17, <2>1 DEF Loads, Pair, Missing
  <2>3. /\ read' = [read EXCEPT ![p][l] = cert]
        /\ UNCHANGED <<pc, cert, key, served>>
    BY <1>18, <2>2 DEF ReadCert
  <2>4. \A m \in Listener : read'[p][m] \in {read[p][m], cert} BY <2>3
  <2>5. QED BY <1>17, <2>1, <2>3, <2>4
<1>19. ASSUME NEW l \in Listener, ReadKey(p, l)
       PROVE  /\ pc'[p] # "down" /\ Loads(cert', key')
              /\ \A m \in Listener : /\ read'[p][m] \in {Missing, cert'}
                                     /\ served'[p][m] \in {Missing, cert'}
  <2>1. pc[p] = "loading" /\ read[p][l] # Missing BY <1>19 DEF ReadKey
  <2>2. Loads(read[p][l], key) /\ key = cert BY <1>17, <2>1 DEF Loads
  <2>3. /\ served' = [served EXCEPT ![p][l] = key]
        /\ UNCHANGED <<cert, key, read>>
        /\ pc'[p] \in {"serving", "loading"}
    BY <1>19, <2>2 DEF ReadKey
  <2>4. \A m \in Listener : served'[p][m] \in {served[p][m], key} BY <2>3
  <2>5. QED BY <1>17, <2>1, <2>2, <2>3, <2>4
<1>20. CASE Proceed(p) BY <1>1, <1>2, <1>20 DEF Proceed, KeptBy, Relies
<1>21. CASE Crash(p)
  BY <1>1, <1>2, <1>3, <1>21 DEF Crash, KeptBy, Relies
<1>22. QED
  BY <1>7, <1>8, <1>9, <1>10, <1>11, <1>12, <1>13, <1>14, <1>15, <1>16, <1>18, <1>19,
     <1>20, <1>21 DEF Step, Working

\* What a trust operation reports and where that leaves it.
LEMMA Reports ==
    ASSUME TypeOK, TrustTypeOK, NEW p \in Proc, Trusting(p)
    PROVE  /\ pc[p] = "ensured" /\ step[p] # "settled"
           /\ \A q \in Proc \ {p} : step'[q] = step[q] /\ said'[q] = said[q]
           /\ said'[p] # said[p] => step'[p] = "settled"
<1> USE DEF TrustTypeOK, At, To, Say
<1>1. CASE Skip(p) \/ Insist(p) BY <1>1 DEF Skip, Insist
<1>2. CASE Ask(p)
  <2>1. \/ /\ step' = [step EXCEPT ![p] = "settled"]
           /\ said' = [said EXCEPT ![p] = "already"]
        \/ said' = said /\ step' = [step EXCEPT ![p] = "install"]
    BY <1>2 DEF Ask
  <2>2. QED BY <1>2, <2>1 DEF Ask
<1>3. CASE CopyAnchor(p) \/ RemoveAnchor(p) BY <1>3 DEF CopyAnchor, RemoveAnchor
<1>4. CASE UpdateStore(p) BY <1>4 DEF UpdateStore
<1>5. CASE AddCert(p) BY <1>5 DEF AddCert
<1>6. CASE RemoveByFile(p) BY <1>6 DEF RemoveByFile, Removed
<1>7. CASE RemoveByName(p) BY <1>7 DEF RemoveByName, Removed
<1>8. CASE ToolFails(p) BY <1>8 DEF ToolFails
<1>9. QED BY <1>1, <1>2, <1>3, <1>4, <1>5, <1>6, <1>7, <1>8 DEF Trusting, UseTools

\* Every step keeps what those outside the lock rely on.
LEMMA ServeInvStep ==
    TypeOK /\ TrustTypeOK /\ PairInv /\ ServeInv /\ [TrustNext]_vars => ServeInv'
<1> SUFFICES ASSUME TypeOK, TrustTypeOK, PairInv, ServeInv, [TrustNext]_vars
             PROVE  ServeInv'
  OBVIOUS
<1> USE DEF ServeInv
<1>1. ASSUME NEW p \in Proc, Step(p) \/ Proceed(p), UNCHANGED trustVars
      PROVE  ServeInv'
  <2>1. Reported' /\ Overlap' BY <1>1, OverlapStep
  <2>2. Idle' BY <1>1, IdleStep DEF PairInv
  <2>3. \A q \in Proc \ {p} : KeptBy(q)' BY <1>1, OthersKept
  <2>4. KeptBy(p)' BY <1>1, OwnKept
  <2>5. Kept' BY <2>3, <2>4 DEF Kept
  <2>6. QED BY <2>1, <2>2, <2>5
<1>2. ASSUME NEW p \in Proc, Trusting(p) PROVE ServeInv'
  <2>1. UNCHANGED <<cert, key, lock, pc, cmd, read, served, renewed>>
    BY <1>2, TrustType
  <2>2. /\ pc[p] = "ensured" /\ step[p] # "settled"
        /\ \A q \in Proc \ {p} : step'[q] = step[q] /\ said'[q] = said[q]
        /\ said'[p] # said[p] => step'[p] = "settled"
    BY <1>2, Reports
  <2>3. Reported' BY <2>1, <2>2 DEF Reported, Relying
  <2>4. \A q \in Proc : Relies(q)' => Relies(q) BY <2>1, <2>2 DEF Relies
  <2>5. Overlap' BY <2>1, <2>4 DEF Overlap
  <2>6. Kept' BY <2>1, <2>4 DEF Kept, KeptBy, Loads
  <2>7. Idle' BY <2>1 DEF Idle
  <2>8. QED BY <2>3, <2>5, <2>6, <2>7
<1>3. CASE UNCHANGED vars
  BY <1>3 DEF vars, pairVars, trustVars, Reported, Overlap, Kept, KeptBy, Idle, Relies,
              Loads
<1>4. QED BY <1>1, <1>2, <1>3 DEF TrustNext, Settled

(***************************************************************************)
(* The trust store.                                                        *)
(***************************************************************************)
\* What an operation of p that nobody meddles with has achieved.
AchievedBy(p) ==
    ~renewed[p] /\ ~meddled[p] =>
        /\ At(p, {"start", "trust"}, "update") => anchor = cert
        /\ said[p] = "trusted" => cert \in store

Achieved == \A p \in Proc : AchievedBy(p)

IInv == TypeOK /\ TrustTypeOK /\ PairInv /\ ServeInv /\ Achieved

\* The steps of the pair take nothing from whoever no renewal overlaps.
LEMMA PairKeepsAchieved ==
    ASSUME IInv, NEW p \in Proc, Step(p) \/ Proceed(p), UNCHANGED trustVars
    PROVE  Achieved'
<1> USE DEF IInv, PairInv, ServeInv
<1> SUFFICES ASSUME NEW q \in Proc PROVE AchievedBy(q)'
  BY DEF Achieved
<1>1. AchievedBy(q) BY DEF Achieved
<1>2. /\ \A r \in Proc \ {p} : pc'[r] = pc[r]
      /\ pc'[p] \in {"ensured", "loading", "serving", "done"} =>
           \/ pc[p] = "release" /\ lock' = NoProc
           \/ pc[p] \in {"ensured", "loading", "serving", "done"} /\ lock' = lock
      /\ cmd' = cmd
      /\ renewed[q] => renewed'[q]
  BY Moves
<1>3. UNCHANGED <<anchor, store, step, said, meddled>> BY DEF trustVars
<1>4. Relies(q) /\ ~renewed[q] => cert' = cert
  <2> SUFFICES ASSUME Relies(q), ~renewed[q], <<cert', key'>> # <<cert, key>> PROVE FALSE
    OBVIOUS
  <2>1. Loads(cert, key) BY DEF Kept, KeptBy
  <2>2. lock = p /\ cmd[p] = "renew" BY <2>1, OnlyRemoveCert
  <2>3. QED BY <2>2 DEF Overlap
<1>5. (At(q, {"start", "trust"}, "update"))' => /\ Relies(q)
                                                /\ At(q, {"start", "trust"}, "update")
  <2> SUFFICES ASSUME pc'[q] = "ensured", step'[q] = "update",
                      cmd'[q] \in {"start", "trust"}
               PROVE  pc[q] \in {"ensured", "loading", "serving", "done"}
                      /\ pc[q] = "ensured"
    BY <1>2, <1>3 DEF At, Relies
  <2>1. pc[q] \in Relying BY <1>3 DEF Reported
  <2>2. CASE q # p BY <1>2, <2>2
  <2>3. CASE q = p
    <3>1. pc[p] \in {"ensured", "loading", "serving", "done"}
      BY <1>2, <2>1, <2>3 DEF Relying
    <3>2. pc[p] \notin {"loading", "serving", "done"}
      BY <2>3, <3>1
         DEF Step, Working, Begin, LockError, acquirePairLock, Inspect, RemoveCert, RemoveKey,
             Generate, OpenCert, WriteCert, OpenKey, WriteKey, Verify, FileError, Release,
             ReadCert, ReadKey, Crash, Proceed, TypeOK, Goto
    <3>3. QED BY <2>3, <3>1, <3>2
  <2>4. QED BY <2>2, <2>3
<1>6. said[q] = "trusted" => Relies(q) BY DEF Relies
<1>7. QED BY <1>1, <1>2, <1>3, <1>4, <1>5, <1>6 DEF AchievedBy

\* A trust operation of p achieves what it reports, and marks everybody else
\* it may disturb.
LEMMA TrustKeepsAchieved ==
    ASSUME IInv, NEW p \in Proc, Trusting(p)
    PROVE  Achieved'
<1> USE DEF IInv, PairInv, ServeInv, TrustTypeOK
<1> SUFFICES ASSUME NEW q \in Proc, ~renewed'[q], ~meddled'[q]
             PROVE  /\ At(q, {"start", "trust"}, "update")' => anchor' = cert'
                    /\ said'[q] = "trusted" => cert' \in store'
  BY DEF Achieved, AchievedBy
<1>1. UNCHANGED <<cert, key, pc, cmd, renewed, os>> BY TrustType
<1>2. /\ pc[p] = "ensured" /\ step[p] # "settled"
      /\ \A r \in Proc \ {p} : step'[r] = step[r] /\ said'[r] = said[r]
  BY Reports
<1>3. said[q] # "nothing" => pc[q] \in Relying /\ step[q] = "settled"
  BY DEF Reported
<1>4. CASE q # p
  <2>1. ~meddled[q] /\ (pc[q] \in Relying => anchor' = anchor /\ store' = store)
    BY <1>4
       DEF Trusting, UseTools, Skip, Insist, Ask, CopyAnchor, RemoveAnchor, UpdateStore,
           AddCert, RemoveByFile, RemoveByName, Removed, ToolFails, Meddle
  <2>2. AchievedBy(q) BY DEF Achieved
  <2>3. step'[q] = step[q] /\ said'[q] = said[q] BY <1>2, <1>4
  <2>4. QED BY <1>1, <1>3, <2>1, <2>2, <2>3 DEF AchievedBy, At, Relying
<1>5. CASE q = p
  <2>1. said[p] = "nothing" BY <1>2, <1>3, <1>5
  <2>2. ~meddled[p] /\ ~renewed[p]
    BY <1>1, <1>5
       DEF Trusting, UseTools, Skip, Insist, Ask, CopyAnchor, RemoveAnchor, UpdateStore,
           AddCert, RemoveByFile, RemoveByName, Removed, ToolFails, Meddle
  <2>3. Loads(cert, key)
    BY <1>2, <2>2 DEF Kept, KeptBy, Relies
  <2>4. AchievedBy(p) BY DEF Achieved
  <2> USE <1>1, <2>1 DEF At, To, Say
  <2>5. CASE Skip(p) \/ Insist(p) BY <1>5, <2>5 DEF Skip, Insist
  <2>6. CASE Ask(p)
    <3>1. step'[p] \in {"settled", "install"} /\ said'[p] \in {"already", "nothing"}
      BY <2>6 DEF Ask
    <3>2. QED BY <1>5, <3>1
  <2>7. CASE CopyAnchor(p) BY <1>5, <2>7 DEF CopyAnchor
  <2>8. CASE RemoveAnchor(p) BY <1>5, <2>8 DEF RemoveAnchor
  <2>9. CASE UpdateStore(p)
    <3>1. step'[p] = "settled" BY <2>9 DEF UpdateStore
    <3>2. ASSUME said'[p] = "trusted" PROVE cert' \in store'
      <4>1. At(p, {"start", "trust"}, "update")
        BY <2>9, <3>2 DEF UpdateStore
      <4>2. anchor = cert BY <2>2, <2>4, <4>1 DEF AchievedBy
      <4>3. cert \in Pair BY <2>3 DEF Loads
      <4>4. QED BY <2>9, <4>2, <4>3 DEF UpdateStore
    <3>3. QED BY <1>5, <3>1, <3>2
  <2>10. CASE AddCert(p) BY <1>5, <2>10 DEF AddCert
  <2>11. CASE RemoveByFile(p) \/ RemoveByName(p)
    BY <1>5, <2>11 DEF RemoveByFile, RemoveByName, Removed
  <2>12. CASE ToolFails(p) BY <1>5, <2>12 DEF ToolFails
  <2>13. QED
    BY <2>5, <2>6, <2>7, <2>8, <2>9, <2>10, <2>11, <2>12 DEF Trusting, UseTools
<1>6. QED BY <1>4, <1>5

\* The inductive invariant of the pair and the store.
LEMMA Inductive ==
    /\ TrustInit => IInv
    /\ IInv /\ [TrustNext]_vars => IInv'
<1>1. TrustInit => IInv
  <2>1. TrustInit => Achieved
    BY DEF TrustInit, Init, Achieved, AchievedBy, At
  <2>2. QED BY <2>1, InitType, InitPairInv, InitServeInv DEF IInv
<1>2. ASSUME IInv, [TrustNext]_vars PROVE IInv'
  <2>1. TypeOK' /\ TrustTypeOK' /\ PairInv' /\ ServeInv'
    BY <1>2, TypeStep, PairInvStep, ServeInvStep DEF IInv
  <2>2. ASSUME UNCHANGED vars PROVE Achieved'
    BY <1>2, <2>2 DEF vars, pairVars, trustVars, IInv, Achieved, AchievedBy, At
  <2>3. Achieved'
    BY <1>2, <2>2, PairKeepsAchieved, TrustKeepsAchieved DEF TrustNext, Settled
  <2>4. QED BY <2>1, <2>3 DEF IInv
<1>3. QED BY <1>1, <1>2

\* The inductive invariant holds.
LEMMA AlwaysIInv == TrustSpec => []IInv
<1>1. TrustInit => IInv BY Inductive
<1>2. IInv /\ [TrustNext]_vars => IInv' BY Inductive
<1>3. QED BY <1>1, <1>2, PTL DEF TrustSpec

\* A daemon whose start no renewal overlaps serves on each of its listeners
\* the one pair EnsurePair left behind and never fails to load it.
THEOREM ServesCorrect == TrustSpec => []StartServesWhatItChecked
<1>1. IInv => StartServesWhatItChecked
  BY DEF IInv, ServeInv, Kept, KeptBy, Relies, StartServesWhatItChecked
<1>2. QED BY <1>1, AlwaysIInv, PTL

\* What `trust` or auto_trust reports as trusted is in the store, and is what
\* the daemon serves, until a renewal or another trust operation comes between.
THEOREM TrustCorrect == TrustSpec => []TrustedIsTrusted
<1>1. IInv => TrustedIsTrusted
  <2> SUFFICES ASSUME IInv, NEW p \in Proc, said[p] = "trusted", ~renewed[p], ~meddled[p]
               PROVE  /\ cert \in store
                      /\ \A l \in Listener : served[p][l] \in store \cup {Missing}
    BY DEF TrustedIsTrusted
  <2>1. cert \in store BY DEF IInv, Achieved, AchievedBy
  <2>2. \A l \in Listener : served[p][l] \in {Missing, cert}
    BY DEF IInv, ServeInv, Kept, KeptBy, Relies
  <2>3. QED BY <2>1, <2>2
<1>2. QED BY <1>1, AlwaysIInv, PTL

\* A pair that loads goes only by a renewal that holds the lock, and one the
\* user configured only by a forced one.
THEOREM ReplaceCorrect == TrustSpec => OnlyRenewalsReplace
<1> DEFINE Replaced ==
      Loads(cert, key) /\ <<cert', key'>> # <<cert, key>> =>
         \E p \in Proc : /\ lock = p /\ cmd[p] = "renew"
                         /\ managed \/ forced[p]
<1>1. ASSUME IInv, [TrustNext]_vars PROVE [Replaced]_pairVars
  <2>1. ASSUME NEW p \in Proc, Step(p) \/ Proceed(p) PROVE Replaced
    BY <1>1, <2>1, OnlyRemoveCert DEF IInv, Allowed
  <2>2. ASSUME NEW p \in Proc, Trusting(p) PROVE Replaced
    BY <1>1, <2>2, TrustType DEF IInv
  <2>3. CASE UNCHANGED vars BY <2>3 DEF vars
  <2>4. QED BY <1>1, <2>1, <2>2, <2>3 DEF TrustNext, Settled
<1>2. IInv /\ [TrustNext]_vars => [Replaced]_pairVars BY <1>1
<1> HIDE DEF Replaced
<1>3. TrustSpec => [][Replaced]_pairVars
  BY <1>2, AlwaysIInv, PTL DEF TrustSpec
<1>4. QED BY <1>3, PTL DEF OnlyRenewalsReplace, Replaced

=============================================================================
