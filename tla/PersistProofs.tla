--------------------------- MODULE PersistProofs ---------------------------
(***************************************************************************)
(* Proofs about Persist, for any number of commands, apps, saves and       *)
(* starts, and any base domain.                                            *)
(*                                                                         *)
(* The invariant behind them: while an append holds the lock, what it has  *)
(* read contains all that is kept (Basis).  Another append cannot come     *)
(* between, and an editor or `init` either adds to the file or empties     *)
(* kept.  What an append installs is what it has checked (Checked),        *)
(* whatever became of the file meanwhile; and what a starting daemon has   *)
(* loaded contains all that was kept when it did (BootBasis).  That a      *)
(* persisted route stays served follows from a second one about the        *)
(* daemon's table (DInv): what is not lost is there as it was exposed or   *)
(* as an entry of the file, which a reload finds there because nothing     *)
(* persisted is lost, and a start because of BootBasis.                    *)
(***************************************************************************)
EXTENDS Persist, TLAPS

Text == Seq(Request) \cup {NoFile, Garbled}

Where == {"idle", "refused", "live", "locked", "read", "checked", "done",
          "unpersisted", "stated"}

\* The part of the types that the file is about.
FileType ==
    /\ file \in Text
    /\ lock \in Exposer \cup {NoOne}
    /\ pc \in [Exposer \cup Creator -> Where]
    /\ app \in [Exposer -> Request]
    /\ seen \in [Exposer -> Text]
    /\ kept \subseteq Exposer

\* The lock is with the append that is under way.
LockHeld ==
    \A e \in Exposer : pc[e] \in {"locked", "read", "checked"} <=> lock = e

KeptIsDone == \A e \in kept : pc[e] = "done"

\* An append has read all that is kept.
Basis ==
    \A e \in Exposer : pc[e] \in {"read", "checked"} =>
        AppsOf(kept) \subseteq Blocks(seen[e])

\* What it is about to install is what it has checked.
Checked == \A e \in Exposer : pc[e] = "checked" => Valid(Appended(e))

IInv == FileType /\ LockHeld /\ KeptIsDone /\ Basis /\ Checked /\ NothingPersistedIsLost

\* An app block is in what it is appended to, and so is all that was there.
LEMMA AppendBlocks ==
    ASSUME NEW s \in Seq(Request), NEW z \in Request
    PROVE  /\ Append(s, z) \in Seq(Request)
           /\ Blocks(Append(s, z)) = Blocks(s) \cup {z}
<1>1. /\ Append(s, z) \in Seq(Request)
      /\ Len(Append(s, z)) = Len(s) + 1
      /\ \A i \in 1 .. Len(s) : Append(s, z)[i] = s[i]
      /\ Append(s, z)[Len(s) + 1] = z
  OBVIOUS
<1>2. /\ Len(s) \in Nat
      /\ DOMAIN s = 1 .. Len(s)
      /\ DOMAIN Append(s, z) = 1 .. Len(s) + 1
      /\ 1 .. Len(s) + 1 = 1 .. Len(s) \cup {Len(s) + 1}
  BY <1>1
<1>3. s \notin {NoFile, Garbled} /\ Append(s, z) \notin {NoFile, Garbled}
  BY <1>1, PersistAssumption
<1>4. QED BY <1>1, <1>2, <1>3 DEF Blocks

\* What an append installs: a sequence with what it read and its own block.
LEMMA AppendedBlocks ==
    ASSUME FileType, NEW e \in Exposer, Valid(Appended(e))
    PROVE  /\ Appended(e) \in Seq(Request)
           /\ Blocks(Appended(e)) = Blocks(seen[e]) \cup {app[e]}
<1> USE PersistAssumption
<1>1. seen[e] \in Text /\ app[e] \in Request BY DEF FileType
<1>2. CASE seen[e] = NoFile
  <2>1. Appended(e) = <<app[e]>> BY <1>2 DEF Appended
  <2>2. /\ <<app[e]>> \in Seq(Request) /\ DOMAIN <<app[e]>> = {1}
        /\ <<app[e]>>[1] = app[e]
    BY <1>1
  <2>3. <<app[e]>> \notin {NoFile, Garbled} BY <2>2
  <2>4. QED BY <1>2, <2>1, <2>2, <2>3 DEF Blocks
<1>3. CASE seen[e] = Garbled
  <2>1. Appended(e) = Garbled BY <1>3 DEF Appended
  <2>2. QED BY <2>1 DEF Valid
<1>4. CASE seen[e] \in Seq(Request)
  <2>1. Appended(e) = Append(seen[e], app[e]) BY <1>4 DEF Appended
  <2>2. QED BY <1>1, <1>4, <2>1, AppendBlocks
<1>5. QED BY <1>1, <1>2, <1>3, <1>4 DEF Text

\* Nothing is kept and nobody has begun.
LEMMA InitIInv == Init => IInv
<1> SUFFICES ASSUME Init PROVE IInv
  OBVIOUS
<1> USE PersistAssumption DEF Init
<1>1. FileType
  <2>1. <<>> \in Seq(Request) OBVIOUS
  <2>2. QED BY <2>1 DEF FileType, Text, Where
<1>2. LockHeld /\ KeptIsDone /\ Basis /\ Checked
  BY DEF LockHeld, KeptIsDone, Basis, Checked
<1>3. NothingPersistedIsLost BY DEF NothingPersistedIsLost, AppsOf
<1>4. QED BY <1>1, <1>2, <1>3 DEF IInv

\* What is said of the file and of what is kept, with both unchanged.
LEMMA FileAlone ==
    ASSUME IInv, UNCHANGED <<file, kept>>, \A e \in kept : app'[e] = app[e]
    PROVE  AppsOf(kept)' = AppsOf(kept) /\ NothingPersistedIsLost'
<1>1. AppsOf(kept)' = AppsOf(kept) BY DEF AppsOf
<1>2. QED BY <1>1 DEF IInv, NothingPersistedIsLost, Blocks

\* The steps that leave the file and what is kept alone, and move one command
\* to a place where it claims nothing about them.
LEMMA Elsewhere ==
    ASSUME IInv, NEW c \in Exposer \cup Creator, c \notin kept,
           UNCHANGED <<file, kept>>,
           app' \in [Exposer -> Request], seen' \in [Exposer -> Text],
           \A e \in Exposer : e # c => app'[e] = app[e] /\ seen'[e] = seen[e],
           NEW l \in {"refused", "live", "done", "unpersisted", "stated"},
           pc' = [pc EXCEPT ![c] = l],
           \/ lock' = lock /\ pc[c] \notin {"locked", "read", "checked"}
           \/ c \in Exposer /\ lock' = (IF lock = c THEN NoOne ELSE lock)
    PROVE  IInv'
<1> USE PersistAssumption DEF IInv
<1>1. FileType' BY DEF FileType, Where
<1>2. \A e \in Exposer : e # c => pc'[e] = pc[e] BY DEF FileType
<1>3. c \in Exposer => pc'[c] = l BY DEF FileType
<1>4. LockHeld' BY <1>2, <1>3 DEF LockHeld
<1>5. KeptIsDone' BY <1>2 DEF KeptIsDone, FileType
<1>6. \A e \in kept : app'[e] = app[e] BY DEF FileType
<1>7. AppsOf(kept)' = AppsOf(kept) /\ NothingPersistedIsLost'
  BY <1>6, FileAlone
<1>8. Basis' BY <1>2, <1>3, <1>7 DEF Basis, Blocks
<1>9. Checked' BY <1>2, <1>3 DEF Checked, Valid, Appended
<1>10. QED BY <1>1, <1>4, <1>5, <1>7, <1>8, <1>9

\* Editors and `init` leave the commands alone, and what they write either
\* holds what the file held or nothing is kept any more.
LEMMA OtherWriters ==
    ASSUME IInv, NEW f \in Text, file' = f,
           \/ kept' = {}
           \/ kept' = kept /\ Blocks(file) \subseteq Blocks(f),
           UNCHANGED <<lock, app, seen>>,
           pc' \in [Exposer \cup Creator -> Where],
           \A e \in Exposer : pc'[e] = pc[e]
    PROVE  IInv'
<1> USE PersistAssumption DEF IInv
<1>1. FileType' BY DEF FileType
<1>2. LockHeld' BY DEF LockHeld
<1>3. KeptIsDone' BY DEF KeptIsDone, FileType
<1>4. AppsOf(kept)' \subseteq AppsOf(kept) BY DEF AppsOf
<1>5. Basis' BY <1>4 DEF Basis, Blocks
<1>6. Checked' BY DEF Checked, Valid, Appended
<1>7. NothingPersistedIsLost'
  <2>1. Blocks(file)' = Blocks(f) BY DEF Blocks
  <2>2. AppsOf(kept)' \subseteq Blocks(f)
    BY <1>4 DEF NothingPersistedIsLost, AppsOf
  <2>3. QED BY <2>1, <2>2 DEF NothingPersistedIsLost
<1>8. QED BY <1>1, <1>2, <1>3, <1>5, <1>6, <1>7

\* The append that holds the lock is the only one under way.
LEMMA OnlyOne ==
    ASSUME IInv, NEW e \in Exposer, lock = e,
           NEW d \in Exposer, d # e
    PROVE  pc[d] \notin {"locked", "read", "checked"}
BY DEF IInv, LockHeld

\* The rename installs all that was kept, and its own block.
LEMMA RenameStep ==
    ASSUME IInv, NEW e \in Exposer, Rename(e)
    PROVE  IInv'
<1> USE PersistAssumption DEF IInv, Written, Ends, Goto
<1>1. pc[e] = "checked" /\ lock = e BY DEF Rename, LockHeld
<1>2. Valid(Appended(e)) /\ AppsOf(kept) \subseteq Blocks(seen[e])
  BY <1>1 DEF Checked, Basis
<1>3. /\ Appended(e) \in Seq(Request)
      /\ Blocks(Appended(e)) = Blocks(seen[e]) \cup {app[e]}
  BY <1>2, AppendedBlocks
<1>4. /\ file' = Appended(e) /\ kept' = kept \cup {e} /\ lock' = NoOne
      /\ pc' = [pc EXCEPT ![e] = "done"] /\ app' = app
      /\ seen' = [seen EXCEPT ![e] = NoFile]
  BY <1>1 DEF Rename
<1>5. FileType' BY <1>3, <1>4 DEF FileType, Text, Where
<1>6. \A d \in Exposer : pc'[d] \notin {"locked", "read", "checked"}
  BY <1>1, <1>4, OnlyOne DEF FileType
<1>7. LockHeld' /\ Basis' /\ Checked'
  BY <1>4, <1>6 DEF LockHeld, Basis, Checked
<1>8. KeptIsDone' BY <1>4 DEF KeptIsDone, FileType
<1>9. NothingPersistedIsLost'
  <2>1. AppsOf(kept)' = AppsOf(kept) \cup {app[e]} BY <1>4 DEF AppsOf
  <2>2. Blocks(file)' = Blocks(Appended(e)) BY <1>4 DEF Blocks
  <2>3. QED BY <1>2, <1>3, <2>1, <2>2 DEF NothingPersistedIsLost
<1>10. QED BY <1>5, <1>7, <1>8, <1>9

\* An append that fails claims nothing any more.
LEMMA EndsElsewhere ==
    ASSUME IInv, NEW e \in Exposer, pc[e] # "done", Ends(e, "unpersisted"),
           UNCHANGED <<file, app, kept>>
    PROVE  IInv'
<1>1. /\ app' \in [Exposer -> Request] /\ seen' \in [Exposer -> Text]
      /\ \A d \in Exposer : d # e => app'[d] = app[d] /\ seen'[d] = seen[d]
  BY DEF IInv, FileType, Ends, Text
<1>2. e \notin kept BY DEF IInv, KeptIsDone
<1>3. QED BY <1>1, <1>2, Elsewhere DEF Ends, Goto

\* An exposed block is one that may be written: its hosts with a domain are
\* hosts.
LEMMA ExpandType ==
    ASSUME NEW hosts \in SUBSET HostName, NEW d \in Domain \cup {NoDomain}
    PROVE  Expand(hosts, d) \in SUBSET HostName
<1>1. CASE d = NoDomain BY <1>1 DEF Expand
<1>2. CASE d # NoDomain
  <2>1. \A h \in hosts : Qualified[d][h] \in HostName BY <1>2, DomainAssumption
  <2>2. QED BY <1>2, <2>1 DEF Expand
<1>3. QED BY <1>1, <1>2

\* What Expose does: an answer without a route, or a route and its block.
LEMMA ExposeGoes ==
    ASSUME FileType, NEW e \in Exposer, Expose(e)
    PROVE  /\ pc[e] = "idle"
           /\ \E l \in {"live", "done", "refused"} : pc' = [pc EXCEPT ![e] = l]
           /\ app' \in [Exposer -> Request]
           /\ \A d \in Exposer : d # e => app'[d] = app[d]
           /\ \/ UNCHANGED <<routes, app, lost>>
              \/ \E hosts \in SUBSET HostName :
                    LET target == Block[e].upstream
                    IN  /\ up /\ AddAccepted(routes, NameOf[e], hosts, target)
                        /\ routes' = Added(routes, NameOf[e], hosts, target)
                        /\ app'[e] = [hosts |-> hosts, upstream |-> target]
                        /\ lost' = [d \in Exposer |-> IF d = e THEN FALSE
                                          ELSE lost[d] \/ d \in Displaced(e, hosts)]
<1> DEFINE domain == IF DomainFlag[e] # NoDomain THEN DomainFlag[e] ELSE currentDomain
           hosts  == Expand(Block[e].hosts, domain)
           target == Block[e].upstream
<1>1. domain \in Domain \cup {NoDomain} BY DomainAssumption DEF currentDomain
<1>2. Block[e] \in Request BY PersistAssumption
<1>3. hosts \in SUBSET HostName
  <2> HIDE DEF domain
  <2>1. Block[e].hosts \in SUBSET HostName BY <1>2 DEF Request
  <2>2. QED BY <1>1, <2>1, ExpandType
<1>4. /\ pc[e] = "idle"
      /\ \E l \in {"live", "done", "refused"} : pc' = [pc EXCEPT ![e] = l]
  BY DEF Expose, Goto
<1>5. CASE UNCHANGED <<routes, app, lost>>
  BY <1>4, <1>5 DEF FileType
<1>6. CASE /\ up /\ AddAccepted(routes, NameOf[e], hosts, target)
           /\ routes' = Added(routes, NameOf[e], hosts, target)
           /\ app' = [app EXCEPT ![e] = [hosts |-> hosts, upstream |-> target]]
           /\ lost' = [d \in Exposer |-> IF d = e THEN FALSE
                             ELSE lost[d] \/ d \in Displaced(e, hosts)]
  <2> HIDE DEF hosts
  <2>1. [hosts |-> hosts, upstream |-> target] \in Request BY <1>2, <1>3 DEF Request
  <2>2. /\ app' \in [Exposer -> Request]
        /\ app'[e] = [hosts |-> hosts, upstream |-> target]
        /\ \A d \in Exposer : d # e => app'[d] = app[d]
    BY <1>6, <2>1 DEF FileType
  <2>3. QED BY <1>3, <1>4, <1>6, <2>2
<1>7. QED BY <1>5, <1>6 DEF Expose

\* Every step keeps the invariant.
LEMMA IInvStep == IInv /\ [Next]_vars => IInv'
<1> SUFFICES ASSUME IInv, [Next]_vars PROVE IInv'
  OBVIOUS
<1> USE DEF fileVars, Goto
<1>1. ASSUME NEW e \in Exposer, Expose(e) PROVE IInv'
  <2>1. UNCHANGED <<file, lock, seen, kept>> /\ pc[e] = "idle"
    BY <1>1 DEF Expose
  <2>2. e \notin kept /\ seen' \in [Exposer -> Text]
    BY <2>1 DEF IInv, KeptIsDone, FileType
  <2>3. PICK l \in {"live", "done", "refused"} : pc' = [pc EXCEPT ![e] = l]
    BY <1>1, ExposeGoes DEF IInv
  <2>4. app' \in [Exposer -> Request] /\ \A d \in Exposer : d # e => app'[d] = app[d]
    BY <1>1, ExposeGoes DEF IInv
  <2>5. QED BY <2>1, <2>2, <2>3, <2>4, Elsewhere
<1>2. ASSUME NEW e \in Exposer, LockConfig(e) PROVE IInv'
  <2> USE <1>2 DEF LockConfig, IInv
  <2>1. FileType' BY DEF FileType, Where
  <2>2. LockHeld' BY PersistAssumption DEF FileType, LockHeld
  <2>3. KeptIsDone' BY DEF FileType, KeptIsDone
  <2>4. AppsOf(kept)' = AppsOf(kept) /\ NothingPersistedIsLost' BY FileAlone
  <2>5. Basis' BY <2>4 DEF FileType, Basis, Blocks
  <2>6. Checked' BY DEF FileType, Checked, Valid, Appended
  <2>7. QED BY <2>1, <2>2, <2>3, <2>4, <2>5, <2>6
<1>3. ASSUME NEW e \in Exposer, ReadConfig(e) PROVE IInv'
  <2> USE <1>3 DEF ReadConfig, IInv
  <2>1. FileType' BY DEF FileType, Where
  <2>2. LockHeld' BY DEF FileType, LockHeld
  <2>3. lock = e BY DEF LockHeld
  <2>4. \A d \in Exposer : d # e => pc'[d] \notin {"read", "checked"}
    BY <2>3, OnlyOne DEF FileType
  <2>5. pc'[e] = "read" /\ seen'[e] = file BY DEF FileType
  <2>6. AppsOf(kept)' = AppsOf(kept) /\ NothingPersistedIsLost' BY FileAlone
  <2>7. Basis' BY <2>4, <2>5, <2>6 DEF Basis, Blocks, NothingPersistedIsLost
  <2>8. Checked' BY <2>4, <2>5 DEF Checked
  <2>9. KeptIsDone' BY DEF FileType, KeptIsDone
  <2>10. QED BY <2>1, <2>2, <2>6, <2>7, <2>8, <2>9
<1>4. ASSUME NEW e \in Exposer, CheckTemp(e) PROVE IInv'
  <2>1. CASE Valid(Appended(e))
    <3> USE <1>4, <2>1 DEF CheckTemp, IInv
    <3>1. FileType' BY DEF FileType, Where
    <3>2. LockHeld' BY DEF FileType, LockHeld
    <3>3. KeptIsDone' BY DEF FileType, KeptIsDone
    <3>4. AppsOf(kept)' = AppsOf(kept) /\ NothingPersistedIsLost' BY FileAlone
    <3>5. Basis' BY <3>4 DEF FileType, Basis, Blocks
    <3>6. Checked' BY DEF FileType, Checked, Valid, Appended
    <3>7. QED BY <3>1, <3>2, <3>3, <3>4, <3>5, <3>6
  <2>2. CASE ~Valid(Appended(e))
    <3>1. Ends(e, "unpersisted") /\ pc[e] = "read" /\ UNCHANGED <<file, app, kept>>
      BY <1>4, <2>2 DEF CheckTemp
    <3>2. QED BY <3>1, EndsElsewhere
  <2>3. QED BY <2>1, <2>2
<1>5. ASSUME NEW e \in Exposer, Rename(e) PROVE IInv'
  BY <1>5, RenameStep
<1>6. ASSUME NEW e \in Exposer, PersistFails(e) PROVE IInv'
  BY <1>6, EndsElsewhere DEF PersistFails
<1>7. ASSUME NEW i \in Creator, StatConfig(i) PROVE IInv'
  <2>1. \E l \in {"stated", "refused"} : pc' = [pc EXCEPT ![i] = l]
    BY <1>7 DEF StatConfig
  <2>2. UNCHANGED <<file, lock, app, seen, kept>> /\ pc[i] = "idle"
    BY <1>7 DEF StatConfig
  <2>3. i \notin kept BY PersistAssumption DEF IInv, FileType
  <2>4. QED BY <2>1, <2>2, <2>3, Elsewhere DEF IInv, FileType
<1>8. ASSUME NEW i \in Creator, WriteTemplate(i) PROVE IInv'
  <2>1. <<>> \in Text BY DEF Text
  <2>2. pc' \in [Exposer \cup Creator -> Where] /\ \A e \in Exposer : pc'[e] = pc[e]
    BY <1>8, PersistAssumption DEF WriteTemplate, IInv, FileType, Where
  <2>3. QED BY <1>8, <2>1, <2>2, OtherWriters DEF WriteTemplate, Written
<1>9. CASE Edit
  <2>1. UNCHANGED <<lock, pc, app, seen>> BY <1>9 DEF Edit
  <2>2. pc' \in [Exposer \cup Creator -> Where] BY <2>1 DEF IInv, FileType
  <2>3. CASE file \notin {NoFile, Garbled} /\ kept' = kept
               /\ \E z \in Extra : file' = Append(file, z)
    <3>1. PICK z \in Extra : file' = Append(file, z) BY <2>3
    <3>2. file \in Seq(Request) /\ z \in Request
      BY <2>3, PersistAssumption DEF IInv, FileType, Text
    <3>3. /\ Append(file, z) \in Seq(Request)
          /\ Blocks(file) \subseteq Blocks(Append(file, z))
      BY <3>2, AppendBlocks
    <3>4. Append(file, z) \in Text BY <3>3 DEF Text
    <3>5. QED BY <2>1, <2>2, <2>3, <3>1, <3>3, <3>4, OtherWriters
  <2>4. CASE kept' = {} /\ \E f \in {<<>>, Garbled} : file' = f
    <3>1. PICK f \in {<<>>, Garbled} : file' = f BY <2>4
    <3>2. f \in Text
      <4>1. <<>> \in Seq(Request) OBVIOUS
      <4>2. QED BY <4>1 DEF Text
    <3>3. QED BY <2>1, <2>2, <2>4, <3>1, <3>2, OtherWriters
  <2>5. QED BY <1>9, <2>3, <2>4 DEF Edit, Written
<1>10. ASSUME UNCHANGED fileVars PROVE IInv'
  <2> USE <1>10 DEF IInv
  <2>1. FileType' /\ LockHeld' /\ KeptIsDone' BY DEF FileType, LockHeld, KeptIsDone
  <2>2. Basis' BY DEF Basis, AppsOf, Blocks
  <2>3. Checked' BY DEF Checked, Valid, Appended
  <2>4. NothingPersistedIsLost' BY DEF NothingPersistedIsLost, AppsOf, Blocks
  <2>5. QED BY <2>1, <2>2, <2>3, <2>4
<1>11. CASE LoadConfig \/ AddWatch \/ StartEnds \/ TakeOver \/ StopDaemon \/ Reload
  BY <1>10, <1>11 DEF LoadConfig, AddWatch, StartEnds, TakeOver, StopDaemon, Reload
<1>12. ASSUME NEW n \in Name, runUnexpose(n) PROVE IInv'
  BY <1>10, <1>12 DEF runUnexpose
<1>13. CASE UNCHANGED vars BY <1>10, <1>13 DEF vars
<1>14. QED
  BY <1>1, <1>2, <1>3, <1>4, <1>5, <1>6, <1>7, <1>8, <1>9, <1>11, <1>12, <1>13 DEF Next

\* What `expose --persist` reported as persisted stays in the file through any
\* number of other appends, until an editor or `init` writes a file without it.
THEOREM PersistCorrect == Spec => []NothingPersistedIsLost
<1>1. IInv => NothingPersistedIsLost BY DEF IInv
<1>2. QED BY <1>1, InitIInv, IInvStep, PTL DEF Spec

\* An append installs only what validates, whatever it read and whatever became
\* of the file meanwhile.
THEOREM AppendCorrect == Spec => BadAppendNeverCorrupts
<1>1. ASSUME IInv, [Next]_vars
      PROVE  [\A e \in Exposer : pc[e] = "checked" /\ pc'[e] = "done"
                                   => Valid(file')]_vars
  <2> SUFFICES ASSUME ~UNCHANGED vars, NEW e \in Exposer,
                      pc[e] = "checked", pc'[e] = "done"
               PROVE  Valid(file')
    OBVIOUS
  <2>1. Rename(e)
    BY <1>1, PersistAssumption
       DEF IInv, FileType, Next, Goto, Ends, Expose, LockConfig, ReadConfig, CheckTemp,
           Rename, PersistFails, runUnexpose, StatConfig, WriteTemplate, Edit,
           LoadConfig, AddWatch, StartEnds, TakeOver, StopDaemon, Reload, fileVars
  <2>2. Valid(Appended(e)) /\ file' = Appended(e)
    BY <1>1, <2>1 DEF IInv, Checked, Rename, Written
  <2>3. QED BY <2>2 DEF Valid, Entries, Loaded
<1>2. QED BY <1>1, InitIInv, IInvStep, PTL DEF Spec, BadAppendNeverCorrupts

-----------------------------------------------------------------------------
(* What a starting daemon has loaded.                                      *)

\* It validates, and holds all that was kept when it was loaded.
BootBasis ==
    /\ read \in Text /\ (read # NoFile => Valid(read))
    /\ readKept \subseteq Exposer
    /\ \A e \in readKept : pc[e] = "done"
    /\ AppsOf(readKept) \subseteq Blocks(read)

BInv ==
    /\ boot \in {"none", "loaded", "ready"} /\ queued \in BOOLEAN
    /\ starts \in 0 .. MaxStarts
    /\ BootBasis

\* What was exposed by a command that is done does not change any more.
LEMMA DoneStays ==
    ASSUME IInv, Next, NEW e \in Exposer, pc[e] = "done"
    PROVE  pc'[e] = "done" /\ app'[e] = app[e]
<1>1. pc \in [Exposer \cup Creator -> Where] BY DEF IInv, FileType
<1>2. ASSUME NEW d \in Exposer, Expose(d) PROVE pc'[e] = "done" /\ app'[e] = app[e]
  <2>1. d # e BY <1>2 DEF Expose
  <2>2. QED BY <1>1, <1>2, <2>1, ExposeGoes DEF IInv
<1>3. ASSUME NEW d \in Exposer,
             \/ LockConfig(d) \/ ReadConfig(d) \/ CheckTemp(d)
             \/ Rename(d) \/ PersistFails(d)
      PROVE  pc'[e] = "done" /\ app'[e] = app[e]
  BY <1>1, <1>3 DEF LockConfig, ReadConfig, CheckTemp, Rename, PersistFails, Goto, Ends
<1>4. ASSUME NEW i \in Creator, StatConfig(i) \/ WriteTemplate(i)
      PROVE  pc'[e] = "done" /\ app'[e] = app[e]
  BY <1>1, <1>4, PersistAssumption DEF StatConfig, WriteTemplate, Goto
<1>5. QED
  BY <1>2, <1>3, <1>4
     DEF Next, Edit, runUnexpose, LoadConfig, AddWatch, StartEnds, TakeOver,
         StopDaemon, Reload, fileVars

\* The commands, editors and the serving daemon leave the starting one alone,
\* but for an event.
LEMMA BootAlone ==
    ASSUME IInv, BInv,
           UNCHANGED <<boot, read, starts, readKept>>, queued' \in BOOLEAN,
           \A e \in Exposer : pc[e] = "done" => pc'[e] = "done" /\ app'[e] = app[e]
    PROVE  BInv'
<1>1. AppsOf(readKept)' = AppsOf(readKept) BY DEF BInv, BootBasis, AppsOf
<1>2. QED BY <1>1 DEF BInv, BootBasis, Blocks, Valid, Entries, Loaded

\* Nothing is loaded or kept initially.
LEMMA InitBInv == Init => BInv
<1> SUFFICES ASSUME Init PROVE BInv
  OBVIOUS
<1>1. AppsOf(readKept) = {} BY DEF Init, AppsOf
<1>2. BootBasis BY <1>1 DEF Init, BootBasis, Text
<1>3. starts \in 0 .. MaxStarts BY PersistAssumption DEF Init
<1>4. QED BY <1>2, <1>3 DEF Init, BInv

\* Every step keeps it: what is kept is in the file when it is loaded.
LEMMA BInvStep == IInv /\ BInv /\ [Next]_vars => BInv'
<1> SUFFICES ASSUME IInv, BInv, [Next]_vars PROVE BInv'
  OBVIOUS
<1>1. CASE UNCHANGED vars
  BY <1>1, BootAlone DEF vars, fileVars, bootVars, BInv
<1> SUFFICES ASSUME Next PROVE BInv'
  BY <1>1
<1>2. \A e \in Exposer : pc[e] = "done" => pc'[e] = "done" /\ app'[e] = app[e]
  BY DoneStays
<1>3. CASE UNCHANGED <<boot, read, starts, readKept>> /\ queued' \in BOOLEAN
  BY <1>2, <1>3, BootAlone
<1>4. CASE LoadConfig
  <2>1. /\ read' = file /\ readKept' = kept /\ UNCHANGED <<file, pc, app, queued>>
        /\ boot' \in {"loaded", "ready"} /\ starts' \in 0 .. MaxStarts
        /\ file # NoFile => Valid(file)
    BY <1>4, PersistAssumption DEF LoadConfig, fileVars, BInv
  <2>2. AppsOf(readKept)' = AppsOf(kept) BY <2>1 DEF AppsOf
  <2>3. BootBasis'
    BY <2>1, <2>2
       DEF BootBasis, IInv, FileType, KeptIsDone, NothingPersistedIsLost, Blocks,
           Valid, Entries, Loaded
  <2>4. QED BY <2>1, <2>3 DEF BInv
<1>5. CASE AddWatch
  <2>1. /\ UNCHANGED <<read, queued, starts, readKept, app, pc>> /\ boot' = "ready"
    BY <1>5 DEF AddWatch, fileVars
  <2>2. QED
    BY <2>1 DEF BInv, BootBasis, AppsOf, Blocks, Valid, Entries, Loaded
<1>6. CASE StartEnds \/ TakeOver
  <2>1. NotStarting /\ starts' = starts BY <1>6 DEF StartEnds, TakeOver
  <2>2. BootBasis' BY <2>1 DEF NotStarting, BootBasis, Text, AppsOf
  <2>3. QED BY <2>1, <2>2 DEF NotStarting, BInv
<1>7. QED
  <2>1. queued \in BOOLEAN BY DEF BInv
  <2>2. CASE /\ ~(LoadConfig \/ AddWatch \/ StartEnds \/ TakeOver)
    BY <1>3, <2>1, <2>2
       DEF Next, Expose, LockConfig, ReadConfig, CheckTemp, Rename, PersistFails,
           runUnexpose, StatConfig, WriteTemplate, Edit, Written, StopDaemon, Reload,
           bootVars
  <2>3. QED BY <1>4, <1>5, <1>6, <2>2

-----------------------------------------------------------------------------
(* The daemon's table.                                                     *)

\* The route that the file has for e.
FromFile(e) == RouteOf(Loaded(app[e]), ConfigSource) \in routes

\* The part of the types that the daemon is about.
DaemonType ==
    /\ up \in BOOLEAN /\ watching \in BOOLEAN /\ pending \in BOOLEAN
    /\ IsTable(routes)
    /\ edits \in 0 .. MaxEdits
    /\ lost \in [Exposer -> BOOLEAN]

\* A route that is not lost is in the table, as it was exposed or from the file.
Live == up => \A e \in Exposer : lost[e] \/ Exposed(e) \/ FromFile(e)

DInv == DaemonType /\ Live

\* Hosts and upstreams are as the lemmas about tables assume.
LEMMA NamesFitHere == NamesFit
BY PersistAssumption

\* A block that is loaded is an entry.
LEMMA LoadedType ==
    ASSUME NEW a \in Request
    PROVE  Loaded(a) \in Request
<1>1. Expand(a.hosts, FileDomain) \in SUBSET HostName
  BY ExpandType, DomainAssumption DEF Request
<1>2. QED BY <1>1 DEF Loaded, Request

\* What the daemon makes of a file that loads is a table, and has a route for
\* every block.
LEMMA FileRoutes ==
    ASSUME NEW f \in Text, NEW R, IsTable(R), Valid(f),
           ReplaceAccepted(R, ConfigSource, Entries(f))
    PROVE  /\ IsTable(Replaced(R, ConfigSource, Entries(f)))
           /\ \A a \in Blocks(f) :
                  RouteOf(Loaded(a), ConfigSource)
                      \in Replaced(R, ConfigSource, Entries(f))
<1>1. f \in Seq(Request) /\ f \notin {NoFile, Garbled}
  BY DEF Text, Valid
<1>2. DOMAIN Entries(f) = DOMAIN f
      /\ \A i \in DOMAIN f : Entries(f)[i] = Loaded(f[i])
  BY DEF Entries
<1>3. \A i \in DOMAIN Entries(f) : Entries(f)[i] \in Request
  BY <1>1, <1>2, LoadedType
<1>4. IsTable(Replaced(R, ConfigSource, Entries(f)))
  BY <1>3, NamesFitHere, ReplacementKeepsTable
<1>5. ASSUME NEW a \in Blocks(f)
      PROVE  RouteOf(Loaded(a), ConfigSource) \in NewRoutes(ConfigSource, Entries(f))
  <2>1. PICK i \in DOMAIN f : f[i] = a
    BY <1>1, <1>5 DEF Blocks
  <2>2. QED BY <1>2, <2>1 DEF RouteOf, NewRoutes
<1>6. QED BY <1>4, <1>5 DEF Replaced

\* Whose route it is, and that the file is nobody's name.
LEMMA RouteFields ==
    /\ \A a, s : /\ RouteOf(a, s).source = s
                 /\ RouteOf(a, s).hosts = normalizeHosts(a.hosts)
                 /\ RouteOf(a, s).upstream = a.upstream
    /\ \A e \in Exposer : NameOf[e] # ConfigSource
BY PersistAssumption DEF RouteOf, NewRoute

\* Expose adds its route, and whom it displaces is lost.
LEMMA ExposeKeepsDInv ==
    ASSUME IInv, DInv, NEW e \in Exposer, Expose(e)
    PROVE  DInv'
<1>0. /\ NameOf[e] \in Name /\ Block[e].upstream \in Upstream \cup {NoUpstream}
      /\ UNCHANGED <<up, watching, pending, edits>>
  BY PersistAssumption DEF Expose, Request
<1>1. CASE UNCHANGED <<routes, app, lost>>
  BY <1>0, <1>1 DEF DInv, DaemonType, Live, Exposed, FromFile, IsTable, HostsDisjoint
<1>2. ASSUME NEW hosts \in SUBSET HostName, up,
             AddAccepted(routes, NameOf[e], hosts, Block[e].upstream),
             routes' = Added(routes, NameOf[e], hosts, Block[e].upstream),
             app'[e] = [hosts |-> hosts, upstream |-> Block[e].upstream],
             \A d \in Exposer : d # e => app'[d] = app[d],
             lost' = [d \in Exposer |-> IF d = e THEN FALSE
                                        ELSE lost[d] \/ d \in Displaced(e, hosts)]
      PROVE  DInv'
  <2>1. IsTable(routes')
    BY <1>0, <1>2, NamesFitHere, AdditionKeepsTable DEF DInv, DaemonType
  <2>2. lost' \in [Exposer -> BOOLEAN]
    BY <1>2 DEF DInv, DaemonType
  <2>3. DaemonType'
    BY <1>0, <2>1, <2>2 DEF DInv, DaemonType, IsTable, HostsDisjoint
  <2>4. Exposed(e)'
    BY <1>2 DEF Exposed, RouteOf, Added
  <2>5. ASSUME NEW d \in Exposer, d # e, ~lost'[d]
        PROVE  Exposed(d)' \/ FromFile(d)'
    <3>1. ~lost[d] /\ d \notin Displaced(e, hosts) /\ app'[d] = app[d]
      BY <1>2, <2>5
    <3>2. Exposed(d) \/ FromFile(d)
      BY <1>2, <3>1 DEF DInv, Live
    <3>3. CASE Exposed(d)
      <4>1. NameOf[d] = NameOf[e] =>
                normalizeHosts(app[d].hosts) \cap normalizeHosts(hosts) = {}
        BY <2>5, <3>1, <3>3 DEF Displaced
      <4>2. QED BY <1>2, <3>1, <3>3, <4>1, RouteFields DEF Exposed, Added
    <3>4. CASE FromFile(d)
      BY <1>2, <3>1, <3>4, RouteFields DEF FromFile, Added
    <3>5. QED BY <3>2, <3>3, <3>4
  <2>6. Live'
    BY <1>0, <1>2, <2>4, <2>5 DEF Live
  <2>7. QED BY <2>3, <2>6 DEF DInv
<1>3. QED
  <2>1. CASE ~UNCHANGED <<routes, app, lost>>
    <3>1. PICK hosts \in SUBSET HostName :
             LET target == Block[e].upstream
             IN  /\ up /\ AddAccepted(routes, NameOf[e], hosts, target)
                 /\ routes' = Added(routes, NameOf[e], hosts, target)
                 /\ app'[e] = [hosts |-> hosts, upstream |-> target]
                 /\ lost' = [d \in Exposer |-> IF d = e THEN FALSE
                                   ELSE lost[d] \/ d \in Displaced(e, hosts)]
      BY <2>1, ExposeGoes DEF IInv
    <3>2. \A d \in Exposer : d # e => app'[d] = app[d]
      BY ExposeGoes DEF IInv
    <3>3. QED BY <1>2, <3>1, <3>2
  <2>2. QED BY <1>1, <2>1

\* The daemon and the route of every exposer, up to the routes of the file.
LEMMA TableSteps ==
    ASSUME IInv, BInv, DInv,
           \/ \E n \in Name : runUnexpose(n)
           \/ TakeOver \/ StopDaemon \/ Reload
    PROVE  DInv'
<1>0. UNCHANGED <<app, edits>> /\ edits' \in 0 .. MaxEdits
  BY DEF runUnexpose, TakeOver, StopDaemon, Reload, fileVars, DInv, DaemonType
<1>1. ASSUME NEW n \in Name, runUnexpose(n) PROVE DInv'
  <2>1. IsTable(routes')
    BY <1>1, RemovalKeepsTable DEF runUnexpose, DInv, DaemonType
  <2>2. ASSUME NEW d \in Exposer, ~lost'[d]
        PROVE  Exposed(d)' \/ FromFile(d)'
    <3>1. ~lost[d] /\ ~(NameOf[d] = n /\ Exposed(d)) /\ n # ConfigSource
      BY <1>1, <2>2, PersistAssumption DEF runUnexpose
    <3>2. up /\ routes' = WithoutSource(routes, n)
      BY <1>1 DEF runUnexpose
    <3>3. QED
      BY <1>0, <3>1, <3>2, RouteFields
         DEF DInv, Live, Exposed, FromFile, WithoutSource
  <2>3. Live'
    BY <2>2 DEF Live
  <2>4. lost' \in [Exposer -> BOOLEAN]
    BY <1>1 DEF runUnexpose, DInv, DaemonType
  <2>5. QED
    BY <1>0, <1>1, <2>1, <2>3, <2>4
       DEF runUnexpose, DInv, DaemonType, IsTable, HostsDisjoint
<1>2. CASE TakeOver
  <2>1. IsTable({})
    BY DEF IsTable, HostsDisjoint
  <2>2. /\ lost' \in [Exposer -> BOOLEAN]
        /\ \A e \in Exposer : lost'[e] \/ e \in readKept
    BY <1>2 DEF TakeOver
  <2>3. \A e \in readKept : app[e] \in Blocks(read)
    BY DEF BInv, BootBasis, AppsOf
  <2>4. /\ IsTable(routes')
        /\ \A a \in Blocks(read) : RouteOf(Loaded(a), ConfigSource) \in routes'
    <3>1. CASE read = NoFile
      BY <1>2, <2>1, <3>1 DEF TakeOver, Blocks
    <3>2. CASE read # NoFile
      <4>1. /\ Valid(read) /\ read \in Text
            /\ ReplaceAccepted({}, ConfigSource, Entries(read))
        BY <3>2 DEF BInv, BootBasis, Valid, ReplaceAccepted, Collides
      <4>2. routes' = Replaced({}, ConfigSource, Entries(read))
        BY <1>2, <3>2 DEF TakeOver
      <4>3. QED BY <2>1, <4>1, <4>2, FileRoutes
    <3>3. QED BY <3>1, <3>2
  <2>5. Live'
    BY <1>0, <2>2, <2>3, <2>4 DEF Live, FromFile, Loaded
  <2>6. up' \in BOOLEAN /\ watching' \in BOOLEAN /\ pending' \in BOOLEAN
    BY <1>2 DEF TakeOver, BInv
  <2>7. QED
    BY <1>0, <2>2, <2>4, <2>5, <2>6 DEF DInv, DaemonType, IsTable, HostsDisjoint
<1>3. CASE StopDaemon
  BY <1>0, <1>3
     DEF StopDaemon, DInv, DaemonType, Live, IsTable, HostsDisjoint
<1>4. CASE Reload
  <2>1. CASE UNCHANGED <<routes, lost>>
    BY <1>0, <1>4, <2>1
       DEF Reload, DInv, DaemonType, Live, Exposed, FromFile, RouteOf, IsTable,
           HostsDisjoint
  <2>2. CASE /\ Valid(file) /\ ReplaceAccepted(routes, ConfigSource, Entries(file))
             /\ routes' = Replaced(routes, ConfigSource, Entries(file))
             /\ Owes
    <3>1. /\ IsTable(routes')
          /\ \A a \in Blocks(file) : RouteOf(Loaded(a), ConfigSource) \in routes'
      BY <2>2, FileRoutes DEF DInv, DaemonType, IInv, FileType
    <3>2. \A e \in Exposer : Exposed(e) => Exposed(e)'
      BY <1>0, <2>2, RouteFields DEF Exposed, Replaced, WithoutSource
    <3>3. \A e \in kept : app[e] \in Blocks(file)
      BY DEF IInv, NothingPersistedIsLost, AppsOf
    <3>4. /\ lost' \in [Exposer -> BOOLEAN]
          /\ \A e \in Exposer : lost'[e] \/ e \in kept \/ Exposed(e)
      BY <2>2 DEF Owes
    <3>5. Live'
      BY <1>0, <3>1, <3>2, <3>3, <3>4 DEF Live, FromFile, Loaded
    <3>6. QED
      BY <1>0, <1>4, <3>1, <3>4, <3>5
         DEF Reload, DInv, DaemonType, IsTable, HostsDisjoint
  <2>3. QED BY <1>4, <2>1, <2>2 DEF Reload
<1>5. QED BY <1>1, <1>2, <1>3, <1>4

\* The steps that leave the table alone.
LEMMA OtherSteps ==
    ASSUME DInv, UNCHANGED <<app, up, watching, routes, lost>>,
           pending' \in BOOLEAN, edits' \in 0 .. MaxEdits
    PROVE  DInv'
<1>1. DaemonType'
  BY DEF DInv, DaemonType, IsTable, HostsDisjoint
<1>2. Live'
  BY DEF DInv, Live, Exposed, FromFile
<1>3. QED BY <1>1, <1>2 DEF DInv

\* No daemon runs yet.
LEMMA InitDInv == Init => DInv
<1> SUFFICES ASSUME Init PROVE DInv
  OBVIOUS
<1>1. up \in BOOLEAN /\ watching \in BOOLEAN /\ pending \in BOOLEAN
  BY DEF Init
<1>2. IsTable(routes) /\ lost \in [Exposer -> BOOLEAN]
  BY DEF Init, IsTable, HostsDisjoint
<1>3. edits \in 0 .. MaxEdits
  BY PersistAssumption DEF Init
<1>4. Live
  BY DEF Init, Live
<1>5. QED BY <1>1, <1>2, <1>3, <1>4 DEF DInv, DaemonType

\* Every step keeps the second invariant, given the others.
LEMMA DInvStep == IInv /\ BInv /\ DInv /\ [Next]_vars => DInv'
<1> SUFFICES ASSUME IInv, BInv, DInv, [Next]_vars PROVE DInv'
  OBVIOUS
<1>0. /\ pending \in BOOLEAN /\ up \in BOOLEAN /\ watching \in BOOLEAN
      /\ edits \in 0 .. MaxEdits
  BY DEF DInv, DaemonType
<1>1. ASSUME NEW e \in Exposer,
             \/ LockConfig(e) \/ ReadConfig(e) \/ CheckTemp(e)
             \/ Rename(e) \/ PersistFails(e)
      PROVE  DInv'
  BY <1>0, <1>1, OtherSteps
     DEF LockConfig, ReadConfig, CheckTemp, Rename, PersistFails, daemonVars, Written
<1>2. ASSUME NEW i \in Creator, StatConfig(i) \/ WriteTemplate(i) PROVE DInv'
  BY <1>0, <1>2, OtherSteps DEF StatConfig, WriteTemplate, daemonVars, Written
<1>3. CASE Edit
  <2>1. UNCHANGED <<app, up, watching, routes, lost>> /\ edits' \in 0 .. MaxEdits
    BY <1>0, <1>3, PersistAssumption DEF Edit, Written
  <2>2. pending' \in BOOLEAN
    BY <1>0, <1>3 DEF Edit, Written
  <2>3. QED BY <2>1, <2>2, OtherSteps
<1>4. CASE LoadConfig \/ AddWatch \/ StartEnds
  BY <1>0, <1>4, OtherSteps DEF LoadConfig, AddWatch, StartEnds, fileVars, daemonVars
<1>5. CASE UNCHANGED vars
  BY <1>0, <1>5, OtherSteps DEF vars, fileVars, daemonVars
<1>6. QED
  BY <1>1, <1>2, <1>3, <1>4, <1>5, ExposeKeepsDInv, TableSteps DEF Next

\* The state of file, commands and daemons keeps its types: the lock is with a
\* command that works, what a daemon has loaded validates, and the table of the
\* daemon that serves claims no host twice.
THEOREM TypeCorrect == Spec => []TypeOK
<1>1. IInv /\ BInv /\ DInv => TypeOK
  BY DEF IInv, FileType, Text, Where, LockHeld, BInv, BootBasis, DInv, DaemonType,
         IsTable, TypeOK
<1>2. QED
  BY <1>1, InitIInv, IInvStep, InitBInv, BInvStep, InitDInv, DInvStep, PTL DEF Spec

\* A route that was reported live and persisted is served from then on, by the
\* daemon it was exposed to and by every daemon that loads the file afterwards,
\* until it is unexposed, displaced by another expose of its name, or no longer
\* in the file; under the hosts it was exposed as or, from the file, with the
\* file's base domain.
THEOREM ServedCorrect == Spec => []PersistedStaysServed
<1>1. IInv /\ DInv => PersistedStaysServed
  <2> SUFFICES ASSUME IInv, DInv, up, NEW e \in kept, ~lost[e]
               PROVE  Served(app[e]) \/ Served(Loaded(app[e]))
    BY DEF PersistedStaysServed
  <2>1. e \in Exposer /\ (Exposed(e) \/ FromFile(e))
    BY DEF IInv, FileType, DInv, Live
  <2>2. QED BY <2>1, RouteFields DEF Served, Exposed, FromFile
<1>2. QED
  BY <1>1, InitIInv, IInvStep, InitBInv, BInvStep, InitDInv, DInvStep, PTL DEF Spec

-----------------------------------------------------------------------------
(* Persist implements RouteLease.                                          *)

\* Without a daemon nothing is served, and no reload is pending.
NoDaemonNoRoutes == ~up => ~pending /\ routes = {}

\* A command that waits for the file leaves the daemon to itself.
LEMMA NoDaemonStep ==
    ASSUME NoDaemonNoRoutes, [Next]_vars
    PROVE  NoDaemonNoRoutes'
<1> USE DEF NoDaemonNoRoutes, daemonVars
<1>1. ASSUME NEW e \in Exposer,
             \/ Expose(e) \/ LockConfig(e) \/ ReadConfig(e) \/ CheckTemp(e)
             \/ Rename(e) \/ PersistFails(e)
      PROVE  NoDaemonNoRoutes'
  <2>1. CASE Expose(e) BY <2>1 DEF Expose
  <2>2. CASE LockConfig(e) \/ ReadConfig(e) \/ CheckTemp(e) BY <2>2
     DEF LockConfig, ReadConfig, CheckTemp
  <2>3. CASE Rename(e) BY <2>3 DEF Rename, Written
  <2>4. CASE PersistFails(e) BY <2>4 DEF PersistFails
  <2>5. QED BY <1>1, <2>1, <2>2, <2>3, <2>4
<1>2. ASSUME NEW n \in Name, runUnexpose(n) PROVE NoDaemonNoRoutes'
  BY <1>2 DEF runUnexpose
<1>3. ASSUME NEW i \in Creator, StatConfig(i) \/ WriteTemplate(i)
      PROVE  NoDaemonNoRoutes'
  BY <1>3 DEF StatConfig, WriteTemplate, Written
<1>4. CASE Edit
  <2>1. PICK f : Written(f) BY <1>4 DEF Edit
  <2>2. QED BY <2>1 DEF Written
<1>5. CASE LoadConfig \/ AddWatch \/ StartEnds \/ TakeOver \/ StopDaemon
  BY <1>5 DEF LoadConfig, AddWatch, StartEnds, TakeOver, StopDaemon
<1>6. CASE Reload
  BY <1>6 DEF Reload
<1>7. CASE UNCHANGED vars
  BY <1>7 DEF vars
<1>8. QED BY <1>1, <1>2, <1>3, <1>4, <1>5, <1>6, <1>7 DEF Next

\* What an operator of RouteSet says of a table does not depend on who uses it.
LEMMA LeaseOperators ==
    /\ \A R, s : Lease!WithoutSource(R, s) = WithoutSource(R, s)
    /\ \A R, s, keys : Lease!Collides(R, s, keys) <=> Collides(R, s, keys)
    /\ \A R : Lease!HostsDisjoint(R) <=> HostsDisjoint(R)
BY DEF Lease!WithoutSource, WithoutSource, Lease!Collides, Collides,
       Lease!HostsDisjoint, HostsDisjoint

\* Every step is one of the abstract daemon, or none.
LEMMA LeaseStep ==
    ASSUME IInv, DInv', NoDaemonNoRoutes, [Next]_vars
    PROVE  [Lease!Next]_(Lease!leaseVars)
<1>0. HostsDisjoint(routes')
  BY DEF DInv, DaemonType, IsTable
<1>1. CASE UNCHANGED <<up, routes>>
  BY <1>1 DEF Lease!leaseVars
<1>2. ASSUME NEW e \in Exposer, Expose(e) PROVE [Lease!Next]_(Lease!leaseVars)
  <2>1. CASE routes' = routes
    BY <1>1, <1>2, <2>1 DEF Expose
  <2>2. CASE routes' # routes
    <3> DEFINE target == Block[e].upstream
    <3>1. PICK hosts \in SUBSET HostName :
             /\ AddAccepted(routes, NameOf[e], hosts, target)
             /\ routes' = Added(routes, NameOf[e], hosts, target)
      BY <1>2, <2>2, ExposeGoes DEF IInv
    <3> DEFINE r == NewRoute(NameOf[e], hosts, target)
    <3>2. r \in routes' BY <3>1, AdditionAdds
    <3>3. r.source = NameOf[e] /\ r.hosts = normalizeHosts(hosts)
      BY DEF NewRoute
    <3>4. Lease!Grant(r)
      BY <3>1, <3>3, LeaseOperators DEF Lease!Grant, AddAccepted, Added
    <3>5. up /\ up' = up BY <1>2, <2>2 DEF Expose
    <3>6. Lease!Expose
      BY <3>2, <3>3, <3>4, <3>5, PersistAssumption DEF Lease!Expose
    <3>7. QED BY <3>6 DEF Lease!Next
  <2>3. QED BY <2>1, <2>2
<1>3. ASSUME NEW e \in Exposer,
             \/ LockConfig(e) \/ ReadConfig(e) \/ CheckTemp(e)
             \/ Rename(e) \/ PersistFails(e)
      PROVE  [Lease!Next]_(Lease!leaseVars)
  BY <1>1, <1>3
     DEF LockConfig, ReadConfig, CheckTemp, Rename, Written, PersistFails, daemonVars
<1>4. ASSUME NEW n \in Name, runUnexpose(n) PROVE [Lease!Next]_(Lease!leaseVars)
  <2>1. Lease!Unexpose
    BY <1>4, LeaseOperators DEF runUnexpose, Lease!Unexpose
  <2>2. QED BY <2>1 DEF Lease!Next
<1>5. CASE (\E i \in Creator : StatConfig(i) \/ WriteTemplate(i)) \/ Edit
  BY <1>1, <1>5 DEF StatConfig, WriteTemplate, Edit, Written, daemonVars
<1>6. ASSUME NEW R, NEW new, WithoutSource(R, ConfigSource) = R,
             routes' = Replaced(R, ConfigSource, new)
      PROVE  WithoutSource(routes', ConfigSource) = R
  BY <1>6 DEF Replaced, WithoutSource, NewRoutes, NewRoute
<1>7. CASE TakeOver
  <2>1. WithoutSource(routes', ConfigSource) = {}
    <3>1. CASE routes' = {} BY <3>1 DEF WithoutSource
    <3>2. CASE routes' = Replaced({}, ConfigSource, Entries(read))
      BY <1>6, <3>2 DEF WithoutSource
    <3>3. QED BY <1>7, <3>1, <3>2 DEF TakeOver
  <2>2. Lease!Start
    BY <1>0, <1>7, <2>1, LeaseOperators DEF TakeOver, Lease!Start
  <2>3. QED BY <2>2 DEF Lease!Next
<1>8. CASE StopDaemon
  <2>1. Lease!Stop
    BY <1>8 DEF StopDaemon, Lease!Stop
  <2>2. QED BY <2>1 DEF Lease!Next
<1>9. CASE Reload /\ routes' # routes
  <2>1. up /\ up' = up /\ routes' = Replaced(routes, ConfigSource, Entries(file))
    BY <1>9 DEF Reload, NoDaemonNoRoutes
  <2>2. WithoutSource(routes', ConfigSource) = WithoutSource(routes, ConfigSource)
    BY <2>1 DEF Replaced, WithoutSource, NewRoutes, NewRoute
  <2>3. Lease!Reload
    BY <1>0, <2>1, <2>2, LeaseOperators DEF Lease!Reload
  <2>4. QED BY <2>3 DEF Lease!Next
<1>10. CASE Reload /\ routes' = routes
  BY <1>1, <1>10 DEF Reload
<1>11. CASE UNCHANGED vars
  BY <1>1, <1>11 DEF vars, daemonVars
<1>12. CASE LoadConfig \/ AddWatch \/ StartEnds
  BY <1>1, <1>12 DEF LoadConfig, AddWatch, StartEnds, daemonVars
<1>13. QED
  BY <1>2, <1>3, <1>4, <1>5, <1>7, <1>8, <1>9, <1>10, <1>11, <1>12 DEF Next

\* The daemon that expose, unexpose and the writers of its file meet implements
\* RouteLease: exposed routes last until they are unexposed or the daemon ends,
\* and neither a reload nor a start takes a host away.
THEOREM PersistImplementsRouteLease == Spec => ImplementsRouteLease
<1>1. Init => Lease!Init
  BY DEF Init, Lease!Init
<1>2. Init => NoDaemonNoRoutes
  BY DEF Init, NoDaemonNoRoutes
<1>3. NoDaemonNoRoutes /\ [Next]_vars => NoDaemonNoRoutes'
  BY NoDaemonStep
<1>4. IInv /\ DInv' /\ NoDaemonNoRoutes /\ [Next]_vars =>
          [Lease!Next]_(Lease!leaseVars)
  BY LeaseStep
<1>5. QED
  BY <1>1, <1>2, <1>3, <1>4, InitIInv, IInvStep, InitBInv, BInvStep, InitDInv,
     DInvStep, PTL DEF Spec, ImplementsRouteLease, Lease!Spec

=============================================================================
