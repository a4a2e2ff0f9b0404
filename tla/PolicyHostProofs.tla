-------------------------- MODULE PolicyHostProofs --------------------------
(***************************************************************************)
(* Theorems about PolicyHost, for every set of hosts, images and packs and *)
(* every bound.                                                            *)
(***************************************************************************)
EXTENDS PolicyHost, TLAPS

USE DEF Seen, NoJob, Jobs, NoPolicy, MaybePolicy

-----------------------------------------------------------------------------
(* Type correctness.                                                       *)

\* Goto keeps phase and job in their types.
LEMMA GotoType ==
    ASSUME TypeOK, NEW h \in Hosts, NEW p \in Phases, NEW j \in Jobs, Goto(h, p, j)
    PROVE  phase' \in [Hosts -> Phases] /\ job' \in [Hosts -> Jobs]
<1>1. NoJob \in Jobs
  OBVIOUS
<1>2. QED
  BY <1>1 DEF Goto, TypeOK

\* What an audit append writes is an event.
LEMMA EventType ==
    ASSUME TypeOK, NEW h \in Hosts, phase[h] \in AuditPhases
    PROVE  EventOf(h) \in Events
<1>1. job[h].pol \in MaybePolicy /\ job[h].seen \in MaybePolicy /\ active[h] \in MaybePolicy
  BY DEF TypeOK
<1>2. CASE phase[h] \in {"bootRecover", "recover"}
  BY <1>1, <1>2 DEF EventOf, Events, Actions
<1>3. CASE phase[h] = "unreadable"
  BY <1>1, <1>3 DEF EventOf, Events, Actions
<1>4. CASE phase[h] = "reject"
  BY <1>1, <1>4 DEF EventOf, Events, Actions
<1>5. CASE phase[h] = "evidence"
  BY <1>1, <1>5 DEF EventOf, Events, Actions
<1>6. CASE phase[h] = "rbEvidence"
  BY <1>1, <1>6 DEF EventOf, Events, Actions
<1>7. QED
  BY <1>2, <1>3, <1>4, <1>5, <1>6 DEF AuditPhases

\* An append keeps the log a sequence of events.
LEMMA LoggedType ==
    ASSUME TypeOK, NEW e \in Events, Logged(e)
    PROVE  log' \in Seq(Events)
BY DEF Logged, TypeOK

LEMMA InitType == Init => TypeOK
<1> SUFFICES ASSUME Init
             PROVE  TypeOK
  OBVIOUS
<1>1. log \in Seq(Events) /\ attests \in [Hosts -> Seq(MaybePolicy)]
  BY DEF Init
<1>2. QED
  BY <1>1 DEF Init, TypeOK, Phases

LEMMA NextType == TypeOK /\ [Next]_vars => TypeOK'
<1> SUFFICES ASSUME TypeOK, [Next]_vars
             PROVE  TypeOK'
  OBVIOUS
<1> USE DEF Phases, BootPhases, SwapPhases, RollbackPhases, durable
<1>1. CASE UNCHANGED vars
  BY <1>1 DEF vars, volatile, TypeOK
<1>2. ASSUME NEW h \in Hosts, Boot(h)
      PROVE  TypeOK'
  <2>1. CASE Start(h)
    <3>1. Seen(intent) \in Jobs
      BY DEF TypeOK
    <3>2. phase' \in [Hosts -> Phases] /\ job' \in [Hosts -> Jobs]
      BY <2>1, <3>1, GotoType DEF Start
    <3>3. QED
      BY <2>1, <3>2 DEF Start, TypeOK
  <2>2. CASE LoadRecord(h)
    <3>1. [job[h] EXCEPT !.pol = record] \in Jobs /\ job[h] \in Jobs
      BY DEF TypeOK
    <3>2. phase' \in [Hosts -> Phases] /\ job' \in [Hosts -> Jobs]
      BY <2>2, <3>1, GotoType DEF LoadRecord
    <3>3. QED
      BY <2>2, <3>2 DEF LoadRecord, TypeOK
  <2>3. CASE LoadImage(h)
    <3>1. job[h] \in Jobs
      BY DEF TypeOK
    <3>2. phase' \in [Hosts -> Phases] /\ job' \in [Hosts -> Jobs]
      BY <2>3, <3>1, GotoType DEF LoadImage
    <3>3. active' \in [Hosts -> MaybePolicy]
      BY <2>3, <3>1 DEF LoadImage, TypeOK
    <3>4. QED
      BY <2>3, <3>2, <3>3 DEF LoadImage, TypeOK
  <2>4. QED
    BY <1>2, <2>1, <2>2, <2>3 DEF Boot
<1>3. ASSUME NEW h \in Hosts, Admit(h)
      PROVE  TypeOK'
  <2>1. job[h] \in Jobs /\ Seen(intent) \in Jobs
    BY DEF TypeOK
  <2>2. \A i \in Images : [job[h] EXCEPT !.pol = [img |-> i, ver |-> 0]] \in Jobs
    BY <2>1 DEF Policies
  <2>3. \A p \in SignedPacks : [job[h] EXCEPT !.pol = p] \in Jobs
    BY <2>1, SignedPacksAssumption DEF Policies
  <2>4. phase' \in [Hosts -> Phases] /\ job' \in [Hosts -> Jobs]
    <3>1. CASE BeginSwap(h)
      BY <3>1, <2>1, GotoType DEF BeginSwap
    <3>2. CASE ReadImage(h)
      BY <3>2, <2>1, <2>2, GotoType DEF ReadImage
    <3>3. CASE AdmitUnsigned(h)
      BY <3>3, <2>1, GotoType DEF AdmitUnsigned
    <3>4. CASE RefusePack(h)
      BY <3>4, <2>1, GotoType DEF RefusePack
    <3>5. CASE CheckVersion(h)
      BY <3>5, <2>3, GotoType DEF CheckVersion
    <3>6. QED
      BY <1>3, <3>1, <3>2, <3>3, <3>4, <3>5 DEF Admit
  <2>5. UNCHANGED <<durable, active, prev, noted, attests>>
    BY <1>3 DEF Admit, BeginSwap, ReadImage, AdmitUnsigned, RefusePack, CheckVersion
  <2>6. QED
    BY <2>4, <2>5 DEF TypeOK
<1>4. ASSUME NEW h \in Hosts, Commit(h) \/ Rollback(h) \/ WriteRaises(h)
      PROVE  TypeOK'
  <2>1. /\ job[h] \in Jobs /\ job[h].pol \in MaybePolicy
        /\ active[h] \in MaybePolicy /\ prev[h] \in MaybePolicy
    BY DEF TypeOK
  <2>2. phase' \in [Hosts -> Phases] /\ job' \in [Hosts -> Jobs]
    BY <1>4, <2>1, GotoType
       DEF Commit, WriteIntent, WriteFloor, WriteImage, WriteRecord, ClearIntent,
           Rollback, BeginRollback, RollbackRecord, WriteRaises
  <2>3. /\ intent' \in MaybePolicy /\ floor' \in Nat
        /\ image' \in Images \cup {NoImage} /\ record' \in MaybePolicy /\ apart' \in BOOLEAN
    <3>1. CASE Commit(h)
      <4>1. CASE WriteIntent(h) \/ WriteFloor(h) \/ ClearIntent(h)
        BY <4>1, <2>1 DEF WriteIntent, WriteFloor, ClearIntent, TypeOK, Policies
      <4>2. CASE WriteImage(h)
        BY <4>2, <2>1 DEF WriteImage, TypeOK, Policies
      <4>3. CASE WriteRecord(h)
        BY <4>3, <2>1 DEF WriteRecord, TypeOK
      <4>4. QED
        BY <3>1, <4>1, <4>2, <4>3 DEF Commit
    <3>2. CASE Rollback(h) \/ WriteRaises(h)
      BY <3>2, <2>1 DEF Rollback, BeginRollback, RollbackRecord, WriteRaises, TypeOK
    <3>3. QED
      BY <1>4, <3>1, <3>2
  <2>4. active' \in [Hosts -> MaybePolicy] /\ prev' \in [Hosts -> MaybePolicy]
    BY <1>4, <2>1
       DEF Commit, WriteIntent, WriteFloor, WriteImage, WriteRecord, ClearIntent,
           Rollback, BeginRollback, RollbackRecord, WriteRaises, TypeOK
  <2>5. UNCHANGED <<log, noted, attests>>
    BY <1>4
       DEF Commit, WriteIntent, WriteFloor, WriteImage, WriteRecord, ClearIntent,
           Rollback, BeginRollback, RollbackRecord, WriteRaises
  <2>6. QED
    BY <2>2, <2>3, <2>4, <2>5 DEF TypeOK
<1>5. ASSUME NEW h \in Hosts, Evidence(h)
      PROVE  TypeOK'
  <2>1. job[h] \in Jobs /\ NoJob \in Jobs
    BY DEF TypeOK
  <2>2. AfterRaise(h) \in Phases /\ (phase[h] \in AuditPhases => AfterAudit(phase[h]) \in Phases)
    BY DEF AfterRaise, AfterAudit, AuditPhases
  <2>3. phase' \in [Hosts -> Phases] /\ job' \in [Hosts -> Jobs]
    BY <1>5, <2>1, <2>2, GotoType DEF Evidence, Audit, AuditRaises
  <2>4. log' \in Seq(Events)
    BY <1>5, EventType, LoggedType DEF Evidence, Audit, AuditRaises, TypeOK
  <2>5. noted' \in [Hosts -> BOOLEAN]
    BY <1>5 DEF Evidence, Audit, AuditRaises, TypeOK
  <2>6. QED
    BY <1>5, <2>3, <2>4, <2>5 DEF Evidence, Audit, AuditRaises, TypeOK
<1>6. ASSUME NEW h \in Hosts, Attest(h)
      PROVE  TypeOK'
  <2>1. CASE BeginAttest(h)
    BY <2>1 DEF BeginAttest, TypeOK
  <2>2. CASE EndAttest(h)
    <3>1. attests[h][1] \in MaybePolicy
      BY <2>2 DEF EndAttest, TypeOK
    <3>2. [act |-> "attestation", pol |-> attests[h][1]] \in Events
      BY <3>1 DEF Events, Actions
    <3>3. log' \in Seq(Events)
      BY <2>2, <3>2, LoggedType DEF EndAttest, TypeOK
    <3>4. QED
      BY <2>2, <3>3 DEF EndAttest, TypeOK
  <2>3. QED
    BY <1>6, <2>1, <2>2 DEF Attest
<1>7. ASSUME NEW h \in Hosts, Crash(h)
      PROVE  TypeOK'
  <2>1. phase' \in [Hosts -> Phases] /\ job' \in [Hosts -> Jobs]
    BY <1>7, GotoType DEF Crash
  <2>2. attests' \in [Hosts -> Seq(MaybePolicy)]
    <3>1. <<>> \in Seq(MaybePolicy)
      OBVIOUS
    <3>2. QED
      BY <1>7, <3>1 DEF Crash, TypeOK
  <2>3. /\ active' \in [Hosts -> MaybePolicy] /\ prev' \in [Hosts -> MaybePolicy]
        /\ noted' \in [Hosts -> BOOLEAN]
    BY <1>7 DEF Crash, TypeOK
  <2>4. QED
    BY <1>7, <2>1, <2>2, <2>3 DEF Crash, TypeOK
<1>8. CASE Next
  <2>1. PICK h \in Hosts : Step(h)
    BY <1>8 DEF Next
  <2>2. QED
    BY <2>1, <1>2, <1>3, <1>4, <1>5, <1>6, <1>7 DEF Step, Fail
<1>9. QED
  BY <1>1, <1>8

\* Every reachable state is well typed.
THEOREM TypeCorrect == Spec => []TypeOK
BY InitType, NextType, PTL DEF Spec
-----------------------------------------------------------------------------
(* Evidence before the flip, for any number of swapping processes.         *)

\* A step of one process leaves the locals of the others alone.
LEMMA OthersKept ==
    ASSUME TypeOK, NEW h \in Hosts, Step(h), NEW g \in Hosts, g # h
    PROVE  /\ phase'[g] = phase[g] /\ job'[g] = job[g]
           /\ active'[g] = active[g] /\ prev'[g] = prev[g]
<1> USE DEF TypeOK, Goto
<1>1. CASE Boot(h)
  BY <1>1 DEF Boot, Start, LoadRecord, LoadImage
<1>2. CASE Admit(h)
  BY <1>2 DEF Admit, BeginSwap, ReadImage, AdmitUnsigned, RefusePack, CheckVersion
<1>3. CASE Commit(h)
  BY <1>3 DEF Commit, WriteIntent, WriteFloor, WriteImage, WriteRecord, ClearIntent
<1>4. CASE Rollback(h) \/ Attest(h)
  BY <1>4 DEF Rollback, BeginRollback, RollbackRecord, Attest, BeginAttest, EndAttest
<1>5. CASE Evidence(h) \/ Fail(h)
  BY <1>5 DEF Evidence, Audit, AuditRaises, Fail, WriteRaises, Crash
<1>6. QED
  BY <1>1, <1>2, <1>3, <1>4, <1>5 DEF Step

\* The log only grows, one event at a time.
LEMMA LogGrows ==
    ASSUME TypeOK, NEW h \in Hosts, Step(h)
    PROVE  log' = log \/ \E e \in Events : log' = Append(log, e)
<1> USE DEF durable
<1>1. CASE Boot(h)
  BY <1>1 DEF Boot, Start, LoadRecord, LoadImage
<1>2. CASE Admit(h)
  BY <1>2 DEF Admit, BeginSwap, ReadImage, AdmitUnsigned, RefusePack, CheckVersion
<1>3. CASE Commit(h)
  BY <1>3 DEF Commit, WriteIntent, WriteFloor, WriteImage, WriteRecord, ClearIntent
<1>4. CASE Rollback(h) \/ BeginAttest(h) \/ Fail(h)
  BY <1>4 DEF Rollback, BeginRollback, RollbackRecord, BeginAttest, Fail, WriteRaises, Crash
<1>5. CASE EndAttest(h)
  <2>1. attests[h][1] \in MaybePolicy
    BY <1>5 DEF EndAttest, TypeOK
  <2>2. QED
    BY <1>5, <2>1 DEF EndAttest, Logged, Events, Actions
<1>6. CASE Evidence(h)
  BY <1>6, EventType DEF Evidence, Audit, AuditRaises, Logged
<1>7. QED
  BY <1>1, <1>2, <1>3, <1>4, <1>5, <1>6 DEF Step, Attest

LEMMA EvidenceKept ==
    ASSUME TypeOK, NEW h \in Hosts, Step(h), NEW p, HasEvidence(p)
    PROVE  HasEvidence(p)'
<1>1. PICK i \in DOMAIN log : log[i] = [act |-> "swap", pol |-> p]
  BY DEF HasEvidence
<1>2. i \in DOMAIN log' /\ log'[i] = log[i]
  <2>1. CASE log' = log
    BY <2>1
  <2>2. ASSUME NEW e \in Events, log' = Append(log, e)
        PROVE  i \in DOMAIN log' /\ log'[i] = log[i]
    BY <2>2 DEF TypeOK
  <2>3. QED
    BY <2>1, <2>2, LogGrows
<1>3. QED
  BY <1>1, <1>2 DEF HasEvidence

\* What process h relies on: the policy it is about to commit, restore or roll
\* back to already has its evidence.
HostEvidence(h) ==
    /\ active[h] # NoPolicy => HasEvidence(active[h])
    /\ prev[h] # NoPolicy => HasEvidence(prev[h])
    /\ phase[h] \in {"image", "record", "loadImage"} => HasEvidence(job[h].pol)
    /\ phase[h] \in {"rbImage", "rbRecord"} => prev[h] # NoPolicy

EvidenceInv ==
    /\ record # NoPolicy => HasEvidence(record)
    /\ \A h \in Hosts : HostEvidence(h)

LEMMA NextEvidence == TypeOK /\ EvidenceInv /\ [Next]_vars => EvidenceInv'
<1> SUFFICES ASSUME TypeOK, EvidenceInv, [Next]_vars
             PROVE  EvidenceInv'
  OBVIOUS
<1>1. CASE UNCHANGED vars
  BY <1>1 DEF vars, volatile, durable, EvidenceInv, HostEvidence, HasEvidence
<1>2. CASE Next
  <2>1. PICK h \in Hosts : Step(h)
    BY <1>2 DEF Next
  <2>2. \A g \in Hosts \ {h} : HostEvidence(g)'
    BY <2>1, OthersKept, EvidenceKept DEF EvidenceInv, HostEvidence
  <2>3. HostEvidence(h)
    BY DEF EvidenceInv
  <2>4. \A p : HasEvidence(p) => HasEvidence(p)'
    BY <2>1, EvidenceKept
  <2> USE DEF TypeOK, Goto
  <2>5. (record' # NoPolicy => HasEvidence(record)') /\ HostEvidence(h)'
    <3>1. CASE Boot(h)
      BY <3>1, <2>3, <2>4 DEF Boot, Start, LoadRecord, LoadImage, EvidenceInv, HostEvidence, durable
    <3>2. CASE Admit(h)
      BY <3>2, <2>3, <2>4 DEF Admit, BeginSwap, ReadImage, AdmitUnsigned, RefusePack,
         CheckVersion, EvidenceInv, HostEvidence, durable
    <3>3. CASE Commit(h)
      BY <3>3, <2>3, <2>4 DEF Commit, WriteIntent, WriteFloor, WriteImage, WriteRecord,
         ClearIntent, EvidenceInv, HostEvidence
    <3>4. CASE Rollback(h) \/ Attest(h)
      BY <3>4, <2>3, <2>4 DEF Rollback, BeginRollback, RollbackRecord, Attest, BeginAttest,
         EndAttest, EvidenceInv, HostEvidence, durable
    <3>5. CASE Audit(h)
      <4>1. phase'[h] \in {"load", "read", "image", "idle"}
        BY <3>5 DEF Audit, AfterAudit, AuditPhases
      <4>2. phase'[h] = "image" => phase[h] = "evidence" /\ job'[h] = job[h]
        BY <3>5 DEF Audit, AfterAudit, AuditPhases
      <4>3. phase[h] = "evidence" =>
              log' = Append(log, [act |-> "swap", pol |-> job[h].pol])
        BY <3>5 DEF Audit, Logged, EventOf
      <4>4. phase'[h] = "image" => HasEvidence(job[h].pol)'
        <5>1. SUFFICES ASSUME phase'[h] = "image"
                       PROVE  HasEvidence(job[h].pol)'
          OBVIOUS
        <5>2. Len(log) + 1 \in DOMAIN log'
          BY <5>1, <4>2, <4>3
        <5>3. log'[Len(log) + 1] = [act |-> "swap", pol |-> job'[h].pol]
          BY <5>1, <4>2, <4>3
        <5>4. QED
          BY <5>2, <5>3 DEF HasEvidence
      <4>5. UNCHANGED <<record, active, prev>>
        BY <3>5 DEF Audit
      <4>6. record' # NoPolicy => HasEvidence(record)'
        BY <4>5, <2>4 DEF EvidenceInv
      <4>7. /\ active'[h] # NoPolicy => HasEvidence(active[h])'
            /\ prev'[h] # NoPolicy => HasEvidence(prev[h])'
        BY <4>5, <2>3, <2>4 DEF HostEvidence
      <4>8. QED
        BY <4>1, <4>4, <4>6, <4>7 DEF HostEvidence
    <3>6. CASE AuditRaises(h) \/ Fail(h)
      BY <3>6, <2>3, <2>4 DEF AuditRaises, AfterRaise, Fail, WriteRaises, Crash, EvidenceInv,
         HostEvidence, durable
    <3>7. QED
      BY <2>1, <3>1, <3>2, <3>3, <3>4, <3>5, <3>6 DEF Step, Evidence
  <2>6. QED
    BY <2>2, <2>5 DEF EvidenceInv
<1>3. QED
  BY <1>1, <1>2

\* No policy is in force, kept for rollback or restored by a new process
\* without an accepted swap in the log.
THEOREM EvidenceBeforeFlip == Spec => []ActiveHasEvidence
<1>1. Init => EvidenceInv
  BY DEF Init, EvidenceInv, HostEvidence
<1>2. EvidenceInv => ActiveHasEvidence
  BY DEF EvidenceInv, HostEvidence, ActiveHasEvidence
<1>3. QED
  BY <1>1, <1>2, NextEvidence, TypeCorrect, PTL DEF Spec
-----------------------------------------------------------------------------
(* The floor, when one process swaps and any number of others read.        *)

\* The threading lock makes swaps sequential in a process, not across them.
OneSwapper == \A g, h \in Swappers : g = h

SwapAt(i) == log[i].act = "swap"

\* An accepted swap at the version of the intent record is of its image.
IntentIsUnique ==
    \A i \in DOMAIN log :
        SwapAt(i) /\ intent.ver # 0 /\ log[i].pol.ver = intent.ver => log[i].pol = intent

\* What the checks of a swap have established at each phase.
HostCommit(h) ==
    /\ phase[h] \in SwapPhases \cup RollbackPhases => h \in Swappers
    /\ phase[h] \in {"recover", "read", "verify", "intent"} => job[h].seen = intent
    /\ phase[h] = "verify" => job[h].pol.ver = 0
    /\ phase[h] = "intent" => job[h].pol.ver = 0 \/ AdmittedByFloor(job[h].pol, job[h].seen)
    /\ phase[h] = "floor" => intent = job[h].pol /\ job[h].pol.ver # 0
    /\ phase[h] = "evidence" =>
          intent = job[h].pol /\ (job[h].pol.ver # 0 => floor = job[h].pol.ver)

CommitInv ==
    /\ FloorCoversEvidence
    /\ AcceptedInOrder
    /\ InterruptedSwapMayFinish
    /\ IntentIsUnique
    /\ \A h \in Hosts : HostCommit(h)

LEMMA InitCommit == Init => CommitInv
BY DEF Init, CommitInv, FloorCoversEvidence, AcceptedInOrder, InterruptedSwapMayFinish,
       IntentIsUnique, HostCommit, SwapPhases, RollbackPhases

\* Only a swapping process writes the intent record and the floor.
LEMMA WritersSwap ==
    ASSUME TypeOK, CommitInv, NEW h \in Hosts, Step(h), h \notin Swappers
    PROVE  UNCHANGED <<intent, floor>>
<1>1. phase[h] \notin SwapPhases \cup RollbackPhases
  BY DEF CommitInv, HostCommit
<1> USE <1>1 DEF SwapPhases, RollbackPhases, durable
<1>2. CASE Boot(h) \/ Admit(h)
  BY <1>2 DEF Boot, Start, LoadRecord, LoadImage, Admit, BeginSwap, ReadImage,
              AdmitUnsigned, RefusePack, CheckVersion
<1>3. CASE Commit(h) \/ Rollback(h)
  BY <1>3 DEF Commit, WriteIntent, WriteFloor, WriteImage, WriteRecord, ClearIntent,
              Rollback, BeginRollback, RollbackRecord
<1>4. CASE Attest(h) \/ Evidence(h) \/ Fail(h)
  BY <1>4 DEF Attest, BeginAttest, EndAttest, Evidence, Audit, AuditRaises, Fail,
              WriteRaises, Crash
<1>5. QED
  BY <1>2, <1>3, <1>4 DEF Step

\* An append of anything but a swap keeps what the log says of acceptances.
LEMMA OtherEvents ==
    ASSUME TypeOK, CommitInv, NEW e \in Events, e.act # "swap",
           log' = Append(log, e), UNCHANGED <<intent, floor>>
    PROVE  /\ FloorCoversEvidence' /\ AcceptedInOrder'
           /\ InterruptedSwapMayFinish' /\ IntentIsUnique'
<1>1. \A i \in DOMAIN log' : log'[i].act = "swap" => i \in DOMAIN log /\ log'[i] = log[i]
  BY DEF TypeOK
<1>2. QED
  BY <1>1 DEF CommitInv, FloorCoversEvidence, AcceptedInOrder, InterruptedSwapMayFinish,
              IntentIsUnique, SwapAt, AdmittedByFloor

\* The acceptance itself: the floor is at its version, and whatever was
\* accepted at that version is the same policy.
LEMMA SwapEvent ==
    ASSUME TypeOK, CommitInv, NEW p \in MaybePolicy, intent = p, p.ver # 0 => floor = p.ver,
           log' = Append(log, [act |-> "swap", pol |-> p]), UNCHANGED <<intent, floor>>
    PROVE  /\ FloorCoversEvidence' /\ AcceptedInOrder'
           /\ InterruptedSwapMayFinish' /\ IntentIsUnique'
<1> DEFINE n == Len(log) + 1
<1>1. /\ log \in Seq(Events) /\ floor \in Nat /\ p.ver \in Nat
      /\ [act |-> "swap", pol |-> p] \in Events
  BY DEF TypeOK, Policies, Events, Actions
<1>2. /\ DOMAIN log = 1..Len(log) /\ DOMAIN log' = 1..n
      /\ \A i \in DOMAIN log : log'[i] = log[i] /\ log[i].pol.ver \in Nat
  <2>1. \A i \in DOMAIN log : log[i] \in Events
    BY <1>1
  <2>2. \A e \in Events : e.pol.ver \in Nat
    BY DEF Events, Policies
  <2>3. QED
    BY <1>1, <2>1, <2>2
<1>3. log'[n] = [act |-> "swap", pol |-> p]
  BY <1>1
<1>4. FloorCoversEvidence'
  <2>1. p.ver <= floor
    BY <1>1
  <2>2. QED
    BY <1>2, <1>3, <2>1 DEF FloorCoversEvidence, CommitInv
<1>5. IntentIsUnique'
  BY <1>1, <1>2, <1>3 DEF IntentIsUnique, SwapAt, CommitInv
<1>6. AcceptedInOrder'
  <2>1. \A i \in DOMAIN log : log[i].act = "swap" /\ log[i].pol.ver # 0 /\ p.ver # 0
            => log[i].pol.ver < p.ver \/ log[i].pol = p
    BY <1>1, <1>2 DEF CommitInv, FloorCoversEvidence, IntentIsUnique, SwapAt
  <2>2. QED
    BY <1>1, <1>2, <1>3, <2>1 DEF AcceptedInOrder, CommitInv
<1>7. InterruptedSwapMayFinish'
  BY DEF InterruptedSwapMayFinish, AdmittedByFloor, CommitInv
<1>8. QED
  BY <1>4, <1>5, <1>6, <1>7
LEMMA NextCommit ==
    ASSUME OneSwapper
    PROVE  TypeOK /\ CommitInv /\ [Next]_vars => CommitInv'
<1> SUFFICES ASSUME TypeOK, CommitInv, [Next]_vars
             PROVE  CommitInv'
  OBVIOUS
<1> DEFINE LogInv == /\ FloorCoversEvidence /\ AcceptedInOrder
                     /\ InterruptedSwapMayFinish /\ IntentIsUnique
<1>1. ASSUME UNCHANGED <<intent, floor, log>>
      PROVE  LogInv'
  BY <1>1 DEF CommitInv, FloorCoversEvidence, AcceptedInOrder, InterruptedSwapMayFinish,
              IntentIsUnique, SwapAt, AdmittedByFloor
<1>2. CASE UNCHANGED vars
  BY <1>1, <1>2 DEF vars, volatile, durable, CommitInv, HostCommit, AdmittedByFloor
<1>3. CASE Next
  <2>1. PICK h \in Hosts : Step(h)
    BY <1>3 DEF Next
  <2>2. \A g \in Hosts \ {h} : HostCommit(g)'
    <3>1. SUFFICES ASSUME NEW g \in Hosts \ {h}
                   PROVE  HostCommit(g)'
      OBVIOUS
    <3>2. phase'[g] = phase[g] /\ job'[g] = job[g] /\ HostCommit(g)
      BY <2>1, OthersKept DEF CommitInv
    <3>3. CASE g \in Swappers
      <4>1. UNCHANGED <<intent, floor>>
        BY <2>1, <3>1, <3>3, WritersSwap DEF OneSwapper
      <4>2. QED
        BY <3>2, <4>1 DEF HostCommit, AdmittedByFloor
    <3>4. CASE g \notin Swappers
      BY <3>2, <3>4 DEF HostCommit, SwapPhases, RollbackPhases
    <3>5. QED
      BY <3>3, <3>4
  <2>3. HostCommit(h)
    BY DEF CommitInv
  <2> USE DEF durable, SwapPhases, RollbackPhases
  <2>4. LogInv' /\ HostCommit(h)'
    <3> USE DEF TypeOK, Goto
    <3>1. CASE Boot(h)
      BY <3>1, <1>1 DEF Boot, Start, LoadRecord, LoadImage, HostCommit
    <3>2. CASE Admit(h)
      <4>1. LogInv'
        BY <3>2, <1>1 DEF Admit, BeginSwap, ReadImage, AdmitUnsigned, RefusePack, CheckVersion
      <4>2. HostCommit(h)'
        BY <3>2, <2>3 DEF Admit, BeginSwap, ReadImage, AdmitUnsigned, RefusePack, CheckVersion,
                          HostCommit, AdmittedByFloor
      <4>3. QED
        BY <4>1, <4>2
    <3>3. CASE WriteIntent(h)
      <4>1. intent' = job[h].pol /\ UNCHANGED <<floor, log>> /\ job[h].pol \in MaybePolicy
        BY <3>3 DEF WriteIntent
      <4>2. /\ job[h].seen = intent
            /\ job[h].pol.ver # 0 => AdmittedByFloor(job[h].pol, job[h].seen)
        BY <3>3, <2>3 DEF WriteIntent, HostCommit
      <4>3. HostCommit(h)'
        BY <3>3, <2>3 DEF WriteIntent, HostCommit
      <4>4. FloorCoversEvidence' /\ AcceptedInOrder'
        BY <4>1 DEF CommitInv, FloorCoversEvidence, AcceptedInOrder
      <4>5. InterruptedSwapMayFinish'
        BY <4>1, <4>2 DEF InterruptedSwapMayFinish, AdmittedByFloor
      <4>6. IntentIsUnique'
        <5>1. CASE job[h].pol.ver > floor
          <6>1. \A i \in DOMAIN log : SwapAt(i) => log[i].pol.ver <= floor
            BY DEF CommitInv, FloorCoversEvidence, SwapAt
          <6>2. \A i \in DOMAIN log : log[i].pol.ver \in Nat
            <7>1. \A i \in DOMAIN log : log[i] \in Events
              OBVIOUS
            <7>2. QED
              BY <7>1 DEF Events, Policies
          <6>3. job[h].pol.ver \in Nat /\ floor \in Nat
            BY <4>1 DEF Policies
          <6>4. QED
            BY <4>1, <5>1, <6>1, <6>2, <6>3 DEF IntentIsUnique, SwapAt
        <5>2. CASE job[h].pol = intent \/ job[h].pol.ver = 0
          BY <4>1, <5>2 DEF IntentIsUnique, SwapAt, CommitInv
        <5>3. QED
          BY <4>2, <5>1, <5>2 DEF AdmittedByFloor
      <4>7. QED
        BY <4>3, <4>4, <4>5, <4>6
    <3>4. CASE WriteFloor(h)
      <4>1. /\ floor' = intent.ver /\ UNCHANGED <<intent, log>>
            /\ intent = job[h].pol /\ intent.ver # 0
        BY <3>4, <2>3 DEF WriteFloor, HostCommit
      <4>2. floor' >= floor /\ floor' \in Nat
        BY <4>1 DEF CommitInv, InterruptedSwapMayFinish, AdmittedByFloor, Policies
      <4>3. HostCommit(h)'
        BY <3>4, <4>1, <2>3 DEF WriteFloor, HostCommit
      <4>4. FloorCoversEvidence'
        <5>1. \A i \in DOMAIN log : log[i] \in Events
          OBVIOUS
        <5>2. \A i \in DOMAIN log : log[i].pol.ver \in Nat
          BY <5>1 DEF Events, Policies
        <5>3. QED
          BY <4>1, <4>2, <5>2 DEF CommitInv, FloorCoversEvidence
      <4>5. AcceptedInOrder' /\ IntentIsUnique'
        BY <4>1 DEF CommitInv, AcceptedInOrder, IntentIsUnique, SwapAt
      <4>6. InterruptedSwapMayFinish'
        BY <4>1 DEF InterruptedSwapMayFinish, AdmittedByFloor
      <4>7. QED
        BY <4>3, <4>4, <4>5, <4>6
    <3>5. CASE ClearIntent(h)
      <4>1. intent' = NoPolicy /\ UNCHANGED <<floor, log>>
        BY <3>5 DEF ClearIntent
      <4>2. LogInv'
        BY <4>1 DEF CommitInv, FloorCoversEvidence, AcceptedInOrder, InterruptedSwapMayFinish,
                    IntentIsUnique
      <4>3. HostCommit(h)'
        BY <3>5 DEF ClearIntent, HostCommit
      <4>4. QED
        BY <4>2, <4>3
    <3>6. CASE WriteImage(h) \/ WriteRecord(h) \/ Rollback(h) \/ BeginAttest(h) \/ Fail(h)
      <4>1. LogInv'
        BY <3>6, <1>1 DEF WriteImage, WriteRecord, Rollback, BeginRollback, RollbackRecord,
                          BeginAttest, Fail, WriteRaises, Crash
      <4>2. HostCommit(h)'
        <5>1. CASE WriteImage(h) \/ WriteRecord(h)
          BY <5>1, <2>3 DEF WriteImage, WriteRecord, HostCommit
        <5>2. CASE Rollback(h)
          BY <5>2, <2>3 DEF Rollback, BeginRollback, RollbackRecord, HostCommit
        <5>3. CASE BeginAttest(h)
          BY <5>3, <2>3 DEF BeginAttest, HostCommit, AdmittedByFloor
        <5>4. CASE Fail(h)
          BY <5>4, <2>3 DEF Fail, WriteRaises, Crash, HostCommit
        <5>5. QED
          BY <3>6, <5>1, <5>2, <5>3, <5>4
      <4>3. QED
        BY <4>1, <4>2
    <3>7. CASE EndAttest(h)
      <4>1. HostCommit(h)'
        BY <3>7, <2>3 DEF EndAttest, HostCommit, AdmittedByFloor
      <4>2. LogInv'
        <5>1. CASE log' = log
          BY <3>7, <5>1, <1>1 DEF EndAttest
        <5>2. CASE Logged([act |-> "attestation", pol |-> attests[h][1]])
          <6>1. [act |-> "attestation", pol |-> attests[h][1]] \in Events
            BY <3>7 DEF EndAttest, Events, Actions
          <6>2. QED
            BY <3>7, <5>2, <6>1, OtherEvents DEF EndAttest, Logged
        <5>3. QED
          BY <3>7, <5>1, <5>2 DEF EndAttest
      <4>3. QED
        BY <4>1, <4>2
    <3>8. CASE Evidence(h)
      <4>1. UNCHANGED <<intent, floor>> /\ phase[h] \in AuditPhases
        BY <3>8 DEF Evidence, Audit, AuditRaises
      <4>2. HostCommit(h)'
        <5>1. CASE Audit(h)
          BY <5>1, <2>3 DEF Audit, AuditPhases, AfterAudit, HostCommit
        <5>2. CASE AuditRaises(h)
          BY <5>2 DEF AuditRaises, AfterRaise, HostCommit
        <5>3. QED
          BY <3>8, <5>1, <5>2 DEF Evidence
      <4>3. LogInv'
        <5>1. CASE log' = log
          BY <4>1, <5>1, <1>1
        <5>2. CASE Logged(EventOf(h)) /\ phase[h] = "evidence"
          <6>1. log' = Append(log, [act |-> "swap", pol |-> job[h].pol])
            BY <5>2 DEF Logged, EventOf
          <6>2. job[h].pol \in MaybePolicy /\ intent = job[h].pol
                /\ (job[h].pol.ver # 0 => floor = job[h].pol.ver)
            BY <5>2, <2>3 DEF HostCommit
          <6>3. QED
            BY <4>1, <6>1, <6>2, SwapEvent
        <5>3. CASE Logged(EventOf(h)) /\ phase[h] # "evidence"
          <6>1. EventOf(h).act # "swap"
            BY <4>1, <5>3 DEF EventOf, AuditPhases
          <6>2. QED
            BY <4>1, <5>3, <6>1, EventType, OtherEvents DEF Logged
        <5>4. QED
          BY <3>8, <5>1, <5>2, <5>3 DEF Evidence, Audit, AuditRaises
      <4>4. QED
        BY <4>2, <4>3
    <3>9. QED
      BY <2>1, <3>1, <3>2, <3>3, <3>4, <3>5, <3>6, <3>7, <3>8 DEF Step, Commit, Attest
  <2>5. QED
    BY <2>2, <2>4 DEF CommitInv
<1>4. QED
  BY <1>2, <1>3
LEMMA CommitInvariant ==
    ASSUME OneSwapper
    PROVE  Spec => []CommitInv
BY InitCommit, NextCommit, TypeCorrect, PTL DEF Spec

\* No accepted version is above the floor, whatever fails.
THEOREM FloorIsDurableFirst ==
    ASSUME OneSwapper
    PROVE  Spec => []FloorCoversEvidence
<1>1. CommitInv => FloorCoversEvidence
  BY DEF CommitInv
<1>2. QED
  BY <1>1, CommitInvariant, PTL

\* Signed acceptances come in version order, one image to a version.
THEOREM AcceptanceIsOrdered ==
    ASSUME OneSwapper
    PROVE  Spec => []AcceptedInOrder
<1>1. CommitInv => AcceptedInOrder
  BY DEF CommitInv
<1>2. QED
  BY <1>1, CommitInvariant, PTL

\* The intent on disk always passes the version check of its retry.
THEOREM RetryPassesFloor ==
    ASSUME OneSwapper
    PROVE  Spec => []InterruptedSwapMayFinish
<1>1. CommitInv => InterruptedSwapMayFinish
  BY DEF CommitInv
<1>2. QED
  BY <1>1, CommitInvariant, PTL

\* A step that is not a floor write keeps the floor; a floor write raises it to
\* the version of the intent, which is not below it.
LEMMA FloorStep ==
    ASSUME TypeOK, CommitInv, NEW h \in Hosts, Step(h)
    PROVE  floor' = floor \/ (WriteFloor(h) /\ floor' >= floor /\ floor' \in Nat)
<1> USE DEF durable
<1>1. CASE WriteFloor(h)
  BY <1>1 DEF WriteFloor, CommitInv, HostCommit, InterruptedSwapMayFinish, AdmittedByFloor,
              TypeOK, Policies
<1>2. CASE Boot(h) \/ Admit(h) \/ Evidence(h)
  BY <1>2 DEF Boot, Start, LoadRecord, LoadImage, Admit, BeginSwap, ReadImage,
              AdmitUnsigned, RefusePack, CheckVersion, Evidence, Audit, AuditRaises
<1>3. CASE Rollback(h) \/ Attest(h) \/ Fail(h)
  BY <1>3 DEF Rollback, BeginRollback, RollbackRecord, Attest, BeginAttest, EndAttest,
              Fail, WriteRaises, Crash
<1>4. CASE WriteIntent(h) \/ WriteImage(h) \/ WriteRecord(h) \/ ClearIntent(h)
  BY <1>4 DEF WriteIntent, WriteImage, WriteRecord, ClearIntent
<1>5. QED
  BY <1>1, <1>2, <1>3, <1>4 DEF Step, Commit

\* The floor never falls, across crashes, retries and rollbacks.
THEOREM FloorIsMonotonic ==
    ASSUME OneSwapper
    PROVE  Spec => FloorNeverFalls
<1>1. TypeOK /\ CommitInv /\ [Next]_vars => [floor' >= floor]_vars
  BY FloorStep DEF Next, TypeOK
<1>2. QED
  BY <1>1, TypeCorrect, CommitInvariant, PTL DEF Spec, FloorNeverFalls

-----------------------------------------------------------------------------
(* The refinement.                                                         *)

\* A process that is still starting enforces nothing.
BootInv == \A h \in Hosts : phase[h] \in BootPhases \cup {"down"} => active[h] = NoPolicy

LEMMA NextBoot == TypeOK /\ BootInv /\ [Next]_vars => BootInv'
<1> SUFFICES ASSUME TypeOK, BootInv, [Next]_vars
             PROVE  BootInv'
  OBVIOUS
<1> USE DEF BootInv, BootPhases
<1>1. CASE UNCHANGED vars
  BY <1>1 DEF vars, volatile
<1>2. CASE Next
  <2>1. PICK h \in Hosts : Step(h)
    BY <1>2 DEF Next
  <2>2. \A g \in Hosts \ {h} : phase'[g] = phase[g] /\ active'[g] = active[g]
    BY <2>1, OthersKept
  <2>3. phase'[h] \in BootPhases \cup {"down"} => active'[h] = NoPolicy
    <3> USE DEF TypeOK, Goto
    <3>1. CASE Boot(h)
      BY <3>1 DEF Boot, Start, LoadRecord, LoadImage
    <3>2. CASE Admit(h)
      BY <3>2 DEF Admit, BeginSwap, ReadImage, AdmitUnsigned, RefusePack, CheckVersion
    <3>3. CASE Commit(h) \/ Rollback(h)
      BY <3>3 DEF Commit, WriteIntent, WriteFloor, WriteImage, WriteRecord, ClearIntent,
                  Rollback, BeginRollback, RollbackRecord
    <3>4. CASE Attest(h) \/ Fail(h)
      BY <3>4 DEF Attest, BeginAttest, EndAttest, Fail, WriteRaises, Crash
    <3>5. CASE Evidence(h)
      BY <3>5 DEF Evidence, Audit, AuditRaises, AuditPhases, AfterAudit, AfterRaise
    <3>6. QED
      BY <2>1, <3>1, <3>2, <3>3, <3>4, <3>5 DEF Step
  <2>4. QED
    BY <2>2, <2>3
<1>3. QED
  BY <1>1, <1>2

\* What an append adds to the accepted policies.
LEMMA AcceptedGrows ==
    ASSUME TypeOK, NEW e \in Events, log' = Append(log, e)
    PROVE  Accepted' = IF e.act = "swap" THEN Accepted \cup {e.pol} ELSE Accepted
<1>1. /\ DOMAIN log' = DOMAIN log \cup {Len(log) + 1} /\ log'[Len(log) + 1] = e
      /\ \A i \in DOMAIN log : log'[i] = log[i]
  BY DEF TypeOK
<1>2. QED
  BY <1>1 DEF Accepted

LEMMA EvidenceIsAccepted ==
    ASSUME NEW p, HasEvidence(p)
    PROVE  p \in Accepted
BY DEF HasEvidence, Accepted

\* Every step of the host is a step of the promise or leaves it alone.
LEMMA StepRefines ==
    ASSUME OneSwapper, TypeOK, EvidenceInv, CommitInv, BootInv, NEW h \in Hosts, Step(h)
    PROVE  [Promise!Next]_(Promise!vars)
<1> USE DEF durable
<1> DEFINE Still == UNCHANGED <<floor, Accepted, record, active>>
<1>1. ASSUME log' = log
      PROVE  Accepted' = Accepted
  BY <1>1 DEF Accepted
<1>2. ASSUME NEW e \in Events, e.act # "swap", Logged(e)
      PROVE  Accepted' = Accepted
  BY <1>2, AcceptedGrows DEF Logged
<1>3. Still => [Promise!Next]_(Promise!vars)
  BY DEF Promise!vars
<1>4. CASE Start(h) \/ LoadRecord(h) \/ Admit(h) \/ WriteIntent(h) \/ WriteImage(h)
            \/ ClearIntent(h) \/ BeginRollback(h) \/ BeginAttest(h) \/ WriteRaises(h)
  <2>1. UNCHANGED <<floor, log, record, active>>
    BY <1>4 DEF Start, LoadRecord, Admit, BeginSwap, ReadImage, AdmitUnsigned, RefusePack,
                CheckVersion, WriteIntent, WriteImage, ClearIntent, BeginRollback,
                BeginAttest, WriteRaises
  <2>2. QED
    BY <2>1, <1>1, <1>3
<1>5. CASE LoadImage(h)
  <2>1. CASE active' = active
    BY <1>5, <2>1, <1>1, <1>3 DEF LoadImage
  <2>2. CASE active' = [active EXCEPT ![h] = job[h].pol]
    <3>1. active[h] = NoPolicy /\ job[h].pol \in Accepted
      BY <1>5, EvidenceIsAccepted DEF LoadImage, BootInv, BootPhases, EvidenceInv, HostEvidence
    <3>2. Promise!Restore(h)
      BY <1>5, <2>2, <3>1, <1>1 DEF LoadImage, Promise!Restore
    <3>3. QED
      BY <3>2 DEF Promise!Next
  <2>3. QED
    BY <1>5, <2>1, <2>2 DEF LoadImage
<1>6. CASE WriteFloor(h)
  <2>1. UNCHANGED <<log, record, active>>
    BY <1>6 DEF WriteFloor
  <2>2. CASE floor' = floor
    BY <2>1, <2>2, <1>1, <1>3
  <2>3. CASE floor' # floor
    <3>1. floor' \in Nat /\ floor' > floor
      BY <2>3, FloorStep DEF TypeOK
    <3>2. Promise!Reserve
      BY <2>1, <3>1, <1>1 DEF Promise!Reserve
    <3>3. QED
      BY <3>2 DEF Promise!Next
  <2>4. QED
    BY <2>2, <2>3
<1>7. CASE WriteRecord(h) \/ RollbackRecord(h)
  <2>1. /\ record' \in Accepted /\ active' = [active EXCEPT ![h] = record']
        /\ UNCHANGED <<floor, log>>
    BY <1>7, EvidenceIsAccepted DEF WriteRecord, RollbackRecord, EvidenceInv, HostEvidence
  <2>2. Promise!Commit(h)
    BY <2>1, <1>1 DEF Promise!Commit
  <2>3. QED
    BY <2>2 DEF Promise!Next
<1>8. CASE EndAttest(h)
  <2>1. [act |-> "attestation", pol |-> attests[h][1]] \in Events
    BY <1>8 DEF EndAttest, Events, Actions, TypeOK
  <2>2. Accepted' = Accepted
    BY <1>8, <2>1, <1>1, <1>2 DEF EndAttest
  <2>3. QED
    BY <1>8, <2>2, <1>3 DEF EndAttest
<1>9. CASE Evidence(h)
  <2>1. UNCHANGED <<floor, record, active>> /\ phase[h] \in AuditPhases
    BY <1>9 DEF Evidence, Audit, AuditRaises
  <2>2. CASE log' = log
    BY <2>1, <2>2, <1>1, <1>3
  <2>3. CASE Logged(EventOf(h)) /\ phase[h] # "evidence"
    <3>1. EventOf(h).act # "swap"
      BY <2>1, <2>3 DEF EventOf, AuditPhases
    <3>2. QED
      BY <2>1, <2>3, <3>1, EventType, <1>2, <1>3
  <2>4. CASE Logged(EventOf(h)) /\ phase[h] = "evidence"
    <3> DEFINE p == job[h].pol
    <3>1. EventOf(h) = [act |-> "swap", pol |-> p]
      BY <2>4 DEF EventOf
    <3>2. Accepted' = Accepted \cup {p}
      BY <2>1, <2>4, <3>1, EventType, AcceptedGrows DEF Logged
    <3>3. intent = p /\ (p.ver # 0 => floor = p.ver)
      BY <2>4 DEF CommitInv, HostCommit
    <3>4. p.ver # 0 => \A q \in Accepted : q.ver = floor => q = p
      BY <3>3 DEF CommitInv, IntentIsUnique, SwapAt, Accepted
    <3>5. Promise!Accept
      BY <2>1, <3>2, <3>3, <3>4 DEF Promise!Accept
    <3>6. QED
      BY <3>5 DEF Promise!Next
  <2>5. QED
    BY <1>9, <2>2, <2>3, <2>4 DEF Evidence, Audit, AuditRaises
<1>10. CASE Crash(h)
  <2>1. Promise!Drop(h)
    BY <1>10, <1>1 DEF Crash, Promise!Drop
  <2>2. QED
    BY <2>1 DEF Promise!Next
<1>11. QED
  BY <1>4, <1>5, <1>6, <1>7, <1>8, <1>9, <1>10
     DEF Step, Boot, Commit, Rollback, Attest, Fail

\* The host implements the promise, with one swapping process.
THEOREM HostKeepsPromise ==
    ASSUME OneSwapper
    PROVE  Spec => ImplementsPromise
<1>1. Init => Promise!Init /\ EvidenceInv /\ BootInv
  BY DEF Init, Promise!Init, Accepted, EvidenceInv, HostEvidence, BootInv
<1>2. TypeOK /\ EvidenceInv /\ CommitInv /\ BootInv /\ [Next]_vars
        => [Promise!Next]_(Promise!vars)
  <2> SUFFICES ASSUME TypeOK, EvidenceInv, CommitInv, BootInv, [Next]_vars
               PROVE  [Promise!Next]_(Promise!vars)
    OBVIOUS
  <2>1. CASE UNCHANGED vars
    BY <2>1 DEF vars, durable, volatile, Promise!vars, Accepted
  <2>2. CASE Next
    BY <2>2, StepRefines DEF Next
  <2>3. QED
    BY <2>1, <2>2
<1>3. QED
  BY <1>1, <1>2, TypeCorrect, CommitInvariant, NextEvidence, NextBoot, PTL
     DEF Spec, ImplementsPromise, Promise!Spec
-----------------------------------------------------------------------------
(* What is on disk is what the swapping process holds.                     *)

\* A swapping process restores the record and the image it read, nobody else
\* writes those files, and a rollback follows a commit by the same process.
HostRecord(h) ==
    /\ active[h] # NoPolicy => record = active[h]
    /\ phase[h] = "loadImage" => record = job[h].pol
    /\ phase[h] = "record" => image = job[h].pol.img
    /\ phase[h] = "rbRecord" => image = prev[h].img

\* The image on disk is the record's, except between the two writes.
ImageOfRecord == record # NoPolicy /\ ~apart => image = record.img

ImageAccepted ==
    image # NoImage =>
        \E i \in DOMAIN log : log[i].act = "swap" /\ log[i].pol.img = image

RecordInv ==
    /\ \A h \in Swappers : HostRecord(h)
    /\ ImageOfRecord
    /\ ImageAccepted

\* Only a swapping process writes the record and its image.
LEMMA WritersRecord ==
    ASSUME TypeOK, CommitInv, NEW h \in Hosts, Step(h), h \notin Swappers
    PROVE  UNCHANGED <<record, image, apart>>
<1>1. phase[h] \notin SwapPhases \cup RollbackPhases
  BY DEF CommitInv, HostCommit
<1> USE <1>1 DEF SwapPhases, RollbackPhases, durable
<1>2. CASE Boot(h) \/ Admit(h)
  BY <1>2 DEF Boot, Start, LoadRecord, LoadImage, Admit, BeginSwap, ReadImage,
              AdmitUnsigned, RefusePack, CheckVersion
<1>3. CASE Commit(h) \/ Rollback(h)
  BY <1>3 DEF Commit, WriteIntent, WriteFloor, WriteImage, WriteRecord, ClearIntent,
              Rollback, BeginRollback, RollbackRecord
<1>4. CASE Attest(h) \/ Evidence(h) \/ Fail(h)
  BY <1>4 DEF Attest, BeginAttest, EndAttest, Evidence, Audit, AuditRaises, Fail,
              WriteRaises, Crash
<1>5. QED
  BY <1>2, <1>3, <1>4 DEF Step

\* A step of the swapping process keeps its record, and the image with it.
LEMMA OwnRecord ==
    ASSUME TypeOK, NEW h \in Hosts, Step(h), HostRecord(h), ImageOfRecord
    PROVE  HostRecord(h)' /\ ImageOfRecord'
<1> USE DEF TypeOK, Goto, HostRecord, ImageOfRecord, durable
<1>1. CASE Boot(h)
  BY <1>1 DEF Boot, Start, LoadRecord, LoadImage
<1>2. CASE Admit(h)
  BY <1>2 DEF Admit, BeginSwap, ReadImage, AdmitUnsigned, RefusePack, CheckVersion
<1>3. CASE Commit(h)
  <2>1. CASE WriteIntent(h) \/ WriteFloor(h) \/ ClearIntent(h)
    BY <2>1 DEF WriteIntent, WriteFloor, ClearIntent
  <2>2. CASE WriteImage(h)
    BY <2>2 DEF WriteImage
  <2>3. CASE WriteRecord(h)
    BY <2>3 DEF WriteRecord
  <2>4. QED
    BY <1>3, <2>1, <2>2, <2>3 DEF Commit
<1>4. CASE Rollback(h) \/ Attest(h)
  BY <1>4 DEF Rollback, BeginRollback, RollbackRecord, Attest, BeginAttest, EndAttest
<1>5. CASE Audit(h)
  BY <1>5 DEF Audit, AuditPhases, AfterAudit
<1>6. CASE AuditRaises(h) \/ Fail(h)
  BY <1>6 DEF AuditRaises, AfterRaise, Fail, WriteRaises, Crash
<1>7. QED
  BY <1>1, <1>2, <1>3, <1>4, <1>5, <1>6 DEF Step, Evidence

\* An image is written when its policy has been accepted, and events stay.
LEMMA ImageStep ==
    ASSUME TypeOK, EvidenceInv, ImageAccepted, NEW h \in Hosts, Step(h)
    PROVE  ImageAccepted'
<1>1. \A i \in DOMAIN log : i \in DOMAIN log' /\ log'[i] = log[i]
  <2>1. CASE log' = log
    BY <2>1
  <2>2. ASSUME NEW e \in Events, log' = Append(log, e)
        PROVE  \A i \in DOMAIN log : i \in DOMAIN log' /\ log'[i] = log[i]
    BY <2>2 DEF TypeOK
  <2>3. QED
    BY <2>1, <2>2, LogGrows
<1>2. CASE image' = image
  BY <1>1, <1>2 DEF ImageAccepted
<1>3. CASE WriteImage(h)
  <2>1. PICK p : HasEvidence(p) /\ image' = p.img
    BY <1>3 DEF WriteImage, EvidenceInv, HostEvidence
  <2>2. PICK i \in DOMAIN log : log[i] = [act |-> "swap", pol |-> p]
    BY <2>1 DEF HasEvidence
  <2>3. log'[i].act = "swap" /\ log'[i].pol.img = image' /\ i \in DOMAIN log'
    BY <1>1, <2>1, <2>2
  <2>4. QED
    BY <2>3 DEF ImageAccepted
<1>4. image' = image \/ WriteImage(h)
  <2> USE DEF durable
  <2>1. CASE Boot(h) \/ Admit(h)
    BY <2>1 DEF Boot, Start, LoadRecord, LoadImage, Admit, BeginSwap, ReadImage,
                AdmitUnsigned, RefusePack, CheckVersion
  <2>2. CASE Commit(h) \/ Rollback(h)
    BY <2>2 DEF Commit, WriteIntent, WriteFloor, WriteRecord, ClearIntent,
                Rollback, BeginRollback, RollbackRecord
  <2>3. CASE Attest(h) \/ Evidence(h) \/ Fail(h)
    BY <2>3 DEF Attest, BeginAttest, EndAttest, Evidence, Audit, AuditRaises, Fail,
                WriteRaises, Crash
  <2>4. QED
    BY <2>1, <2>2, <2>3 DEF Step
<1>5. QED
  BY <1>2, <1>3, <1>4

LEMMA NextRecord ==
    ASSUME OneSwapper
    PROVE  TypeOK /\ EvidenceInv /\ CommitInv /\ RecordInv /\ [Next]_vars => RecordInv'
<1> SUFFICES ASSUME TypeOK, EvidenceInv, CommitInv, RecordInv, [Next]_vars
             PROVE  RecordInv'
  OBVIOUS
<1>1. CASE UNCHANGED vars
  BY <1>1 DEF vars, volatile, durable, RecordInv, HostRecord, ImageOfRecord, ImageAccepted
<1>2. ASSUME NEW h \in Hosts, Step(h)
      PROVE  RecordInv'
  <2>1. ImageAccepted'
    BY <1>2, ImageStep DEF RecordInv
  <2>2. CASE h \in Swappers
    <3>1. HostRecord(h)' /\ ImageOfRecord'
      BY <1>2, <2>2, OwnRecord DEF RecordInv
    <3>2. QED
      BY <2>1, <2>2, <3>1 DEF RecordInv, OneSwapper
  <2>3. CASE h \notin Swappers
    <3>1. UNCHANGED <<record, image, apart>>
      BY <1>2, <2>3, WritersRecord
    <3>2. ASSUME NEW g \in Swappers
          PROVE  HostRecord(g)'
      <4>1. /\ phase'[g] = phase[g] /\ job'[g] = job[g]
            /\ active'[g] = active[g] /\ prev'[g] = prev[g]
        BY <1>2, <2>3, RolesAssumption, OthersKept
      <4>2. QED
        BY <3>1, <4>1 DEF RecordInv, HostRecord
    <3>3. QED
      BY <2>1, <3>1, <3>2 DEF RecordInv, ImageOfRecord
  <2>4. QED
    BY <2>2, <2>3
<1>3. QED
  BY <1>1, <1>2 DEF Next

\* What the swapping process enforces is what a restart restores, record and
\* image, whatever step of a commit or a rollback failed, unless the failure
\* fell between the two writes of _persist_active: then the image is that of
\* another accepted policy.
THEOREM FreshHostRestores ==
    ASSUME OneSwapper
    PROVE  Spec => []FreshHostRestoresActive
<1>1. Init => EvidenceInv /\ RecordInv
  BY RolesAssumption
     DEF Init, EvidenceInv, HostEvidence, RecordInv, HostRecord, ImageOfRecord, ImageAccepted
<1>2. RecordInv => FreshHostRestoresActive
  BY DEF RecordInv, HostRecord, ImageOfRecord, ImageAccepted, FreshHostRestoresActive
<1>3. QED
  BY <1>1, <1>2, NextEvidence, NextRecord, TypeCorrect, CommitInvariant, PTL DEF Spec
=============================================================================
