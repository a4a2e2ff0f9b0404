----------------------------- MODULE PolicyHost -----------------------------
(***************************************************************************)
(* The policy host of the secure hot-swap (prismpath/hotswap/              *)
(* policy_host.py): one active policy, replaced by signed packs, with an   *)
(* anti-rollback floor and an audit log, over a state directory of files   *)
(* that several processes may open.                                        *)
(*                                                                         *)
(* Durable state (files of state_dir): the intent record pending_swap, the *)
(* floor active_version, the audit log swaps.log, the image active.ppt and *)
(* the record active_policy.json.  Volatile state, per process: what the   *)
(* constructor, swap(), rollback() and attest() hold.                      *)
(*                                                                         *)
(* A swap or rollback runs under the process's lock and is split at every  *)
(* durable write, because a crash or an I/O error may fall between any     *)
(* two.  attest() takes no lock, so it is a second thread of the process.  *)
(* canon.atomic_write either replaces the file or raises with the old one  *)
(* in place; an audit append that raises may or may not have left its      *)
(* event in the file (audit_log.py: the fsync or the root statement can    *)
(* fail after the write).                                                  *)
(*                                                                         *)
(* Abstractions: an image stands for its bytes and its digest; signature,  *)
(* key, envelope and structure checks are one verdict on a pack; the pack  *)
(* files are not rewritten while one swap reads them; the fields of a      *)
(* record other than digest and version, and clocks, are left out.         *)
(* EventBound and LogBound bound the exploration: an audit append of an    *)
(* action that is in the log EventBound times already, or to a log of      *)
(* LogBound events, only ever raises.                                      *)
(***************************************************************************)
EXTENDS Integers, Sequences, FiniteSets

CONSTANTS
    Hosts,        \* processes that build a PolicyHost over the directory
    Swappers,     \* those that call swap() and rollback()
    Attesters,    \* those that call attest()
    Images,       \* compiled policy images
    Unsigned,     \* those an operator swaps in with allow_unsigned
    NoImage,      \* stands for a missing digest
    SignedPacks,  \* [img, ver] pairs the authority signed
    EventBound,   \* how often each action may be in the log
    LogBound      \* how many events may be

ASSUME RolesAssumption       == Swappers \subseteq Hosts /\ Attesters \subseteq Hosts
ASSUME UnsignedAssumption    == Unsigned \subseteq Images
ASSUME NoImageAssumption     == NoImage \notin Images
ASSUME SignedPacksAssumption == SignedPacks \subseteq [img : Images, ver : Nat \ {0}]

\* Version 0 stands for None, the version of an unsigned swap.
Policies == [img : Images, ver : Nat]
NoPolicy == [img |-> NoImage, ver |-> 0]
MaybePolicy == Policies \cup {NoPolicy}

Actions == {"swap", "swap_rejected", "swap_incomplete", "rollback",
            "attestation", "active_unreadable"}
Events == [act : Actions, pol : MaybePolicy]

ASSUME EventBoundAssumption == EventBound \in [Actions -> Nat] /\ LogBound \in Nat

BootPhases == {"bootRecover", "load", "loadImage", "unreadable"}
SwapPhases == {"recover", "read", "verify", "reject",
               "intent", "floor", "evidence", "image", "record", "clear"}
RollbackPhases == {"rbImage", "rbRecord", "rbEvidence"}
Phases == {"down", "idle"} \cup BootPhases \cup SwapPhases \cup RollbackPhases

VARIABLES
    intent,   \* pending_swap
    floor,    \* active_version
    log,      \* swaps.log
    image,    \* active.ppt
    record,   \* active_policy.json
    apart,    \* history: the image was written, its record not (yet)
    phase,    \* where each process stands in its locked call
    job,      \* the call's locals: the policy it handles, the intent it saw
    active,   \* self._active
    prev,     \* self._prev, the last known good
    noted,    \* self._recovery_recorded
    attests   \* attest() calls between their read and their append

durable  == <<intent, floor, log, image, record, apart>>
volatile == <<phase, job, active, prev, noted, attests>>
vars     == <<durable, volatile>>

Seen(i) == [pol |-> NoPolicy, seen |-> i]
NoJob == Seen(NoPolicy)

Init ==
    /\ intent = NoPolicy
    /\ floor = 0
    /\ log = <<>>
    /\ image = NoImage
    /\ record = NoPolicy
    /\ apart = FALSE
    /\ phase = [h \in Hosts |-> "down"]
    /\ job = [h \in Hosts |-> NoJob]
    /\ active = [h \in Hosts |-> NoPolicy]
    /\ prev = [h \in Hosts |-> NoPolicy]
    /\ noted = [h \in Hosts |-> FALSE]
    /\ attests = [h \in Hosts |-> <<>>]

Jobs == [pol : MaybePolicy, seen : MaybePolicy]

\* The call goes on at p with locals j, which end with it.
Goto(h, p, j) ==
    /\ phase' = [phase EXCEPT ![h] = p]
    /\ job' = [job EXCEPT ![h] = IF p \in {"idle", "down"} THEN NoJob ELSE j]

-----------------------------------------------------------------------------
(* The audit log, written from every kind of call.                         *)

\* The phases whose next step is one audit append.
AuditPhases == {"bootRecover", "unreadable", "recover", "reject",
                "evidence", "rbEvidence"}

EventOf(h) ==
    CASE phase[h] \in {"bootRecover", "recover"} ->
            [act |-> "swap_incomplete", pol |-> job[h].seen]
      [] phase[h] = "unreadable" ->
            [act |-> "active_unreadable", pol |-> job[h].pol]
      [] phase[h] = "reject"     -> [act |-> "swap_rejected", pol |-> job[h].pol]
      [] phase[h] = "evidence"   -> [act |-> "swap", pol |-> job[h].pol]
      [] phase[h] = "rbEvidence" -> [act |-> "rollback", pol |-> active[h]]

AfterAudit(p) ==
    CASE p = "bootRecover" -> "load"
      [] p = "recover"     -> "read"
      [] p = "evidence"    -> "image"
      [] p \in {"unreadable", "reject", "rbEvidence"} -> "idle"

\* The append put event e in the file.
Logged(e) ==
    /\ Cardinality({i \in DOMAIN log : log[i].act = e.act}) < EventBound[e.act]
    /\ Len(log) < LogBound
    /\ log' = Append(log, e)

\* self.audit.append(...) returns.
Audit(h) ==
    /\ phase[h] \in AuditPhases
    /\ Logged(EventOf(h))
    /\ Goto(h, AfterAudit(phase[h]), job[h])
    /\ noted' = [noted EXCEPT ![h] = @ \/ phase[h] \in {"bootRecover", "recover"}]
    /\ UNCHANGED <<intent, floor, image, record, apart, active, prev, attests>>

\* Where an exception leaves the process: no host if the constructor raised.
AfterRaise(h) == IF phase[h] \in BootPhases THEN "down" ELSE "idle"

\* Mutant of AuditRaises: the exception is swallowed and the call goes on.
AuditErrorIgnored(h) ==
    /\ phase[h] \in AuditPhases
    /\ Goto(h, AfterAudit(phase[h]), job[h])
    /\ UNCHANGED <<durable, active, prev, noted, attests>>

\* self.audit.append(...) raises, with or without its event in the file.
AuditRaises(h) ==
    /\ phase[h] \in AuditPhases
    /\ \/ log' = log
       \/ Logged(EventOf(h))
    /\ Goto(h, AfterRaise(h), NoJob)
    /\ UNCHANGED <<intent, floor, image, record, apart, active, prev, noted, attests>>

-----------------------------------------------------------------------------
(* The constructor: _recover, then _load_active.  An intent record that    *)
(* cannot be read raises in _read_pending: no host, or no swap, as if the  *)
(* call had not been made.                                                 *)

Start(h) ==
    /\ phase[h] = "down"
    /\ Goto(h, IF intent # NoPolicy THEN "bootRecover" ELSE "load", Seen(intent))
    /\ UNCHANGED <<durable, active, prev, noted, attests>>

LoadRecord(h) ==
    /\ phase[h] = "load"
    /\ \/ Goto(h, IF record = NoPolicy THEN "idle" ELSE "loadImage",
               [job[h] EXCEPT !.pol = record])
       \/ Goto(h, "unreadable", job[h])      \* open or read raised
    /\ UNCHANGED <<durable, active, prev, noted, attests>>

\* The record is restored only if the image has the digest it names.
LoadImage(h) ==
    /\ phase[h] = "loadImage"
    /\ \/ /\ image = job[h].pol.img
          /\ active' = [active EXCEPT ![h] = job[h].pol]
          /\ Goto(h, "idle", job[h])
       \/ /\ active' = active           \* another digest, or the read raised
          /\ Goto(h, "unreadable", job[h])
    /\ UNCHANGED <<durable, prev, noted, attests>>

-----------------------------------------------------------------------------
(* swap(): recover, read, verify, commit.                                  *)

BeginSwap(h) ==
    /\ h \in Swappers
    /\ phase[h] = "idle"
    /\ Goto(h, IF intent # NoPolicy /\ ~noted[h] THEN "recover" ELSE "read",
            Seen(intent))
    /\ UNCHANGED <<durable, active, prev, noted, attests>>

ReadImage(h) ==
    /\ phase[h] = "read"
    /\ \/ \E i \in Images :
            Goto(h, "verify", [job[h] EXCEPT !.pol = [img |-> i, ver |-> 0]])
       \/ Goto(h, "reject", job[h])          \* open or read raised
    /\ UNCHANGED <<durable, active, prev, noted, attests>>

\* allow_unsigned: no pack, no version, and the floor is not consulted.
AdmitUnsigned(h) ==
    /\ phase[h] = "verify"
    /\ job[h].pol.img \in Unsigned
    /\ Goto(h, "intent", job[h])
    /\ UNCHANGED <<durable, active, prev, noted, attests>>

\* The pack's signature, envelope or structure is refused.
RefusePack(h) ==
    /\ phase[h] = "verify"
    /\ Goto(h, "reject", job[h])
    /\ UNCHANGED <<durable, active, prev, noted, attests>>

\* Mutants of AdmittedByFloor: any equal version; the version alone.
AdmitsEqual(p, seen) == p.ver >= floor
AdmitsVersionOfIntent(p, seen) ==
    p.ver > floor \/ (p.ver = floor /\ seen.ver = p.ver)

\* The floor admits a higher version, or the very swap an interrupted commit
\* had already raised the floor for.
AdmittedByFloor(p, seen) ==
    \/ p.ver > floor
    \/ p.ver = floor /\ seen = p

CheckVersion(h) ==
    /\ phase[h] = "verify"
    /\ \E p \in SignedPacks :
        /\ p.img = job[h].pol.img
        /\ Goto(h, IF AdmittedByFloor(p, job[h].seen) THEN "intent" ELSE "reject",
                [job[h] EXCEPT !.pol = p])
    /\ UNCHANGED <<durable, active, prev, noted, attests>>

\* Mutant of WriteIntent: the floor is left for later.
IntentThenEvidence(h) ==
    /\ phase[h] = "intent"
    /\ intent' = job[h].pol
    /\ Goto(h, "evidence", job[h])
    /\ UNCHANGED <<floor, log, image, record, apart, active, prev, noted, attests>>

\* Mutant of WriteIntent: a record left by an interrupted swap is kept.
KeepsOldIntent(h) ==
    /\ phase[h] = "intent"
    /\ intent' = IF intent = NoPolicy THEN job[h].pol ELSE intent
    /\ Goto(h, IF job[h].pol.ver # 0 THEN "floor" ELSE "evidence", job[h])
    /\ UNCHANGED <<floor, log, image, record, apart, active, prev, noted, attests>>

WriteIntent(h) ==
    /\ phase[h] = "intent"
    /\ intent' = job[h].pol
    /\ Goto(h, IF job[h].pol.ver # 0 THEN "floor" ELSE "evidence", job[h])
    /\ UNCHANGED <<floor, log, image, record, apart, active, prev, noted, attests>>

WriteFloor(h) ==
    /\ phase[h] = "floor"
    /\ floor' = job[h].pol.ver
    /\ Goto(h, "evidence", job[h])
    /\ UNCHANGED <<intent, log, image, record, apart, active, prev, noted, attests>>

\* Mutant of WriteImage: a rollback rewrites the record alone.
RollbackKeepsImage(h) ==
    /\ phase[h] \in {"image", "rbImage"}
    /\ image' = IF phase[h] = "image" THEN job[h].pol.img ELSE image
    /\ apart' = TRUE
    /\ Goto(h, IF phase[h] = "image" THEN "record" ELSE "rbRecord", job[h])
    /\ UNCHANGED <<intent, floor, log, record, active, prev, noted, attests>>

\* _persist_active writes the image, for a swap and for a rollback.
WriteImage(h) ==
    /\ phase[h] \in {"image", "rbImage"}
    /\ image' = IF phase[h] = "image" THEN job[h].pol.img ELSE prev[h].img
    /\ apart' = TRUE
    /\ Goto(h, IF phase[h] = "image" THEN "record" ELSE "rbRecord", job[h])
    /\ UNCHANGED <<intent, floor, log, record, active, prev, noted, attests>>

\* ... then the record; the reference flip follows and cannot fail.
WriteRecord(h) ==
    /\ phase[h] = "record"
    /\ record' = job[h].pol
    /\ apart' = FALSE
    /\ active' = [active EXCEPT ![h] = job[h].pol]
    /\ prev' = [prev EXCEPT ![h] = active[h]]
    /\ Goto(h, "clear", job[h])
    /\ UNCHANGED <<intent, floor, log, image, noted, attests>>

\* Mutant of ClearIntent: the version stays behind.
ClearIntentHash(h) ==
    /\ phase[h] = "clear"
    /\ intent' = [intent EXCEPT !.img = NoImage]
    /\ Goto(h, "idle", job[h])
    /\ UNCHANGED <<floor, log, image, record, apart, active, prev, noted, attests>>

ClearIntent(h) ==
    /\ phase[h] = "clear"
    /\ intent' = NoPolicy
    /\ Goto(h, "idle", job[h])
    /\ UNCHANGED <<floor, log, image, record, apart, active, prev, noted, attests>>

-----------------------------------------------------------------------------
(* rollback(): the previous policy, one deep, audited after the flip.      *)

BeginRollback(h) ==
    /\ h \in Swappers
    /\ phase[h] = "idle"
    /\ prev[h] # NoPolicy
    /\ Goto(h, "rbImage", job[h])
    /\ UNCHANGED <<durable, active, prev, noted, attests>>

RollbackRecord(h) ==
    /\ phase[h] = "rbRecord"
    /\ record' = prev[h]
    /\ apart' = FALSE
    /\ active' = [active EXCEPT ![h] = prev[h]]
    /\ prev' = [prev EXCEPT ![h] = NoPolicy]
    /\ Goto(h, "rbEvidence", job[h])
    /\ UNCHANGED <<intent, floor, log, image, noted, attests>>

-----------------------------------------------------------------------------
(* attest(), without the lock, and failures.                               *)

BeginAttest(h) ==
    /\ h \in Attesters
    /\ phase[h] \notin BootPhases \cup {"down"}
    /\ attests[h] = <<>>
    /\ attests' = [attests EXCEPT ![h] = <<active[h]>>]
    /\ UNCHANGED <<durable, phase, job, active, prev, noted>>

EndAttest(h) ==
    /\ attests[h] # <<>>
    /\ \/ log' = log                          \* the append raised
       \/ Logged([act |-> "attestation", pol |-> attests[h][1]])
    /\ attests' = [attests EXCEPT ![h] = <<>>]
    /\ UNCHANGED <<intent, floor, image, record, apart, phase, job, active, prev, noted>>

\* An I/O error in a step that replaces or removes a file: the file is as it
\* was, and the exception ends the call.
WriteRaises(h) ==
    /\ phase[h] \in {"intent", "floor", "image", "record", "clear",
                     "rbImage", "rbRecord"}
    /\ Goto(h, "idle", job[h])
    /\ UNCHANGED <<durable, active, prev, noted, attests>>

\* The process dies or exits; its memory goes with it.
Crash(h) ==
    /\ phase[h] # "down"
    /\ Goto(h, "down", NoJob)
    /\ active' = [active EXCEPT ![h] = NoPolicy]
    /\ prev' = [prev EXCEPT ![h] = NoPolicy]
    /\ noted' = [noted EXCEPT ![h] = FALSE]
    /\ attests' = [attests EXCEPT ![h] = <<>>]
    /\ UNCHANGED durable

-----------------------------------------------------------------------------
Boot(h)     == Start(h) \/ LoadRecord(h) \/ LoadImage(h)
Admit(h)    == BeginSwap(h) \/ ReadImage(h) \/ AdmitUnsigned(h) \/ RefusePack(h)
               \/ CheckVersion(h)
Commit(h)   == WriteIntent(h) \/ WriteFloor(h) \/ WriteImage(h) \/ WriteRecord(h)
               \/ ClearIntent(h)
Rollback(h) == BeginRollback(h) \/ RollbackRecord(h)
Attest(h)   == BeginAttest(h) \/ EndAttest(h)
Evidence(h) == Audit(h) \/ AuditRaises(h)
Fail(h)     == WriteRaises(h) \/ Crash(h)

Step(h) ==
    \/ Boot(h)
    \/ Admit(h)
    \/ Commit(h)
    \/ Rollback(h)
    \/ Attest(h)
    \/ Evidence(h)
    \/ Fail(h)

Next == \E h \in Hosts : Step(h)

Spec == Init /\ [][Next]_vars

-----------------------------------------------------------------------------
(* Properties.                                                             *)

\* Every file and every process holds values of its kind.
TypeOK ==
    /\ intent \in MaybePolicy
    /\ floor \in Nat
    /\ log \in Seq(Events)
    /\ image \in Images \cup {NoImage}
    /\ record \in MaybePolicy
    /\ apart \in BOOLEAN
    /\ phase \in [Hosts -> Phases]
    /\ job \in [Hosts -> Jobs]
    /\ active \in [Hosts -> MaybePolicy]
    /\ prev \in [Hosts -> MaybePolicy]
    /\ noted \in [Hosts -> BOOLEAN]
    /\ attests \in [Hosts -> Seq(MaybePolicy)]

\* The log holds evidence that p was accepted.
HasEvidence(p) == \E i \in DOMAIN log : log[i] = [act |-> "swap", pol |-> p]

\* The floor is durable before the evidence (steps 2 and 3 of the commit
\* protocol): whatever crashes, no logged acceptance is above the floor, so
\* no lower version than one already accepted can be swapped in later.
FloorCoversEvidence ==
    \A i \in DOMAIN log : log[i].act = "swap" => log[i].pol.ver <= floor

\* Anti-rollback as the log shows it: signed acceptances come in increasing
\* version order, except that an interrupted commit of the same image at the
\* same version may be completed; two images are never accepted at one version.
AcceptedInOrder ==
    \A i, j \in DOMAIN log :
        /\ i < j
        /\ log[i].act = "swap" /\ log[j].act = "swap"
        /\ log[i].pol.ver # 0 /\ log[j].pol.ver # 0
        => log[i].pol.ver < log[j].pol.ver \/ log[i].pol = log[j].pol

\* Evidence comes before the flip (steps 3 and 4): a policy in force in any
\* process, kept for rollback, or restored after a restart, has an accepted
\* swap in the log, through crashes, failed appends and rollbacks.
ActiveHasEvidence ==
    /\ record # NoPolicy => HasEvidence(record)
    /\ \A h \in Hosts : active[h] # NoPolicy => HasEvidence(active[h])
    /\ \A h \in Hosts : prev[h] # NoPolicy => HasEvidence(prev[h])

\* The swap an interrupted commit left behind is never behind the floor: the
\* intent on disk always passes the version check when it is retried.
InterruptedSwapMayFinish ==
    intent.ver # 0 => AdmittedByFloor(intent, intent)

\* What a swapping process holds active is what a fresh host over the same
\* directory restores, whichever step of a later commit or rollback failed:
\* the record names it and the image is its own.  The exception is a
\* _persist_active cut between its two writes, which leaves the record with
\* the image of another accepted policy: a fresh host then restores nothing
\* (policy_host.py:155, 181), until the next record is written.
FreshHostRestoresActive ==
    /\ \A h \in Swappers : active[h] # NoPolicy =>
          /\ record = active[h]
          /\ ~apart => image = active[h].img
    /\ image # NoImage =>
          \E i \in DOMAIN log : log[i].act = "swap" /\ log[i].pol.img = image

\* Anti-rollback across restarts and retries: no step lowers the floor.
FloorNeverFalls == [][floor' >= floor]_vars

Accepted == {log[i].pol : i \in {j \in DOMAIN log : log[j].act = "swap"}}

\* The promise the host implements: what is reserved, accepted, committed and
\* in force moves only as AttestedPolicy allows.
Promise == INSTANCE AttestedPolicy WITH
    accepted <- Accepted, committed <- record, inForce <- active
ImplementsPromise == Promise!Spec

-----------------------------------------------------------------------------
(* What the comments promise and the code does not keep.                   *)

\* policy_host.py:110-111: "a crash between the floor and the evidence does
\* not strand a legitimate policy behind its own floor".  Every floor is the
\* version of an accepted swap or of the intent that may still complete it.
FloorIsExplained ==
    floor # 0 => \/ intent.ver = floor
                 \/ \E i \in DOMAIN log : log[i].act = "swap" /\ log[i].pol.ver = floor
=============================================================================
