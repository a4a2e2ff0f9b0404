---------------------------- MODULE EpochJournal ----------------------------
(***************************************************************************)
(* The durable epochs of the edge (prismpath/telemetry/epoch_journal.py    *)
(* over epochs.py and ackchannel.py).  One process seals windows into a    *)
(* chain, drops readings when the ground acknowledges them or when the     *)
(* caps force them out, and recovers all of it from the files at a start.  *)
(* Every write to a file is a step of its own, and the process may crash   *)
(* before each one; a crash may leave part of the line being appended.     *)
(*                                                                         *)
(* A window is a number, never sealed twice, and stands for its Merkle     *)
(* root; as windows differ, the window of an epoch also names its chained  *)
(* root.  Epochs are numbered from 1.  Root statements (roots.jsonl) are   *)
(* those of SignedLog and left out.                                        *)
(***************************************************************************)
EXTENDS Integers, FiniteSets, FiniteSetsExt, JsonLines

CONSTANTS
    MaxWindows,     \* bound: windows offered to seal
    MaxData,        \* max_data_epochs
    MaxBytes,       \* max_bytes
    Size,           \* the bytes of a window's data file
    Tears,          \* what a crash may leave of the line being appended
    Failures,       \* what an append that raises OSError may leave of it
    MaxFaults, MaxRot, MaxAcks      \* bounds: crashes and failed appends,
                                    \* damaged files, acknowledgements

Windows == 1..MaxWindows

ASSUME JournalAssumption ==
    /\ MaxWindows \in Nat /\ MaxData \in Nat /\ MaxBytes \in Nat
    /\ Size \in [Windows -> Nat]
    /\ Tears \subseteq Outcomes /\ Failures \subseteq Outcomes

VARIABLES
    chain, gaps,    \* chain.jsonl and gaps.jsonl
    files,          \* epochs/<id>.json: the window in it, 0 for no file
    rotten,         \* the data files that are damaged
    acks,           \* acks.json
    pc,             \* what the process is doing
    epochs,         \* memory: the windows of the chain
    held,           \* memory: the epochs that have data
    acked,          \* memory: the epochs up to this one are acknowledged
    marked,         \* memory: the epochs dropped under pressure
    lastSeq,        \* memory: the last acknowledgement's sequence number
    victim,         \* the epoch whose recorded loss is about to be carried out, or 0
    got, sent,      \* the ground: windows received, acknowledgements signed
    offered,        \* the windows offered so far
    failed, rots    \* crashes and failed appends, damaged files so far

disk == <<chain, gaps, files, rotten, acks>>
memory == <<epochs, held, acked, marked, lastSeq, victim>>
ground == <<got, sent>>
faults == <<failed, rots>>
vars == <<disk, pc, memory, ground, offered, faults>>

-----------------------------------------------------------------------------
(* Files of JSON lines.                                                    *)

Torn == [win |-> 0, prev |-> 0]
TornGap == 0

\* Mutant of Trim: a torn last line stays where it is.
TrimNot(f, torn) == f

\* An unreadable line is discarded when it is the last one.
Trim(f, torn) ==
    IF EndsTorn(f, torn)
    THEN [lines |-> SubSeq(f.lines, 1, Len(f.lines) - 1), open |-> FALSE] ELSE f

\* The windows of a chain file, and whether each line names the one before it.
Wins(f) == [i \in 1..Len(f.lines) |-> f.lines[i].win]
Linked(f) ==
    \A i \in 1..Len(f.lines) :
        f.lines[i].prev = IF i = 1 THEN 0 ELSE f.lines[i - 1].win

\* The readable chain, the epochs with a gap on record, and a hole in either.
Chained == Wins(Trim(chain, Torn))
GapSet(f) == {f.lines[i] : i \in 1..Len(f.lines)} \ {TornGap}
Corrupt == Holed(chain, Torn) \/ Holed(gaps, TornGap) \/ ~Linked(Trim(chain, Torn))

\* The position of a root in a chain, 0 when it has none.
IndexOf(s, w) == IF \E i \in 1..Len(s) : s[i] = w THEN CHOOSE i \in 1..Len(s) : s[i] = w ELSE 0

-----------------------------------------------------------------------------
Init ==
    /\ chain = Empty /\ gaps = Empty /\ rotten = {}
    /\ files = [i \in Windows |-> 0]
    /\ acks = [seq |-> -1, through |-> 0]
    /\ pc = "down"
    /\ epochs = <<>> /\ held = {} /\ acked = 0 /\ marked = {} /\ lastSeq = -1 /\ victim = 0
    /\ got = {} /\ sent = {} /\ offered = 0 /\ failed = 0 /\ rots = 0

Present == {i \in Windows : files[i] # 0}
Ids == 1..Len(epochs)

-----------------------------------------------------------------------------
(* Recovery.                                                               *)

\* A data file whose hash is not the one its chain line names.
Sound(i, s) == files[i] = s[i] /\ i \notin rotten

\* Mutant of Open: the sequence number starts over.
OpenAfresh ==
    /\ pc = "down"
    /\ IF Corrupt THEN pc' = "refused" /\ UNCHANGED <<disk, memory>>
       ELSE LET done == IndexOf(Chained, acks.through)
                gone == GapSet(gaps)
            IN /\ chain' = Trim(chain, Torn) /\ gaps' = Trim(gaps, TornGap)
               /\ epochs' = Chained /\ acked' = done /\ lastSeq' = -1
               /\ held' = {i \in 1..Len(Chained) : Sound(i, Chained) /\ i > done} \ gone
               /\ marked' = {i \in 1..Len(Chained) : i > done} \cap gone
               /\ victim' = 0 /\ pc' = "recover" /\ UNCHANGED <<files, rotten, acks>>
    /\ UNCHANGED <<ground, offered, faults>>

\* The files are read: a gap of an acknowledged epoch is not marked.
Open ==
    /\ pc = "down"
    /\ IF Corrupt THEN pc' = "refused" /\ UNCHANGED <<disk, memory>>
       ELSE LET done == IndexOf(Chained, acks.through)
                gone == GapSet(gaps)
            IN /\ chain' = Trim(chain, Torn) /\ gaps' = Trim(gaps, TornGap)
               /\ epochs' = Chained /\ acked' = done /\ lastSeq' = acks.seq
               /\ held' = {i \in 1..Len(Chained) : Sound(i, Chained) /\ i > done} \ gone
               /\ marked' = {i \in 1..Len(Chained) : i > done} \cap gone
               /\ victim' = 0 /\ pc' = "recover" /\ UNCHANGED <<files, rotten, acks>>
    /\ UNCHANGED <<ground, offered, faults>>

\* Mutant of Released: the files an acknowledgement covers are left alone.
ReleasedByGap == {i \in (Ids \cap Present) \ held : i > acked}

First(S) == {i \in S : \A j \in S : i <= j}
Released == (Ids \cap Present) \ held
Damaged == {i \in Released : ~Sound(i, epochs)}
Orphans == Present \ Ids
Remove(i) == files' = [files EXCEPT ![i] = 0] /\ rotten' = rotten \ {i}

BytesOnDisk == MapThenSumSet(LAMBDA i : Size[files[i]], Ids \cap Present)
OverCaps == Cardinality(held) > MaxData \/ (held # {} /\ BytesOnDisk > MaxBytes)

\* The epochs whose loss is to be put on record, and the one the next append
\* records: damaged files at a start, and whatever the caps force out.
ToRecord ==
    IF victim # 0 THEN {}
    ELSE IF pc = "recover" /\ Damaged # {} THEN Damaged
    ELSE IF pc = "recover" /\ Orphans \cup Released # {} THEN {}
    ELSE IF pc \in {"recover", "caps"} /\ OverCaps THEN held
    ELSE {}
NextGap == First(ToRecord)

\* Mutant of RecordGap: the readings go before their loss is on record.
RecordAfterwards ==
    /\ \E i \in NextGap :
          Remove(i) /\ held' = held \ {i} /\ marked' = marked \cup {i}
    /\ UNCHANGED <<chain, gaps, acks, pc, epochs, acked, lastSeq, victim, ground, offered, faults>>

\* A gap line.
RecordGap ==
    /\ \E i \in NextGap :
          /\ gaps' = Put(gaps, i, TornGap, "whole")
          /\ held' = held \ {i} /\ victim' = i
          /\ marked' = IF i > acked THEN marked \cup {i} ELSE marked
    /\ UNCHANGED <<chain, files, rotten, acks, pc, epochs, acked, lastSeq, ground, offered, faults>>

\* The readings whose loss was just recorded go.
DropVictim ==
    /\ victim # 0
    /\ Remove(victim) /\ victim' = 0
    /\ UNCHANGED <<chain, gaps, acks, pc, epochs, held, acked, marked, lastSeq>>
    /\ UNCHANGED <<ground, offered, faults>>

\* A data file the chain does not name.
RemoveOrphan ==
    /\ pc = "recover" /\ victim = 0 /\ Damaged = {}
    /\ \E i \in First(Orphans) : Remove(i)
    /\ UNCHANGED <<chain, gaps, acks, pc, memory, ground, offered, faults>>

\* A data file that an acknowledgement covers, or at a start a recorded gap.
RemoveReleased ==
    /\ \/ pc = "ack"
       \/ pc = "recover" /\ victim = 0 /\ Damaged = {} /\ Orphans = {}
    /\ \E i \in First(Released) : Remove(i)
    /\ UNCHANGED <<chain, gaps, acks, pc, memory, ground, offered, faults>>

\* Nothing is left to do.
Done ==
    /\ \/ pc = "ack" /\ Released = {}
       \/ pc = "caps" /\ victim = 0 /\ ~OverCaps
       \/ pc = "recover" /\ victim = 0 /\ Orphans \cup Released = {} /\ ~OverCaps
    /\ pc' = "idle"
    /\ UNCHANGED <<disk, memory, ground, offered, faults>>

-----------------------------------------------------------------------------
(* Sealing.                                                                *)

\* The data file of the next epoch, written atomically.
Seal ==
    /\ pc = "idle" /\ offered < MaxWindows
    /\ offered' = offered + 1 /\ pc' = "seal"
    /\ files' = [files EXCEPT ![Len(epochs) + 1] = offered + 1]
    /\ rotten' = rotten \ {Len(epochs) + 1}
    /\ UNCHANGED <<chain, gaps, acks, memory, ground, faults>>

ChainLine == [win |-> offered, prev |-> IF epochs = <<>> THEN 0 ELSE epochs[Len(epochs)]]

\* Its chain line; the caps come next.
SealChain ==
    /\ pc = "seal"
    /\ chain' = Put(chain, ChainLine, Torn, "whole")
    /\ epochs' = Append(epochs, offered) /\ held' = held \cup {Len(epochs) + 1}
    /\ pc' = "caps"
    /\ UNCHANGED <<gaps, files, rotten, acks, acked, marked, lastSeq, victim>>
    /\ UNCHANGED <<ground, offered, faults>>

-----------------------------------------------------------------------------
(* Acknowledgements.                                                       *)

\* Mutant of VerifyAck: the tag covers the sequence number alone.
VerifySeq(root, seq) == \E m \in sent : m[2] = seq

\* The tag of an acknowledgement is one the ground made for it.
VerifyAck(root, seq) == <<root, seq>> \in sent

\* Mutant of OnAck: the state is saved after the files went, that is, not yet.
OnAckUnsaved(root, seq) ==
    /\ pc = "idle"
    /\ VerifyAck(root, seq) /\ seq > lastSeq
    /\ \E i \in Ids :
          /\ epochs[i] = root
          /\ acked' = IF i > acked THEN i ELSE acked
          /\ held' = held \ 1..i
    /\ lastSeq' = seq /\ pc' = "ack"
    /\ UNCHANGED <<disk, epochs, marked, victim, ground, offered, faults>>

\* A frame arrives, late, again, or altered on the way: the state is saved,
\* and the files go in the steps after it.  An unknown root changes nothing.
OnAck(root, seq) ==
    /\ pc = "idle"
    /\ VerifyAck(root, seq) /\ seq > lastSeq
    /\ \E i \in Ids :
          /\ epochs[i] = root
          /\ acked' = IF i > acked THEN i ELSE acked
          /\ held' = held \ 1..i
    /\ acks' = [seq |-> seq, through |-> root] /\ lastSeq' = seq
    /\ pc' = "ack"
    /\ UNCHANGED <<chain, gaps, files, rotten, epochs, marked, victim>>
    /\ UNCHANGED <<ground, offered, faults>>

\* The ground receives the readings of a retained epoch.
Transmit(i) ==
    /\ pc = "idle" /\ i \in held
    /\ got' = got \cup {epochs[i]}
    /\ UNCHANGED <<disk, pc, memory, sent, offered, faults>>

\* It acknowledges a root, never below one it acknowledged before, once it has
\* every window up to it or was told of the gap; sequence numbers ascend.
SignAck(i) ==
    /\ pc = "idle" /\ i \in Ids /\ Cardinality(sent) < MaxAcks
    /\ \A m \in sent : m[1] <= epochs[i]
    /\ \A j \in 1..i : \/ epochs[j] \in got \/ j \in marked
                       \/ \E m \in sent : epochs[j] <= m[1]
    /\ sent' = sent \cup {<<epochs[i], Cardinality(sent)>>}
    /\ UNCHANGED <<disk, pc, memory, got, offered, faults>>

-----------------------------------------------------------------------------
(* Faults.                                                                 *)

\* The line a step was about to append stays in part, or not at all.
LeaveLine(how) ==
    /\ chain' = IF pc = "seal" THEN Put(chain, ChainLine, Torn, how) ELSE chain
    /\ \/ NextGap = {} /\ gaps' = gaps
       \/ \E i \in NextGap : gaps' = Put(gaps, i, TornGap, how)

Fault == failed < MaxFaults /\ failed' = failed + 1

\* Power is lost, and the memory with it.
Forgotten ==
    epochs' = <<>> /\ held' = {} /\ acked' = 0 /\ marked' = {} /\ lastSeq' = -1 /\ victim' = 0
Crash ==
    /\ pc \notin {"down", "refused"} /\ Fault
    /\ \E how \in Tears : LeaveLine(how)
    /\ Forgotten /\ pc' = "down"
    /\ UNCHANGED <<files, rotten, acks, ground, offered, rots>>

\* An append raises OSError: the seal fails and the process lives on with the
\* memory it had, or it fails to start.
FailAppend ==
    /\ pc = "seal" \/ NextGap # {}
    /\ Fault
    /\ \E how \in Failures : LeaveLine(how)
    /\ IF pc = "recover" THEN Forgotten /\ pc' = "down" ELSE UNCHANGED memory /\ pc' = "idle"
    /\ UNCHANGED <<files, rotten, acks, ground, offered, rots>>

\* A stored file is damaged.
Rot(i) ==
    /\ i \in Present \ rotten /\ rots < MaxRot
    /\ rotten' = rotten \cup {i} /\ rots' = rots + 1
    /\ UNCHANGED <<chain, gaps, files, acks, pc, memory, ground, offered, failed>>

\* The caller has nothing to seal, or the journal refused to open.
Rest == pc \in {"idle", "refused"} /\ UNCHANGED vars

Recover == Open \/ RemoveOrphan
Work == RecordGap \/ DropVictim \/ RemoveReleased \/ Done
Edge == Recover \/ Work \/ Seal \/ SealChain
Channel ==
    \/ \E root \in Windows, seq \in 0..(MaxAcks - 1) : OnAck(root, seq)
    \/ \E i \in Windows : Transmit(i) \/ SignAck(i)
Next == Edge \/ Channel \/ Crash \/ FailAppend \/ (\E i \in Windows : Rot(i)) \/ Rest

Spec == Init /\ [][Next]_vars

\* A process is started again when it is down and gets on with what it does.
FairSpec == Spec /\ WF_vars(Open) /\ WF_vars(RemoveOrphan) /\ WF_vars(Work)

-----------------------------------------------------------------------------
(* Properties.                                                             *)

TypeOK ==
    /\ chain \in Lines([win : 0..MaxWindows, prev : 0..MaxWindows])
    /\ gaps \in Lines(0..MaxWindows)
    /\ files \in [Windows -> 0..MaxWindows] /\ rotten \subseteq Windows
    /\ acks \in [seq : Int, through : 0..MaxWindows]
    /\ pc \in {"down", "refused", "recover", "idle", "seal", "caps", "ack"}
    /\ epochs \in Seq(Windows) /\ Len(epochs) <= MaxWindows
    /\ held \subseteq Ids /\ acked \in 0..Len(epochs) /\ marked \subseteq Ids
    /\ lastSeq \in Int /\ victim \in 0..Len(epochs)
    /\ got \subseteq Windows /\ sent \subseteq Windows \X Nat /\ offered \in 0..MaxWindows
    /\ failed \in Nat /\ rots \in Nat

ChainedIds == 1..Len(Chained)
Recorded == GapSet(gaps)
Through == IndexOf(Chained, acks.through)

\* The abstract promise, read off the files: what the chain names, which data
\* files are there, which gaps are on record, and the acknowledged root.
Promise == INSTANCE Retention WITH
    sealed <- Chained, kept <- ChainedIds \cap Present, lost <- Recorded, verified <- Through
KeepsPromise == Promise!Spec

\* "A power loss loses nothing silently": at every instant, between any two
\* writes, each epoch of the chain has its file, is acknowledged in acks.json,
\* or has a gap line.
EveryLossIsRecorded ==
    \A i \in ChainedIds : i \in Present \/ i <= Through \/ i \in Recorded

\* What acks.json says is acknowledged, the ground has or was told it lost.
AckedIsVerified ==
    \A i \in 1..Through : Chained[i] \in got \/ i \in Recorded

\* The outcomes of an append under which the restart is promised to succeed:
\* a crash leaves no line without its newline, a failed append leaves nothing.
NoBareLine == "bare" \notin Tears /\ Failures \subseteq {"lost"}

\* Where a crash leaves nothing, a part or the whole of a line, and an append
\* that raises leaves nothing, what is left is never taken for corruption,
\* whatever crashes and whichever data files are damaged.  Of the other
\* outcomes this is not claimed: a line that lacks only its newline is kept,
\* the next one is glued to it (epoch_journal.py:79), and one more seal puts
\* the two in mid-file, where the next start raises JournalCorrupt (line 135);
\* an append that raises after its line was written ends there too.
OpensAgain == NoBareLine => pc # "refused"

\* A journal at rest holds in memory exactly what its files hold: the chain,
\* and the readings that are neither acknowledged nor on record as lost.
MemoryIsDisk ==
    pc = "idle" =>
        /\ epochs = Chained /\ acked = Through /\ lastSeq = acks.seq
        /\ held = ChainedIds \cap Present
        /\ marked \subseteq Recorded

\* An acknowledgement that arrives late or twice, before or after a restart,
\* never takes the acknowledged root or its sequence number back.
AckNeverRegresses ==
    [][acks'.seq >= acks.seq /\ acks'.through >= acks.through]_acks

\* The chain of roots is kept forever.
ChainIsForever ==
    [][/\ Len(Chained) <= Len(Chained')
       /\ \A i \in ChainedIds : Chained'[i] = Chained[i]]_chain

\* An acknowledgement that was interrupted is finished.
AcksFinish ==
    \A i \in Windows : i <= Through ~> pc = "refused" \/ files[i] = 0
=============================================================================
