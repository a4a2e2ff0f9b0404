----------------------------- MODULE SignedLog -----------------------------
(***************************************************************************)
(* The audit log and the root statements beside it (prismpath/ledgers/     *)
(* audit_log.py and root_statement.py).  Processes open one log: a console *)
(* that signs after every append, a command that appends its receipts and  *)
(* signs a checkpoint, a reader that verifies.  The lock of a log covers   *)
(* the threads of one process and nothing else, so a step is one access to *)
(* a file, and any process may fail or crash at each.                      *)
(*                                                                         *)
(* An event is a number, its time and contents, and the index it carries.  *)
(* The Merkle root over some events is the sequence of their numbers, and  *)
(* the hash of a statement is its number, 0 for the empty string.  One     *)
(* instance key signs everything.                                          *)
(***************************************************************************)
EXTENDS Integers, FiniteSets, SequencesExt, JsonLines

CONSTANTS
    Processes,
    SignsAppends,   \* those opened with sign_appends
    Tears,          \* what a crash may leave of the line being appended
    Failures,       \* what a write or an fsync that raises may leave of it
    MaxEvents, MaxStatements, MaxFaults     \* bounds

ASSUME LogAssumption ==
    /\ SignsAppends \subseteq Processes
    /\ Tears \subseteq Outcomes /\ Failures \subseteq Outcomes
    /\ MaxEvents \in Nat /\ MaxStatements \in Nat /\ MaxFaults \in Nat

VARIABLES
    log, stmts,     \* <log>.jsonl and <log>.roots.jsonl
    pc,             \* what each process is doing
    events,         \* memory: the events of the log, one leaf each
    skipped,        \* memory: some line could not be read
    signer,         \* memory: the statement signer, once there is one
    mending,        \* memory: the statements it found torn, the lines it keeps
    told,           \* the events whose append said they were persisted
    offered, made, failed,  \* events and statements tried, faults so far
    blind,          \* a process wrote onto a file that holds something it has
                    \* neither read nor written, or that ends within a line, or
                    \* rewrote the statements as they were before they changed
    spoiled,        \* a fault left behind what a write should have left whole
    shared          \* a process wrote while another one had the log open

memory == <<pc, events, skipped, signer, mending>>
history == <<blind, spoiled, shared>>
vars == <<log, stmts, memory, told, offered, made, failed, history>>

Torn == [n |-> 0, idx |-> 0, signs |-> FALSE]
TornStatement == [id |-> -1, seq |-> 0, prev |-> 0, root |-> <<>>]
NoSigner == [on |-> FALSE, seq |-> 0, prev |-> 0]
NotMending == [seen |-> Empty, kept |-> <<>>]

-----------------------------------------------------------------------------
(* Reading.                                                                *)

\* The lines that cannot be read, those that can, and the events in them.
Unreadable == {i \in 1..Len(log.lines) : log.lines[i] = Torn}
Legible == 1..Len(log.lines) \ Unreadable
Nth(S, k) == CHOOSE i \in S : Cardinality({j \in S : j <= i}) = k
Readable == [k \in 1..Cardinality(Legible) |-> log.lines[Nth(Legible, k)]]
Root(s) == [i \in 1..Len(s) |-> s[i].n]

\* The statements: a last line that cannot be read never was one.
ReadStatements(f) ==
    IF EndsTorn(f, TornStatement) THEN Front(f.lines) ELSE f.lines

\* What a signer keeps of a file with such a line: all of it, or all before the
\* end of what it reads when there is no newline there.
Kept(f) == IF f.open THEN Front(f.lines) ELSE f.lines

LastHash(s) == IF s = <<>> THEN 0 ELSE Last(s).id

-----------------------------------------------------------------------------
(* Verification of the statements against the events a process holds.      *)

Links(s) == {i \in 1..Len(s) : s[i] # TornStatement}
HashBefore(s, i) ==
    IF i = 1 \/ s[i - 1] = TornStatement THEN 0 ELSE s[i - 1].id
\* The leaves of the last readable statement before the i-th.
LeavesBefore(s, i) ==
    LET earlier == {j \in Links(s) : j < i}
    IN IF earlier = {} THEN 0
       ELSE Len(s[CHOOSE j \in earlier : \A k \in earlier : k <= j].root)

Findings(w) ==
    LET s == ReadStatements(stmts)
        total == Len(events[w])
    IN {f \in {"bad_format", "chain_broken", "leaf_count_regressed",
               "log_truncated", "root_mismatch"} :
          CASE f = "bad_format" -> skipped[w] \/ Links(s) # 1..Len(s)
            [] f = "chain_broken" ->
                 \E i \in Links(s) : s[i].seq # i - 1 \/ s[i].prev # HashBefore(s, i)
            [] f = "leaf_count_regressed" ->
                 \E i \in Links(s) : Len(s[i].root) < LeavesBefore(s, i)
            [] f = "log_truncated" -> \E i \in Links(s) : Len(s[i].root) > total
            [] f = "root_mismatch" ->
                 \E i \in Links(s) : Len(s[i].root) <= total
                     /\ s[i].root # Root(SubSeq(events[w], 1, Len(s[i].root)))}

\* The first statement that covers the event at an index from 0, and the check
\* of that event's receipt: its index, and its path, which is taken in the tree
\* of the leaves the process holds, as many as the statement signs.
Covers(i) == {k \in Links(ReadStatements(stmts)) : Len(ReadStatements(stmts)[k].root) > i}
Covering(i) == ReadStatements(stmts)[CHOOSE k \in Covers(i) : \A j \in Covers(i) : k <= j]
Holds(w, s) == Len(s.root) <= Len(events[w])
ReceiptChecks(w, i) ==
    /\ events[w][i + 1].idx = i
    /\ Holds(w, Covering(i))
    /\ Covering(i).root = Root(SubSeq(events[w], 1, Len(Covering(i).root)))

\* The leaves the last readable statement covers.
SignedLeaves == LeavesBefore(ReadStatements(stmts), Len(ReadStatements(stmts)) + 1)

-----------------------------------------------------------------------------
Init ==
    /\ log = Empty /\ stmts = Empty
    /\ pc = [w \in Processes |-> "down"]
    /\ events = [w \in Processes |-> <<>>] /\ skipped = [w \in Processes |-> FALSE]
    /\ signer = [w \in Processes |-> NoSigner]
    /\ mending = [w \in Processes |-> NotMending]
    /\ told = {} /\ offered = 0 /\ made = 0 /\ failed = 0
    /\ blind = FALSE /\ spoiled = FALSE /\ shared = FALSE

\* What `how` of a line written by w does to the history variables.
Informed(w) == ~log.open /\ events[w] = Readable
InformedSigner(w) ==
    /\ Informed(w) /\ ~stmts.open
    /\ signer[w].seq = Len(stmts.lines) /\ signer[w].prev = LastHash(stmts.lines)
Alone(w) == \A v \in Processes \ {w} : pc[v] = "down"
Notes(w, how, informed, spoils) ==
    /\ blind' = (blind \/ (how # "lost" /\ ~informed))
    /\ spoiled' = (spoiled \/ how \in spoils)
    /\ shared' = (shared \/ (how # "lost" /\ ~Alone(w)))

\* A process opens the log and reads it.
Open(w) ==
    /\ pc[w] = "down"
    /\ pc' = [pc EXCEPT ![w] = "idle"]
    /\ events' = [events EXCEPT ![w] = Readable]
    /\ skipped' = [skipped EXCEPT ![w] = Unreadable # {}]
    /\ UNCHANGED <<log, stmts, signer, mending, told, offered, made, failed, history>>

Forget(w) ==
    /\ pc' = [pc EXCEPT ![w] = "down"]
    /\ events' = [events EXCEPT ![w] = <<>>]
    /\ skipped' = [skipped EXCEPT ![w] = FALSE]
    /\ signer' = [signer EXCEPT ![w] = NoSigner]
    /\ mending' = [mending EXCEPT ![w] = NotMending]

Close(w) ==
    /\ pc[w] = "idle"
    /\ Forget(w)
    /\ UNCHANGED <<log, stmts, told, offered, made, failed, history>>

-----------------------------------------------------------------------------
(* Appending and signing.                                                  *)

Event(w) == [n |-> offered + 1, idx |-> Len(events[w]), signs |-> w \in SignsAppends]
NextPc(w) == [pc EXCEPT ![w] = IF w \in SignsAppends THEN "sign" ELSE "idle"]

\* Mutants of WriteEvent: the index counts what the log ever took; the
\* statement waits for the next checkpoint.
WriteEventCounted(w) ==
    /\ pc[w] = "idle" /\ offered < MaxEvents
    /\ LET e == [Event(w) EXCEPT !.idx = offered]
       IN /\ log' = Put(log, e, Torn, "whole")
          /\ events' = [events EXCEPT ![w] = Append(@, e)]
          /\ told' = told \cup {e.n}
    /\ offered' = offered + 1
    /\ pc' = NextPc(w)
    /\ Notes(w, "whole", Informed(w), {})
    /\ UNCHANGED <<stmts, skipped, signer, mending, made, failed>>
WriteEventUnsigned(w) ==
    /\ pc[w] = "idle" /\ offered < MaxEvents
    /\ log' = Put(log, Event(w), Torn, "whole")
    /\ events' = [events EXCEPT ![w] = Append(@, Event(w))]
    /\ told' = told \cup {offered + 1} /\ offered' = offered + 1
    /\ Notes(w, "whole", Informed(w), {})
    /\ UNCHANGED <<stmts, pc, skipped, signer, mending, made, failed>>

\* The line is on the disk, and then the event is in memory.
WriteEvent(w) ==
    /\ pc[w] = "idle" /\ offered < MaxEvents
    /\ log' = Put(log, Event(w), Torn, "whole")
    /\ events' = [events EXCEPT ![w] = Append(@, Event(w))]
    /\ told' = told \cup {offered + 1} /\ offered' = offered + 1
    /\ pc' = NextPc(w)
    /\ Notes(w, "whole", Informed(w), {})
    /\ UNCHANGED <<stmts, skipped, signer, mending, made, failed>>

\* A statement over what there is, asked for by the caller.
Checkpoint(w) ==
    /\ pc[w] = "idle" /\ events[w] # <<>>
    /\ pc' = [pc EXCEPT ![w] = "sign"]
    /\ UNCHANGED <<log, stmts, events, skipped, signer, mending, told, offered, made, failed, history>>

\* The first statement of a process reads the ones that are there; when the last
\* line cannot be read, it reads the file again and rewrites it, and what other
\* processes wrote to it meanwhile may be lost.
StartsFrom(w, s) ==
    signer' = [signer EXCEPT ![w] = [on |-> TRUE, seq |-> Len(s), prev |-> LastHash(s)]]
MendIf(w, torn) ==
    /\ pc' = [pc EXCEPT ![w] = IF torn THEN "reread" ELSE "sign"]
    /\ mending' = [mending EXCEPT ![w] = IF torn THEN [seen |-> stmts, kept |-> <<>>] ELSE @]

\* Mutant of OpenSigner: a last line without its newline counts as torn.
OpenSignerOnOpen(w) ==
    /\ pc[w] = "sign" /\ ~signer[w].on
    /\ StartsFrom(w, ReadStatements(stmts))
    /\ MendIf(w, stmts.open)
    /\ UNCHANGED <<log, stmts, events, skipped, told, offered, made, failed, history>>
OpenSigner(w) ==
    /\ pc[w] = "sign" /\ ~signer[w].on
    /\ StartsFrom(w, ReadStatements(stmts))
    /\ MendIf(w, EndsTorn(stmts, TornStatement))
    /\ UNCHANGED <<log, stmts, events, skipped, told, offered, made, failed, history>>

ReadAgain(w) ==
    /\ pc[w] = "reread"
    /\ pc' = [pc EXCEPT ![w] = "rewrite"]
    /\ mending' = [mending EXCEPT ![w].kept = Kept(stmts)]
    /\ UNCHANGED <<log, stmts, events, skipped, signer, told, offered, made, failed, history>>

Rewrite(w) ==
    /\ pc[w] = "rewrite"
    /\ stmts' = [lines |-> mending[w].kept, open |-> FALSE]
    /\ pc' = [pc EXCEPT ![w] = "sign"]
    /\ mending' = [mending EXCEPT ![w] = NotMending]
    /\ Notes(w, "whole", stmts = mending[w].seen /\ mending[w].kept = Kept(stmts), {})
    /\ UNCHANGED <<log, events, skipped, signer, told, offered, made, failed>>

Statement(w) == [id |-> made + 1, seq |-> signer[w].seq, prev |-> signer[w].prev,
                 root |-> Root(events[w])]

\* Mutants of Sign: the accumulator lags a leaf behind; the chain stands still.
SignBehind(w) ==
    /\ pc[w] = "sign" /\ signer[w].on /\ made < MaxStatements
    /\ stmts' = Put(stmts, [Statement(w) EXCEPT !.root[Len(events[w])] = 0], TornStatement, "whole")
    /\ signer' = [signer EXCEPT ![w] = [on |-> TRUE, seq |-> @.seq + 1, prev |-> made + 1]]
    /\ made' = made + 1
    /\ pc' = [pc EXCEPT ![w] = "idle"]
    /\ Notes(w, "whole", InformedSigner(w), {})
    /\ UNCHANGED <<log, events, skipped, mending, told, offered, failed>>
SignUnlinked(w) ==
    /\ pc[w] = "sign" /\ signer[w].on /\ made < MaxStatements
    /\ stmts' = Put(stmts, Statement(w), TornStatement, "whole")
    /\ signer' = [signer EXCEPT ![w].seq = @ + 1]
    /\ made' = made + 1
    /\ pc' = [pc EXCEPT ![w] = "idle"]
    /\ Notes(w, "whole", InformedSigner(w), {})
    /\ UNCHANGED <<log, events, skipped, mending, told, offered, failed>>

\* The statement is on the disk, and then the signer moves on.
Sign(w) ==
    /\ pc[w] = "sign" /\ signer[w].on /\ made < MaxStatements
    /\ stmts' = Put(stmts, Statement(w), TornStatement, "whole")
    /\ signer' = [signer EXCEPT ![w] = [on |-> TRUE, seq |-> @.seq + 1, prev |-> made + 1]]
    /\ made' = made + 1
    /\ pc' = [pc EXCEPT ![w] = "idle"]
    /\ Notes(w, "whole", InformedSigner(w), {})
    /\ UNCHANGED <<log, events, skipped, mending, told, offered, failed>>

-----------------------------------------------------------------------------
(* Faults.                                                                 *)

Fault == failed < MaxFaults /\ failed' = failed + 1

\* What is left of the line a process was about to write.
LeaveEvent(w, how, spoils) ==
    /\ pc[w] = "idle" /\ offered < MaxEvents
    /\ log' = Put(log, Event(w), Torn, how) /\ offered' = offered + 1
    /\ Notes(w, how, Informed(w), spoils)
    /\ UNCHANGED <<stmts, made>>
LeaveStatement(w, how, spoils) ==
    /\ pc[w] = "sign" /\ signer[w].on /\ made < MaxStatements
    /\ stmts' = Put(stmts, Statement(w), TornStatement, how) /\ made' = made + 1
    /\ Notes(w, how, InformedSigner(w), spoils)
    /\ UNCHANGED <<log, offered>>
\* The signer could not be set up, and the process has none.
LeaveNothing(w) ==
    /\ pc[w] \in {"reread", "rewrite"} \/ (pc[w] = "sign" /\ ~signer[w].on)
    /\ UNCHANGED <<log, stmts, offered, made, history>>

\* The caller is told, and the memory stays as it was.
GiveUp(w) ==
    /\ pc' = [pc EXCEPT ![w] = "idle"]
    /\ signer' = [signer EXCEPT ![w] = IF pc[w] \in {"reread", "rewrite"} THEN NoSigner ELSE @]
    /\ mending' = [mending EXCEPT ![w] = NotMending]

\* Mutant of FailWrite: an event whose write failed is in the log all the same.
FailWriteSilently(w) ==
    /\ Fault
    /\ \/ \E how \in Failures : LeaveEvent(w, how, {}) /\ told' = told \cup {offered + 1}
       \/ \E how \in Failures : LeaveStatement(w, how, {}) /\ told' = told
       \/ LeaveNothing(w) /\ told' = told
    /\ GiveUp(w)
    /\ UNCHANGED <<events, skipped>>

\* The write or the fsync raises.
FailWrite(w) ==
    /\ Fault
    /\ \/ \E how \in Failures : LeaveEvent(w, how, Outcomes \ {"lost"})
       \/ \E how \in Failures : LeaveStatement(w, how, Outcomes \ {"lost"})
       \/ LeaveNothing(w)
    /\ GiveUp(w)
    /\ UNCHANGED <<events, skipped, told>>

\* The process dies on the way.
Crash(w) ==
    /\ Fault
    /\ \/ \E how \in Tears : LeaveEvent(w, how, {"fragment", "bare"})
       \/ \E how \in Tears : LeaveStatement(w, how, {"bare"})
       \/ LeaveNothing(w)
    /\ Forget(w)
    /\ UNCHANGED told

\* The bound on statements is reached.
Rest == made = MaxStatements /\ UNCHANGED vars

Next == Rest \/
    \E w \in Processes :
        \/ Open(w) \/ Close(w)
        \/ WriteEvent(w) \/ Checkpoint(w)
        \/ OpenSigner(w) \/ ReadAgain(w) \/ Rewrite(w) \/ Sign(w)
        \/ FailWrite(w) \/ Crash(w)

Spec == Init /\ [][Next]_vars

-----------------------------------------------------------------------------
(* Properties.                                                             *)

EventLines == [n : 0..MaxEvents, idx : Nat, signs : BOOLEAN]
Statements == [id : Int, seq : Nat, prev : Int, root : Seq(0..MaxEvents)]
TypeOK ==
    /\ log \in Lines(EventLines) /\ stmts \in Lines(Statements)
    /\ pc \in [Processes -> {"down", "idle", "sign", "reread", "rewrite"}]
    /\ events \in [Processes -> Seq(EventLines)] /\ skipped \in [Processes -> BOOLEAN]
    /\ signer \in [Processes -> [on : BOOLEAN, seq : Nat, prev : Int]]
    /\ mending \in [Processes -> [seen : Lines(Statements), kept : Seq(Statements)]]
    /\ told \subseteq 1..MaxEvents
    /\ offered \in 0..MaxEvents /\ made \in 0..MaxStatements /\ failed \in 0..MaxFaults
    /\ blind \in BOOLEAN /\ spoiled \in BOOLEAN /\ shared \in BOOLEAN

\* Whatever fails and however many processes write: each event that an append
\* reported as persisted can be read, or a line that cannot be read stands in
\* its place, one line for one event, and every later reader is told of it.
LossIsVisible ==
    Cardinality(told \ {log.lines[i].n : i \in Legible}) <= Cardinality(Unreadable)

\* A process that writes alone, over files nothing was left behind in, knows
\* what they hold and where they end, whichever way earlier processes ended.
WriterIsInformed == blind => spoiled \/ shared

\* As long as nobody wrote blindly, a process finds nothing wrong with the
\* statements, however it and the others crashed; it may have read the log
\* before the statements it checks, and then it finds more leaves signed.
HonestLogVerifies ==
    ~blind /\ Unreadable = {} =>
        \A w \in Processes : pc[w] # "down" =>
            Findings(w) \subseteq IF events[w] = Readable THEN {} ELSE {"log_truncated"}

\* Then every receipt a statement covers can be checked on its own, when the
\* process that bundles it holds every event which that statement signs.
ReceiptsCheck ==
    ~blind =>
        \A w \in Processes : \A i \in 0..(Len(events[w]) - 1) :
            Covers(i) # {} /\ Holds(w, Covering(i)) => ReceiptChecks(w, i)

\* Then an anchor stands: the events and the statements that could be read
\* before are read again, in their place.
AnchorsStand ==
    [][~blind' =>
        /\ IsPrefix(Readable, Readable')
        /\ IsPrefix(ReadStatements(stmts), ReadStatements(stmts)')]_<<log, stmts>>

\* Then the events of those who sign every append that no statement covers are
\* those being signed, and one more at most for each fault.
UnsignedTail == {i \in (SignedLeaves + 1)..Len(Readable) : Readable[i].signs}
Signing == {w \in Processes : pc[w] \in {"sign", "reread", "rewrite"}}
TailIsExplained ==
    ~blind => Cardinality(UnsignedTail) <= failed + Cardinality(Signing)
=============================================================================
