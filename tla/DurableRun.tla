----------------------------- MODULE DurableRun -----------------------------
(***************************************************************************)
(* Durable execution of a flow (prismpath/ledgers/checkpoint.py over       *)
(* kernel/engine.py) and the timer scan (workers/scheduler.py).            *)
(*                                                                         *)
(* A run is one checkpoint file.  A driver is a process: it starts a run,  *)
(* resumes one after a crash, with a person's choice or with an event,     *)
(* records a decision, or scans for timers that are due.  The engine       *)
(* saves before it calls a node's worker and when it suspends or ends, so  *)
(* a save and a worker call are steps of their own; record_decision and    *)
(* the scan load the file in one step and act on it in a later one.        *)
(*                                                                         *)
(* Abstractions: a worker does one of the things its node's Yields lists;  *)
(* predicates and the router pick any edge of their kind; state beyond the *)
(* path and the steps, authorization, edits of the flow file and states    *)
(* that cannot be serialized are left out.  saved_at + timeout_s is a flag *)
(* that time may raise.  MaxCrashes bounds crashes and I/O errors.         *)
(***************************************************************************)
EXTENDS Integers, Sequences, FiniteSets

CONSTANTS
    Runs,         \* checkpoint files of the queue, in scan order 1 .. n
    Operators,    \* drivers that start, resume and decide
    Schedulers,   \* drivers that scan
    Nodes, StartNode, TerminalNodes,
    Edges,        \* [from, to, on]: "when", "semantic", "error" or an event
    Yields,       \* what each node's worker may do
    NoNode,
    MaxSteps, MaxCrashes

Timeout == "timeout"
Outcomes == {"route", "human", "wait", "violation", "raise"}
Drivers == Operators \cup Schedulers

ASSUME RunsAssumption == IsFiniteSet(Runs) /\ Runs = 1 .. Cardinality(Runs)
ASSUME FlowAssumption ==
    /\ StartNode \in Nodes /\ TerminalNodes \subseteq Nodes /\ NoNode \notin Nodes
    /\ Edges \subseteq [from : Nodes, to : Nodes, on : STRING]
    /\ Yields \in [Nodes -> SUBSET Outcomes]
ASSUME BoundsAssumption == MaxSteps \in Nat \ {0} /\ MaxCrashes \in Nat

Targets(n) == {e.to : e \in {x \in Edges : x.from = n}}
TargetsOn(n, on) == {e.to : e \in {x \in Edges : x.from = n /\ x.on = on}}
Events == {e.on : e \in Edges} \ {"when", "semantic", "error"}

Stops == {"", "terminal", "stuck", "needs_human", "waiting", "contract_violation"}
Step(from, to, used) == [from |-> from, to |-> to, used |-> used]
Steps == [from : Nodes, to : Nodes, used : {"engine", "error", "human", "event"}]

\* A checkpoint document; cands are the edges offered to a person.
Docs == [stopped : Stops, pending : Nodes \cup {NoNode}, cands : SUBSET Nodes,
         timer : BOOLEAN, decision : Nodes \cup {NoNode},
         path : Seq(Nodes), steps : Seq(Steps)]
NoDoc == [stopped |-> "", pending |-> NoNode, cands |-> {}, timer |-> FALSE,
          decision |-> NoNode, path |-> <<>>, steps |-> <<>>]

VARIABLES
    file,     \* the checkpoint of each run, NoDoc before its first save
    due,      \* its timeout_s has elapsed since saved_at
    pc,       \* what each driver does next
    job,      \* its locals: run, document in memory, steps left, scan position
    crashes

vars == <<file, due, pc, job, crashes>>

NoJob == [run |-> 0, doc |-> NoDoc, left |-> 0, scan |-> 0]

Init ==
    /\ file = [r \in Runs |-> NoDoc]
    /\ due = [r \in Runs |-> FALSE]
    /\ pc = [d \in Drivers |-> "idle"]
    /\ job = [d \in Drivers |-> NoJob]
    /\ crashes = 0

Exists(r) == file[r].path # <<>>

Goto(d, p, j) ==
    /\ pc' = [pc EXCEPT ![d] = p]
    /\ job' = [job EXCEPT ![d] = IF p = "idle" THEN NoJob ELSE j]

\* Where a driver goes when its run returns: the scan looks at the next file.
Return(d) ==
    IF job[d].scan = 0 THEN Goto(d, "idle", NoJob)
    ELSE Goto(d, "scan", [NoJob EXCEPT !.scan = job[d].scan + 1])

-----------------------------------------------------------------------------
(* Entering the engine.                                                    *)

\* engine.run from doc's last node: the rest of doc is the seed.
Enter(d, r, path, steps) ==
    Goto(d, "save", [run |-> r, left |-> MaxSteps, scan |-> job[d].scan,
                     doc |-> [NoDoc EXCEPT !.path = path, !.steps = steps]])

RunDurable(d, r) ==
    /\ d \in Operators /\ pc[d] = "idle" /\ ~Exists(r)
    /\ Enter(d, r, <<StartNode>>, <<>>)
    /\ UNCHANGED <<file, due, crashes>>

\* Mutant of AfterCrash: the pending node is entered once more.
AfterCrashTwice(f) == Append(f.path, f.pending)

\* Mutant of AfterCrash: the history before the crash is dropped.
AfterCrashAlone(f) == <<f.pending>>

\* The path a crashed run goes on with: it ends at the pending node.
AfterCrash(f) == Append(SubSeq(f.path, 1, Len(f.path) - 1), f.pending)

\* resume() with neither choice nor event.
ResumeCrash(d, r) ==
    LET f == file[r] IN
    /\ d \in Operators /\ pc[d] = "idle" /\ Exists(r)
    /\ f.decision = NoNode
    /\ f.stopped \in {"", "contract_violation"}
    /\ Enter(d, r, AfterCrash(f), f.steps)
    /\ UNCHANGED <<file, due, crashes>>

\* Any edge target of the pending node may be chosen, however the run stopped.
EnterChosen(d, r, c) ==
    LET f == file[r] IN
    /\ c \in Targets(f.pending)
    /\ Enter(d, r, Append(f.path, c), Append(f.steps, Step(f.pending, c, "human")))

\* resume(choose=c), or resume() of a run that a decision was recorded for.
ResumeChosen(d, r) ==
    /\ d \in Operators /\ pc[d] = "idle" /\ Exists(r)
    /\ \E c \in Nodes : EnterChosen(d, r, c)
    /\ UNCHANGED <<file, due, crashes>>

\* Mutant of EventTargets: an event takes any edge of the node.
AnyTargets(n, e) == Targets(n)

EventTargets(n, e) == TargetsOn(n, e)

Deliverable(r, e) == file[r].decision # NoNode \/ EventTargets(file[r].pending, e) # {}

\* resume(event=e): a recorded decision goes first; no edge for e raises.
EnterOnEvent(d, r, e) ==
    LET f == file[r] IN
    \/ f.decision # NoNode /\ EnterChosen(d, r, f.decision)
    \/ /\ f.decision = NoNode
       /\ \E t \in EventTargets(f.pending, e) :
            Enter(d, r, Append(f.path, t), Append(f.steps, Step(f.pending, t, "event")))

\* A webhook delivers a signal.
ResumeEvent(d, r) ==
    /\ d \in Operators /\ pc[d] = "idle" /\ Exists(r)
    /\ \E e \in Events \ {Timeout} : EnterOnEvent(d, r, e)
    /\ UNCHANGED <<file, due, crashes>>

-----------------------------------------------------------------------------
(* engine.run.                                                             *)

\* An atomic replacement of run r's checkpoint, which stamps saved_at.
Save(r, doc) ==
    /\ file' = [file EXCEPT ![r] = doc]
    /\ due' = [due EXCEPT ![r] = FALSE]

Here(d) == job[d].doc.path[Len(job[d].doc.path)]

\* Mutant of SaveNode: the node is saved after its worker, not before.
SkipSave(d) ==
    /\ pc[d] = "save"
    /\ IF Here(d) \in TerminalNodes
       THEN /\ Save(job[d].run, [job[d].doc EXCEPT !.stopped = "terminal"])
            /\ Return(d)
       ELSE /\ Goto(d, "work", [job[d] EXCEPT !.doc.pending = Here(d), !.left = @ - 1])
            /\ UNCHANGED <<file, due>>
    /\ UNCHANGED crashes

\* The head of the loop: a terminal node ends the run, any other is saved as
\* pending before its worker is called.
SaveNode(d) ==
    /\ pc[d] = "save"
    /\ IF Here(d) \in TerminalNodes
       THEN /\ Save(job[d].run, [job[d].doc EXCEPT !.stopped = "terminal"])
            /\ Return(d)
       ELSE LET doc == [job[d].doc EXCEPT !.pending = Here(d)] IN
            /\ Save(job[d].run, doc)
            /\ Goto(d, "work", [job[d] EXCEPT !.doc = doc, !.left = @ - 1])
    /\ UNCHANGED crashes

\* Mutant of Follow: the budget is not looked at.
FollowUnbounded(d, t, used) ==
    Goto(d, "save",
         [job[d] EXCEPT !.doc = [NoDoc EXCEPT
             !.path = Append(job[d].doc.path, t),
             !.steps = Append(job[d].doc.steps, Step(Here(d), t, used))]])

\* The worker returned and the engine follows an edge, unless the budget is
\* spent: max_steps ends the run without a save.
Follow(d, t, used) ==
    LET doc == job[d].doc IN
    IF job[d].left = 0 THEN Return(d)
    ELSE Goto(d, "save",
              [job[d] EXCEPT !.doc = [NoDoc EXCEPT
                  !.path = Append(doc.path, t),
                  !.steps = Append(doc.steps, Step(Here(d), t, used))]])

\* The run is to stop at this node; the stop is saved next.
Suspend(d, stopped, cands, timer) ==
    LET doc == [job[d].doc EXCEPT !.stopped = stopped, !.cands = cands, !.timer = timer] IN
    Goto(d, "stop", [job[d] EXCEPT !.doc = doc])

\* A deterministic edge, else a semantic one or, below the confidence floor,
\* a person, else stuck.
Route(d) ==
    LET n == Here(d)
        semantic == TargetsOn(n, "semantic") IN
    \/ \E t \in TargetsOn(n, "when") \cup semantic : Follow(d, t, "engine")
    \/ semantic # {} /\ Suspend(d, "needs_human", semantic, FALSE)
    \/ semantic = {} /\ Suspend(d, "stuck", {}, FALSE)

\* The worker raised: an error edge is taken, or the exception ends the call
\* (and, in a scan, the scan).
Raise(d) ==
    LET n == Here(d) IN
    \/ \E t \in TargetsOn(n, "error") : Follow(d, t, "error")
    \/ Goto(d, "idle", NoJob)

Work(d) ==
    LET n == Here(d) IN
    /\ pc[d] = "work"
    /\ \/ "route" \in Yields[n] /\ Route(d)
       \/ "human" \in Yields[n] /\ Suspend(d, "needs_human", Targets(n), FALSE)
       \/ "wait" \in Yields[n] /\ \E t \in BOOLEAN : Suspend(d, "waiting", {}, t)
       \/ "violation" \in Yields[n] /\ Suspend(d, "contract_violation", {}, FALSE)
       \/ "raise" \in Yields[n] /\ Raise(d)
    /\ UNCHANGED <<file, due, crashes>>

SaveStop(d) ==
    /\ pc[d] = "stop"
    /\ Save(job[d].run, job[d].doc)
    /\ Return(d)
    /\ UNCHANGED crashes

-----------------------------------------------------------------------------
(* The human queue: record_decision loads, checks, then writes its copy.   *)

LoadForDecision(d, r) ==
    /\ d \in Operators /\ pc[d] = "idle" /\ Exists(r)
    /\ file[r].stopped = "needs_human"
    /\ \E c \in file[r].cands :
         Goto(d, "decide", [NoJob EXCEPT !.run = r, !.doc = [file[r] EXCEPT !.decision = c]])
    /\ UNCHANGED <<file, due, crashes>>

\* The copy keeps its saved_at; a run that waits for a person has no timer.
WriteDecision(d) ==
    /\ pc[d] = "decide"
    /\ file' = [file EXCEPT ![job[d].run] = job[d].doc]
    /\ Goto(d, "idle", NoJob)
    /\ UNCHANGED <<due, crashes>>

-----------------------------------------------------------------------------
(* Timers and the scan, fire_due_timeouts.                                 *)

Elapse(r) ==
    /\ file[r].stopped = "waiting" /\ file[r].timer /\ ~due[r]
    /\ due' = [due EXCEPT ![r] = TRUE]
    /\ UNCHANGED <<file, pc, job, crashes>>

BeginScan(d) ==
    /\ d \in Schedulers /\ pc[d] = "idle"
    /\ Goto(d, "scan", [NoJob EXCEPT !.scan = 1])
    /\ UNCHANGED <<file, due, crashes>>

\* The scan loads a file and decides whether its timer is due.
IsDue(r) == file[r].stopped = "waiting" /\ file[r].timer /\ due[r]

Look(d) ==
    LET r == job[d].scan IN
    /\ pc[d] = "scan"
    /\ \/ r \notin Runs /\ Goto(d, "idle", NoJob)
       \/ r \in Runs /\ IsDue(r) /\ Goto(d, "fire", job[d])
       \/ r \in Runs /\ ~IsDue(r) /\ Goto(d, "scan", [job[d] EXCEPT !.scan = @ + 1])
    /\ UNCHANGED <<file, due, crashes>>

\* Mutant of Fire: the run is left for good.
FireNothing(d) ==
    /\ pc[d] = "fire"
    /\ Goto(d, "scan", [job[d] EXCEPT !.scan = @ + 1])
    /\ UNCHANGED <<file, due, crashes>>

\* resume(event="__timeout__") loads the file again.  No edge for the timeout
\* raises CheckpointError, which ends the scan.
Fire(d) ==
    LET r == job[d].scan IN
    /\ pc[d] = "fire"
    /\ \/ EnterOnEvent(d, r, Timeout)
       \/ ~Deliverable(r, Timeout) /\ Goto(d, "idle", NoJob)
    /\ UNCHANGED <<file, due, crashes>>

\* The process dies, or a save raises with the old file in place.
Crash(d) ==
    /\ pc[d] # "idle" /\ crashes < MaxCrashes
    /\ crashes' = crashes + 1
    /\ Goto(d, "idle", NoJob)
    /\ UNCHANGED <<file, due>>

-----------------------------------------------------------------------------
Operate(d) == \E r \in Runs :
    \/ RunDurable(d, r)
    \/ ResumeCrash(d, r)
    \/ ResumeChosen(d, r)
    \/ ResumeEvent(d, r)
    \/ LoadForDecision(d, r)
Engine(d)  == SaveNode(d) \/ Work(d) \/ SaveStop(d)
Scan(d)    == BeginScan(d) \/ Look(d) \/ Fire(d)

Next ==
    \/ \E d \in Drivers : Operate(d) \/ Engine(d) \/ WriteDecision(d) \/ Scan(d) \/ Crash(d)
    \/ \E r \in Runs : Elapse(r)

Spec == Init /\ [][Next]_vars

\* Time passes, the scan runs on a tick, and a process that runs a flow goes on.
Fairness ==
    /\ \A r \in Runs : WF_vars(Elapse(r))
    /\ \A d \in Schedulers : WF_vars(Engine(d) \/ Scan(d))

FairSpec == Spec /\ Fairness

-----------------------------------------------------------------------------
(* Properties.                                                             *)

\* Every checkpoint and every driver is of its kind.
TypeOK ==
    /\ file \in [Runs -> Docs]
    /\ due \in [Runs -> BOOLEAN]
    /\ pc \in [Drivers -> {"idle", "save", "work", "stop", "decide", "scan", "fire"}]
    /\ job \in [Drivers -> [run : Runs \cup {0}, doc : Docs, left : 0 .. MaxSteps, scan : Nat]]
    /\ crashes \in 0 .. MaxCrashes

\* The history a checkpoint carries is one walk of the flow, however many
\* crashes, choices, events and drivers put it together: each step leaves the
\* node the path is at and enters the next one, along an edge.
HistoryIsWalk ==
    \A r \in Runs : Exists(r) =>
        LET path == file[r].path  steps == file[r].steps IN
        /\ path[1] = StartNode /\ Len(path) = Len(steps) + 1
        /\ \A i \in 1 .. Len(steps) :
             steps[i].from = path[i] /\ steps[i].to = path[i + 1] /\ path[i + 1] \in Targets(path[i])

\* Nodes whose worker always asks a person, and that no event can leave.
Gates == {n \in Nodes : Yields[n] = {"human"} /\ \A e \in Events : TargetsOn(n, e) = {}}

\* No run gets past a gate without a person's choice, whoever resumes it and
\* wherever it crashed.
GatesHold ==
    \A r \in Runs : \A i \in 1 .. Len(file[r].steps) :
        file[r].steps[i].from \in Gates => file[r].steps[i].used = "human"

\* With one process at work a worker is only called for the node the file
\* names, with the history the file holds: a crash during the call resumes at
\* this node and re-runs nothing else.
WorkIsDurable ==
    \A d \in Drivers : pc[d] = "work" =>
        file[job[d].run] = job[d].doc /\ job[d].doc.pending = Here(d)

Extends(p, q) == Len(p) <= Len(q) /\ SubSeq(q, 1, Len(p)) = p

\* With one process at work no step takes a checkpoint back: its history only
\* grows, and a terminal run stays as it is.
NeverRewinds ==
    [][\A r \in Runs :
        /\ Extends(file[r].path, file'[r].path) /\ Extends(file[r].steps, file'[r].steps)
        /\ file[r].stopped = "terminal" => file'[r] = file[r]]_vars

\* What a checkpoint says of its run to one who looks at files only.
StageOf(f) == IF f.path = <<>> THEN "absent" ELSE IF f.stopped = "" THEN "working" ELSE f.stopped

\* With one process at work the files go through what the files of a process
\* that never dies would: crashes and resumes are not to be seen in them.
Uninterrupted == INSTANCE UninterruptedRun WITH
    path <- [r \in Runs |-> file[r].path],
    steps <- [r \in Runs |-> file[r].steps],
    stage <- [r \in Runs |-> StageOf(file[r])]
AsIfUninterrupted == Uninterrupted!Spec

\* A timer that is due fires, or the run has moved on.
TimeoutsFire == \A r \in Runs : IsDue(r) ~> ~IsDue(r)
=============================================================================
