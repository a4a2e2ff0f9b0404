------------------------------- MODULE Fanout -------------------------------
(***************************************************************************)
(* Fan-out and sub-flow composition (prismpath/workers/composer.py).       *)
(*                                                                         *)
(* A worker of a fan-out node suspends its run with a list of items; the   *)
(* harness runs one durable child per item, each a checkpoint file, nested *)
(* to any depth, and when the join condition holds it writes the summary   *)
(* into the parent's checkpoint and resumes the parent by the join event.  *)
(* A child's file is named by its parent's file and its item, so a run is  *)
(* the sequence of items that leads to it and the root is <<>>.            *)
(*                                                                         *)
(* One process runs the harness, a worker call, a save and the two halves  *)
(* of the join each a step of its own; people answer runs meanwhile, the   *)
(* timer scan and the CLI come between two scans.  A person's process stops *)
(* at the node chosen: two processes at one run, which the docstring leaves *)
(* to leasing, are left out.  Flows are chains that pass the analyzer and  *)
(* are authorized.  MaxFaults bounds what cuts a worker call short: a      *)
(* crash, an exception, and a run that ends without a save.                *)
(***************************************************************************)
EXTENDS Integers, Sequences, FiniteSets, SequencesExt

CONSTANTS
    Runs,        \* the files there can be: the root and the children
    RootFlow,    \* the first node of the root's flow
    Nodes, End, FanOuts,
    NodesOf,     \* the nodes of each run's flow
    Then,        \* the node after each node; of a fan-out, its join edge
    Late,        \* the timeout edge of the fan-outs that have a timer
    Child,       \* the first node of each fan-out's child flow
    Items, Join, \* its items, and its join: [policy, num, den]
    Gated,       \* fan-outs that only count children whose gate field is truthy
    Yields,      \* what each node's worker may do
    MaxFaults

Outcomes == {"ok", "poor", "spawn", "human", "stuck", "unsaved", "raise"}

ItemIds == UNION {ToSet(Items[f]) : f \in FanOuts}

ASSUME FlowsAssumption ==
    /\ FanOuts \subseteq Nodes /\ End \notin Nodes
    /\ Then \in [Nodes -> Nodes \cup {End}]
    /\ DOMAIN Late \subseteq FanOuts /\ \A f \in DOMAIN Late : Late[f] \in Nodes \cup {End}
    /\ Child \in [FanOuts -> Nodes]
    /\ Items \in [FanOuts -> Seq(ItemIds)]
    /\ \A f \in FanOuts : Items[f] # <<>> /\ Yields[f] = {"spawn"}
    /\ Yields \in [Nodes -> SUBSET Outcomes]
    /\ Gated \subseteq FanOuts /\ MaxFaults \in Nat

\* join is all_done, any or quorum; quorum:X has X = num / den, and den = 0
\* when X is malformed.
ASSUME JoinAssumption ==
    Join \in [FanOuts -> [policy : {"all_done", "any", "quorum"}, num : Int, den : Nat]]

\* A flow's edges stay in it, and each item of its fan-outs has a file.
ASSUME RunsAssumption ==
    /\ NodesOf \in [Runs -> SUBSET Nodes]
    /\ Runs \subseteq Seq(ItemIds) /\ <<>> \in Runs /\ RootFlow \in NodesOf[<<>>]
    /\ \A r \in Runs : \A n \in NodesOf[r] :
        /\ Then[n] \in NodesOf[r] \cup {End}
        /\ n \in DOMAIN Late => Late[n] \in NodesOf[r] \cup {End}
        /\ n \in FanOuts => \A i \in ToSet(Items[n]) :
            Append(r, i) \in Runs /\ Child[n] \in NodesOf[Append(r, i)]

VARIABLES
    file,    \* the checkpoint of each run
    calls,   \* how often each run called the worker of each node
    pc,      \* what the harness does next
    stack,   \* fan-outs being advanced, outermost first, with the flags seen
    active,  \* the run its engine is in, and the document to be saved next
    faults

vars == <<file, calls, pc, stack, active, faults>>

Stops == {"none", "", "terminal", "needs_human", "waiting", "stuck", "error"}
NoDoc == [stopped |-> "none", flow |-> End, node |-> End, good |-> FALSE,
          spawned |-> [f \in FanOuts |-> {}]]
Idle == [run |-> <<>>, doc |-> NoDoc]

Init ==
    /\ file = [r \in Runs |-> NoDoc]
    /\ calls = [r \in Runs |-> [n \in Nodes |-> 0]]
    /\ pc = "idle" /\ stack = <<>> /\ active = Idle /\ faults = 0

Exists(r) == file[r].stopped # "none"
Save(r, doc) == file' = [file EXCEPT ![r] = doc]

\* The engine saves a node as pending when it gets there; the end is terminal.
Enter(doc, n) ==
    [doc EXCEPT !.node = n, !.stopped = IF n = End THEN "terminal" ELSE ""]
Fresh(flow) == Enter([NoDoc EXCEPT !.flow = flow], flow)

Run(r) == pc' = "run" /\ active' = [run |-> r, doc |-> NoDoc]
Quit == pc' = "idle" /\ stack' = <<>> /\ active' = Idle
At(p) == pc' = p /\ active' = Idle

\* The fan-out at hand, and the child whose turn it is.
Top == stack[Len(stack)]
Pop == SubSeq(stack, 1, Len(stack) - 1)
Frame(r) == [run |-> r, node |-> file[r].node, seen |-> <<>>]
Kid == Append(Top.run, Items[Top.node][Len(Top.seen) + 1])
Count(flag) == stack' = Append(Pop, [Top EXCEPT !.seen = Append(@, flag)])

IsFanOut(doc) == doc.stopped = "waiting" /\ doc.node \in FanOuts

-----------------------------------------------------------------------------
(* A scan.                                                                 *)

\* A waiting parent with a spawn spec.
BeginScan ==
    /\ pc = "idle" /\ IsFanOut(file[<<>>])
    /\ stack' = <<Frame(<<>>)>>
    /\ At("poll")
    /\ UNCHANGED <<file, calls, faults>>

\* Left alone by the harness.
Stable(doc) == doc.stopped \in Stops \ {"none", ""}

\* Mutant of Done: the gate is not looked at.
DoneAnyhow(doc, f) == doc.stopped = "terminal"

Done(doc, f) == doc.stopped = "terminal" /\ (f \in Gated => doc.good)

\* A stable child counts, but one that is a fan-out itself is advanced first.
Judge(doc) ==
    IF IsFanOut(doc) THEN stack' = Append(stack, Frame(Kid))
    ELSE Count(Done(doc, Top.node))

\* Mutant of Poll: a child that is not terminal is started afresh.
PollAfresh ==
    /\ pc = "poll" /\ Len(Top.seen) < Len(Items[Top.node])
    /\ IF file[Kid].stopped = "terminal"
       THEN Judge(file[Kid]) /\ At("poll") /\ UNCHANGED file
       ELSE Save(Kid, Fresh(Child[Top.node])) /\ Run(Kid) /\ UNCHANGED stack
    /\ UNCHANGED <<calls, faults>>

\* A child with no file is started, a crashed one resumed.
Poll ==
    /\ pc = "poll" /\ Len(Top.seen) < Len(Items[Top.node])
    /\ \/ /\ ~Exists(Kid)
          /\ Save(Kid, Fresh(Child[Top.node])) /\ Run(Kid) /\ UNCHANGED stack
       \/ /\ Exists(Kid) /\ ~Stable(file[Kid])
          /\ Run(Kid) /\ UNCHANGED <<file, stack>>
       \/ /\ Stable(file[Kid])
          /\ Judge(file[Kid]) /\ At("poll") /\ UNCHANGED file
    /\ UNCHANGED <<calls, faults>>

\* The child ran: one that reached no stable state is marked as an error.
Polled ==
    /\ pc = "polled"
    /\ \/ /\ ~Stable(file[Kid])
          /\ Save(Kid, [file[Kid] EXCEPT !.stopped = "error"]) /\ Count(FALSE)
       \/ /\ Stable(file[Kid])
          /\ Judge(file[Kid]) /\ UNCHANGED file
    /\ At("poll")
    /\ UNCHANGED <<calls, faults>>

\* Back from a nested fan-out: its file is loaded again.
Nested ==
    /\ pc = "nested"
    /\ Count(Done(file[Kid], Top.node)) /\ At("poll")
    /\ UNCHANGED <<file, calls, faults>>

-----------------------------------------------------------------------------
(* The join.                                                               *)

Within(x, lo, hi) == IF x < lo THEN lo ELSE IF x > hi THEN hi ELSE x

\* Mutant of Threshold: more than the quorum is asked for.
ThresholdStrict(q, n) == Within((q.num * n) \div q.den + 2, 1, n)

\* A count, or a fraction of n rounded up; a malformed one asks for all.
Threshold(q, n) ==
    IF q.den = 0 THEN n
    ELSE IF 0 < q.num /\ q.num < q.den
         THEN Within((q.num * n + q.den - 1) \div q.den, 1, n)
         ELSE Within(q.num \div q.den, 1, n)

Joins(f, seen) ==
    LET done == Cardinality({i \in DOMAIN seen : seen[i]}) IN
    CASE Join[f].policy = "any"      -> done >= 1
      [] Join[f].policy = "all_done" -> done = Len(seen)
      [] Join[f].policy = "quorum"   -> done >= Threshold(Join[f], Len(seen))

\* The fan-out at hand is over; the one around it goes on.
EndFrame ==
    /\ stack' = Pop
    /\ At(IF Len(stack) = 1 THEN "idle" ELSE "nested")

Decide ==
    /\ pc = "poll" /\ Len(Top.seen) = Len(Items[Top.node])
    /\ \/ Joins(Top.node, Top.seen) /\ At("inject") /\ UNCHANGED stack
       \/ ~Joins(Top.node, Top.seen) /\ EndFrame
    /\ UNCHANGED <<file, calls, faults>>

\* Mutant of Inject: the items are reported, whether they are done or not.
InjectAll ==
    /\ pc = "inject"
    /\ Save(Top.run, [file[Top.run] EXCEPT !.spawned[Top.node] = ToSet(Items[Top.node])])
    /\ At("resume")
    /\ UNCHANGED <<calls, stack, faults>>

\* The summary is put into the parent's state, and saved.
Inject ==
    LET done == {Items[Top.node][i] : i \in {j \in DOMAIN Top.seen : Top.seen[j]}} IN
    /\ pc = "inject"
    /\ Save(Top.run, [file[Top.run] EXCEPT !.spawned[Top.node] = done])
    /\ At("resume")
    /\ UNCHANGED <<calls, stack, faults>>

\* The join event takes the parent along its join edge.
Resume ==
    LET doc == Enter(file[Top.run], Then[file[Top.run].node]) IN
    /\ pc = "resume"
    /\ Save(Top.run, doc)
    /\ IF doc.stopped = "terminal" THEN EndFrame ELSE Run(Top.run) /\ UNCHANGED stack
    /\ UNCHANGED <<calls, faults>>

-----------------------------------------------------------------------------
(* The engine, in the run the harness started or resumed.                  *)

\* The call returned to the harness, or to the CLI.
Return ==
    IF stack = <<>> THEN Quit
    ELSE IF active.run = Top.run THEN EndFrame
    ELSE At("polled") /\ UNCHANGED stack

\* The engine puts its stops into the document; the worker's outcome is what
\* the gate field is read from.
After(doc, o) ==
    CASE o \in {"ok", "poor"} -> Enter([doc EXCEPT !.good = @ \/ o = "ok"], Then[doc.node])
      [] o = "spawn"          -> [doc EXCEPT !.stopped = "waiting"]
      [] o = "human"          -> [doc EXCEPT !.stopped = "needs_human"]
      [] OTHER                -> [doc EXCEPT !.stopped = "stuck"]

Call ==
    LET r == active.run
        doc == file[r] IN
    /\ pc = "run"
    /\ calls' = [calls EXCEPT ![r][doc.node] = @ + 1]
    /\ \E o \in Yields[doc.node] :
         \/ /\ o \notin {"unsaved", "raise"}
            /\ pc' = "save" /\ active' = [active EXCEPT !.doc = After(doc, o)]
            /\ UNCHANGED <<stack, faults>>
         \/ /\ o \in {"unsaved", "raise"} /\ faults < MaxFaults
            /\ faults' = faults + 1
            /\ IF o = "raise" THEN Quit ELSE Return
    /\ UNCHANGED file

SaveStep ==
    /\ pc = "save"
    /\ Save(active.run, active.doc)
    /\ IF active.doc.stopped = "" THEN Run(active.run) /\ UNCHANGED stack ELSE Return
    /\ UNCHANGED <<calls, faults>>

-----------------------------------------------------------------------------
(* The others.                                                             *)

\* The CLI starts the root, or resumes it after a crash.
RunRoot ==
    /\ pc = "idle" /\ ~Stable(file[<<>>])
    /\ Run(<<>>)
    /\ IF Exists(<<>>) THEN UNCHANGED file ELSE Save(<<>>, Fresh(RootFlow))
    /\ UNCHANGED <<calls, stack, faults>>

\* A person answers a run that asked.
Answer(r) ==
    /\ file[r].stopped = "needs_human"
    /\ Save(r, Enter(file[r], Then[file[r].node]))
    /\ UNCHANGED <<calls, pc, stack, active, faults>>

\* The timer scan looks at the files of the queue, not at the children's.
Timeout ==
    /\ pc = "idle" /\ file[<<>>].stopped = "waiting" /\ file[<<>>].node \in DOMAIN Late
    /\ Save(<<>>, Enter(file[<<>>], Late[file[<<>>].node]))
    /\ UNCHANGED <<calls, pc, stack, active, faults>>

\* The process dies; a save that raises with the old file in place looks alike.
Crash ==
    /\ pc # "idle" /\ faults < MaxFaults
    /\ faults' = faults + 1
    /\ Quit
    /\ UNCHANGED <<file, calls>>

Harness == BeginScan \/ Poll \/ Polled \/ Nested \/ Decide \/ Inject \/ Resume
Engine == Call \/ SaveStep \/ RunRoot

Next == Harness \/ Engine \/ (\E r \in Runs : Answer(r)) \/ Timeout \/ Crash

Spec == Init /\ [][Next]_vars

\* The scan runs on a tick, and its process goes on.
FairSpec == Spec /\ WF_vars(Harness \/ Engine)

-----------------------------------------------------------------------------
(* Properties.                                                             *)

\* What the join asks for, of n items with done of them finished.
Met(f, done, n) ==
    \/ done = n
    \/ /\ done >= 1
       /\ CASE Join[f].policy = "any"      -> TRUE
            [] Join[f].policy = "all_done" -> FALSE
            [] Join[f].policy = "quorum"   ->
                 IF 0 < Join[f].num /\ Join[f].num < Join[f].den
                 THEN done * Join[f].den >= Join[f].num * n
                 ELSE Join[f].den # 0 /\ done * Join[f].den >= Join[f].num

Finished(r, f) ==
    {i \in ToSet(Items[f]) :
        LET doc == file[Append(r, i)] IN
        doc.stopped = "terminal" /\ (f \in Gated => doc.good)}

Joined(f) == pc = "resume" /\ Top.node = f /\ file'[Top.run].stopped # "waiting"

\* A parent takes its join edge only when enough of its children have finished
\* well, and the summary its next node reads names just such children: a stale
\* poll, a crash between summary and resume, or people answering meanwhile
\* never join early or report a child that is not done.
JoinIsEarned ==
    [][\A f \in FanOuts : Joined(f) =>
        LET reported == file[Top.run].spawned[f] IN
        /\ reported \subseteq Finished(Top.run, f)
        /\ Met(f, Cardinality(reported), Len(Items[f]))]_vars

\* A worker is called again only when a fault cut a call short: scanning again,
\* from the start or after a crash, neither restarts nor repeats a child.
NothingTwice ==
    \A r \in Runs, n \in Nodes : calls[r][n] <= 1 + faults

Ready(r, f) ==
    /\ file[r].stopped = "waiting" /\ file[r].node = f
    /\ Met(f, Cardinality(Finished(r, f)), Len(Items[f]))

\* A join that has been earned is delivered, at any depth, although children
\* hang, fail or crash the process.
EarnedJoinsAreDelivered ==
    \A r \in Runs, f \in FanOuts : Ready(r, f) ~> file[r].node # f
=============================================================================
