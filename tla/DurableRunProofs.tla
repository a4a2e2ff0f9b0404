-------------------------- MODULE DurableRunProofs --------------------------
(***************************************************************************)
(* What durable execution guarantees for any flow, any number of runs and  *)
(* any operators and schedulers, crashes included: a checkpoint's history  *)
(* is a walk of the flow, and no walk passes a gate without a person.      *)
(***************************************************************************)
EXTENDS DurableRun, SequenceTheorems, TLAPS

LastNode(path) == path[Len(path)]

\* Step i of a history follows an edge, and a person's choice out of a gate.
Legal(path, steps, i) ==
    /\ steps[i].from = path[i] /\ steps[i].to = path[i + 1]
    /\ path[i + 1] \in Targets(path[i])
    /\ path[i] \in Gates => steps[i].used = "human"

Walk(path, steps) ==
    /\ path \in Seq(Nodes) /\ steps \in Seq(Steps)
    /\ path # <<>> /\ path[1] = StartNode /\ Len(path) = Len(steps) + 1
    /\ \A i \in 1 .. Len(steps) : Legal(path, steps, i)

\* A checkpoint that exists holds a walk, and unless the run is over it is
\* pending at the walk's last node.
FileGood(f) ==
    /\ f \in Docs
    /\ f = NoDoc \/
       (/\ Walk(f.path, f.steps)
        /\ f.pending = LastNode(f.path) \/ (f.pending = NoNode /\ f.stopped = "terminal"))

Pcs == {"idle", "save", "work", "stop", "decide", "scan", "fire"}
Jobs == [run : Runs \cup {0}, doc : Docs, left : 0 .. MaxSteps, scan : Nat]

\* What a driver holds in memory: a walk that it will save, or a copy of a
\* checkpoint with a decision.
JobGood(p, j) ==
    /\ p \in Pcs /\ j \in Jobs
    /\ p \in {"save", "work", "stop", "decide"} => j.run \in Runs /\ Walk(j.doc.path, j.doc.steps)
    /\ p = "save" => j.doc.pending = NoNode /\ j.doc.stopped = "" /\ j.left > 0
    /\ p \in {"work", "stop", "decide"} => j.doc.pending = LastNode(j.doc.path)
    /\ p \in {"scan", "fire"} => j.scan \in Nat
    /\ p = "fire" => j.scan \in Runs

HistoryInv ==
    /\ file \in [Runs -> Docs] /\ due \in [Runs -> BOOLEAN] /\ crashes \in 0 .. MaxCrashes
    /\ pc \in [Drivers -> Pcs] /\ job \in [Drivers -> Jobs]
    /\ \A r \in Runs : FileGood(file[r])
    /\ \A d \in Drivers : JobGood(pc[d], job[d])

-----------------------------------------------------------------------------
(* Walks.                                                                  *)

\* The empty document and the empty job are of their kind.
LEMMA EmptyTyped == NoDoc \in Docs /\ NoJob \in Jobs
<1>1. <<>> \in Seq(Nodes) /\ <<>> \in Seq(Steps)
  BY EmptySeq
<1>2. NoDoc \in Docs
  BY <1>1 DEF NoDoc, Docs, Stops
<1> QED BY <1>2, BoundsAssumption DEF NoJob, Jobs

\* A run starts with a walk of no steps.
LEMMA StartWalk == Walk(<<StartNode>>, <<>>)
<1>1. <<StartNode>> \in Seq(Nodes) /\ <<>> \in Seq(Steps)
  BY FlowAssumption
<1>2. Len(<<StartNode>>) = 1 /\ Len(<<>>) = 0 /\ <<StartNode>>[1] = StartNode /\ <<StartNode>> # <<>>
  OBVIOUS
<1> QED BY <1>1, <1>2 DEF Walk

\* The last node of a walk is a node of the flow.
LEMMA WalkEnds ==
    ASSUME NEW path, NEW steps, Walk(path, steps)
    PROVE  LastNode(path) \in Nodes /\ LastNode(path) # NoNode /\ Len(path) \in Nat \ {0}
<1>1. Len(path) \in Nat \ {0}
  BY EmptySeq DEF Walk
<1>2. LastNode(path) \in Nodes
  BY <1>1, ElementOfSeq DEF Walk, LastNode
<1> QED BY <1>1, <1>2, FlowAssumption

\* A walk goes on along an edge; out of a gate by a person's choice.
LEMMA WalkGoesOn ==
    ASSUME NEW path, NEW steps, Walk(path, steps),
           NEW t \in Targets(LastNode(path)), NEW used \in {"engine", "error", "human", "event"},
           LastNode(path) \in Gates => used = "human"
    PROVE  Walk(Append(path, t), Append(steps, Step(LastNode(path), t, used)))
<1> DEFINE n == Len(path)
           step == Step(LastNode(path), t, used)
           path2 == Append(path, t)
           steps2 == Append(steps, step)
<1>1. n \in Nat \ {0} /\ LastNode(path) \in Nodes /\ Len(steps) \in Nat /\ n = Len(steps) + 1
  BY WalkEnds, LenProperties DEF Walk
<1>2. t \in Nodes
  BY FlowAssumption DEF Targets
<1>3. step \in Steps /\ step.from = LastNode(path) /\ step.to = t /\ step.used = used
  BY <1>1, <1>2 DEF Step, Steps
<1>4. /\ path2 \in Seq(Nodes) /\ path2 # <<>> /\ Len(path2) = n + 1
      /\ (\A i \in 1 .. n : path2[i] = path[i]) /\ path2[n + 1] = t
  BY <1>2, AppendProperties DEF Walk
<1>5. /\ steps2 \in Seq(Steps) /\ Len(steps2) = n
      /\ (\A i \in 1 .. n - 1 : steps2[i] = steps[i]) /\ steps2[n] = step
  BY <1>1, <1>3, AppendProperties DEF Walk
<1>6. path2[1] = StartNode
  BY <1>1, <1>4 DEF Walk
<1>7. ASSUME NEW i \in 1 .. n PROVE Legal(path2, steps2, i)
  <2>1. CASE i \in 1 .. n - 1
    <3>1. Legal(path, steps, i) /\ i + 1 \in 1 .. n
      BY <1>1, <2>1 DEF Walk
    <3>2. steps2[i] = steps[i] /\ path2[i] = path[i] /\ path2[i + 1] = path[i + 1]
      BY <1>4, <1>5, <2>1, <3>1
    <3> QED BY <3>1, <3>2 DEF Legal
  <2>2. CASE i = n
    <3>1. path2[i] = LastNode(path) /\ path2[i + 1] = t /\ steps2[i] = step
      BY <1>1, <1>4, <1>5, <2>2 DEF LastNode
    <3> QED BY <1>3, <3>1 DEF Legal
  <2> QED BY <1>1, <2>1, <2>2
<1> HIDE DEF path2, steps2, n, step
<1>8. Walk(path2, steps2)
  BY <1>1, <1>4, <1>5, <1>6, <1>7 DEF Walk
<1> QED BY <1>8 DEF path2, steps2, step

\* The path a crashed run resumes with is the path it had.
LEMMA CrashKeepsPath ==
    ASSUME NEW f, Walk(f.path, f.steps), f.pending = LastNode(f.path)
    PROVE  AfterCrash(f) = f.path
<1> DEFINE path == f.path
           n == Len(path)
           front == SubSeq(path, 1, n - 1)
<1>1. path \in Seq(Nodes) /\ n \in Nat \ {0} /\ f.pending \in Nodes
  BY WalkEnds DEF Walk
<1>2. \A i \in 1 .. n : path[i] \in Nodes
  BY <1>1, ElementOfSeq
<1>3. 1 \in Int /\ n - 1 \in Int /\ \A i \in 1 .. n - 1 : path[i] \in Nodes
  BY <1>1, <1>2
<1>4. /\ front \in Seq(Nodes) /\ Len(front) = n - 1
      /\ \A i \in 1 .. n - 1 : front[i] = path[i]
  <2> HIDE DEF path, n
  <2>1. /\ front \in Seq(Nodes) /\ Len(front) = IF 1 <= n - 1 THEN n - 1 - 1 + 1 ELSE 0
        /\ \A i \in 1 .. (n - 1) - 1 + 1 : front[i] = path[1 + i - 1]
    BY <1>3, SubSeqProperties
  <2> HIDE DEF front
  <2> QED BY <1>1, <2>1
<1> HIDE DEF front
<1>5. /\ Append(front, f.pending) \in Seq(Nodes) /\ Len(Append(front, f.pending)) = n
      /\ (\A i \in 1 .. n - 1 : Append(front, f.pending)[i] = front[i])
      /\ Append(front, f.pending)[n] = f.pending
  BY <1>1, <1>4, AppendProperties
<1>6. \A i \in 1 .. n : Append(front, f.pending)[i] = path[i]
  BY <1>1, <1>4, <1>5 DEF LastNode
<1>7. Append(front, f.pending) = path
  BY <1>1, <1>5, <1>6, SeqEqual
<1> QED BY <1>7 DEF AfterCrash, front, n, path

-----------------------------------------------------------------------------
(* Drivers.                                                                *)

JobsGood(pcs, jobs) ==
    /\ pcs \in [Drivers -> Pcs] /\ jobs \in [Drivers -> Jobs]
    /\ \A d \in Drivers : JobGood(pcs[d], jobs[d])

FilesGood(files) == files \in [Runs -> Docs] /\ \A r \in Runs : FileGood(files[r])

\* One driver moves, one file is replaced: the others stay good.
LEMMA MoveGood ==
    ASSUME NEW pcs, NEW jobs, JobsGood(pcs, jobs), NEW d \in Drivers,
           NEW p, NEW j, JobGood(p, j)
    PROVE  JobsGood([pcs EXCEPT ![d] = p], [jobs EXCEPT ![d] = j])
BY DEF JobsGood, JobGood

LEMMA ReplaceGood ==
    ASSUME NEW files, FilesGood(files), NEW r \in Runs, NEW doc, FileGood(doc)
    PROVE  FilesGood([files EXCEPT ![r] = doc])
BY DEF FilesGood, FileGood

LEMMA IdleGood == JobGood("idle", NoJob)
BY EmptyTyped DEF JobGood, Pcs

LEMMA ScanGood ==
    ASSUME NEW k \in Nat
    PROVE  /\ JobGood("scan", [NoJob EXCEPT !.scan = k])
           /\ k \in Runs => JobGood("fire", [NoJob EXCEPT !.scan = k])
BY EmptyTyped DEF JobGood, Pcs, NoJob, Jobs

\* A run that enters the engine with a walk.
LEMMA EnterGood ==
    ASSUME NEW path, NEW steps, Walk(path, steps), NEW r \in Runs, NEW k \in Nat
    PROVE  JobGood("save", [run |-> r, left |-> MaxSteps, scan |-> k,
                            doc |-> [NoDoc EXCEPT !.path = path, !.steps = steps]])
<1> DEFINE doc == [NoDoc EXCEPT !.path = path, !.steps = steps]
<1>1. /\ doc \in Docs /\ doc.path = path /\ doc.steps = steps
      /\ doc.pending = NoNode /\ doc.stopped = ""
  BY EmptyTyped DEF NoDoc, Docs, Walk
<1>2. MaxSteps \in 0 .. MaxSteps /\ MaxSteps > 0
  BY BoundsAssumption
<1> HIDE DEF doc
<1>3. JobGood("save", [run |-> r, left |-> MaxSteps, scan |-> k, doc |-> doc])
  BY <1>1, <1>2 DEF JobGood, Jobs, Pcs
<1> QED BY <1>3 DEF doc

\* A checkpoint that exists is pending at the last node of its walk, or over.
LEMMA FileIsWalk ==
    ASSUME NEW f, FileGood(f), f.path # <<>>
    PROVE  /\ Walk(f.path, f.steps) /\ f \in Docs
           /\ f.pending = LastNode(f.path) \/ (f.pending = NoNode /\ f.stopped = "terminal")
<1>1. NoDoc.path = <<>>
  BY DEF NoDoc
<1>2. f # NoDoc
  BY <1>1
<1> QED BY <1>2 DEF FileGood

LEMMA NoNodeHasNoEdge == Targets(NoNode) = {} /\ \A e : EventTargets(NoNode, e) = {}
BY FlowAssumption DEF Targets, EventTargets, TargetsOn

-----------------------------------------------------------------------------
(* Steps.                                                                  *)

LEMMA InvParts ==
    HistoryInv <=> /\ FilesGood(file) /\ JobsGood(pc, job)
                   /\ due \in [Runs -> BOOLEAN] /\ crashes \in 0 .. MaxCrashes
BY DEF HistoryInv, FilesGood, JobsGood

\* Returning to the scan or to nothing.
LEMMA ReturnKeeps ==
    ASSUME JobsGood(pc, job), NEW d \in Drivers, Return(d)
    PROVE  JobsGood(pc, job)'
<1>1. job[d].scan \in Nat
  BY DEF JobsGood, Jobs
<1>2. CASE pc' = [pc EXCEPT ![d] = "idle"] /\ job' = [job EXCEPT ![d] = NoJob]
  BY <1>2, IdleGood, MoveGood DEF JobsGood
<1>3. CASE /\ pc' = [pc EXCEPT ![d] = "scan"]
           /\ job' = [job EXCEPT ![d] = [NoJob EXCEPT !.scan = job[d].scan + 1]]
  <2>1. JobGood("scan", [NoJob EXCEPT !.scan = job[d].scan + 1])
    BY <1>1, ScanGood
  <2>2. JobsGood([pc EXCEPT ![d] = "scan"],
                 [job EXCEPT ![d] = [NoJob EXCEPT !.scan = job[d].scan + 1]])
    BY <2>1, MoveGood
  <2> QED BY <1>3, <2>2
<1> QED BY <1>2, <1>3 DEF Return, Goto

\* Entering the engine with a walk.
LEMMA EnterKeeps ==
    ASSUME JobsGood(pc, job), NEW d \in Drivers, NEW r \in Runs, NEW path, NEW steps,
           Walk(path, steps), Enter(d, r, path, steps)
    PROVE  JobsGood(pc, job)'
<1> DEFINE j == [run |-> r, left |-> MaxSteps, scan |-> job[d].scan,
                 doc |-> [NoDoc EXCEPT !.path = path, !.steps = steps]]
<1>1. job[d].scan \in Nat
  BY DEF JobsGood, Jobs
<1>2. JobGood("save", j)
  BY <1>1, EnterGood
<1>3. pc' = [pc EXCEPT ![d] = "save"] /\ job' = [job EXCEPT ![d] = j]
  BY DEF Enter, Goto
<1> HIDE DEF j
<1>4. JobsGood([pc EXCEPT ![d] = "save"], [job EXCEPT ![d] = j])
  BY <1>2, MoveGood
<1> QED BY <1>3, <1>4

\* A checkpoint with an edge out of its pending node holds a walk up to it.
LEMMA PendingIsLast ==
    ASSUME NEW f, FileGood(f), NEW t \in Targets(f.pending)
    PROVE  Walk(f.path, f.steps) /\ f.pending = LastNode(f.path)
<1>1. f.pending # NoNode
  BY NoNodeHasNoEdge
<1>2. NoDoc.pending = NoNode
  BY DEF NoDoc
<1> QED BY <1>1, <1>2 DEF FileGood

\* A person's choice goes on with a walk, out of a gate too.
LEMMA ChosenKeeps ==
    ASSUME HistoryInv, NEW d \in Drivers, NEW r \in Runs,
           \E c \in Nodes \cup {NoNode} : EnterChosen(d, r, c)
    PROVE  JobsGood(pc, job)'
<1> DEFINE f == file[r]
<1>1. PICK c : /\ c \in Targets(f.pending)
               /\ Enter(d, r, Append(f.path, c), Append(f.steps, Step(f.pending, c, "human")))
  BY DEF EnterChosen
<1>2. FileGood(f) /\ JobsGood(pc, job)
  BY DEF HistoryInv, JobsGood
<1>3. Walk(f.path, f.steps) /\ f.pending = LastNode(f.path)
  BY <1>1, <1>2, PendingIsLast
<1>4. Walk(Append(f.path, c), Append(f.steps, Step(f.pending, c, "human")))
  <2> HIDE DEF f
  <2> QED BY <1>1, <1>3, WalkGoesOn
<1>5. PICK path, steps : Walk(path, steps) /\ Enter(d, r, path, steps)
  BY <1>1, <1>4
<1> QED BY <1>2, <1>5, EnterKeeps

\* An event's edge does not leave a gate.
LEMMA EventKeeps ==
    ASSUME HistoryInv, NEW d \in Drivers, NEW r \in Runs, NEW e,
           e \notin {"when", "semantic", "error"}, EnterOnEvent(d, r, e)
    PROVE  JobsGood(pc, job)'
<1> DEFINE f == file[r]
<1>1. FileGood(f) /\ JobsGood(pc, job) /\ f \in Docs
  BY DEF HistoryInv, JobsGood
<1>2. CASE f.decision # NoNode /\ EnterChosen(d, r, f.decision)
  <2>1. f.decision \in Nodes \cup {NoNode}
    BY <1>1 DEF Docs
  <2> QED BY <1>2, <2>1, ChosenKeeps
<1>3. CASE \E t \in EventTargets(f.pending, e) :
             Enter(d, r, Append(f.path, t), Append(f.steps, Step(f.pending, t, "event")))
  <2>1. PICK t \in EventTargets(f.pending, e) :
             Enter(d, r, Append(f.path, t), Append(f.steps, Step(f.pending, t, "event")))
    BY <1>3
  <2>2. t \in Targets(f.pending)
    BY <2>1 DEF EventTargets, TargetsOn, Targets
  <2>3. Walk(f.path, f.steps) /\ f.pending = LastNode(f.path)
    BY <1>1, <2>2, PendingIsLast
  <2>4. e \in Events
    BY <2>1 DEF Events, EventTargets, TargetsOn
  <2>5. f.pending \notin Gates
    BY <2>1, <2>4 DEF Gates, EventTargets
  <2>6. Walk(Append(f.path, t), Append(f.steps, Step(f.pending, t, "event")))
    <3> HIDE DEF f
    <3> QED BY <2>2, <2>3, <2>5, WalkGoesOn
  <2>7. PICK path, steps : Walk(path, steps) /\ Enter(d, r, path, steps)
    BY <2>1, <2>6
  <2> QED BY <1>1, <2>7, EnterKeeps
<1> QED BY <1>2, <1>3 DEF EnterOnEvent

-----------------------------------------------------------------------------
(* What the engine holds and saves.                                        *)

\* A node is saved as pending, a terminal one as the end (engine.run, on_step).
LEMMA SaveGood ==
    ASSUME NEW j, JobGood("save", j)
    PROVE  LET doc == [j.doc EXCEPT !.pending = LastNode(j.doc.path)] IN
           /\ FileGood([j.doc EXCEPT !.stopped = "terminal"])
           /\ FileGood(doc)
           /\ JobGood("work", [j EXCEPT !.doc = doc, !.left = @ - 1])
<1> DEFINE doc == [j.doc EXCEPT !.pending = LastNode(j.doc.path)]
           over == [j.doc EXCEPT !.stopped = "terminal"]
<1>1. /\ j \in Jobs /\ j.run \in Runs /\ Walk(j.doc.path, j.doc.steps) /\ j.doc.pending = NoNode
      /\ j.left \in 0 .. MaxSteps /\ j.left > 0 /\ j.doc \in Docs
  BY DEF JobGood, Jobs
<1>2. LastNode(j.doc.path) \in Nodes
  BY <1>1, WalkEnds
<1>3. doc \in Docs /\ doc.pending = LastNode(doc.path) /\ Walk(doc.path, doc.steps)
  BY <1>1, <1>2 DEF Docs
<1>4. over \in Docs /\ over.pending = NoNode /\ over.stopped = "terminal" /\ Walk(over.path, over.steps)
  BY <1>1 DEF Docs, Stops
<1> HIDE DEF doc, over
<1>5. FileGood(over) /\ FileGood(doc)
  BY <1>3, <1>4 DEF FileGood
<1>6. j.left - 1 \in 0 .. MaxSteps
  BY <1>1, BoundsAssumption
<1>7. /\ [j EXCEPT !.doc = doc, !.left = @ - 1] \in Jobs
      /\ [j EXCEPT !.doc = doc, !.left = @ - 1].run = j.run
      /\ [j EXCEPT !.doc = doc, !.left = @ - 1].doc = doc
  BY <1>1, <1>3, <1>6 DEF Jobs
<1>8. JobGood("work", [j EXCEPT !.doc = doc, !.left = @ - 1])
  BY <1>1, <1>3, <1>7 DEF JobGood, Pcs
<1> QED BY <1>5, <1>8 DEF doc, over

\* Following an edge within the budget.
LEMMA FollowGood ==
    ASSUME NEW j, JobGood("work", j), j.left # 0,
           NEW t \in Targets(LastNode(j.doc.path)), LastNode(j.doc.path) \notin Gates,
           NEW used \in {"engine", "error"}
    PROVE  JobGood("save", [j EXCEPT !.doc = [NoDoc EXCEPT
               !.path = Append(j.doc.path, t),
               !.steps = Append(j.doc.steps, Step(LastNode(j.doc.path), t, used))]])
<1> DEFINE path == Append(j.doc.path, t)
           steps == Append(j.doc.steps, Step(LastNode(j.doc.path), t, used))
           doc == [NoDoc EXCEPT !.path = path, !.steps = steps]
<1>1. /\ j \in Jobs /\ j.run \in Runs /\ Walk(j.doc.path, j.doc.steps)
      /\ j.left \in 0 .. MaxSteps
  BY DEF JobGood, Jobs
<1>2. Walk(path, steps)
  BY <1>1, WalkGoesOn
<1> HIDE DEF path, steps
<1>3. /\ doc \in Docs /\ doc.path = path /\ doc.steps = steps
      /\ doc.pending = NoNode /\ doc.stopped = ""
  BY <1>2, EmptyTyped DEF NoDoc, Docs, Walk
<1> HIDE DEF doc
<1>4. /\ [j EXCEPT !.doc = doc] \in Jobs /\ [j EXCEPT !.doc = doc].doc = doc
      /\ [j EXCEPT !.doc = doc].run = j.run /\ [j EXCEPT !.doc = doc].left = j.left
  BY <1>1, <1>3 DEF Jobs
<1>5. [j EXCEPT !.doc = doc].left > 0
  BY <1>1, <1>4, BoundsAssumption
<1>6. JobGood("save", [j EXCEPT !.doc = doc])
  BY <1>1, <1>2, <1>3, <1>4, <1>5 DEF JobGood, Pcs
<1> QED BY <1>6 DEF doc, path, steps

\* Stopping at the node the worker was called for.
LEMMA SuspendGood ==
    ASSUME NEW j, JobGood("work", j), NEW cands \in SUBSET Nodes, NEW timer \in BOOLEAN,
           NEW stopped \in {"stuck", "needs_human", "waiting", "contract_violation"}
    PROVE  JobGood("stop", [j EXCEPT !.doc =
               [j.doc EXCEPT !.stopped = stopped, !.cands = cands, !.timer = timer]])
<1> DEFINE doc == [j.doc EXCEPT !.stopped = stopped, !.cands = cands, !.timer = timer]
<1>1. /\ j \in Jobs /\ j.doc \in Docs /\ j.run \in Runs
      /\ Walk(j.doc.path, j.doc.steps) /\ j.doc.pending = LastNode(j.doc.path)
  BY DEF JobGood, Jobs
<1>2. /\ doc \in Docs /\ doc.path = j.doc.path /\ doc.steps = j.doc.steps
      /\ doc.pending = j.doc.pending
  BY <1>1 DEF Docs, Stops
<1> HIDE DEF doc
<1>3. [j EXCEPT !.doc = doc] \in Jobs /\ [j EXCEPT !.doc = doc].doc = doc /\ [j EXCEPT !.doc = doc].run = j.run
  BY <1>1, <1>2 DEF Jobs
<1>4. JobGood("stop", [j EXCEPT !.doc = doc])
  BY <1>1, <1>2, <1>3 DEF JobGood, Pcs
<1> QED BY <1>4 DEF doc

\* What is saved at a stop, or with a decision, is a good checkpoint.
LEMMA StopGood ==
    ASSUME NEW j, JobGood("stop", j) \/ JobGood("decide", j)
    PROVE  j.run \in Runs /\ FileGood(j.doc)
BY DEF JobGood, Jobs, FileGood

\* A copy of a checkpoint that waits for a person, with the decision.
LEMMA DecideGood ==
    ASSUME NEW f, FileGood(f), f.path # <<>>, f.stopped = "needs_human",
           NEW c \in f.cands, NEW r \in Runs
    PROVE  JobGood("decide", [NoJob EXCEPT !.run = r, !.doc = [f EXCEPT !.decision = c]])
<1> DEFINE doc == [f EXCEPT !.decision = c]
<1>1. /\ f \in Docs /\ Walk(f.path, f.steps) /\ f.pending = LastNode(f.path)
  BY FileIsWalk
<1>2. /\ doc \in Docs /\ doc.path = f.path /\ doc.steps = f.steps /\ doc.pending = f.pending
  BY <1>1 DEF Docs
<1> HIDE DEF doc
<1>3. JobGood("decide", [NoJob EXCEPT !.run = r, !.doc = doc])
  BY <1>1, <1>2, EmptyTyped DEF JobGood, Pcs, Jobs, NoJob
<1> QED BY <1>3 DEF doc

-----------------------------------------------------------------------------
(* The invariant.                                                          *)

\* Starting and resuming (run_durable, resume).
LEMMA OperateKeeps ==
    ASSUME HistoryInv, NEW d \in Drivers, Operate(d)
    PROVE  HistoryInv'
<1>1. FilesGood(file) /\ JobsGood(pc, job)
  BY InvParts
<1> SUFFICES /\ JobsGood(pc, job)' /\ file' = file /\ due' = due /\ crashes' = crashes
  BY <1>1, InvParts DEF HistoryInv, FilesGood, JobsGood
<1>2. ASSUME NEW r \in Runs, RunDurable(d, r)
      PROVE  JobsGood(pc, job)' /\ file' = file /\ due' = due /\ crashes' = crashes
  <2>1. PICK path, steps : Walk(path, steps) /\ Enter(d, r, path, steps)
    BY <1>2, StartWalk DEF RunDurable
  <2> QED BY <1>1, <1>2, <2>1, EnterKeeps DEF RunDurable
<1>3. ASSUME NEW r \in Runs, ResumeCrash(d, r)
      PROVE  JobsGood(pc, job)' /\ file' = file /\ due' = due /\ crashes' = crashes
  <2>1. FileGood(file[r]) /\ file[r].path # <<>> /\ file[r].stopped # "terminal"
    BY <1>1, <1>3 DEF ResumeCrash, Exists, FilesGood
  <2>2. Walk(file[r].path, file[r].steps) /\ file[r].pending = LastNode(file[r].path)
    BY <2>1, FileIsWalk
  <2>3. AfterCrash(file[r]) = file[r].path
    BY <2>2, CrashKeepsPath
  <2>4. PICK path, steps : Walk(path, steps) /\ Enter(d, r, path, steps)
    BY <1>3, <2>2, <2>3 DEF ResumeCrash
  <2> QED BY <1>1, <1>3, <2>4, EnterKeeps DEF ResumeCrash
<1>4. ASSUME NEW r \in Runs, ResumeChosen(d, r)
      PROVE  JobsGood(pc, job)' /\ file' = file /\ due' = due /\ crashes' = crashes
  BY <1>4, ChosenKeeps DEF ResumeChosen
<1>5. ASSUME NEW r \in Runs, ResumeEvent(d, r)
      PROVE  JobsGood(pc, job)' /\ file' = file /\ due' = due /\ crashes' = crashes
  <2>1. PICK e \in Events \ {Timeout} : EnterOnEvent(d, r, e)
    BY <1>5 DEF ResumeEvent
  <2>2. e \notin {"when", "semantic", "error"}
    BY <2>1, FlowAssumption DEF Events
  <2> QED BY <1>5, <2>1, <2>2, EventKeeps DEF ResumeEvent
<1>6. ASSUME NEW r \in Runs, LoadForDecision(d, r)
      PROVE  JobsGood(pc, job)' /\ file' = file /\ due' = due /\ crashes' = crashes
  <2>1. PICK c \in file[r].cands :
          /\ pc' = [pc EXCEPT ![d] = "decide"]
          /\ job' = [job EXCEPT ![d] = [NoJob EXCEPT !.run = r, !.doc = [file[r] EXCEPT !.decision = c]]]
    BY <1>6 DEF LoadForDecision, Goto
  <2>2. FileGood(file[r]) /\ file[r].path # <<>> /\ file[r].stopped = "needs_human"
    BY <1>1, <1>6 DEF LoadForDecision, Exists, FilesGood
  <2>3. JobGood("decide", [NoJob EXCEPT !.run = r, !.doc = [file[r] EXCEPT !.decision = c]])
    BY <2>2, DecideGood
  <2>4. JobsGood([pc EXCEPT ![d] = "decide"],
                 [job EXCEPT ![d] = [NoJob EXCEPT !.run = r, !.doc = [file[r] EXCEPT !.decision = c]]])
    BY <1>1, <2>3, MoveGood
  <2> QED BY <1>6, <2>1, <2>4 DEF LoadForDecision
<1> QED BY <1>2, <1>3, <1>4, <1>5, <1>6 DEF Operate

\* A worker's outcome moves one driver (engine.run).
LEMMA WorkKeeps ==
    ASSUME HistoryInv, NEW d \in Drivers, Work(d)
    PROVE  JobsGood(pc, job)'
<1> DEFINE j == job[d]
           n == Here(d)
<1>1. JobsGood(pc, job) /\ JobGood("work", j) /\ j \in Jobs
  BY InvParts DEF Work, JobsGood
<1>2. n = LastNode(j.doc.path) /\ n \in Nodes
  BY <1>1, WalkEnds DEF Here, LastNode, JobGood
<1>3. ASSUME NEW t \in Targets(n), NEW used \in {"engine", "error"}, n \notin Gates, Follow(d, t, used)
      PROVE  JobsGood(pc, job)'
  <2>1. CASE j.left = 0
    BY <1>1, <1>3, <2>1, ReturnKeeps DEF Follow
  <2>2. CASE j.left # 0
    <3> DEFINE j2 == [j EXCEPT !.doc = [NoDoc EXCEPT
                 !.path = Append(j.doc.path, t),
                 !.steps = Append(j.doc.steps, Step(LastNode(j.doc.path), t, used))]]
    <3>1. JobGood("save", j2)
      BY <1>1, <1>2, <1>3, <2>2, FollowGood
    <3>2. pc' = [pc EXCEPT ![d] = "save"] /\ job' = [job EXCEPT ![d] = j2]
      BY <1>2, <1>3, <2>2 DEF Follow, Goto
    <3> HIDE DEF j2
    <3>3. JobsGood([pc EXCEPT ![d] = "save"], [job EXCEPT ![d] = j2])
      BY <1>1, <3>1, MoveGood
    <3> QED BY <3>2, <3>3
  <2> QED BY <2>1, <2>2
<1>4. ASSUME NEW stopped \in {"stuck", "needs_human", "waiting", "contract_violation"},
             NEW cands \in SUBSET Nodes, NEW timer \in BOOLEAN, Suspend(d, stopped, cands, timer)
      PROVE  JobsGood(pc, job)'
  <2> DEFINE j2 == [j EXCEPT !.doc =
                      [j.doc EXCEPT !.stopped = stopped, !.cands = cands, !.timer = timer]]
  <2>1. JobGood("stop", j2)
    BY <1>1, SuspendGood
  <2>2. pc' = [pc EXCEPT ![d] = "stop"] /\ job' = [job EXCEPT ![d] = j2]
    BY <1>4 DEF Suspend, Goto
  <2> HIDE DEF j2
  <2>3. JobsGood([pc EXCEPT ![d] = "stop"], [job EXCEPT ![d] = j2])
    BY <1>1, <2>1, MoveGood
  <2> QED BY <2>2, <2>3
<1>5. TargetsOn(n, "when") \subseteq Targets(n) /\ TargetsOn(n, "semantic") \subseteq Targets(n)
      /\ TargetsOn(n, "error") \subseteq Targets(n) /\ Targets(n) \subseteq Nodes
  BY FlowAssumption DEF TargetsOn, Targets
<1>6. CASE "route" \in Yields[n] /\ Route(d)
  <2>1. n \notin Gates
    BY <1>6 DEF Gates
  <2>2. CASE \E t \in TargetsOn(n, "when") \cup TargetsOn(n, "semantic") : Follow(d, t, "engine")
    BY <1>3, <1>5, <2>1, <2>2
  <2>3. CASE Suspend(d, "needs_human", TargetsOn(n, "semantic"), FALSE)
    <3>1. PICK cands \in SUBSET Nodes : Suspend(d, "needs_human", cands, FALSE)
      BY <1>5, <2>3
    <3> QED BY <1>4, <3>1
  <2>4. CASE Suspend(d, "stuck", {}, FALSE)
    BY <1>4, <2>4
  <2> QED BY <1>6, <2>2, <2>3, <2>4 DEF Route
<1>7. CASE "human" \in Yields[n] /\ Suspend(d, "needs_human", Targets(n), FALSE)
  <2>1. PICK cands \in SUBSET Nodes : Suspend(d, "needs_human", cands, FALSE)
    BY <1>5, <1>7
  <2> QED BY <1>4, <2>1
<1>8. CASE \E t \in BOOLEAN : Suspend(d, "waiting", {}, t)
  BY <1>4, <1>8
<1>9. CASE Suspend(d, "contract_violation", {}, FALSE)
  BY <1>4, <1>9
<1>10. CASE "raise" \in Yields[n] /\ Raise(d)
  <2>1. n \notin Gates
    BY <1>10 DEF Gates
  <2>2. CASE \E t \in TargetsOn(n, "error") : Follow(d, t, "error")
    BY <1>3, <1>5, <2>1, <2>2
  <2>3. CASE pc' = [pc EXCEPT ![d] = "idle"] /\ job' = [job EXCEPT ![d] = NoJob]
    <3>1. JobsGood([pc EXCEPT ![d] = "idle"], [job EXCEPT ![d] = NoJob])
      BY <1>1, IdleGood, MoveGood
    <3> QED BY <2>3, <3>1
  <2> QED BY <1>10, <2>2, <2>3 DEF Raise, Goto
<1> QED BY <1>6, <1>7, <1>8, <1>9, <1>10 DEF Work

\* A save replaces one checkpoint by a good one, and clears its timer.
LEMMA SavedFiles ==
    ASSUME FilesGood(file), due \in [Runs -> BOOLEAN], NEW r \in Runs, NEW doc, FileGood(doc), Save(r, doc)
    PROVE  FilesGood(file)' /\ due' \in [Runs -> BOOLEAN]
<1>1. FilesGood([file EXCEPT ![r] = doc])
  BY ReplaceGood
<1> QED BY <1>1 DEF Save

\* The engine's steps: entering a node, its worker, its stops.
LEMMA EngineKeeps ==
    ASSUME HistoryInv, NEW d \in Drivers, Engine(d)
    PROVE  HistoryInv'
<1> DEFINE j == job[d]
<1>1. FilesGood(file) /\ JobsGood(pc, job) /\ due \in [Runs -> BOOLEAN] /\ crashes \in 0 .. MaxCrashes
  BY InvParts
<1> SUFFICES FilesGood(file)' /\ JobsGood(pc, job)' /\ due' \in [Runs -> BOOLEAN] /\ crashes' = crashes
  BY <1>1 DEF HistoryInv, FilesGood, JobsGood
<1>2. CASE SaveNode(d)
  <2> DEFINE doc == [j.doc EXCEPT !.pending = LastNode(j.doc.path)]
             over == [j.doc EXCEPT !.stopped = "terminal"]
             j2 == [j EXCEPT !.doc = doc, !.left = @ - 1]
  <2>1. JobGood("save", j) /\ j.run \in Runs /\ Here(d) = LastNode(j.doc.path)
    BY <1>1, <1>2 DEF SaveNode, JobsGood, JobGood, Here, LastNode
  <2>2. FileGood(over) /\ FileGood(doc) /\ JobGood("work", j2)
    BY <2>1, SaveGood
  <2>3. CASE Save(j.run, over) /\ Return(d)
    <3>1. PICK r, f : r \in Runs /\ FileGood(f) /\ Save(r, f)
      BY <2>1, <2>2, <2>3
    <3>2. FilesGood(file)' /\ due' \in [Runs -> BOOLEAN]
      BY <1>1, <3>1, SavedFiles
    <3>3. JobsGood(pc, job)'
      BY <1>1, <2>3, ReturnKeeps
    <3> QED BY <1>2, <3>2, <3>3 DEF SaveNode
  <2>4. CASE Save(j.run, doc) /\ pc' = [pc EXCEPT ![d] = "work"] /\ job' = [job EXCEPT ![d] = j2]
    <3>1. PICK r, f : r \in Runs /\ FileGood(f) /\ Save(r, f)
      BY <2>1, <2>2, <2>4
    <3>2. FilesGood(file)' /\ due' \in [Runs -> BOOLEAN]
      BY <1>1, <3>1, SavedFiles
    <3> HIDE DEF j2
    <3>3. JobsGood([pc EXCEPT ![d] = "work"], [job EXCEPT ![d] = j2])
      BY <1>1, <2>2, MoveGood
    <3> QED BY <1>2, <2>4, <3>2, <3>3 DEF SaveNode
  <2> QED BY <1>2, <2>1, <2>3, <2>4 DEF SaveNode, Goto
<1>3. CASE Work(d)
  <2>1. JobsGood(pc, job)'
    BY <1>3, WorkKeeps
  <2> QED BY <1>1, <1>3, <2>1 DEF Work, FilesGood
<1>4. CASE SaveStop(d)
  <2>1. JobGood("stop", j)
    BY <1>1, <1>4 DEF SaveStop, JobsGood
  <2>2. PICK r, f : r \in Runs /\ FileGood(f) /\ Save(r, f)
    BY <1>4, <2>1, StopGood DEF SaveStop
  <2>3. FilesGood(file)' /\ due' \in [Runs -> BOOLEAN]
    BY <1>1, <2>2, SavedFiles
  <2>4. JobsGood(pc, job)'
    BY <1>1, <1>4, ReturnKeeps DEF SaveStop
  <2> QED BY <1>4, <2>3, <2>4 DEF SaveStop
<1> QED BY <1>2, <1>3, <1>4 DEF Engine

\* The other steps: a recorded decision, the scan, a crash, time.
LEMMA RestKeeps ==
    ASSUME HistoryInv,
           \/ \E d \in Drivers : WriteDecision(d) \/ Scan(d) \/ Crash(d)
           \/ \E r \in Runs : Elapse(r)
    PROVE  HistoryInv'
<1>1. FilesGood(file) /\ JobsGood(pc, job) /\ due \in [Runs -> BOOLEAN] /\ crashes \in 0 .. MaxCrashes
  BY InvParts
<1> SUFFICES FilesGood(file)' /\ JobsGood(pc, job)' /\ due' \in [Runs -> BOOLEAN] /\ crashes' \in 0 .. MaxCrashes
  BY <1>1 DEF HistoryInv, FilesGood, JobsGood
<1>2. ASSUME NEW d \in Drivers, pc' = [pc EXCEPT ![d] = "idle"] /\ job' = [job EXCEPT ![d] = NoJob]
      PROVE  JobsGood(pc, job)'
  <2>1. JobsGood([pc EXCEPT ![d] = "idle"], [job EXCEPT ![d] = NoJob])
    BY <1>1, IdleGood, MoveGood
  <2> QED BY <1>2, <2>1
<1>3. ASSUME NEW d \in Drivers, WriteDecision(d)
      PROVE  FilesGood(file)' /\ JobsGood(pc, job)' /\ due' = due /\ crashes' = crashes
  <2>1. JobGood("decide", job[d])
    BY <1>1, <1>3 DEF WriteDecision, JobsGood
  <2>2. FilesGood([file EXCEPT ![job[d].run] = job[d].doc])
    BY <1>1, <2>1, StopGood, ReplaceGood
  <2> QED BY <1>2, <1>3, <2>2 DEF WriteDecision, Goto
<1>4. ASSUME NEW d \in Drivers, BeginScan(d)
      PROVE  JobsGood(pc, job)' /\ UNCHANGED <<file, due, crashes>>
  <2>1. JobGood("scan", [NoJob EXCEPT !.scan = 1])
    BY ScanGood
  <2>2. JobsGood([pc EXCEPT ![d] = "scan"], [job EXCEPT ![d] = [NoJob EXCEPT !.scan = 1]])
    BY <1>1, <2>1, MoveGood
  <2> QED BY <1>4, <2>2 DEF BeginScan, Goto
<1>5. ASSUME NEW d \in Drivers, Look(d)
      PROVE  JobsGood(pc, job)' /\ UNCHANGED <<file, due, crashes>>
  <2>1. job[d] \in Jobs /\ job[d].scan \in Nat
    BY <1>1 DEF JobsGood, Jobs
  <2>2. CASE pc' = [pc EXCEPT ![d] = "idle"] /\ job' = [job EXCEPT ![d] = NoJob]
    BY <1>2, <1>5, <2>2 DEF Look
  <2>3. CASE job[d].scan \in Runs /\ pc' = [pc EXCEPT ![d] = "fire"] /\ job' = [job EXCEPT ![d] = job[d]]
    <3>1. JobGood("fire", job[d])
      BY <2>1, <2>3 DEF JobGood, Pcs
    <3>2. JobsGood([pc EXCEPT ![d] = "fire"], [job EXCEPT ![d] = job[d]])
      BY <1>1, <3>1, MoveGood
    <3> QED BY <1>5, <2>3, <3>2 DEF Look
  <2>4. CASE pc' = [pc EXCEPT ![d] = "scan"] /\ job' = [job EXCEPT ![d] = [job[d] EXCEPT !.scan = @ + 1]]
    <3>1. [job[d] EXCEPT !.scan = @ + 1] \in Jobs /\ [job[d] EXCEPT !.scan = @ + 1].scan \in Nat
      BY <2>1 DEF Jobs
    <3>2. JobGood("scan", [job[d] EXCEPT !.scan = @ + 1])
      BY <3>1 DEF JobGood, Pcs
    <3>3. JobsGood([pc EXCEPT ![d] = "scan"], [job EXCEPT ![d] = [job[d] EXCEPT !.scan = @ + 1]])
      BY <1>1, <3>2, MoveGood
    <3> QED BY <1>5, <2>4, <3>3 DEF Look
  <2> QED BY <1>5, <2>2, <2>3, <2>4 DEF Look, Goto
<1>6. ASSUME NEW d \in Drivers, Fire(d)
      PROVE  JobsGood(pc, job)' /\ UNCHANGED <<file, due, crashes>>
  <2>1. job[d].scan \in Runs
    BY <1>1, <1>6 DEF Fire, JobsGood, JobGood
  <2>2. CASE EnterOnEvent(d, job[d].scan, Timeout)
    <3>1. Timeout \notin {"when", "semantic", "error"}
      BY DEF Timeout
    <3>2. JobsGood(pc, job)'
      BY <2>1, <2>2, <3>1, EventKeeps
    <3> QED BY <1>6, <3>2 DEF Fire
  <2>3. CASE pc' = [pc EXCEPT ![d] = "idle"] /\ job' = [job EXCEPT ![d] = NoJob]
    BY <1>2, <1>6, <2>3 DEF Fire
  <2> QED BY <1>6, <2>2, <2>3 DEF Fire, Goto
<1>7. ASSUME NEW d \in Drivers, Crash(d)
      PROVE  JobsGood(pc, job)' /\ UNCHANGED <<file, due>> /\ crashes' \in 0 .. MaxCrashes
  <2>1. JobsGood(pc, job)'
    BY <1>2, <1>7 DEF Crash, Goto
  <2> QED BY <1>1, <1>7, <2>1, BoundsAssumption DEF Crash
<1>8. ASSUME NEW r \in Runs, Elapse(r)
      PROVE  UNCHANGED <<file, pc, job, crashes>> /\ due' \in [Runs -> BOOLEAN]
  BY <1>1, <1>8 DEF Elapse
<1>9. UNCHANGED file => FilesGood(file)'
  BY <1>1 DEF FilesGood
<1>10. UNCHANGED <<pc, job>> => JobsGood(pc, job)'
  BY <1>1 DEF JobsGood
<1> QED BY <1>1, <1>3, <1>4, <1>5, <1>6, <1>7, <1>8, <1>9, <1>10 DEF Scan

-----------------------------------------------------------------------------
(* Theorems.                                                               *)

LEMMA InvInit == Init => HistoryInv
<1> SUFFICES ASSUME Init PROVE HistoryInv
  OBVIOUS
<1>1. FileGood(NoDoc)
  BY EmptyTyped DEF FileGood
<1>2. file = [r \in Runs |-> NoDoc] /\ pc = [d \in Drivers |-> "idle"] /\ job = [d \in Drivers |-> NoJob]
      /\ due = [r \in Runs |-> FALSE] /\ crashes = 0
  BY DEF Init
<1>3. FilesGood(file)
  BY <1>1, <1>2, EmptyTyped DEF FilesGood
<1>4. JobsGood(pc, job)
  BY <1>2, IdleGood, EmptyTyped DEF JobsGood, Pcs
<1> QED BY <1>2, <1>3, <1>4, InvParts, BoundsAssumption

LEMMA InvNext == HistoryInv /\ [Next]_vars => HistoryInv'
<1> SUFFICES ASSUME HistoryInv, [Next]_vars PROVE HistoryInv'
  OBVIOUS
<1>1. CASE UNCHANGED vars
  BY <1>1 DEF vars, HistoryInv
<1>2. CASE \E d \in Drivers : Operate(d)
  BY <1>2, OperateKeeps
<1>3. CASE \E d \in Drivers : Engine(d)
  BY <1>3, EngineKeeps
<1>4. CASE \/ \E d \in Drivers : WriteDecision(d) \/ Scan(d) \/ Crash(d)
           \/ \E r \in Runs : Elapse(r)
  BY <1>4, RestKeeps
<1> QED BY <1>1, <1>2, <1>3, <1>4 DEF Next

\* Whatever crashes, choices, events and drivers meet, checkpoints, drivers'
\* memories and history stay of one piece (checkpoint.py, engine.py, scheduler.py).
THEOREM HistoryInvariant == Spec => []HistoryInv
BY InvInit, InvNext, PTL DEF Spec

\* Every checkpoint and every driver is of its kind.
THEOREM DurableTypeCorrect == Spec => []TypeOK
<1>1. HistoryInv => TypeOK
  BY DEF HistoryInv, TypeOK, Pcs, Jobs
<1> QED BY <1>1, HistoryInvariant, PTL

\* A checkpoint's history is a walk of the flow (save_checkpoint, resume).
THEOREM DurableHistoryIsWalk == Spec => []HistoryIsWalk
<1>1. HistoryInv => HistoryIsWalk
  <2> SUFFICES ASSUME HistoryInv, NEW r \in Runs, Exists(r)
               PROVE  LET path == file[r].path  steps == file[r].steps IN
                      /\ path[1] = StartNode /\ Len(path) = Len(steps) + 1
                      /\ \A i \in 1 .. Len(steps) :
                           steps[i].from = path[i] /\ steps[i].to = path[i + 1] /\ path[i + 1] \in Targets(path[i])
    BY DEF HistoryIsWalk
  <2>1. Walk(file[r].path, file[r].steps)
    BY FileIsWalk DEF HistoryInv, Exists
  <2> QED BY <2>1 DEF Walk, Legal
<1> QED BY <1>1, HistoryInvariant, PTL

\* No run passes a gate without a person's choice, whoever resumes it and
\* wherever it crashed (resume, engine.run).
THEOREM DurableGatesHold == Spec => []GatesHold
<1>1. HistoryInv => GatesHold
  <2> SUFFICES ASSUME HistoryInv, NEW r \in Runs, NEW i \in 1 .. Len(file[r].steps),
                      file[r].steps[i].from \in Gates
               PROVE  file[r].steps[i].used = "human"
    BY DEF GatesHold
  <2>1. CASE file[r].path # <<>>
    <3>1. Walk(file[r].path, file[r].steps)
      BY <2>1, FileIsWalk DEF HistoryInv
    <3>2. Legal(file[r].path, file[r].steps, i)
      BY <3>1 DEF Walk
    <3> QED BY <3>2 DEF Legal
  <2>2. CASE file[r].path = <<>>
    <3>1. file[r] = NoDoc
      BY <2>2 DEF HistoryInv, FileGood, Walk
    <3>2. NoDoc.steps = <<>>
      BY DEF NoDoc
    <3>3. Len(file[r].steps) = 0
      BY <3>1, <3>2
    <3> QED BY <3>3
  <2> QED BY <2>1, <2>2
<1> QED BY <1>1, HistoryInvariant, PTL

-----------------------------------------------------------------------------
(* One process at work.                                                    *)

OneDriver == \A c, d \in Drivers : c = d

\* The history of g goes on where that of f ends.
Grows(f, g) == Extends(f.path, g.path) /\ Extends(f.steps, g.steps)

\* What a driver is about to save continues what the file holds, which is not a
\* run that is over; a worker is called with just what the file holds.
Drives(p, j) ==
    /\ p \in {"save", "work", "stop", "decide"} =>
          file[j.run].stopped # "terminal" /\ Grows(file[j.run], j.doc)
    /\ p \in {"work", "stop", "decide"} => j.doc.stopped # "terminal"
    /\ p = "work" => file[j.run] = j.doc

\* A run that is over is pending nowhere, so that nothing resumes it.
Ended(f) == f.stopped = "terminal" => f.pending = NoNode

DrivenInv ==
    /\ \A r \in Runs : Ended(file[r])
    /\ \A d \in Drivers : Drives(pc[d], job[d])

LEMMA ExtendsSelf == ASSUME NEW S, NEW p \in Seq(S) PROVE Extends(p, p)
BY DEF Extends

LEMMA ExtendsLonger == ASSUME NEW S, NEW p \in Seq(S), NEW x \in S PROVE Extends(p, Append(p, x))
BY DEF Extends

LEMMA GrowsSame ==
    ASSUME NEW f \in Docs, NEW g, g.path = f.path, g.steps = f.steps
    PROVE  Grows(f, g)
<1>1. f.path \in Seq(Nodes) /\ f.steps \in Seq(Steps)
  BY DEF Docs
<1> QED BY <1>1, ExtendsSelf DEF Grows

LEMMA GrowsStep ==
    ASSUME NEW f \in Docs, NEW g, NEW t \in Nodes, NEW n \in Nodes,
           NEW used \in {"engine", "error", "human", "event"},
           g.path = Append(f.path, t), g.steps = Append(f.steps, Step(n, t, used))
    PROVE  Grows(f, g)
<1>1. f.path \in Seq(Nodes) /\ f.steps \in Seq(Steps)
  BY DEF Docs
<1>2. Step(n, t, used) \in Steps
  BY DEF Step, Steps
<1> QED BY <1>1, <1>2, ExtendsLonger DEF Grows

\* A driver moves, and no file is replaced.
LEMMA MoveDrives ==
    ASSUME HistoryInv, DrivenInv, NEW d \in Drivers, NEW p, NEW j, Drives(p, j), file' = file,
           pc' = [pc EXCEPT ![d] = p], job' = [job EXCEPT ![d] = j]
    PROVE  DrivenInv'
<1>1. \A c \in Drivers : pc'[c] = (IF c = d THEN p ELSE pc[c]) /\ job'[c] = (IF c = d THEN j ELSE job[c])
  BY DEF HistoryInv
<1>2. \A c \in Drivers : Drives(pc'[c], job'[c])
  BY <1>1 DEF DrivenInv
<1> QED BY <1>2 DEF DrivenInv, Drives

\* A driver that does not hold a run has nothing to keep.
LEMMA RestDrives ==
    ASSUME NEW p \in {"idle", "scan", "fire"}, NEW j
    PROVE  Drives(p, j)
BY DEF Drives

\* The only driver replaces a file that is not over, by one that goes on from
\* it, and holds nothing more, or what it saved as it calls the worker.
LEMMA SaveDrives ==
    ASSUME OneDriver, HistoryInv, DrivenInv, NEW d \in Drivers, NEW r \in Runs, NEW doc,
           NEW p, NEW j, file' = [file EXCEPT ![r] = doc], Ended(doc), doc \in Docs,
           pc' = [pc EXCEPT ![d] = p], job' = [job EXCEPT ![d] = j],
           \/ p \in {"idle", "scan"}
           \/ p = "work" /\ j.run = r /\ j.doc = doc /\ doc.stopped # "terminal"
    PROVE  DrivenInv'
<1>1. \A c \in Drivers : pc'[c] = p /\ job'[c] = j
  BY DEF HistoryInv, OneDriver
<1>2. \A q \in Runs : file'[q] = IF q = r THEN doc ELSE file[q]
  BY DEF HistoryInv
<1>3. \A q \in Runs : Ended(file'[q])
  BY <1>2 DEF DrivenInv
<1>4. Grows(doc, doc)
  BY GrowsSame
<1>5. \A c \in Drivers : Drives(pc[c], job[c])'
  BY <1>1, <1>2, <1>4 DEF Drives
<1> QED BY <1>3, <1>5 DEF DrivenInv, Ended

\* Entering the engine from a checkpoint, or from none.
LEMMA EnterDrives ==
    ASSUME HistoryInv, DrivenInv, NEW d \in Drivers, NEW r \in Runs, NEW path, NEW steps,
           file[r].stopped # "terminal", Extends(file[r].path, path), Extends(file[r].steps, steps),
           Enter(d, r, path, steps), file' = file
    PROVE  DrivenInv'
<1> DEFINE doc == [NoDoc EXCEPT !.path = path, !.steps = steps]
           j == [run |-> r, left |-> MaxSteps, scan |-> job[d].scan, doc |-> doc]
<1>1. pc' = [pc EXCEPT ![d] = "save"] /\ job' = [job EXCEPT ![d] = j]
  BY DEF Enter, Goto
<1>2. doc.path = path /\ doc.steps = steps
  BY DEF NoDoc
<1> HIDE DEF doc
<1>3. j.run = r /\ j.doc = doc
  OBVIOUS
<1> HIDE DEF j
<1>4. Drives("save", j)
  BY <1>2, <1>3 DEF Drives, Grows
<1> QED BY <1>1, <1>4, MoveDrives

\* An edge out of the pending node leaves a run that is not over.
LEMMA EdgeDrives ==
    ASSUME HistoryInv, DrivenInv, NEW d \in Drivers, NEW r \in Runs, file' = file,
           NEW t \in Targets(file[r].pending), NEW used \in {"human", "event"},
           Enter(d, r, Append(file[r].path, t), Append(file[r].steps, Step(file[r].pending, t, used)))
    PROVE  DrivenInv'
<1> DEFINE path == Append(file[r].path, t)
           steps == Append(file[r].steps, Step(file[r].pending, t, used))
           g == [path |-> path, steps |-> steps]
<1>1. file[r] \in Docs /\ FileGood(file[r]) /\ Ended(file[r])
  BY DEF HistoryInv, DrivenInv
<1>2. file[r].pending # NoNode
  BY NoNodeHasNoEdge
<1>3. file[r].stopped # "terminal"
  BY <1>1, <1>2 DEF Ended
<1>4. t \in Nodes /\ file[r].pending \in Nodes
  BY <1>1, <1>2, FlowAssumption DEF Targets, Docs
<1>5. Grows(file[r], g)
  <2>1. g.path = Append(file[r].path, t) /\ g.steps = Append(file[r].steps, Step(file[r].pending, t, used))
    OBVIOUS
  <2> HIDE DEF g, path, steps
  <2> QED BY <1>1, <1>4, <2>1, GrowsStep
<1>6. Extends(file[r].path, path) /\ Extends(file[r].steps, steps)
  BY <1>5 DEF Grows
<1> QED BY <1>3, <1>6, EnterDrives

LEMMA ChosenDrives ==
    ASSUME HistoryInv, DrivenInv, NEW d \in Drivers, NEW r \in Runs, NEW c, EnterChosen(d, r, c), file' = file
    PROVE  DrivenInv'
BY EdgeDrives DEF EnterChosen

LEMMA EventDrives ==
    ASSUME HistoryInv, DrivenInv, NEW d \in Drivers, NEW r \in Runs, NEW e, EnterOnEvent(d, r, e), file' = file
    PROVE  DrivenInv'
<1>1. EventTargets(file[r].pending, e) \subseteq Targets(file[r].pending)
  BY DEF EventTargets, Targets, TargetsOn
<1> QED BY <1>1, ChosenDrives, EdgeDrives DEF EnterOnEvent

\* What a person, a webhook or the command line starts.
LEMMA OperateDrives ==
    ASSUME HistoryInv, DrivenInv, NEW d \in Drivers, Operate(d)
    PROVE  DrivenInv'
<1>1. PICK r \in Runs : \/ RunDurable(d, r) \/ ResumeCrash(d, r) \/ ResumeChosen(d, r)
                        \/ ResumeEvent(d, r) \/ LoadForDecision(d, r)
  BY DEF Operate
<1>2. file[r] \in Docs /\ FileGood(file[r]) /\ Ended(file[r])
  BY DEF HistoryInv, DrivenInv
<1>3. CASE RunDurable(d, r)
  <2>1. file[r].path = <<>> /\ file' = file /\ Enter(d, r, <<StartNode>>, <<>>)
    BY <1>3 DEF RunDurable, Exists
  <2>2. file[r] = NoDoc
    BY <1>2, <2>1 DEF FileGood, Walk
  <2>3. file[r].steps = <<>> /\ file[r].stopped # "terminal"
    <3>1. NoDoc.steps = <<>> /\ NoDoc.stopped = ""
      BY DEF NoDoc
    <3> QED BY <2>2, <3>1
  <2>4. Extends(file[r].path, <<StartNode>>) /\ Extends(file[r].steps, <<>>)
    BY <2>1, <2>3 DEF Extends
  <2> QED BY <2>1, <2>3, <2>4, EnterDrives
<1>4. CASE ResumeCrash(d, r)
  <2>1. file[r].path # <<>> /\ file' = file /\ file[r].stopped # "terminal"
        /\ Enter(d, r, AfterCrash(file[r]), file[r].steps)
    BY <1>4 DEF ResumeCrash, Exists
  <2>2. Walk(file[r].path, file[r].steps) /\ file[r].pending = LastNode(file[r].path)
    BY <1>2, <2>1, FileIsWalk
  <2>3. AfterCrash(file[r]) = file[r].path
    BY <2>2, CrashKeepsPath
  <2>4. Extends(file[r].path, file[r].path) /\ Extends(file[r].steps, file[r].steps)
    BY <2>2, ExtendsSelf DEF Walk
  <2> QED BY <2>1, <2>3, <2>4, EnterDrives
<1>5. CASE ResumeChosen(d, r)
  BY <1>5, ChosenDrives DEF ResumeChosen
<1>6. CASE ResumeEvent(d, r)
  BY <1>6, EventDrives DEF ResumeEvent
<1>7. CASE LoadForDecision(d, r)
  <2>1. PICK c \in file[r].cands :
          /\ pc' = [pc EXCEPT ![d] = "decide"]
          /\ job' = [job EXCEPT ![d] = [NoJob EXCEPT !.run = r, !.doc = [file[r] EXCEPT !.decision = c]]]
    BY <1>7 DEF LoadForDecision, Goto
  <2> DEFINE doc == [file[r] EXCEPT !.decision = c]
             j == [NoJob EXCEPT !.run = r, !.doc = doc]
  <2>2. /\ file' = file /\ file[r].stopped = "needs_human"
        /\ doc.path = file[r].path /\ doc.steps = file[r].steps /\ doc.stopped = "needs_human"
    BY <1>2, <1>7 DEF LoadForDecision, Docs
  <2> HIDE DEF doc
  <2>3. j.run = r /\ j.doc = doc
    BY DEF NoJob
  <2> HIDE DEF j
  <2>4. Grows(file[r], doc)
    BY <1>2, <2>2, GrowsSame
  <2>5. Drives("decide", j)
    BY <2>2, <2>3, <2>4 DEF Drives
  <2>6. pc' = [pc EXCEPT ![d] = "decide"] /\ job' = [job EXCEPT ![d] = j]
    BY <2>1 DEF j, doc
  <2> QED BY <2>2, <2>5, <2>6, MoveDrives
<1> QED BY <1>1, <1>3, <1>4, <1>5, <1>6, <1>7

\* The engine's steps, of the only driver.
LEMMA EngineDrives ==
    ASSUME OneDriver, HistoryInv, DrivenInv, NEW d \in Drivers, Engine(d)
    PROVE  DrivenInv'
<1> DEFINE j == job[d]
<1>0. JobGood(pc[d], j) /\ Drives(pc[d], j) /\ j \in Jobs /\ j.doc \in Docs /\ pc \in [Drivers -> Pcs]
  BY DEF HistoryInv, DrivenInv, Jobs
<1>1. ASSUME Return(d), file' = file PROVE DrivenInv'
  BY <1>1, RestDrives, MoveDrives DEF Return, Goto
<1>2. ASSUME NEW r \in Runs, NEW doc \in Docs, Ended(doc), file' = [file EXCEPT ![r] = doc], Return(d)
      PROVE  DrivenInv'
  BY <1>2, SaveDrives DEF Return, Goto
<1>3. CASE SaveNode(d)
  <2>1. /\ pc[d] = "save" /\ j.run \in Runs /\ Walk(j.doc.path, j.doc.steps)
        /\ j.doc.pending = NoNode /\ j.doc.stopped = ""
    BY <1>0, <1>3 DEF SaveNode, JobGood
  <2>2. Here(d) \in Nodes
    BY <2>1, WalkEnds DEF Here, LastNode
  <2>3. CASE Here(d) \in TerminalNodes
    <3> DEFINE over == [j.doc EXCEPT !.stopped = "terminal"]
    <3>1. over \in Docs /\ over.pending = NoNode
      BY <1>0, <2>1 DEF Docs, Stops
    <3>2. file' = [file EXCEPT ![j.run] = over] /\ Return(d)
      BY <1>3, <2>3 DEF SaveNode, Save
    <3> HIDE DEF over
    <3> QED BY <1>2, <2>1, <3>1, <3>2 DEF Ended
  <2>4. CASE Here(d) \notin TerminalNodes
    <3> DEFINE doc == [j.doc EXCEPT !.pending = Here(d)]
               j2 == [j EXCEPT !.doc = doc, !.left = @ - 1]
    <3>1. doc \in Docs /\ doc.stopped = ""
      BY <1>0, <2>1, <2>2 DEF Docs
    <3>2. /\ file' = [file EXCEPT ![j.run] = doc]
          /\ pc' = [pc EXCEPT ![d] = "work"] /\ job' = [job EXCEPT ![d] = j2]
      BY <1>3, <2>4 DEF SaveNode, Save, Goto
    <3> HIDE DEF doc
    <3>3. j2.run = j.run /\ j2.doc = doc
      BY <1>0 DEF Jobs
    <3> HIDE DEF j2
    <3>4. Ended(doc) /\ doc.stopped # "terminal"
      BY <3>1 DEF Ended
    <3> QED BY <2>1, <3>1, <3>2, <3>3, <3>4, SaveDrives
  <2> QED BY <2>3, <2>4
<1>4. CASE Work(d)
  <2>1. /\ pc[d] = "work" /\ j.run \in Runs /\ Walk(j.doc.path, j.doc.steps) /\ file' = file
        /\ file[j.run] = j.doc /\ j.doc.stopped # "terminal" /\ Here(d) \in Nodes
    BY <1>0, <1>4, WalkEnds DEF Work, JobGood, Drives, Here, LastNode
  <2>2. ASSUME NEW t \in Targets(Here(d)), NEW used \in {"engine", "error"}, Follow(d, t, used)
        PROVE  DrivenInv'
    <3>1. CASE j.left = 0
      BY <1>1, <2>1, <2>2, <3>1 DEF Follow
    <3>2. CASE j.left # 0
      <4> DEFINE doc == [NoDoc EXCEPT !.path = Append(j.doc.path, t),
                                      !.steps = Append(j.doc.steps, Step(Here(d), t, used))]
                 j2 == [j EXCEPT !.doc = doc]
      <4>1. pc' = [pc EXCEPT ![d] = "save"] /\ job' = [job EXCEPT ![d] = j2]
        BY <2>2, <3>2 DEF Follow, Goto
      <4>2. doc.path = Append(j.doc.path, t) /\ doc.steps = Append(j.doc.steps, Step(Here(d), t, used))
        BY DEF NoDoc
      <4> HIDE DEF doc
      <4>3. j2.run = j.run /\ j2.doc = doc
        BY <1>0 DEF Jobs
      <4> HIDE DEF j2
      <4>4. t \in Nodes
        BY FlowAssumption DEF Targets
      <4>5. Grows(j.doc, doc)
        BY <1>0, <2>1, <4>2, <4>4, GrowsStep
      <4>6. Drives("save", j2)
        BY <2>1, <4>3, <4>5 DEF Drives
      <4> QED BY <2>1, <4>1, <4>6, MoveDrives
    <3> QED BY <3>1, <3>2
  <2>3. ASSUME NEW stopped, stopped # "terminal", NEW cands, NEW timer, Suspend(d, stopped, cands, timer)
        PROVE  DrivenInv'
    <3> DEFINE doc == [j.doc EXCEPT !.stopped = stopped, !.cands = cands, !.timer = timer]
               j2 == [j EXCEPT !.doc = doc]
    <3>1. pc' = [pc EXCEPT ![d] = "stop"] /\ job' = [job EXCEPT ![d] = j2]
      BY <2>3 DEF Suspend, Goto
    <3>2. doc.path = j.doc.path /\ doc.steps = j.doc.steps /\ doc.stopped = stopped
      BY <1>0 DEF Docs
    <3> HIDE DEF doc
    <3>3. j2.run = j.run /\ j2.doc = doc
      BY <1>0 DEF Jobs
    <3> HIDE DEF j2
    <3>4. Grows(j.doc, doc)
      BY <1>0, <3>2, GrowsSame
    <3>5. Drives("stop", j2)
      BY <2>1, <2>3, <3>2, <3>3, <3>4 DEF Drives
    <3> QED BY <2>1, <3>1, <3>5, MoveDrives
  <2>4. \A on : TargetsOn(Here(d), on) \subseteq Targets(Here(d))
    BY DEF TargetsOn, Targets
  <2>5. CASE Route(d)
    BY <2>2, <2>3, <2>4, <2>5 DEF Route
  <2>6. CASE Raise(d)
    <3>1. CASE Goto(d, "idle", NoJob)
      BY <2>1, <3>1, RestDrives, MoveDrives DEF Goto
    <3> QED BY <2>2, <2>4, <2>6, <3>1 DEF Raise
  <2> QED BY <1>4, <2>3, <2>5, <2>6 DEF Work
<1>5. CASE SaveStop(d)
  <2>1. j.run \in Runs /\ Ended(j.doc)
    BY <1>0, <1>5 DEF SaveStop, JobGood, Drives, Ended
  <2> QED BY <1>0, <1>2, <1>5, <2>1 DEF SaveStop, Save
<1> QED BY <1>3, <1>4, <1>5 DEF Engine

LEMMA DrivenNext ==
    ASSUME OneDriver
    PROVE  HistoryInv /\ DrivenInv /\ [Next]_vars => DrivenInv'
<1> SUFFICES ASSUME HistoryInv, DrivenInv, [Next]_vars PROVE DrivenInv'
  OBVIOUS
<1>1. ASSUME UNCHANGED <<file, pc, job>> PROVE DrivenInv'
  BY <1>1 DEF DrivenInv, Drives
<1>2. CASE UNCHANGED vars
  BY <1>1, <1>2 DEF vars
<1>3. ASSUME NEW d \in Drivers, Operate(d) \/ Engine(d) PROVE DrivenInv'
  BY <1>3, OperateDrives, EngineDrives
<1>4. ASSUME NEW d \in Drivers, WriteDecision(d) PROVE DrivenInv'
  <2>1. JobGood("decide", job[d]) /\ Drives("decide", job[d])
    BY <1>4 DEF WriteDecision, HistoryInv, DrivenInv
  <2>2. job[d].run \in Runs /\ job[d].doc \in Docs /\ Ended(job[d].doc)
    BY <2>1 DEF JobGood, Jobs, Drives, Ended
  <2> QED BY <1>4, <2>2, SaveDrives DEF WriteDecision, Goto
<1>5. ASSUME NEW d \in Drivers, BeginScan(d) \/ Look(d) \/ Crash(d) PROVE DrivenInv'
  BY <1>5, RestDrives, MoveDrives DEF BeginScan, Look, Crash, Goto
<1>6. ASSUME NEW d \in Drivers, Fire(d) PROVE DrivenInv'
  <2>1. job[d].scan \in Runs /\ file' = file
    BY <1>6 DEF Fire, HistoryInv, JobGood
  <2>2. CASE EnterOnEvent(d, job[d].scan, Timeout)
    BY <2>1, <2>2, EventDrives
  <2>3. CASE Goto(d, "idle", NoJob)
    BY <2>1, <2>3, RestDrives, MoveDrives DEF Goto
  <2> QED BY <1>6, <2>2, <2>3 DEF Fire
<1>7. ASSUME NEW r \in Runs, Elapse(r) PROVE DrivenInv'
  BY <1>1, <1>7 DEF Elapse
<1> QED BY <1>2, <1>3, <1>4, <1>5, <1>6, <1>7 DEF Next, Scan

LEMMA DrivenInvariant ==
    ASSUME OneDriver
    PROVE  Spec => []DrivenInv
<1>1. Init => DrivenInv
  <2> SUFFICES ASSUME Init PROVE DrivenInv
    OBVIOUS
  <2>1. Ended(NoDoc)
    BY DEF Ended, NoDoc
  <2>2. (\A r \in Runs : file[r] = NoDoc) /\ \A d \in Drivers : pc[d] = "idle"
    BY DEF Init
  <2>3. \A d \in Drivers : Drives("idle", job[d])
    BY RestDrives
  <2> QED BY <2>1, <2>2, <2>3 DEF DrivenInv
<1> QED BY <1>1, DrivenNext, HistoryInvariant, PTL DEF Spec

\* With one process at work, a worker is called only for the node its file
\* names, with the history the file holds (on_step saves first).
THEOREM WorkIsAlwaysDurable ==
    ASSUME OneDriver
    PROVE  Spec => []WorkIsDurable
<1>1. HistoryInv /\ DrivenInv => WorkIsDurable
  BY DEF HistoryInv, DrivenInv, WorkIsDurable, Drives, JobGood, Here, LastNode
<1> QED BY <1>1, HistoryInvariant, DrivenInvariant, PTL

\* With one process at work no save takes a checkpoint back.
THEOREM CheckpointsNeverRewind ==
    ASSUME OneDriver
    PROVE  Spec => NeverRewinds
<1> DEFINE Forward == \A r \in Runs :
             /\ Extends(file[r].path, file'[r].path) /\ Extends(file[r].steps, file'[r].steps)
             /\ file[r].stopped = "terminal" => file'[r] = file[r]
<1>1. HistoryInv /\ DrivenInv /\ [Next]_vars => Forward
  <2> SUFFICES ASSUME HistoryInv, DrivenInv, [Next]_vars PROVE Forward
    OBVIOUS
  <2>1. \A r \in Runs : Grows(file[r], file[r])
    BY GrowsSame DEF HistoryInv
  <2>2. CASE file' = file
    BY <2>1, <2>2 DEF Grows
  <2>3. ASSUME NEW d \in Drivers, SaveNode(d) \/ SaveStop(d) \/ WriteDecision(d) PROVE Forward
    <3> DEFINE j == job[d]
    <3>1. /\ JobGood(pc[d], j) /\ Drives(pc[d], j) /\ pc[d] \in {"save", "stop", "decide"} /\ j.doc \in Docs
      BY <2>3 DEF SaveNode, SaveStop, WriteDecision, HistoryInv, DrivenInv, Jobs
    <3>2. j.run \in Runs /\ file[j.run].stopped # "terminal" /\ Grows(file[j.run], j.doc)
      BY <3>1 DEF JobGood, Drives
    <3>3. PICK doc : /\ file' = [file EXCEPT ![j.run] = doc]
                     /\ doc.path = j.doc.path /\ doc.steps = j.doc.steps
      BY <2>3, <3>1 DEF SaveNode, SaveStop, WriteDecision, Save, Docs
    <3>4. Grows(file[j.run], doc)
      BY <3>2, <3>3 DEF Grows
    <3>5. \A r \in Runs : file'[r] = IF r = j.run THEN doc ELSE file[r]
      BY <3>3 DEF HistoryInv
    <3> QED BY <2>1, <3>2, <3>4, <3>5 DEF Grows
  <2>4. ASSUME NEW d \in Drivers, Operate(d) \/ Work(d) \/ Scan(d) \/ Crash(d) PROVE file' = file
    BY <2>4 DEF Operate, RunDurable, ResumeCrash, ResumeChosen, ResumeEvent, LoadForDecision,
                Work, Scan, BeginScan, Look, Fire, Crash
  <2>5. CASE UNCHANGED vars \/ \E r \in Runs : Elapse(r)
    BY <2>2, <2>5 DEF vars, Elapse
  <2> QED BY <2>2, <2>3, <2>4, <2>5 DEF Next, Engine
<1>2. HistoryInv /\ DrivenInv /\ [Next]_vars => [Forward]_vars
  BY <1>1
<1> QED BY <1>2, HistoryInvariant, DrivenInvariant, PTL DEF Spec, NeverRewinds

-----------------------------------------------------------------------------
(* With one process at work the files are those of runs that nothing ever  *)
(* interrupted.  A save is one step of UninterruptedRun, or none, because  *)
(* of what the memory it comes from was made of.                           *)

\* Who may take an edge out of the node that document f is at.
MayGo(f, on, used) ==
    \/ used = "engine" /\ f.stopped = "" /\ "route" \in Yields[LastNode(f.path)] /\ on \in {"when", "semantic"}
    \/ used = "error" /\ f.stopped = "" /\ "raise" \in Yields[LastNode(f.path)] /\ on = "error"
    \/ used = "event" /\ on \notin {"when", "semantic", "error"}
    \/ used = "human"

SameHistory(f, g) == g.path = f.path /\ g.steps = f.steps

\* g begins the run, works its node again, or goes one edge further.
Begins(f, g) == f.path = <<>> /\ f.steps = <<>> /\ g.path = <<StartNode>> /\ g.steps = <<>>
Repeats(f, g) == f.path # <<>> /\ f.stopped \in {"", "contract_violation"} /\ SameHistory(f, g)
Advances(f, g) ==
    /\ f.path # <<>> /\ f.stopped # "terminal"
    /\ \E e \in Edges, used \in {"engine", "error", "event", "human"} :
        /\ e.from = LastNode(f.path) /\ MayGo(f, e.on, used)
        /\ g.path = Append(f.path, e.to)
        /\ g.steps = Append(f.steps, Step(e.from, e.to, used))

Suspends(f, g) ==
    /\ f.path # <<>> /\ f.stopped = "" /\ SameHistory(f, g)
    /\ g.stopped \in {"waiting", "contract_violation", "needs_human", "stuck"}
    /\ Uninterrupted!MaySuspend(LastNode(f.path), g.stopped)

\* What a driver holds, against the file it is about to replace.
Serves(p, j) ==
    /\ p = "save" => \/ Begins(file[j.run], j.doc) \/ Repeats(file[j.run], j.doc)
                     \/ Advances(file[j.run], j.doc)
    /\ p = "work" => j.doc.stopped = ""
    /\ p = "stop" => Suspends(file[j.run], j.doc)
    /\ p = "decide" => SameHistory(file[j.run], j.doc) /\ j.doc.stopped = file[j.run].stopped

ServesInv == \A d \in Drivers : Serves(pc[d], job[d])

LEMMA MoveServes ==
    ASSUME HistoryInv, ServesInv, NEW d \in Drivers, NEW p, NEW j, Serves(p, j), file' = file,
           pc' = [pc EXCEPT ![d] = p], job' = [job EXCEPT ![d] = j]
    PROVE  ServesInv'
<1>1. \A c \in Drivers : pc'[c] = (IF c = d THEN p ELSE pc[c]) /\ job'[c] = (IF c = d THEN j ELSE job[c])
  BY DEF HistoryInv
<1>2. \A c \in Drivers : Serves(pc'[c], job'[c])
  BY <1>1 DEF ServesInv
<1> QED BY <1>2 DEF ServesInv, Serves

\* A driver that does not hold a run has nothing to keep.
LEMMA RestServes ==
    ASSUME NEW p \in {"idle", "scan", "fire"}, NEW j
    PROVE  Serves(p, j)
BY DEF Serves

\* The only driver holds nothing more, or the document it is to work on.
LEMMA SaveServes ==
    ASSUME OneDriver, HistoryInv, NEW d \in Drivers, NEW p, NEW j,
           pc' = [pc EXCEPT ![d] = p], job' = [job EXCEPT ![d] = j],
           p \in {"idle", "scan"} \/ (p = "work" /\ j.doc.stopped = "")
    PROVE  ServesInv'
<1>1. \A c \in Drivers : pc'[c] = p /\ job'[c] = j
  BY DEF HistoryInv, OneDriver
<1> QED BY <1>1 DEF ServesInv, Serves

\* Entering the engine.
LEMMA EnterServes ==
    ASSUME HistoryInv, ServesInv, NEW d \in Drivers, NEW r \in Runs, NEW path, NEW steps,
           Enter(d, r, path, steps), file' = file,
           LET g == [NoDoc EXCEPT !.path = path, !.steps = steps]
           IN  Begins(file[r], g) \/ Repeats(file[r], g) \/ Advances(file[r], g)
    PROVE  ServesInv'
<1> DEFINE doc == [NoDoc EXCEPT !.path = path, !.steps = steps]
           j == [run |-> r, left |-> MaxSteps, scan |-> job[d].scan, doc |-> doc]
<1>1. pc' = [pc EXCEPT ![d] = "save"] /\ job' = [job EXCEPT ![d] = j]
  BY DEF Enter, Goto
<1>2. Begins(file[r], doc) \/ Repeats(file[r], doc) \/ Advances(file[r], doc)
  OBVIOUS
<1> HIDE DEF doc
<1>3. j.run = r /\ j.doc = doc
  OBVIOUS
<1> HIDE DEF j
<1>4. Serves("save", j)
  BY <1>2, <1>3 DEF Serves
<1> QED BY <1>1, <1>4, MoveServes

\* An edge out of the pending node, by a person or for an event.
LEMMA EdgeServes ==
    ASSUME HistoryInv, DrivenInv, ServesInv, NEW d \in Drivers, NEW r \in Runs, file' = file,
           NEW e \in Edges, e.from = file[r].pending, NEW used \in {"human", "event"},
           used = "event" => e.on \notin {"when", "semantic", "error"},
           Enter(d, r, Append(file[r].path, e.to), Append(file[r].steps, Step(file[r].pending, e.to, used)))
    PROVE  ServesInv'
<1> DEFINE path == Append(file[r].path, e.to)
           steps == Append(file[r].steps, Step(file[r].pending, e.to, used))
           g == [NoDoc EXCEPT !.path = path, !.steps = steps]
<1>1. file[r] \in Docs /\ FileGood(file[r]) /\ Ended(file[r])
  BY DEF HistoryInv, DrivenInv
<1>2. e.to \in Targets(file[r].pending)
  BY DEF Targets
<1>3. Walk(file[r].path, file[r].steps) /\ file[r].pending = LastNode(file[r].path)
  BY <1>1, <1>2, PendingIsLast
<1>4. file[r].stopped # "terminal" /\ file[r].path # <<>>
  BY <1>1, <1>2, <1>3, NoNodeHasNoEdge DEF Ended, Walk
<1>5. g.path = path /\ g.steps = steps
  BY DEF NoDoc
<1>6. MayGo(file[r], e.on, used)
  BY DEF MayGo
<1>7. Advances(file[r], g)
  <2> HIDE DEF g
  <2> QED BY <1>3, <1>4, <1>5, <1>6 DEF Advances
<1> HIDE DEF path, steps
<1> QED BY <1>7, EnterServes DEF path, steps

LEMMA ChosenServes ==
    ASSUME HistoryInv, DrivenInv, ServesInv, NEW d \in Drivers, NEW r \in Runs, NEW c,
           EnterChosen(d, r, c), file' = file
    PROVE  ServesInv'
<1>1. PICK e \in Edges : e.from = file[r].pending /\ e.to = c
  BY DEF EnterChosen, Targets
<1> QED BY <1>1, EdgeServes DEF EnterChosen

LEMMA EventServes ==
    ASSUME HistoryInv, DrivenInv, ServesInv, NEW d \in Drivers, NEW r \in Runs,
           NEW on \in Events \cup {Timeout}, EnterOnEvent(d, r, on), file' = file
    PROVE  ServesInv'
<1>1. CASE file[r].decision # NoNode
  BY <1>1, ChosenServes DEF EnterOnEvent
<1>2. CASE file[r].decision = NoNode
  <2>1. PICK t \in EventTargets(file[r].pending, on) :
          Enter(d, r, Append(file[r].path, t), Append(file[r].steps, Step(file[r].pending, t, "event")))
    BY <1>2 DEF EnterOnEvent
  <2>2. PICK e \in Edges : e.from = file[r].pending /\ e.on = on /\ e.to = t
    BY DEF EventTargets, TargetsOn
  <2>3. on \notin {"when", "semantic", "error"}
    BY DEF Events, Timeout
  <2> QED BY <2>1, <2>2, <2>3, EdgeServes
<1> QED BY <1>1, <1>2

LEMMA OperateServes ==
    ASSUME HistoryInv, DrivenInv, ServesInv, NEW d \in Drivers, Operate(d)
    PROVE  ServesInv'
<1>1. PICK r \in Runs : \/ RunDurable(d, r) \/ ResumeCrash(d, r) \/ ResumeChosen(d, r)
                        \/ ResumeEvent(d, r) \/ LoadForDecision(d, r)
  BY DEF Operate
<1>2. file[r] \in Docs /\ FileGood(file[r]) /\ Ended(file[r])
  BY DEF HistoryInv, DrivenInv
<1>3. CASE RunDurable(d, r)
  <2> DEFINE g == [NoDoc EXCEPT !.path = <<StartNode>>, !.steps = <<>>]
  <2>1. file[r].path = <<>> /\ file' = file /\ Enter(d, r, <<StartNode>>, <<>>)
    BY <1>3 DEF RunDurable, Exists
  <2>2. file[r] = NoDoc
    BY <1>2, <2>1 DEF FileGood, Walk
  <2>3. file[r].steps = <<>> /\ g.path = <<StartNode>> /\ g.steps = <<>>
    <3>1. NoDoc.steps = <<>>
      BY DEF NoDoc
    <3>2. g.path = <<StartNode>> /\ g.steps = <<>>
      BY DEF NoDoc
    <3> QED BY <2>2, <3>1, <3>2
  <2>4. Begins(file[r], g)
    <3> HIDE DEF g
    <3> QED BY <2>1, <2>3 DEF Begins
  <2> QED BY <2>1, <2>4, EnterServes
<1>4. CASE ResumeCrash(d, r)
  <2> DEFINE g == [NoDoc EXCEPT !.path = AfterCrash(file[r]), !.steps = file[r].steps]
  <2>1. file[r].path # <<>> /\ file' = file /\ file[r].stopped \in {"", "contract_violation"}
        /\ Enter(d, r, AfterCrash(file[r]), file[r].steps)
    BY <1>4 DEF ResumeCrash, Exists
  <2>2. Walk(file[r].path, file[r].steps) /\ file[r].pending = LastNode(file[r].path)
    BY <1>2, <2>1, FileIsWalk
  <2>3. AfterCrash(file[r]) = file[r].path
    BY <2>2, CrashKeepsPath
  <2>4. g.path = file[r].path /\ g.steps = file[r].steps
    BY <2>3 DEF NoDoc
  <2>5. Repeats(file[r], g)
    <3> HIDE DEF g
    <3> QED BY <2>1, <2>4 DEF Repeats, SameHistory
  <2> QED BY <2>1, <2>5, EnterServes
<1>5. CASE ResumeChosen(d, r)
  BY <1>5, ChosenServes DEF ResumeChosen
<1>6. CASE ResumeEvent(d, r)
  BY <1>6, EventServes DEF ResumeEvent
<1>7. CASE LoadForDecision(d, r)
  <2>1. PICK c \in file[r].cands :
          /\ pc' = [pc EXCEPT ![d] = "decide"]
          /\ job' = [job EXCEPT ![d] = [NoJob EXCEPT !.run = r, !.doc = [file[r] EXCEPT !.decision = c]]]
    BY <1>7 DEF LoadForDecision, Goto
  <2> DEFINE doc == [file[r] EXCEPT !.decision = c]
             j == [NoJob EXCEPT !.run = r, !.doc = doc]
  <2>2. file' = file /\ SameHistory(file[r], doc) /\ doc.stopped = file[r].stopped
    BY <1>2, <1>7 DEF LoadForDecision, Docs, SameHistory
  <2> HIDE DEF doc
  <2>3. j.run = r /\ j.doc = doc
    BY DEF NoJob
  <2> HIDE DEF j
  <2>4. Serves("decide", j)
    BY <2>2, <2>3 DEF Serves
  <2>5. pc' = [pc EXCEPT ![d] = "decide"] /\ job' = [job EXCEPT ![d] = j]
    BY <2>1 DEF j, doc
  <2> QED BY <2>2, <2>4, <2>5, MoveServes
<1> QED BY <1>1, <1>3, <1>4, <1>5, <1>6, <1>7

LEMMA EngineServes ==
    ASSUME OneDriver, HistoryInv, DrivenInv, ServesInv, NEW d \in Drivers, Engine(d)
    PROVE  ServesInv'
<1> DEFINE j == job[d]
<1>0. /\ JobGood(pc[d], j) /\ Drives(pc[d], j) /\ Serves(pc[d], j)
      /\ j \in Jobs /\ j.doc \in Docs /\ pc \in [Drivers -> Pcs]
  BY DEF HistoryInv, DrivenInv, ServesInv, Jobs
<1>1. ASSUME Return(d), file' = file PROVE ServesInv'
  BY <1>1, RestServes, MoveServes DEF Return, Goto
<1>2. ASSUME Return(d) PROVE ServesInv'
  BY <1>2, SaveServes DEF Return, Goto
<1>3. CASE SaveNode(d)
  <2>1. CASE Here(d) \in TerminalNodes
    BY <1>2, <1>3, <2>1 DEF SaveNode
  <2>2. CASE Here(d) \notin TerminalNodes
    <3> DEFINE doc == [j.doc EXCEPT !.pending = Here(d)]
               j2 == [j EXCEPT !.doc = doc, !.left = @ - 1]
    <3>1. doc.stopped = ""
      BY <1>0, <1>3 DEF SaveNode, JobGood, Docs
    <3>2. pc' = [pc EXCEPT ![d] = "work"] /\ job' = [job EXCEPT ![d] = j2]
      BY <1>3, <2>2 DEF SaveNode, Goto
    <3> HIDE DEF doc
    <3>3. j2.doc = doc
      BY <1>0 DEF Jobs
    <3> HIDE DEF j2
    <3> QED BY <3>1, <3>2, <3>3, SaveServes
  <2> QED BY <2>1, <2>2
<1>4. CASE Work(d)
  <2>1. /\ pc[d] = "work" /\ j.run \in Runs /\ Walk(j.doc.path, j.doc.steps) /\ file' = file
        /\ file[j.run] = j.doc /\ j.doc.stopped = "" /\ j.doc.path # <<>>
        /\ Here(d) = LastNode(j.doc.path)
    BY <1>0, <1>4 DEF Work, JobGood, Drives, Serves, Here, LastNode, Walk
  <2>2. ASSUME NEW on, NEW t \in TargetsOn(Here(d), on), NEW used \in {"engine", "error"},
               MayGo(j.doc, on, used), Follow(d, t, used)
        PROVE  ServesInv'
    <3>1. CASE j.left = 0
      BY <1>1, <2>1, <2>2, <3>1 DEF Follow
    <3>2. CASE j.left # 0
      <4> DEFINE doc == [NoDoc EXCEPT !.path = Append(j.doc.path, t),
                                      !.steps = Append(j.doc.steps, Step(Here(d), t, used))]
                 j2 == [j EXCEPT !.doc = doc]
      <4>1. pc' = [pc EXCEPT ![d] = "save"] /\ job' = [job EXCEPT ![d] = j2]
        BY <2>2, <3>2 DEF Follow, Goto
      <4>2. doc.path = Append(j.doc.path, t) /\ doc.steps = Append(j.doc.steps, Step(Here(d), t, used))
        BY DEF NoDoc
      <4> HIDE DEF doc
      <4>3. j2.run = j.run /\ j2.doc = doc
        BY <1>0 DEF Jobs
      <4> HIDE DEF j2
      <4>4. PICK e \in Edges : e.from = Here(d) /\ e.on = on /\ e.to = t
        BY <2>2 DEF TargetsOn
      <4>5. Advances(j.doc, doc)
        BY <2>1, <2>2, <4>2, <4>4 DEF Advances
      <4>6. Serves("save", j2)
        BY <2>1, <4>3, <4>5 DEF Serves
      <4> QED BY <2>1, <4>1, <4>6, MoveServes
    <3> QED BY <3>1, <3>2
  <2>3. ASSUME NEW stopped \in {"waiting", "contract_violation", "needs_human", "stuck"},
               NEW cands, NEW timer, Suspend(d, stopped, cands, timer),
               Uninterrupted!MaySuspend(Here(d), stopped)
        PROVE  ServesInv'
    <3> DEFINE doc == [j.doc EXCEPT !.stopped = stopped, !.cands = cands, !.timer = timer]
               j2 == [j EXCEPT !.doc = doc]
    <3>1. pc' = [pc EXCEPT ![d] = "stop"] /\ job' = [job EXCEPT ![d] = j2]
      BY <2>3 DEF Suspend, Goto
    <3>2. SameHistory(j.doc, doc) /\ doc.stopped = stopped
      BY <1>0 DEF Docs, SameHistory
    <3> HIDE DEF doc
    <3>3. j2.run = j.run /\ j2.doc = doc
      BY <1>0 DEF Jobs
    <3> HIDE DEF j2
    <3>4. Suspends(j.doc, doc)
      BY <2>1, <2>3, <3>2 DEF Suspends
    <3>5. Serves("stop", j2)
      BY <2>1, <3>3, <3>4 DEF Serves
    <3> QED BY <2>1, <3>1, <3>5, MoveServes
  <2>4. Uninterrupted!OffersSemantic(Here(d)) <=> TargetsOn(Here(d), "semantic") # {}
    BY DEF Uninterrupted!OffersSemantic, TargetsOn
  <2>5. CASE "route" \in Yields[Here(d)] /\ Route(d)
    <3>1. MayGo(j.doc, "when", "engine") /\ MayGo(j.doc, "semantic", "engine")
      BY <2>1, <2>5 DEF MayGo
    <3>2. CASE \E t \in TargetsOn(Here(d), "when") \cup TargetsOn(Here(d), "semantic") : Follow(d, t, "engine")
      BY <2>2, <3>1, <3>2
    <3>3. CASE TargetsOn(Here(d), "semantic") # {}
               /\ Suspend(d, "needs_human", TargetsOn(Here(d), "semantic"), FALSE)
      BY <2>3, <2>4, <2>5, <3>3 DEF Uninterrupted!MaySuspend
    <3>4. CASE TargetsOn(Here(d), "semantic") = {} /\ Suspend(d, "stuck", {}, FALSE)
      BY <2>3, <2>4, <2>5, <3>4 DEF Uninterrupted!MaySuspend
    <3> QED BY <2>5, <3>2, <3>3, <3>4 DEF Route
  <2>6. CASE "raise" \in Yields[Here(d)] /\ Raise(d)
    <3>1. MayGo(j.doc, "error", "error")
      BY <2>1, <2>6 DEF MayGo
    <3>2. CASE Goto(d, "idle", NoJob)
      BY <2>1, <3>2, RestServes, MoveServes DEF Goto
    <3> QED BY <2>2, <2>6, <3>1, <3>2 DEF Raise
  <2>7. CASE "human" \in Yields[Here(d)] /\ Suspend(d, "needs_human", Targets(Here(d)), FALSE)
    BY <2>3, <2>7 DEF Uninterrupted!MaySuspend
  <2>8. CASE "wait" \in Yields[Here(d)] /\ \E t \in BOOLEAN : Suspend(d, "waiting", {}, t)
    BY <2>3, <2>8 DEF Uninterrupted!MaySuspend
  <2>9. CASE "violation" \in Yields[Here(d)] /\ Suspend(d, "contract_violation", {}, FALSE)
    BY <2>3, <2>9 DEF Uninterrupted!MaySuspend
  <2> QED BY <1>4, <2>5, <2>6, <2>7, <2>8, <2>9 DEF Work
<1>5. CASE SaveStop(d)
  BY <1>2, <1>5 DEF SaveStop
<1> QED BY <1>3, <1>4, <1>5 DEF Engine

LEMMA ServesNext ==
    ASSUME OneDriver
    PROVE  HistoryInv /\ DrivenInv /\ ServesInv /\ [Next]_vars => ServesInv'
<1> SUFFICES ASSUME HistoryInv, DrivenInv, ServesInv, [Next]_vars PROVE ServesInv'
  OBVIOUS
<1>1. ASSUME UNCHANGED <<file, pc, job>> PROVE ServesInv'
  BY <1>1 DEF ServesInv, Serves
<1>2. CASE UNCHANGED vars
  BY <1>1, <1>2 DEF vars
<1>3. ASSUME NEW d \in Drivers, Operate(d) \/ Engine(d) PROVE ServesInv'
  BY <1>3, OperateServes, EngineServes
<1>4. ASSUME NEW d \in Drivers, WriteDecision(d) PROVE ServesInv'
  BY <1>4, SaveServes DEF WriteDecision, Goto
<1>5. ASSUME NEW d \in Drivers, BeginScan(d) \/ Look(d) \/ Crash(d) PROVE ServesInv'
  BY <1>5, RestServes, MoveServes DEF BeginScan, Look, Crash, Goto
<1>6. ASSUME NEW d \in Drivers, Fire(d) PROVE ServesInv'
  <2>1. job[d].scan \in Runs /\ file' = file
    BY <1>6 DEF Fire, HistoryInv, JobGood
  <2>2. CASE EnterOnEvent(d, job[d].scan, Timeout)
    BY <2>1, <2>2, EventServes
  <2>3. CASE Goto(d, "idle", NoJob)
    BY <2>1, <2>3, RestServes, MoveServes DEF Goto
  <2> QED BY <1>6, <2>2, <2>3 DEF Fire
<1>7. ASSUME NEW r \in Runs, Elapse(r) PROVE ServesInv'
  BY <1>1, <1>7 DEF Elapse
<1> QED BY <1>2, <1>3, <1>4, <1>5, <1>6, <1>7 DEF Next, Scan

LEMMA ServesInvariant ==
    ASSUME OneDriver
    PROVE  Spec => []ServesInv
<1>1. Init => ServesInv
  <2> SUFFICES ASSUME Init PROVE ServesInv
    OBVIOUS
  <2>1. \A d \in Drivers : pc[d] = "idle"
    BY DEF Init
  <2> QED BY <2>1, RestServes DEF ServesInv
<1> QED BY <1>1, ServesNext, HistoryInvariant, DrivenInvariant, PTL DEF Spec

\* A run that is not over is at a node that does not end it.
Unfinished(f) == f.path # <<>> /\ f.stopped # "terminal" => LastNode(f.path) \notin TerminalNodes
UnfinishedInv == \A r \in Runs : Unfinished(file[r])

\* The variables of the uninterrupted runs, and what a save makes of them.
Paths == [r \in Runs |-> file[r].path]
Histories == [r \in Runs |-> file[r].steps]
Stages == [r \in Runs |-> StageOf(file[r])]
Still == Paths' = Paths /\ Histories' = Histories /\ Stages' = Stages

LEMMA Recorded ==
    ASSUME HistoryInv, NEW r \in Runs, NEW doc, file' = [file EXCEPT ![r] = doc]
    PROVE  /\ Paths' = [Paths EXCEPT ![r] = doc.path]
           /\ Histories' = [Histories EXCEPT ![r] = doc.steps]
           /\ Stages' = [Stages EXCEPT ![r] = StageOf(doc)]
           /\ doc.path = file[r].path => Paths' = Paths
           /\ doc.steps = file[r].steps => Histories' = Histories
           /\ StageOf(doc) = StageOf(file[r]) => Stages' = Stages
<1>1. \A q \in Runs : file'[q] = IF q = r THEN doc ELSE file[q]
  BY DEF HistoryInv
<1>2. Paths' = [Paths EXCEPT ![r] = doc.path] /\ (doc.path = file[r].path => Paths' = Paths)
  <2>1. \A q \in Runs : file'[q].path = IF q = r THEN doc.path ELSE file[q].path
    BY <1>1
  <2> QED BY <2>1 DEF Paths
<1>3. Histories' = [Histories EXCEPT ![r] = doc.steps] /\ (doc.steps = file[r].steps => Histories' = Histories)
  <2>1. \A q \in Runs : file'[q].steps = IF q = r THEN doc.steps ELSE file[q].steps
    BY <1>1
  <2> QED BY <2>1 DEF Histories
<1>4. \A q \in Runs : StageOf(file[q])' = IF q = r THEN StageOf(doc) ELSE StageOf(file[q])
  <2> TAKE q \in Runs
  <2>1. StageOf(file[q])' = StageOf(file'[q])
    BY DEF StageOf
  <2>2. file'[q] = IF q = r THEN doc ELSE file[q]
    BY <1>1
  <2> QED BY <2>1, <2>2
<1>5. Stages' = [Stages EXCEPT ![r] = StageOf(doc)] /\ (StageOf(doc) = StageOf(file[r]) => Stages' = Stages)
  BY <1>4 DEF Stages
<1> QED BY <1>2, <1>3, <1>5

LEMMA StillIsStutter == Still => [Uninterrupted!Next]_(Uninterrupted!vars)
BY DEF Still, Paths, Histories, Stages, Uninterrupted!vars

\* The head of the loop saves a run that begins, goes on or is taken up again.
LEMMA SaveNodeMaps ==
    ASSUME HistoryInv, ServesInv, UnfinishedInv, NEW d \in Drivers, SaveNode(d)
    PROVE  [Uninterrupted!Next]_(Uninterrupted!vars) /\ UnfinishedInv'
<1> DEFINE j == job[d]
           r == j.run
           n == Here(d)
           f == file[r]
<1>1. r \in Runs /\ f \in Docs /\ j.doc \in Docs /\ n = LastNode(j.doc.path) /\ j.doc.path # <<>>
  BY DEF SaveNode, HistoryInv, JobGood, Jobs, Here, LastNode, Walk
<1>2. Begins(f, j.doc) \/ Repeats(f, j.doc) \/ Advances(f, j.doc)
  BY DEF SaveNode, ServesInv, Serves
<1>3. PICK doc : /\ file' = [file EXCEPT ![r] = doc]
                 /\ doc.path = j.doc.path /\ doc.steps = j.doc.steps
                 /\ StageOf(doc) = IF n \in TerminalNodes THEN "terminal" ELSE "working"
                 /\ n \in TerminalNodes => doc.stopped = "terminal"
  <2>1. CASE n \in TerminalNodes
    <3> DEFINE over == [j.doc EXCEPT !.stopped = "terminal"]
    <3>1. over.path = j.doc.path /\ over.steps = j.doc.steps /\ over.stopped = "terminal"
      BY <1>1 DEF Docs
    <3>2. file' = [file EXCEPT ![r] = over]
      BY <2>1 DEF SaveNode, Save
    <3> HIDE DEF over
    <3>3. StageOf(over) = "terminal"
      BY <1>1, <3>1 DEF StageOf
    <3> QED BY <2>1, <3>1, <3>2, <3>3
  <2>2. CASE n \notin TerminalNodes
    <3> DEFINE open == [j.doc EXCEPT !.pending = n]
    <3>1. open.path = j.doc.path /\ open.steps = j.doc.steps /\ open.stopped = j.doc.stopped
      BY <1>1 DEF Docs
    <3>2. file' = [file EXCEPT ![r] = open]
      BY <2>2 DEF SaveNode, Save
    <3>3. j.doc.stopped = ""
      BY DEF SaveNode, HistoryInv, JobGood
    <3> HIDE DEF open
    <3>4. StageOf(open) = "working"
      BY <1>1, <3>1, <3>3 DEF StageOf
    <3> QED BY <2>2, <3>1, <3>2, <3>4
  <2> QED BY <2>1, <2>2
<1>4. /\ Paths' = [Paths EXCEPT ![r] = doc.path]
      /\ Histories' = [Histories EXCEPT ![r] = doc.steps]
      /\ Stages' = [Stages EXCEPT ![r] = StageOf(doc)]
      /\ doc.path = f.path => Paths' = Paths
      /\ doc.steps = f.steps => Histories' = Histories
      /\ StageOf(doc) = StageOf(f) => Stages' = Stages
  BY <1>1, <1>3, Recorded
<1>5. Paths[r] = f.path /\ Histories[r] = f.steps /\ Stages[r] = StageOf(f)
  BY <1>1 DEF Paths, Histories, Stages
<1>6. UnfinishedInv'
  <2>1. Unfinished(doc)
    BY <1>1, <1>3 DEF Unfinished
  <2>2. \A q \in Runs : file'[q] = IF q = r THEN doc ELSE file[q]
    BY <1>3 DEF HistoryInv
  <2> QED BY <2>1, <2>2 DEF UnfinishedInv, Unfinished
<1>7. Unfinished(f)
  BY <1>1 DEF UnfinishedInv
<1> HIDE DEF r, f, n, j
<1>8. CASE Begins(f, j.doc)
  <2>1. StageOf(f) = "absent"
    BY <1>8 DEF Begins, StageOf
  <2>2. doc.steps = f.steps /\ doc.path = <<StartNode>> /\ f.path = <<>>
    BY <1>3, <1>8 DEF Begins
  <2>3. n = StartNode
    BY <1>1, <1>3, <2>2 DEF LastNode
  <2>4. doc.path = Append(f.path, StartNode)
    BY <2>2
  <2>5. Uninterrupted!Begin(r)
    BY <1>3, <1>4, <1>5, <2>1, <2>2, <2>3, <2>4
       DEF Uninterrupted!Begin, Uninterrupted!Enter, Paths, Histories, Stages
  <2> QED BY <1>1, <1>6, <2>5 DEF Uninterrupted!Next, Uninterrupted!Begin, Uninterrupted!Enter
<1>9. CASE Repeats(f, j.doc)
  <2>1. f.path # <<>> /\ doc.path = f.path /\ doc.steps = f.steps /\ n = LastNode(f.path)
    BY <1>1, <1>3, <1>9 DEF Repeats, SameHistory
  <2>2. StageOf(f) \in {"working", "contract_violation"} /\ f.stopped # "terminal"
    BY <1>9 DEF Repeats, StageOf
  <2>3. n \notin TerminalNodes
    BY <1>7, <2>1, <2>2 DEF Unfinished
  <2>4. StageOf(doc) = "working"
    BY <1>3, <2>3
  <2>5. CASE StageOf(f) = "working"
    BY <1>4, <1>6, <2>1, <2>4, <2>5, StillIsStutter DEF Still
  <2>6. CASE StageOf(f) = "contract_violation"
    <3>1. Uninterrupted!Retry(r)
      BY <1>4, <1>5, <2>1, <2>4, <2>6 DEF Uninterrupted!Retry, Paths, Histories, Stages
    <3> QED BY <1>1, <1>6, <3>1 DEF Uninterrupted!Next
  <2> QED BY <2>2, <2>5, <2>6
<1>10. CASE Advances(f, j.doc)
  <2>1. PICK e \in Edges, used \in {"engine", "error", "event", "human"} :
          /\ e.from = LastNode(f.path) /\ MayGo(f, e.on, used)
          /\ doc.path = Append(f.path, e.to)
          /\ doc.steps = Append(f.steps, Step(e.from, e.to, used))
    BY <1>3, <1>10 DEF Advances
  <2>2. f.path \in Seq(Nodes) /\ e.to \in Nodes
    BY <1>1, FlowAssumption DEF Docs
  <2>3. n = e.to
    BY <1>1, <1>3, <2>1, <2>2 DEF LastNode
  <2>4. StageOf(f) \notin {"absent", "terminal"}
    BY <1>1, <1>10 DEF Advances, StageOf, Docs, Stops
  <2>5. f.stopped = "" => StageOf(f) = "working"
    BY <1>10 DEF Advances, StageOf
  <2>6. Uninterrupted!At(r) = LastNode(f.path)
    BY <1>5 DEF Uninterrupted!At, LastNode, Paths
  <2>7. Uninterrupted!MayTake(r, e.on, used)
    BY <1>5, <2>1, <2>5, <2>6 DEF Uninterrupted!MayTake, MayGo, Stages
  <2>8. Uninterrupted!Enter(r, e.to)
    BY <1>3, <1>4, <1>5, <2>1, <2>3 DEF Uninterrupted!Enter, Paths, Stages
  <2>9. Histories' = [Histories EXCEPT ![r] = Append(@, [from |-> e.from, to |-> e.to, used |-> used])]
    BY <1>4, <1>5, <2>1 DEF Step
  <2>10. Uninterrupted!Advance(r)
    BY <1>5, <2>1, <2>4, <2>6, <2>7, <2>8, <2>9 DEF Uninterrupted!Advance, Stages, Histories
  <2> QED BY <1>1, <1>6, <2>10 DEF Uninterrupted!Next, Uninterrupted!Advance, Uninterrupted!Enter
<1> QED BY <1>2, <1>8, <1>9, <1>10

\* A stop is saved of a run that is being worked on.
LEMMA SaveStopMaps ==
    ASSUME HistoryInv, ServesInv, UnfinishedInv, NEW d \in Drivers, SaveStop(d)
    PROVE  [Uninterrupted!Next]_(Uninterrupted!vars) /\ UnfinishedInv'
<1> DEFINE r == job[d].run
           f == file[r]
           doc == job[d].doc
<1>1. r \in Runs /\ Suspends(f, doc) /\ file' = [file EXCEPT ![r] = doc]
  BY DEF SaveStop, Save, HistoryInv, JobGood, ServesInv, Serves
<1>2. /\ Stages' = [Stages EXCEPT ![r] = StageOf(doc)]
      /\ doc.path = f.path => Paths' = Paths
      /\ doc.steps = f.steps => Histories' = Histories
  BY <1>1, Recorded
<1>3. \A q \in Runs : file'[q] = IF q = r THEN doc ELSE file[q]
  BY <1>1 DEF HistoryInv
<1>4. Stages[r] = StageOf(f) /\ Paths[r] = f.path
  BY <1>1 DEF Stages, Paths
<1>5. Unfinished(f)
  BY <1>1 DEF UnfinishedInv
<1> HIDE DEF r, f, doc
<1>6. StageOf(f) = "working" /\ StageOf(doc) = doc.stopped /\ doc.path = f.path /\ doc.steps = f.steps
  BY <1>1 DEF Suspends, SameHistory, StageOf
<1>7. Uninterrupted!At(r) = LastNode(f.path)
  BY <1>4 DEF Uninterrupted!At, LastNode, Paths
<1>8. Uninterrupted!Suspend(r)
  BY <1>1, <1>2, <1>4, <1>6, <1>7 DEF Suspends, Uninterrupted!Suspend, Paths, Histories, Stages
<1>9. UnfinishedInv'
  BY <1>1, <1>3, <1>5, <1>6 DEF UnfinishedInv, Unfinished, Suspends
<1> QED BY <1>1, <1>8, <1>9 DEF Uninterrupted!Next

\* A decision is one more line in a file that stays where it is.
LEMMA WriteDecisionMaps ==
    ASSUME HistoryInv, ServesInv, UnfinishedInv, NEW d \in Drivers, WriteDecision(d)
    PROVE  Still /\ UnfinishedInv'
<1> DEFINE r == job[d].run
           f == file[r]
           doc == job[d].doc
<1>1. /\ r \in Runs /\ SameHistory(f, doc) /\ doc.stopped = f.stopped
      /\ file' = [file EXCEPT ![r] = doc]
  BY DEF WriteDecision, HistoryInv, JobGood, ServesInv, Serves
<1>2. Still
  BY <1>1, Recorded DEF Still, SameHistory, StageOf
<1>3. \A q \in Runs : file'[q] = IF q = r THEN doc ELSE file[q]
  BY <1>1 DEF HistoryInv
<1>4. Unfinished(f)
  BY <1>1 DEF UnfinishedInv
<1> HIDE DEF r, f, doc
<1>5. UnfinishedInv'
  BY <1>1, <1>3, <1>4 DEF UnfinishedInv, Unfinished, SameHistory
<1> QED BY <1>2, <1>5

\* "After a crash: re-enter at the pending node, re-run it" (checkpoint.py, line 12):
\* with one process at work, whatever crashes and resumes there are, the files go
\* through what those of a process that never dies would.
THEOREM RunsAreAsIfUninterrupted ==
    ASSUME OneDriver
    PROVE  Spec => AsIfUninterrupted
<1>1. Init => Uninterrupted!Init /\ UnfinishedInv
  <2> SUFFICES ASSUME Init PROVE Uninterrupted!Init /\ UnfinishedInv
    OBVIOUS
  <2>1. NoDoc.path = <<>>
    BY DEF NoDoc
  <2>2. NoDoc.steps = <<>>
    BY DEF NoDoc
  <2>3. \A r \in Runs : file[r] = NoDoc
    BY DEF Init
  <2>4. StageOf(NoDoc) = "absent" /\ Unfinished(NoDoc)
    BY <2>1 DEF StageOf, Unfinished
  <2> QED BY <2>1, <2>2, <2>3, <2>4 DEF Uninterrupted!Init, UnfinishedInv
<1>2. HistoryInv /\ DrivenInv /\ ServesInv /\ UnfinishedInv /\ [Next]_vars
        => [Uninterrupted!Next]_(Uninterrupted!vars) /\ UnfinishedInv'
  <2> SUFFICES ASSUME HistoryInv, DrivenInv, ServesInv, UnfinishedInv, [Next]_vars
               PROVE  [Uninterrupted!Next]_(Uninterrupted!vars) /\ UnfinishedInv'
    OBVIOUS
  <2>1. CASE file' = file
    <3>1. Still /\ UnfinishedInv'
      BY <2>1 DEF Still, Paths, Histories, Stages, UnfinishedInv, Unfinished
    <3> QED BY <3>1, StillIsStutter
  <2>2. ASSUME NEW d \in Drivers, SaveNode(d) \/ SaveStop(d)
        PROVE  [Uninterrupted!Next]_(Uninterrupted!vars) /\ UnfinishedInv'
    BY <2>2, SaveNodeMaps, SaveStopMaps
  <2>3. ASSUME NEW d \in Drivers, WriteDecision(d)
        PROVE  [Uninterrupted!Next]_(Uninterrupted!vars) /\ UnfinishedInv'
    BY <2>3, WriteDecisionMaps, StillIsStutter
  <2>4. ASSUME NEW d \in Drivers, Operate(d) \/ Work(d) \/ Scan(d) \/ Crash(d) PROVE file' = file
    BY <2>4 DEF Operate, RunDurable, ResumeCrash, ResumeChosen, ResumeEvent, LoadForDecision,
                Work, Scan, BeginScan, Look, Fire, Crash
  <2>5. UNCHANGED vars \/ (\E r \in Runs : Elapse(r)) => file' = file
    BY DEF vars, Elapse
  <2> QED BY <2>1, <2>2, <2>3, <2>4, <2>5 DEF Next, Engine
<1> QED BY <1>1, <1>2, HistoryInvariant, DrivenInvariant, ServesInvariant, PTL
        DEF Spec, AsIfUninterrupted, Uninterrupted!Spec
=============================================================================
