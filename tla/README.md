# PrismPath: TLA+ verification project

PrismPath is a control plane for bounded decision flows: a flow is compiled to a
small register-machine image, signed as a policy pack, swapped into hosts,
kernels, FPGAs and a mesh of radio nodes, run by workers under budgets and human
gates, and everything it does is written to signed, append-only logs. This
directory models its stateful core in TLA+, checks it with TLC on small instances
and proves the most important results with TLAPS for every value of the constants.

Paths below are relative to the repository.

## 1. Inventory

| Component | Source | State it keeps | Operations | What is hard | What makes it correct |
|---|---|---|---|---|---|
| Policy host | `prismpath/hotswap/policy_host.py`, `policy_pack.py` | files `pending_swap`, `active_version`, `swaps.log`, `active.ppt`, `active_policy.json`; active and previous policy in memory | start, swap, rollback, attest | a crash or an I/O error between any two of six durable writes; several processes over one directory; `attest` without the lock | evidence before the flip; the floor before the evidence; an interrupted swap can be finished |
| Mesh rollout | `prismpath-hw/mesh/main/ppt_mesh.c` (and `mesh-fusion`) | per node: active and staged image, version floor in NVS; coordinator: rollout number, ack set | PREPARE, ACK, COMMIT, flip after a delay, reboot | lossy broadcast radio, an 8-slot receive queue, reboots, two coordinators | no node installs a version below its floor; a flip installs what was acknowledged |
| Audit log and root statements | `prismpath/ledgers/audit_log.py`, `root_statement.py` | event file, statement file, in-memory leaves and chain head | append, sign, load, verify | failed or torn writes, failed fsync, two writers, an unsigned tail after a crash | a log written by the code verifies; nothing verified is lost |
| Flow engine and durable checkpoint | `prismpath/kernel/engine.py`, `prismpath/ledgers/checkpoint.py` | current node, visits, step budget, call stack; checkpoint file per run | run, suspend, resume, decide | crash between a checkpoint and the worker's effect; resume racing timeouts and people | bounded steps; a finished run is not resumed; nothing runs past a human gate |
| Scheduler | `prismpath/workers/scheduler.py` | none (reads checkpoints) | scan and time out suspended runs | two drivers resume one run | a run is timed out at most once |
| Composer | `prismpath/workers/composer.py` | parent and child runs, fan-out items, join results | fan out, child finish, join | duplicate children, a lost join, quorum at the boundary | every join fires once, after its quorum |
| Deferral queue | `prismpath/workers/deferral.py` | deferred units | defer, resolve, take | non-atomic file writes, an answer overwritten | a resolved unit is not lost |
| Facet transport: durable epochs | `prismpath/telemetry/{epoch_journal,epochs,ackchannel}.py` | chain, gap, acknowledgement and data files; the same in memory | seal, acknowledge, drop under pressure, recover | a crash between any two writes; torn lines; late and repeated acknowledgements; both caps | no reading is lost without an acknowledgement or a record of its loss |
| Facet transport: refresh and replay | `prismpath/telemetry/{refresh,replay}.py` | last emission; mirrored state and its age; window of ticks | emit, receive, act | lost, late, repeated and reordered frames; boundaries of the window and the bound | staleness is bounded; each tick is taken once |
| Facet transport: self-heal | `prismpath/telemetry/selfheal.py` | none | compare, repair | | a repaired block has the verified root |
| Flow verification and validation | `prismpath/kernel/{model_check,analysis,predicates,level_m,parser}.py` | breadth-first search: states found, certainty, parents, frontier | verify, validate | saturating counters, candidates for unbounded values, states found twice | what is said of a flow is true of every run of the engine |
| Kernel (contracts, lint, export) | the rest of `prismpath/kernel/*` | pure | parse, compile | arithmetic widths, bounded loops | the same verdict in every implementation |
| Register machine | `prismpath-hw/*.c`, `prismpath-hw/rtl/*`, `prismpath-ebpf/*`, `prismpath-rs`, `adapters/*` | tables, program counter, stack | load, evaluate, swap tables | a table swapped while a packet is evaluated | one evaluation sees one policy |
| eBPF selector and receipts | `prismpath-ebpf/*` | maps, generation, ring buffer | attach, migrate, seal | migration while packets run; lost receipts | no packet sees two generations |
| Flow and crypto authority | `prismpath/hotswap/{flow_authority,crypto_host,crypto_agility,crypto_registry}.py` | revocations, active algorithm | authorise, rotate, migrate | downgrade, rotation half done | nothing revoked runs |
| Other ledgers | `prismpath/ledgers/{ledger*,context_ledger,interactions,otel}.py` | files | append, anchor, export | retries of anchoring | anchored leaves stay |
| Sprint orchestration | `prismpath/orchestration/*` | task lists, gates, agents | run a sprint, gate, export | external agents and their failures | gates are not skipped |
| Routing | `prismpath/routing/*` | centroids, lock file | route, calibrate | concurrent lock-file updates | pure otherwise |
| Safety guards | `prismpath/safety/*` | pure | check | | verdicts are conservative |
| Mission control, CLI, LSP | `prismpath/mission_control/*`, `prismpath/cli.py`, `prismpath/lsp.py` | per request | serve | | delegates to the parts above |
| Radio relays and vision nodes | `prismpath-hw/esp-vision-*` | windows, sequence numbers | relay, replay | loss and reordering | no frame twice |
| Telemetry codecs | `prismpath/telemetry/{quantizer,spiral,zeckendorf,packed,wire}.py` | pure | encode, decode | widths | decode inverts encode |

How they interact. The CLI and mission control build a `PolicyHost` over a state
directory per call; the host appends to an `AuditLog`, which appends a signed root
statement. The engine calls workers and hands every state it must survive to the
checkpoint; the scheduler, the composer, people and events resume checkpoints.
Mesh nodes exchange policies and evaluations over ESP-NOW broadcasts. The facet
transport carries telemetry from constrained senders to a concentrator.

## 2. Plan

The order follows what would hurt most if it went wrong: policies that govern
devices first, then the runs that act, then their evidence, then what is said of
a flow before it runs.

| # | Module | Code | State |
|---|---|---|---|
| 1 | `AttestedPolicy`, `PolicyHost` | hot-swap host | built, proved |
| 2 | `MeshRollout` | ESP-NOW two-phase rollout | built, proved |
| 3 | `UninterruptedRun`, `DurableRun` | engine, checkpoint, scheduler | built, proved, refinement included |
| 4 | `Fanout` | composer | built, proved |
| 5 | `SignedLog` over `JsonLines` | audit log and root statements: torn lines, failed writes and fsyncs, a second writer | built, proved |
| 6 | `Retention`, `EpochJournal` over `JsonLines` | durable epochs and acknowledgements | built, proved, refinement included |
| 7 | `Predicates`, `FlowVerify` | reachability search and findings, against runs of the engine | built, proved |
| 8 | `RefreshedStream` | refresh profile and replay window over a bad network | built, proved |
| 9 | `Deferral` | read-check-write of two processes over one file | planned |
| 10 | `SelectorMigration` | eBPF tables replaced while packets are evaluated; receipts in a ring buffer | planned |
| 11 | `Relay` | windows and sequence numbers of the radio relays and vision nodes | planned |
| 12 | `CryptoRotation` | a rotation of algorithms interrupted half-way | planned |
| 13 | bounded checks of pure operators | Level M loops, Zeckendorf and packed codecs, self-heal | planned |

Composition: `JsonLines` is the file that `SignedLog` and `EpochJournal` share,
with what a crash or an error may leave of a line. `SignedLog` is the detail of
the log that `PolicyHost` treats as a list to which an append may or may not have
happened, and of the root statements that the journal keeps. `FlowVerify` evaluates conditions with `Predicates`, in the search
and in the engine; the engine's saves and crashes are `DurableRun`'s.
`Fanout` uses the checkpoint that `DurableRun` models in detail, as one document
per run. `RefreshedStream` joins the sender, the window and the consumer, as
PROTOCOL.md 2.7 and 2.8 do.

## 3. Modules and code

`MC*` modules only give small constants to the module they extend; `*Proofs`
modules hold theorems. Some definitions come with a neighbour whose comment
says "Mutant of": a plausible mistake in the same code, which makes a property
fail, and which no run uses by itself.

### PolicyHost and AttestedPolicy

State: the five files (`intent`, `floor`, `log`, `image`, `record` for
`pending_swap`, `active_version`, `swaps.log`, `active.ppt`,
`active_policy.json`) and, per process, `active`, `prev`, `noted`
(`_recovery_recorded`), the phase of the locked call with its locals, and
attestations in progress; `apart` is history, true from the write of an image to that of
its record. `Start`, `LoadRecord`, `LoadImage` are the constructor;
`BeginSwap` to `ClearIntent` are `swap()` with one action per durable write;
`BeginRollback`, `RollbackRecord` are `rollback()`, with `WriteImage` between them;
`BeginAttest` and `EndAttest` are the two halves of `attest()`, which takes no
lock. `Audit`, `AuditRaises` stand for every append, `WriteRaises` for every other
write that fails, `Crash` for a process that dies. A swap's version check
(`AdmittedByFloor`) admits an equal version for the interrupted swap alone.

`AttestedPolicy` is what the host promises: a policy is accepted under a floor
that never falls, and only an accepted policy is committed, in force or restored.
`Promise` in `PolicyHost` maps its state from the log, the record and the
processes' memories.

### MeshRollout

State: per node the policy enforced, the floor, the stage, the armed flip,
`rollout_seq`, the coordinator's flag and ack set, and the receive queue.
`StartRollout`, `InjectBad`, `ResetFloor` are the USB commands (`R`; `T` and `W`;
`Z`), `ReceivePrepare`, `ReceiveAck`, `ReceiveCommit` the handlers, `CloseWindow` and
`Flip` the two deadlines, `Reboot` a power cycle that keeps only the floor.
`Broadcast` delivers to any subset of the nodes and drops at a full queue. `sent`
is history, for the properties alone.

### DurableRun and UninterruptedRun

State: one checkpoint per run, a flag per run that its `timeout_s` is over, and
per driver what it does next and what it has in memory. `RunDurable`,
`ResumeCrash`, `ResumeChosen`, `ResumeEvent` are the entries of checkpoint.py;
`SaveNode`, `Work`, `SaveStop` are the engine's loop, cut at its saves and its
worker calls; `Suspend`, `Route`, `Raise`, `Follow` are the ways a worker's result
is handled. `LoadForDecision` and `WriteDecision` are the halves of
`record_decision`; `BeginScan`, `Look`, `Fire` are `fire_due_timeouts`, which loads
a file once to decide and once more in `resume`. `Elapse` is the clock.

`UninterruptedRun` is what durable execution promises: each run begins, advances along an
edge that its worker, an event or a person takes, is suspended as its worker's outcome
allows, and is tried again after a contract violation; there is no process in it.
`Uninterrupted` in `DurableRun` maps its state from the files alone (`StageOf`).

### Fanout

State: the checkpoint of each run, named by the items that lead to it, each with the
nodes of its own flow (`NodesOf`); the fan-outs being advanced, outermost first, with
the flags seen of their children; the run the engine is in and the document it will save. `BeginScan`, `Poll`,
`Polled`, `Nested` are `advance_fanouts` and `_advance_child`; `Decide` with `Joins` and
`Threshold` is the join policy; `Inject` and `Resume` are the two writes of a
join; `Call` and `SaveStep` are the engine in a child or a parent; `RunRoot`, `Answer`
and `Timeout` are the CLI, people and the timer scan.

### EpochJournal, Retention and JsonLines

`JsonLines` is an append-only file of lines: its lines, whether the last one lacks
its newline, and `Put`, an append that leaves nothing, a part, all but the newline
or all of a line. `EpochJournal` has the four files (`chain`, `gaps`, `files`,
`acks`), the process's memory and the ground. `Seal` writes a data file and
`SealChain` the line that makes it an epoch; `RecordGap` and `DropVictim` are one
pass of the caps (the gap line, then the removal it announces), `OnAck` the checks of
an acknowledgement and its save, `RemoveReleased` the removals that follow, `Open` and
`RemoveOrphan` the recovery, `Done` the end of a call. `Transmit` and `SignAck` are
the ground. `Crash` leaves one of `Tears` of the line being appended,
`FailAppend` one of `Failures` and an exception, `Rot` damages a data file.

`Retention` says what all of it is for: sealed windows are permanent, and readings
go only when they were verified or when their loss is on record. `Promise` maps its
state from the files alone, so that it holds while no process is alive.

### SignedLog

State: the two files; per process the events and the signer it has in
memory, whether it is between an event and its statement, and what it knows of statements
it is mending; and three marks for the properties
(`blind`, `spoiled`, `shared`). `Open`, `Forget`, `Close` are the life of an
`AuditLog`; `WriteEvent` is the line of `append`, `OpenSigner` and `Sign` the
`RootSigner` behind it, `Checkpoint` a statement without an event. A signer that finds
the last statement torn reads the file again (`ReadAgain`) and replaces it (`Rewrite`).
`FailWrite` and `Crash` leave one of the outcomes of `JsonLines`. `Findings` is the verifier and
`ReceiptChecks` the check of one receipt, whose path is taken in the tree of the events
the bundling process holds. The lock of a log covers one process, so
each access to a file is a step.

### Predicates and FlowVerify

`Predicates` evaluates a condition (`Holds`) as predicates.py does, missing fields
and comparisons between kinds included; a constant True or False is compared as 1 or 0
(`Meant`) but is not one of the `Numbers` of a condition, which the code counts without
booleans. It also decides what the analyzer decides of one
or two of them. `FlowVerify` asks a question of a flow: `Expand` and `Follow` are the
search (one state taken from the frontier, one move followed), with `Candidates` for the
values of fields, `Cap` and `Bump` for the saturating counters, `Certainty` for
`certain` and `may`; `Start`, `Route`, `Raise` and `Resume` are the engine, with exact
counters and a worker that emits anything, raises or waits. `Verdict`,
`PossibleStuck`, `Shadowed`, `AlwaysFalse` and `Reachable` are what is reported.

### RefreshedStream

State: the clock and what the sender saw; the frames sent and `lastEmit`; `top` and
`mask`; the frame mirrored, its time, and `stale`. `Sample` is the sender's loop
(`should_emit`, `note_emit`), `Arrive` a frame that reaches the consumer (`observe`,
then `on_frame` if it was admitted), `Act` a consumer that asks `acting_state`,
`Pass` the clock.

## 4. Runs

| Run | Instance | What it shows |
|---|---|---|
| `policy_host` | a command that swaps and a console that restarts and attests at any moment; 2 images, signed packs (A,1), (B,1) and (B,2), A also swapped in unsigned; at most 3 events in the log, of them 3 accepted swaps, 1 rollback, 1 recorded interruption and 1 attestation; crashes and I/O errors unbounded | the commit protocol keeps its promises at every interruption and implements `AttestedPolicy`; nothing a reader restores or attests escapes the evidence |
| `mesh_rollout` | a coordinator that rolls forth and back and loses power at any point, two followers with room for one frame, numbers up to 2 between reboots, any loss | nobody enforces B before every follower staged it, and no follower's floor falls, when numbers are used again |
| `mesh_reliable` | four nodes, as in the certification, nothing lost, one rollout, and a follower told to inject bad packs | the rollout reaches everybody |
| `durable_run` | two runs of a six-node flow with a gate, a timed wait, an error edge and a semantic edge; one process that operates and scans; budget 2, 2 crashes | saves, crashes and resumes lose nothing and repeat only the pending node; the files go through what `UninterruptedRun` allows |
| `durable_drivers` | two runs of a timed wait that escalates to a gate; an operator and a scheduler; 1 crash | histories stay walks and gates hold under two drivers; due timers fire |
| `fanout` | three gated reviews under quorum 1/2, then one build that fans out over two parts under `any`; people, a timer on the reviews, 2 faults | joins are earned and delivered, nothing runs twice |
| `epoch_journal` | 3 windows of sizes 1, 2, 1, caps of 2 epochs and 2 bytes, 2 crashes or failed appends, 1 damaged file, 2 acknowledgements; a crash leaves nothing, a part or the whole of a line | every loss is on record, the journal opens after each of them, memory agrees with the files, `Retention` is implemented, interrupted acknowledgements finish |
| `signed_log` | a console that signs every append, a command that signs checkpoints; 3 events, 2 statements, 2 faults with every outcome, between any two accesses to a file | what is lost shows, what was not written blindly verifies, anchors stand |
| `flow_verify` | 5116 questions: every pair of 27 kinds of edges at a node that may loop (among them comparisons with True and with a fraction), a second node that gives up after some visits, halts as stuck or ends the run with a third one unreachable, 2 assumptions, bounds 3 and 25, runs of up to 6 steps; races of a counter or a field with a field | what the search and the analyzer say holds of every run |
| `refreshed_stream` | 2 states over a clock of 7 instants, delay 2, 24 profiles (cadence none, 1, 2; bound 3, 5; reorder 0 to 3) | each tick is taken once and in time, no state is acted on when too old, nobody parks without losses |
| `stranded_floor`, `journal_chain` | | section 7 |

Why the bounds are enough. Two images and two packs at one version let the
floor confuse them, a third at a higher version lets an intent fall behind a floor; two
accepted swaps make a previous policy, so that a rollback
has one to restore and a second commit can interrupt the first, and three events are the
two with a recovery, a rollback or an attestation between them. A queue of one
overflows whenever two nodes broadcast; two rollouts in one life go forth and back,
and a reboot lets a third reuse their numbers. Budget 2 ends a call in the middle of
the flow, and two crashes allow one in the recovery from another. Three children make a
majority (2) differ from any (1) and all (3), and rounding up differ from
rounding down; the nested fan-out makes the stack two deep. Two faults cover a
fault in the scan that repairs the first. Three epochs under a cap of two force one
out while the others are acknowledged, and the second window is as large as the byte
cap, so that both caps work. Two statements make a chain, and three events leave one
for each process and one after a fault. A bound of 3 on the search cuts the loops
that give up after more than one visit, and one of 25 exhausts them; runs of 6 steps
pass every cap of a counter. A clock of 7 instants holds a longest bound of 5, and 7
frames of which the widest window holds three, so that ticks fall out of it.

The bounds that restrict behaviour: `EventBound` and `LogBound` (an append beyond them only
raises), `MaxSeq`, `MaxCrashes`, `MaxFaults`, `MaxRot`, `MaxAcks`, `MaxWindows`,
`MaxEvents`, `MaxStatements`, `MaxTime`; `MaxSteps` is the code's own `max_steps` in
`DurableRun` and a bound on a run in `FlowVerify`; `MaxFields` stands for the code's
limit on fields it enumerates, `RxQueue` is 8 in the firmware. Deadlock is checked except where the modelled
system really stops: a fan-out tree that has ended, a fleet with nothing in flight
and no rollout left, and a run of a verified flow that has ended.

Symmetry: the followers of `mesh_rollout` are interchangeable; that run has no
liveness property.

## 5. Fairness

Four runs check liveness.

- `mesh_reliable` (`RolloutCompletes`): weak fairness of receiving, of the ack
  window and of the flip of each node, because `app_main` polls its queue and its
  deadlines in an endless loop. Operators' commands and reboots are not fair. With
  `Lossy = FALSE` the window outlasts the frames in flight, which the firmware's
  window intends; section 7 says what the loss of a COMMIT does.
- `durable_drivers` (`TimeoutsFire`): weak fairness of the clock and of the
  scheduler's process, which the module's docstring says a deployment runs on a
  tick; a process that called the engine goes on with it until it crashes, and
  crashes are bounded. Operators are not fair.
- `fanout` (`EarnedJoinsAreDelivered`): weak fairness of the one process that
  scans, starts and resumes runs. People and timers are not fair: a join that has
  been earned is delivered although nobody answers again. A worker call that is
  made returns or counts as a fault.
- `epoch_journal` (`AcksFinish`): weak fairness of the restart of a process that is
  down and of the steps of a call that has begun (`Open`, `RemoveOrphan`, `Work`):
  what supervises an edge device restarts it, and a call runs on until it
  returns or crashes. Seals, acknowledgements and the ground are not fair, and
  crashes are bounded.

## 6. Proofs

Each theorem is checked by TLAPS for every value of the constants that satisfies
the named assumptions of its module (and those in its ASSUME).

**PolicyHostProofs.** `TypeCorrect` and `EvidenceBeforeFlip` hold for any number of
processes that swap, attest and crash. The second is inductive with the local
part `HostEvidence`: a process past the evidence step, or one that restores a
record, handles a policy the log already names, and the log only grows. The other results assume
`OneSwapper`, because the code's lock orders the swaps of one process only: `CommitInv` adds to the
properties that an accepted swap at the intent's version is of its image
(`IntentIsUnique`) and what the checks of a swap have established in each phase
(`HostCommit`: the intent it saw is the one on disk, the policy passed the floor,
then the intent is its own, then the floor has reached its version). Without these
a retried commit at an equal version could be another image's, and no property
alone is inductive. From it follow `FloorIsDurableFirst`,
`AcceptanceIsOrdered`, `RetryPassesFloor` and, as an action property,
`FloorIsMonotonic`. `HostKeepsPromise` shows the refinement of `AttestedPolicy`:
every step maps to one of its steps or to a stutter, with `BootInv` (a process
that is starting enforces nothing yet) besides the invariants above.
`FreshHostRestores`, under `OneSwapper` too, has an invariant of its own, `RecordInv`: the
policy a swapping process enforces is the one on record, a process that is about to write
a record has just written its image, and nobody but a swapping process writes the two
files. So the image is that of the record whenever `apart` is false, that is unless a
`_persist_active` was cut between its two writes; then it is the image of another
accepted policy, and a fresh host restores nothing (section 7).

**MeshRolloutProofs.** `MeshTypeCorrect` needs `CollectsStarted`: who collects
acks has started a rollout, so frames carry a number above 0.
`MeshFloorIsMonotonic` needs `StageAboveFloor`: `Flip` does not compare versions, so
what a follower has staged must never be below its floor. It holds for any fleet,
any coordinators, any loss and reboots. `MeshStagesBeforeFlip` assumes one
coordinator and that `EXPECT_ACKS` counts all the others; its invariant
`EarlyOrAcknowledged` says that either every other node has staged B and said so,
or the fleet is still early: every node enforces A with no flip armed, only
PREPAREs and acknowledgements of B are in the queues, and the ack sets name only
nodes that acknowledged B. A window can end the early phase only with as many acks
as there are other nodes, which by cardinality are all of them.

**DurableRunProofs.** `HistoryInvariant` establishes `HistoryInv` for any flow, any
runs, operators and schedulers. `HistoryIsWalk` and `GatesHold` speak of the files
only and are not inductive: a driver saves what it has held in memory since an
earlier load, and with several drivers that may be older than the file. So the
invariant says of memories too what it says of files (`JobGood`): a document about
to be saved is a walk of the flow, ends at its pending node, and passes a gate
(a node whose worker always asks, and that no event leaves) by a person's choice
only. Hence `DurableTypeCorrect`, `DurableHistoryIsWalk`, `DurableGatesHold`: no
interleaving of two drivers, however stale, makes a history that is not one.
`WorkIsAlwaysDurable` and `CheckpointsNeverRewind` speak of one process (section 8), which
is their hypothesis `OneDriver`. Their invariant is `DrivenInv`: what a driver is about to save
continues what the file holds, which is not a run that is over; a worker is called with
just what the file holds; and a run that is over is pending nowhere.
`RunsAreAsIfUninterrupted`, under `OneDriver` too, is the refinement of `UninterruptedRun`: a save is
one of its steps or a stutter, everything else is a stutter. `ServesInv` says why, of what a
driver holds in memory: a document about to be saved begins its run, repeats the history of a file that
is being worked on or was violated, or adds to it one step along an edge that somebody may take; a stop
about to be saved is one that the worker's outcomes allow. With `UnfinishedInv` (a run that is not over is at a node
that does not end it) the resume of a crashed run, which saves its node a second time, is a stutter.

**FanoutProofs.** `IInv` has three parts. `Files`: a run that may go on is at a
node of its own flow. `Stack`: the frames are nested, each in the run of the
child that the one around it polls, all around the run in hand wait at their fan-outs, and a
flag that was seen true is true of the child's file now. `Control`: what each value of `pc` says of the top
frame and of the document in hand. The flags are old when a join is decided, but
a child that is done stays done; so `JoinsAreAlwaysEarned` follows, for any flows, depth and
policies, once flags are counted as children. That count is where its two hypotheses come in.
`DistinctItems`: the ids of one fan-out's items differ, since items of one id are one child counted
twice (a hazard at composer.py:305). `WholeQuorums`: a quorum is a fraction or a whole
number, as the docstring of `_quorum_threshold` says; `int()` cuts 1.5 to 1.
`NothingIsRunTwice` takes a rank of the nodes that every edge and timeout edge raises
(`Forward`: the flow has no cycle, in which a node is of course worked again). Its invariant,
`Calling`, says of each run that may go on that the nodes ranked above its document's are
untouched, and that the pending one is yet to be called or was called in vain, at most as
often as there were faults.

**EpochJournalProofs.** All its theorems assume `NoBareLine`: no crash leaves a line that
lacks only its newline, and an append that raises leaves nothing (`OpensAgain`, which
`AlwaysOpensAgain` proves, has the assumption as its hypothesis). Section 7 shows what
happens without the first part, section 8 what happens without the second. The
invariant relates what is between two writes to what the interrupted call was
about to do: the line of a pending seal, the victim whose gap line is written, the
epochs whose files are to go; and it says that the ground acknowledges only what it
received or was told is lost. From it follow `LossesAreRecorded`,
`AlwaysOpensAgain`, `AcksAreVerified`, `MemoryMatchesDisk` and, as an action property,
`AcksNeverRegress`. `JournalImplementsRetention` is the refinement: every write to a
file is one step of `Retention` or none, and `NoHoleIsSilent` carries the invariant of
`Retention` over to the files.

**SignedLogProofs.** `LogTypeCorrect`, and `Honest`: as long as nobody wrote blindly, the
lines of both files are those some process wrote in order, each process holds a prefix
of them, and each statement signs a prefix of the events and names the statement
before it. That is not inductive without the marks `blind` and the two that explain
it: a process that wrote onto a file it had not read may repeat an index or break a
chain, as section 7 says. `HonestLogsVerify` and `ReceiptsAlwaysCheck` follow from
`Honest` (the second for whoever holds every event the statement signs), and so does
`AnchorsAlwaysStand`: with neither file ending within a line, a
write only adds behind what could be read, and a signer that rewrites the statements it
found torn (`Mends`) takes away the torn line alone if they are still what it read. `WriterIsAlwaysInformed` needs `Known`: as
long as no fault spoiled a file and nobody wrote beside another, a process that is
open holds what it would read now, and one that mends the statements what they hold. `LossIsAlwaysVisible` needs no such condition. Its
invariant, `Accounted`, says that a line that a later append could still be glued to
holds no persisted event, and that the lines no append can be glued to pay for the
losses, one each. `TailIsAlwaysExplained` adds to `Honest` a balance, `Paid`: an event longer the
tail, one more process that signs or one more fault; a statement of an informed
signer covers all there is and leaves no tail; a signer that fails pays with the fault.

**FlowVerifyProofs.** `ProvenUnreachableIsNeverEntered`, for any flow, assumption, bound
and values. The invariant has a depth for each state found (`Depths`); `Queue` says that the
frontier is in order of depth, `Closed` that a state found waits, was cut by the bound, or
has all its moves found too; `Shadows` that the run, with its counters saturated, is at a
state found, no deeper than its steps. Its heart is that a saturated counter decides every
condition as the exact one does (the constants it is compared with are below the cap), so
that a step of the engine is a move of the search whenever the candidates cover what a
worker emits. That they do is the hypothesis `PartitionCovers`, inside `NoMeansNo`.
`CandidatesAlwaysCover` proves it of every node of Level M conditions that does not order a field and also test it
for truth or compare it with True or False (`Mixed`; section 7 has the flows where it fails): for each value of a field there is a candidate that
no literal tells from it, which is the value itself, the fresh string, or a number on the same
side of every constant (`SameSide`). So `NoMeansNoUnlessMixed`: in a flow without such a
node the verdict "unreachable" needs no hypothesis on what workers emit.
`YesIsAlwaysWitnessed` is the converse. `CertainInv` ranks the states that are certain in the order in which they
became so; each was made certain by a parent ranked below it, and neither that parent nor the edge is
replaced later (`Ranked`, `Expanding`), although a state may be found twice and the second time for certain. So the
recursion that reads a witness backwards falls in rank until it is at the start (`BackClimbs`, `WitnessIs`), the counts
of the engine along the witness are those of its states, saturated (`SureHop`), and by the same
argument on caps as above the candidate that took an edge in the search takes it with the exact count. That is
where the hypothesis `PlainCounters`, inside `YesIsWitnessed`, comes in: no condition compares visits with a field (section 7
has the flow where it fails). `VerdictsAreExact` joins the two directions: in a flow of Level M conditions without
other kinds of edges that can be taken, every state found is certain (`SureInv`), so each node is "yes" with a witness or "no" for good.
`StuckIsAlwaysWarned` rests on `NegatedHolds` (of two conditions that the analyzer takes for
opposite one holds, unless they are orders), and `DeadIsAlwaysDead` on `ReachableIs` (the
closure that the parser computes in as many rounds as there are nodes is closed), `ContradictsNever` and
the order of the edges. They assume `FiniteAssumption`, that a flow has finitely many nodes and that
workers emit values, and that no constant of a flow is the verifier's own fresh string (`Constant`, in `Literal`).

**RefreshedStreamProofs.** `WindowAlwaysExact` and `StalenessIsBounded`, for every profile,
delay and length of time. The invariant says that the mask is what was admitted, seen
from the top (`Admitting`), that a frame carries the state its sender had when it was
sent (`Sending`), and that the frame mirrored arrived at most the delay after that
(`Mirroring`): a repeated frame that was once admitted or has fallen out of the window is refused for good,
so what is mirrored is never a late repetition. `ParksAlwaysOnLoss` adds `Spacing`: the times
of the frames go up, every cadence of instants has a frame, and a frame below the top
was sent no later than one that was accepted. So the instants since the last arrival hold disjoint
cadences with a frame each, and the pigeonhole principle counts those that were lost.

Only model-checked: the liveness properties (`AcksFinish`, `EarnedJoinsAreDelivered`,
`RolloutCompletes`, `TimeoutsFire`), since fairness and ENABLED are outside what the proof
system handles. Every other property of the runs that pass is stated by a theorem. Proved and in no run: the type invariants of
`MeshRollout` and `SignedLog`, `FloorIsMonotonic`, `AcksNeverRegress`, `NoHoleIsSilent`, `NeverRewinds` (which
`AsIfUninterrupted` implies), `NoMeansNoUnlessMixed` and `VerdictsAreExact`. A recursive
function over naturals, such as the rounds of `Reachable` or the way `Back` to the start, is handled by least
counterexamples (`Least`, `UpTo`), which need no induction scheme.

## 7. Where the code and its documentation disagree

Two runs show a violation.

- `stranded_floor`: `swap()` overwrites the only intent record (policy_host.py:246)
  before its own floor and evidence are written. An interrupted swap has raised the
  floor; a second attempt, with another pack, replaces the record and fails; the first pack's version
  is now the floor, no acceptance explains it, and the pack is refused for good.
  The comment at line 110 says such a crash "does not strand a legitimate policy
  behind its own floor".
- `journal_chain`: a crash that leaves a chain line complete but for its newline is
  accepted at the restart (epoch_journal.py:79) and the next line is glued to it. The
  restart after that discards the one unreadable line, hence two epochs, and removes
  their data as orphans. The docstring (line 76) says a torn final line is discarded and reported, and
  epochs.py:81 that the chain is "kept forever". If one more epoch is sealed before that
  restart, the unreadable line is in mid-file and the start raises `JournalCorrupt`
  (line 135): with the constants of this run TLC finds `pc # "refused"` violated, which is
  why `OpensAgain` is claimed under `NoBareLine` only.

Found while modelling, without a run of their own:

- `_persist_active` replaces the image before the record (policy_host.py:155); when
  the second write fails the two disagree and a later process starts with no policy.
  The docstring (line 9) promises "no partial state". `FreshHostRestoresActive` excepts
  just this (`apart`); without the exception TLC finds it violated.
- COMMIT is broadcast once (ppt_mesh.c:495) and neither acknowledged nor repeated; a
  follower that misses it stays behind with nothing in flight. The header (line 10)
  says "all-or-nothing".
- A child's file is named by its parent's file and its item (composer.py:305), not by
  the fan-out node; a second fan-out of one run over the same items joins on the
  first one's children without running its own child flow. The docstring (lines
  243-246) says that what was checked is what runs. Equal items of one fan-out share a
  file but count once each: quorum:2 of [a, a, b] joins on one child.
- A gap that a later acknowledgement covers is no longer among the marked epochs of a
  restarted process (epoch_journal.py:185); its line stays in the file.
- `AckReceiver` raises `last_seq` before the store has looked at the root
  (ackchannel.py:50): a signed acknowledgement of a root the store does not know is
  answered "accepted" and uses up its number.
- The candidates of the verifier (model_check.py:105) miss -1 when a field is both tested for truth and
  compared with 1: `when x < 1 and x` is true of -1 and of none of them, and the target is reported
  unreachable for all bounds. Likewise of booleans: Level M admits them as constants (level_m.py:37-39), but the
  numbers that get neighbours leave them out (model_check.py:104), so that `when x > True`, and
  `when x > 0 and x != True`, are true of 2 and of no candidate. The docstring (lines 100-101) says that the candidates hit
  "every truth-region a Level M atom set can carve out of one field's value space". `CandidatesCover` excepts
  such mixed nodes; TLC finds it violated when `Mixed` leaves out the boolean constants, ordered ones or others.
- The cap of a counter is computed from the constants of the conditions that read visits
  (model_check.py:256-268), and a comparison with a field has none. Where a node a has `when visits < x -> b`, b
  has `when visits > 2 -> c` and then `else -> a`, and `x <= 3` is assumed, the counter of a stops at 2, and `c` is reported
  reachable with every hop certain, although the third hop needs 3 < x. The docstring says that a
  certain hop is "proven with a concrete example outcome" (line 24) and that "`visits` counters are modeled
  exactly" (line 27). `YesIsWitnessed` excepts such flows (`PlainCounters`); TLC finds `WitnessesReplay`, the same without the
  exception, violated when `Questions` is `MCRaces`.
- The analyzer counts `x < 5` and `x >= 5` as exhaustive (analysis.py:94); a missing
  field satisfies neither and the node halts as stuck without a warning.
  `StuckIsWarned` excepts such pairs.
- A run resumed after a contract violation counts the visit of its node once more.
- `AuditLog` says that a failed append committed nothing (audit_log.py:15-18); a write
  that fails after its bytes reached the file, or an fsync that fails, leaves the line, and
  the next append repeats its index. A statement that lacks its newline is glued to the
  next one, and both then pass for an interrupted write. A `RootSigner` that cannot be
  opened (lines 127-128) raises a bare OSError instead of the error that says the event was
  persisted. `SignedLog` models all of these; its marks say when they happened.
- A `RootSigner` that finds the last statement torn reads the file again and replaces it
  (root_statement.py:324-330). A statement another process appends between the second read
  and the replacement is erased, and one that lacks its newline when the file is read
  again is dropped; a reader of the log finds nothing wrong. The mark `blind` covers it: with
  the mark taken out of `Rewrite`, TLC finds `AnchorsStand` violated.
- A process that bundles a receipt takes the path in the tree of the events it holds
  (line 468). When the first statement that covers the receipt signs more events than
  that, the bundle is invalid, where the docstring (lines 460-462) promises everything a
  reader needs, or a LookupError. `ReceiptsCheck` excepts such a process.
- I6 (PROTOCOL.md:319) bounds the age of an acting state by `refresh_stale_ms`, but
  refresh.py counts from the receipt (line 63), so the bound that holds includes the delay of
  a frame. With a reorder tolerance an older frame that is still in the window also replaces a newer state; the bound still holds.

## 8. Limits of the models

Of the modelled parts:

- `PolicyHost`: two processes that swap at once are outside the assumptions of the
  ordering results (the lock is per process, and the floor could be lowered);
  packs are not rewritten while a swap reads them; the fields of the audit events
  other than digest and version are left out, and so is that `_recovery_recorded`
  is never reset within a process's life.
- `MeshRollout`: NVS writes succeed; `rollout_seq` stays below the 16-bit wrap; the
  coordinator's own floor, which a roll back lowers, is not claimed to be monotonic;
  the register machine and the signature are outside. A node's `floor_save` ignores an NVS error (line 258), and a
  COMMIT numbered 0 after the wrap would match a node with nothing staged.
- `DurableRun`: two drivers at one run need the lease that scheduler.py leaves to a
  production scheduler, so `AsIfUninterrupted` and `WorkIsDurable` are checked with one
  process; a scan may time out a run that has moved on to its next wait in between;
  a timed wait without a timeout edge, which ends every scan, is left out; so are
  authorization, edits of a flow file, windowed transcripts and states that do not
  serialize; an event edge out of a node makes it no gate.
- `Fanout`: one process scans, and the timer scan comes between two scans; items
  are distinct (duplicates share a file but count once each); quorums are exact
  fractions, while the code multiplies floats (0.28 of 25 asks for 8);
  a worker that always raises keeps the children after it from being polled, and is
  covered only as far as `MaxFaults`; timers of children are never scanned, by the code; the gate
  field is read from any node's outcome of the child.

- `EpochJournal`: an append that raises after its whole line reached the file
  leaves memory one epoch short; the next seal repeats the number and the next start
  refuses the chain. `Failures` leaves it out, and `NoBareLine` excludes it. Signatures of acknowledgements
  are ideal, and root statements are `SignedLog`'s.
- `SignedLog`: one instance key; a log without a path is left out; the events that
  `append` was given are told apart by a number.
- `FlowVerify`: edges to nodes that do not exist, choices of a person and the type
  gate are left out; `or` is two edges and `in` is equalities; findings on cycles,
  annotations and composition are not modelled.
- `RefreshedStream`: the sender looks at its state once an instant and never
  restarts (ticks would begin again, and the window would refuse them all until the
  old top is passed); the network forgets nothing it delivered once; transitions are a
  flag.

Not modelled: the components of section 1 that section 2 plans for, and

- the parser, contracts, lint, register machine, RTL and adapters:
  deterministic functions that the repository certifies against shared corpora
  in every language;
- routing: arithmetic on embeddings; whatever it decides is a free choice in
  `DurableRun`;
- safety guards: stateless checks of text and commands;
- mission control, CLI, language server: they delegate to the parts above;
- sprint orchestration and the other ledgers: they drive external agents, git and
  anchoring services, whose failures are theirs;
- cryptography: signatures and digests are ideal; keys are not modelled.

## 9. Running

    tlc -workers 2 -config PolicyHost.cfg MCPolicyHost
    tlapm PolicyHostProofs.tla

A configuration is named after its module or after the question it asks, and goes
with the module `MC...` that PROJECT.json names. Each run takes between a few seconds and
two minutes on two cores; the eight `*Proofs` modules take a few minutes together.

PROJECT.json lists every run with its module and configuration, the lines of code
each definition stands for, the hazards and the theorems.
