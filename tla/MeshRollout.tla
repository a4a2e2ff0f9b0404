---------------------------- MODULE MeshRollout ----------------------------
(***************************************************************************)
(* The two-phase policy rollout of the ESP-NOW mesh                        *)
(* (prismpath-hw/mesh/main/ppt_mesh.c).  A node poked over USB becomes the *)
(* coordinator of one rollout: it broadcasts the pack of the other policy  *)
(* (PREPARE), collects ACKs for a window, and broadcasts COMMIT if it has  *)
(* enough of them; every node that staged the rollout flips after a delay. *)
(*                                                                         *)
(* Radio: a broadcast is heard by any subset of the other nodes, once, and *)
(* a frame that finds the receive queue full is dropped.  Time: the ACK    *)
(* window and the flip delay may end at any moment.  Each pass of the      *)
(* node's loop handles a command, the queued frames, the window and the    *)
(* flip; each is an action, because frames and deadlines fall in any order *)
(* between passes.  A pack is its policy: the table, version and signature *)
(* travel together, and Bad stands for a pack whose signature is wrong.    *)
(***************************************************************************)
EXTENDS Integers, Sequences, FiniteSets

CONSTANTS
    Nodes,
    Coordinators,        \* nodes an operator pokes with 'R'
    Testers,             \* nodes an operator pokes with 'T', 'W' or 'Z'
    PolicyA, PolicyB,    \* the two packs baked into every node
    Bad,                 \* a pack that does not verify
    VersionA, VersionB,
    ExpectAcks,          \* EXPECT_ACKS
    RxQueue,             \* slots of the receive queue (8 in the code)
    MaxSeq,              \* bound on rollout_seq between two reboots
    Lossy,               \* radio loses frames, and the window may close early
    Reboots              \* nodes that may lose power

ASSUME RolesAssumption ==
    IsFiniteSet(Nodes) /\ Coordinators \cup Testers \cup Reboots \subseteq Nodes
ASSUME PacksAssumption ==
    /\ PolicyA # PolicyB /\ Bad \notin {PolicyA, PolicyB}
    /\ VersionA \in Nat \ {0} /\ VersionB \in Nat \ {0}
ASSUME BoundsAssumption == {ExpectAcks, RxQueue, MaxSeq} \subseteq Nat
ASSUME RadioAssumption == Lossy \in BOOLEAN

Policies == {PolicyA, PolicyB}
Version(p) == IF p = PolicyA THEN VersionA ELSE VersionB
Target(p) == IF p = PolicyA THEN PolicyB ELSE PolicyA

\* A frame carries seq and, in a PREPARE, the pack; in an ACK, its sender.
\* The other fields of src and pol are for the properties alone: who sent it,
\* and which policy an ACK or a COMMIT is about.
Frames == [type : {"prepare", "ack", "commit"}, src : Nodes,
           seq : Nat \ {0}, pol : Policies \cup {Bad}]

\* Nodes that no operator pokes.
Followers == Nodes \ (Coordinators \cup Testers)

VARIABLES
    active,   \* the policy each node enforces
    floor,    \* version_floor, in NVS
    staged,   \* staged_id with staged_version, and staged_seq; 0 when none
    armed,    \* flip_at_us is set
    seq,      \* rollout_seq
    coord,    \* the node is collecting ACKs
    acked,    \* the nodes it has heard from
    inbox,    \* rxq
    sent      \* every frame ever broadcast (history)

vars == <<active, floor, staged, armed, seq, coord, acked, inbox, sent>>

NoStage == [pol |-> PolicyA, seq |-> 0]

Init ==
    /\ active = [n \in Nodes |-> PolicyA]
    /\ floor = [n \in Nodes |-> 0]
    /\ staged = [n \in Nodes |-> NoStage]
    /\ armed = [n \in Nodes |-> FALSE]
    /\ seq = [n \in Nodes |-> 0]
    /\ coord = [n \in Nodes |-> FALSE]
    /\ acked = [n \in Nodes |-> {}]
    /\ inbox = [n \in Nodes |-> <<>>]
    /\ sent = {}

-----------------------------------------------------------------------------
(* The radio.                                                              *)

\* The receive queues after each node of hearers was offered frame f.
Offer(queues, hearers, f) ==
    [m \in Nodes |-> IF m \in hearers /\ Len(queues[m]) < RxQueue
                     THEN Append(queues[m], f) ELSE queues[m]]

\* A node never hears its own broadcast.
Broadcast(queues, n, f) ==
    /\ sent' = sent \cup {f}
    /\ \E hearers \in SUBSET (Nodes \ {n}) :
        /\ Lossy \/ hearers = Nodes \ {n}
        /\ inbox' = Offer(queues, hearers, f)

\* The frame n takes from its queue.
Arrived(n, type) == inbox[n] # <<>> /\ Head(inbox[n]).type = type
Rest(n) == [inbox EXCEPT ![n] = Tail(@)]

-----------------------------------------------------------------------------
(* Commands over USB.                                                      *)

\* 'R': propose the other policy; the coordinator stages it without a check.
StartRollout(n) ==
    LET target == Target(active[n]) IN
    /\ n \in Coordinators
    /\ seq[n] < MaxSeq
    /\ seq' = [seq EXCEPT ![n] = @ + 1]
    /\ staged' = [staged EXCEPT ![n] = [pol |-> target, seq |-> seq[n] + 1]]
    /\ acked' = [acked EXCEPT ![n] = {}]
    /\ coord' = [coord EXCEPT ![n] = TRUE]
    /\ Broadcast(inbox, n,
         [type |-> "prepare", src |-> n, seq |-> seq[n] + 1, pol |-> target])
    /\ UNCHANGED <<active, floor, armed>>

\* 'T' and 'W': broadcast a pack that every node must refuse.
InjectBad(n) ==
    /\ n \in Testers
    /\ seq[n] < MaxSeq
    /\ seq' = [seq EXCEPT ![n] = @ + 1]
    /\ Broadcast(inbox, n,
         [type |-> "prepare", src |-> n, seq |-> seq[n] + 1, pol |-> Bad])
    /\ UNCHANGED <<active, floor, staged, armed, coord, acked>>

\* 'Z': a fresh certification run.
ResetFloor(n) ==
    /\ n \in Testers
    /\ floor' = [floor EXCEPT ![n] = 0]
    /\ UNCHANGED <<active, staged, armed, seq, coord, acked, inbox, sent>>

-----------------------------------------------------------------------------
(* Frames.                                                                 *)

\* Mutant of Fresh: the signature is enough.
Verified(n, p) == p # Bad

Fresh(n, p) == p # Bad /\ Version(p) > floor[n]

\* A pack that verifies and is above the floor is staged and acknowledged,
\* over whatever was staged before.
ReceivePrepare(n) ==
    LET f == Head(inbox[n]) IN
    /\ Arrived(n, "prepare")
    /\ \/ /\ Fresh(n, f.pol)
          /\ staged' = [staged EXCEPT ![n] = [pol |-> f.pol, seq |-> f.seq]]
          /\ Broadcast(Rest(n), n,
               [type |-> "ack", src |-> n, seq |-> f.seq, pol |-> f.pol])
       \/ /\ ~Fresh(n, f.pol)
          /\ inbox' = Rest(n)
          /\ UNCHANGED <<staged, sent>>
    /\ UNCHANGED <<active, floor, armed, seq, coord, acked>>

ReceiveAck(n) ==
    LET f == Head(inbox[n]) IN
    /\ Arrived(n, "ack")
    /\ acked' = [acked EXCEPT ![n] =
                    IF coord[n] /\ f.seq = seq[n] THEN @ \cup {f.src} ELSE @]
    /\ inbox' = Rest(n)
    /\ UNCHANGED <<active, floor, staged, armed, seq, coord, sent>>

ReceiveCommit(n) ==
    /\ Arrived(n, "commit")
    /\ armed' = [armed EXCEPT ![n] = @ \/ Head(inbox[n]).seq = staged[n].seq]
    /\ inbox' = Rest(n)
    /\ UNCHANGED <<active, floor, staged, seq, coord, acked, sent>>

-----------------------------------------------------------------------------
(* Deadlines.                                                              *)

\* Mutant of Enough: one acknowledgement short.
AllButOne(n) == Cardinality(acked[n]) >= ExpectAcks - 1

Enough(n) == Cardinality(acked[n]) >= ExpectAcks

\* Mutant of CloseWindow: the coordinator, which hears no broadcast of its own,
\* waits for its own COMMIT.
CommitToOthers(n) ==
    /\ coord[n]
    /\ Lossy \/ \A m \in Nodes : inbox[m] = <<>>
    /\ coord' = [coord EXCEPT ![n] = FALSE]
    /\ \/ /\ Enough(n)
          /\ Broadcast(inbox, n,
               [type |-> "commit", src |-> n, seq |-> seq[n], pol |-> staged[n].pol])
       \/ ~Enough(n) /\ UNCHANGED <<inbox, sent>>
    /\ UNCHANGED <<active, floor, staged, armed, seq, acked>>

\* The ACK window ends: COMMIT, or ABORT, which tells nobody.
CloseWindow(n) ==
    /\ coord[n]
    /\ Lossy \/ \A m \in Nodes : inbox[m] = <<>>
    /\ coord' = [coord EXCEPT ![n] = FALSE]
    /\ \/ /\ Enough(n)
          /\ armed' = [armed EXCEPT ![n] = TRUE]
          /\ Broadcast(inbox, n,
               [type |-> "commit", src |-> n, seq |-> seq[n], pol |-> staged[n].pol])
       \/ ~Enough(n) /\ UNCHANGED <<armed, inbox, sent>>
    /\ UNCHANGED <<active, floor, staged, seq, acked>>

\* The flip installs what is staged now and makes its version the floor.
Flip(n) ==
    /\ armed[n]
    /\ armed' = [armed EXCEPT ![n] = FALSE]
    /\ active' = [active EXCEPT ![n] = staged[n].pol]
    /\ floor' = [floor EXCEPT ![n] = Version(staged[n].pol)]
    /\ UNCHANGED <<staged, seq, coord, acked, inbox, sent>>

\* Only the floor is in NVS; a node comes up on the baked policy A.
Reboot(n) ==
    /\ n \in Reboots
    /\ active' = [active EXCEPT ![n] = PolicyA]
    /\ staged' = [staged EXCEPT ![n] = NoStage]
    /\ armed' = [armed EXCEPT ![n] = FALSE]
    /\ seq' = [seq EXCEPT ![n] = 0]
    /\ coord' = [coord EXCEPT ![n] = FALSE]
    /\ acked' = [acked EXCEPT ![n] = {}]
    /\ inbox' = [inbox EXCEPT ![n] = <<>>]
    /\ UNCHANGED <<floor, sent>>

-----------------------------------------------------------------------------
Command(n)  == StartRollout(n) \/ InjectBad(n) \/ ResetFloor(n)
Receive(n)  == ReceivePrepare(n) \/ ReceiveAck(n) \/ ReceiveCommit(n)
Deadline(n) == CloseWindow(n) \/ Flip(n)

Next == \E n \in Nodes : Command(n) \/ Receive(n) \/ Deadline(n) \/ Reboot(n)

Spec == Init /\ [][Next]_vars

\* The node's loop polls its queue and its deadlines forever.
Fairness == \A n \in Nodes : WF_vars(Receive(n)) /\ WF_vars(CloseWindow(n)) /\ WF_vars(Flip(n))

FairSpec == Spec /\ Fairness

-----------------------------------------------------------------------------
(* Properties.                                                             *)

\* Every node's state and every frame is of its kind.
TypeOK ==
    /\ active \in [Nodes -> Policies]
    /\ floor \in [Nodes -> Nat]
    /\ staged \in [Nodes -> [pol : Policies, seq : Nat]]
    /\ armed \in [Nodes -> BOOLEAN]
    /\ seq \in [Nodes -> Nat]
    /\ coord \in [Nodes -> BOOLEAN]
    /\ acked \in [Nodes -> SUBSET Nodes]
    /\ inbox \in [Nodes -> Seq(Frames)]
    /\ sent \subseteq Frames

\* Anti-rollback on a node that only follows: through loss, reboots, aborted
\* rollouts and a stage overwritten while a flip is armed, its floor never
\* falls, although the flip does not compare versions again.
FollowerFloorNeverFalls ==
    [][\A n \in Followers : floor'[n] >= floor[n]]_vars

\* The safe half of all-or-nothing (lines 10-12): while one node coordinates,
\* no node enforces policy B before every other node has staged it and said so.
AllStagedFirst ==
    (\E n \in Nodes : active[n] = PolicyB) =>
        \A m \in Nodes \ Coordinators :
            \E f \in sent : f.type = "ack" /\ f.src = m /\ f.pol = PolicyB

\* A rollout that everybody hears and answers in time reaches every node.
RolloutCompletes ==
    \A c \in Nodes : coord[c] /\ staged[c].pol = PolicyB
                        ~> \A n \in Nodes : active[n] = PolicyB
=============================================================================
