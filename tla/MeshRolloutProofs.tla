------------------------- MODULE MeshRolloutProofs -------------------------
(***************************************************************************)
(* What a rollout guarantees for any fleet and any packs: followers' floors *)
(* never fall, and a single coordinator that waits for every other node     *)
(* spreads no policy that some node has not staged.                         *)
(***************************************************************************)
EXTENDS MeshRollout, FiniteSetTheorems, TLAPS

-----------------------------------------------------------------------------
(* Receive queues.                                                         *)

\* Every frame of m's queue after is in its queue before, or is frame f that
\* another node, n, broadcast.
QueuedBefore(m, n, f, before, after) ==
    \A i \in 1 .. Len(after[m]) :
        \/ \E j \in 1 .. Len(before[m]) : after[m][i] = before[m][j]
        \/ m # n /\ after[m][i] = f

\* Offering a frame to any nodes but the sender keeps the queues queues, and
\* adds nothing but that frame (on_recv).
LEMMA OfferAdds ==
    ASSUME NEW queues \in [Nodes -> Seq(Frames)], NEW n \in Nodes,
           NEW hearers \in SUBSET (Nodes \ {n}), NEW f \in Frames
    PROVE  /\ Offer(queues, hearers, f) \in [Nodes -> Seq(Frames)]
           /\ \A m \in Nodes : QueuedBefore(m, n, f, queues, Offer(queues, hearers, f))
<1> DEFINE after == Offer(queues, hearers, f)
<1>1. \A m \in Nodes : after[m] = queues[m] \/ (m # n /\ after[m] = Append(queues[m], f))
  BY DEF Offer
<1>2. after \in [Nodes -> Seq(Frames)]
  BY DEF Offer
<1>3. ASSUME NEW m \in Nodes PROVE QueuedBefore(m, n, f, queues, after)
  <2>1. CASE after[m] = queues[m]
    BY <2>1 DEF QueuedBefore
  <2>2. CASE m # n /\ after[m] = Append(queues[m], f)
    <3> SUFFICES ASSUME NEW i \in 1 .. Len(after[m])
                 PROVE  \/ \E j \in 1 .. Len(queues[m]) : after[m][i] = queues[m][j]
                        \/ m # n /\ after[m][i] = f
      BY DEF QueuedBefore
    <3>1. Len(after[m]) = Len(queues[m]) + 1 /\ queues[m] \in Seq(Frames)
      BY <2>2
    <3>2. CASE i = Len(queues[m]) + 1
      BY <2>2, <3>1, <3>2
    <3>3. CASE i # Len(queues[m]) + 1
      <4>1. i \in 1 .. Len(queues[m])
        BY <3>1, <3>3
      <4>2. after[m][i] = queues[m][i]
        BY <2>2, <3>1, <4>1
      <4> QED BY <4>1, <4>2
    <3> QED BY <3>2, <3>3
  <2> QED BY <1>1, <2>1, <2>2
<1> HIDE DEF after
<1> QED BY <1>2, <1>3 DEF after

\* Taking a frame removes it and nothing else (xQueueReceive).
LEMMA RestRemoves ==
    ASSUME inbox \in [Nodes -> Seq(Frames)], NEW n \in Nodes, inbox[n] # <<>>
    PROVE  /\ Rest(n) \in [Nodes -> Seq(Frames)]
           /\ Head(inbox[n]) \in Frames
           /\ Head(inbox[n]) = inbox[n][1] /\ 1 \in 1 .. Len(inbox[n])
           /\ \A m \in Nodes : \A i \in 1 .. Len(Rest(n)[m]) :
                 \E j \in 1 .. Len(inbox[m]) : Rest(n)[m][i] = inbox[m][j]
<1>1. inbox[n] \in Seq(Frames) /\ Len(inbox[n]) \in Nat /\ Len(inbox[n]) >= 1
  OBVIOUS
<1>2. Rest(n) \in [Nodes -> Seq(Frames)]
  BY DEF Rest
<1>3. Head(inbox[n]) \in Frames /\ Head(inbox[n]) = inbox[n][1]
  BY <1>1
<1>4. ASSUME NEW m \in Nodes, NEW i \in 1 .. Len(Rest(n)[m])
      PROVE  \E j \in 1 .. Len(inbox[m]) : Rest(n)[m][i] = inbox[m][j]
  <2>1. CASE m = n
    <3>1. Rest(n)[n] = Tail(inbox[n]) /\ Len(Tail(inbox[n])) = Len(inbox[n]) - 1
      BY <1>1 DEF Rest
    <3>2. i + 1 \in 1 .. Len(inbox[n]) /\ Tail(inbox[n])[i] = inbox[n][i + 1]
      BY <1>1, <2>1, <3>1
    <3> QED BY <2>1, <3>1, <3>2
  <2>2. CASE m # n
    BY <2>2 DEF Rest
  <2> QED BY <2>1, <2>2
<1> QED BY <1>1, <1>2, <1>3, <1>4

-----------------------------------------------------------------------------
(* Types.  A frame carries a rollout number above 0 because a node that     *)
(* collects acknowledgements has started a rollout.                         *)

CollectsStarted == \A n \in Nodes : coord[n] => n \in Coordinators /\ seq[n] # 0

TypeInv == TypeOK /\ CollectsStarted

LEMMA TargetIsPolicy == ASSUME NEW p \in Policies PROVE Target(p) \in Policies
BY DEF Target, Policies

LEMMA VersionIsPositive == ASSUME NEW p PROVE Version(p) \in Nat \ {0}
BY PacksAssumption DEF Version

LEMMA TypeInit == Init => TypeInv
BY DEF Init, TypeInv, TypeOK, CollectsStarted, NoStage, Policies, Frames

LEMMA TypeNext == TypeInv /\ [Next]_vars => TypeInv'
<1> SUFFICES ASSUME TypeInv, [Next]_vars PROVE TypeInv'
  OBVIOUS
<1> USE DEF TypeInv, TypeOK
<1>1. ASSUME NEW n \in Nodes, StartRollout(n) PROVE TypeInv'
  <2> DEFINE f == [type |-> "prepare", src |-> n, seq |-> seq[n] + 1, pol |-> Target(active[n])]
  <2>1. Target(active[n]) \in Policies /\ seq[n] + 1 \in Nat \ {0}
    BY TargetIsPolicy
  <2>2. f \in Frames
    BY <2>1 DEF Frames
  <2>3. PICK hearers \in SUBSET (Nodes \ {n}) :
           sent' = sent \cup {f} /\ inbox' = Offer(inbox, hearers, f)
    BY <1>1 DEF StartRollout, Broadcast
  <2> HIDE DEF f
  <2>4. inbox' \in [Nodes -> Seq(Frames)] /\ sent' \subseteq Frames
    BY <2>2, <2>3, OfferAdds
  <2>5. TypeOK'
    BY <1>1, <2>1, <2>4 DEF StartRollout
  <2>6. CollectsStarted'
    BY <1>1, <2>1 DEF StartRollout, CollectsStarted
  <2> QED BY <2>5, <2>6
<1>2. ASSUME NEW n \in Nodes, InjectBad(n) PROVE TypeInv'
  <2> DEFINE f == [type |-> "prepare", src |-> n, seq |-> seq[n] + 1, pol |-> Bad]
  <2>1. seq[n] + 1 \in Nat \ {0} /\ f \in Frames
    BY DEF Frames
  <2>2. PICK hearers \in SUBSET (Nodes \ {n}) :
           sent' = sent \cup {f} /\ inbox' = Offer(inbox, hearers, f)
    BY <1>2 DEF InjectBad, Broadcast
  <2> HIDE DEF f
  <2>3. inbox' \in [Nodes -> Seq(Frames)] /\ sent' \subseteq Frames
    BY <2>1, <2>2, OfferAdds
  <2>4. TypeOK'
    BY <1>2, <2>1, <2>3 DEF InjectBad
  <2>5. CollectsStarted'
    BY <1>2, <2>1 DEF InjectBad, CollectsStarted
  <2> QED BY <2>4, <2>5
<1>3. ASSUME NEW n \in Nodes, ResetFloor(n) PROVE TypeInv'
  BY <1>3 DEF ResetFloor, CollectsStarted
<1>4. ASSUME NEW n \in Nodes, ReceivePrepare(n) PROVE TypeInv'
  <2> DEFINE f == Head(inbox[n])
             a == [type |-> "ack", src |-> n, seq |-> f.seq, pol |-> f.pol]
  <2>1. f \in Frames /\ Rest(n) \in [Nodes -> Seq(Frames)]
    BY <1>4, RestRemoves DEF ReceivePrepare, Arrived
  <2>2. CASE Fresh(n, f.pol)
    <3>1. f.pol \in Policies /\ f.seq \in Nat \ {0} /\ a \in Frames
      BY <2>1, <2>2 DEF Fresh, Frames
    <3>2. staged' \in [Nodes -> [pol : Policies, seq : Nat]]
      <4>1. [pol |-> f.pol, seq |-> f.seq] \in [pol : Policies, seq : Nat]
        BY <3>1
      <4> QED BY <1>4, <2>2, <4>1 DEF ReceivePrepare
    <3>3. PICK hearers \in SUBSET (Nodes \ {n}) :
             sent' = sent \cup {a} /\ inbox' = Offer(Rest(n), hearers, a)
      BY <1>4, <2>2 DEF ReceivePrepare, Broadcast
    <3> HIDE DEF a
    <3>4. inbox' \in [Nodes -> Seq(Frames)] /\ sent' \subseteq Frames
      BY <2>1, <3>1, <3>3, OfferAdds
    <3> QED BY <1>4, <3>2, <3>4 DEF ReceivePrepare, CollectsStarted
  <2>3. CASE ~Fresh(n, f.pol)
    BY <1>4, <2>1, <2>3 DEF ReceivePrepare, CollectsStarted
  <2> QED BY <2>2, <2>3
<1>5. ASSUME NEW n \in Nodes, ReceiveAck(n) PROVE TypeInv'
  <2>1. Head(inbox[n]) \in Frames /\ Rest(n) \in [Nodes -> Seq(Frames)]
    BY <1>5, RestRemoves DEF ReceiveAck, Arrived
  <2>2. Head(inbox[n]).src \in Nodes
    BY <2>1 DEF Frames
  <2>3. acked' \in [Nodes -> SUBSET Nodes]
    BY <1>5, <2>2 DEF ReceiveAck
  <2> QED BY <1>5, <2>1, <2>3 DEF ReceiveAck, CollectsStarted
<1>6. ASSUME NEW n \in Nodes, ReceiveCommit(n) PROVE TypeInv'
  <2>1. Rest(n) \in [Nodes -> Seq(Frames)]
    BY <1>6, RestRemoves DEF ReceiveCommit, Arrived
  <2> QED BY <1>6, <2>1 DEF ReceiveCommit, CollectsStarted
<1>7. ASSUME NEW n \in Nodes, CloseWindow(n) PROVE TypeInv'
  <2> DEFINE f == [type |-> "commit", src |-> n, seq |-> seq[n], pol |-> staged[n].pol]
  <2>1. CASE Enough(n)
    <3>1. f \in Frames
      BY <1>7 DEF CloseWindow, CollectsStarted, Frames
    <3>2. PICK hearers \in SUBSET (Nodes \ {n}) :
             sent' = sent \cup {f} /\ inbox' = Offer(inbox, hearers, f)
      BY <1>7, <2>1 DEF CloseWindow, Broadcast
    <3> HIDE DEF f
    <3>3. inbox' \in [Nodes -> Seq(Frames)] /\ sent' \subseteq Frames
      BY <3>1, <3>2, OfferAdds
    <3> QED BY <1>7, <2>1, <3>3 DEF CloseWindow, CollectsStarted
  <2>2. CASE ~Enough(n)
    BY <1>7, <2>2 DEF CloseWindow, CollectsStarted
  <2> QED BY <2>1, <2>2
<1>8. ASSUME NEW n \in Nodes, Flip(n) PROVE TypeInv'
  <2>1. Version(staged[n].pol) \in Nat
    BY VersionIsPositive
  <2> QED BY <1>8, <2>1 DEF Flip, CollectsStarted
<1>9. ASSUME NEW n \in Nodes, Reboot(n) PROVE TypeInv'
  <2>1. NoStage \in [pol : Policies, seq : Nat] /\ PolicyA \in Policies
    BY DEF NoStage, Policies
  <2>2. <<>> \in Seq(Frames)
    OBVIOUS
  <2> QED BY <1>9, <2>1, <2>2 DEF Reboot, CollectsStarted
<1>10. CASE UNCHANGED vars
  BY <1>10 DEF vars, CollectsStarted
<1> QED
  BY <1>1, <1>2, <1>3, <1>4, <1>5, <1>6, <1>7, <1>8, <1>9, <1>10
     DEF Next, Command, Receive, Deadline

\* Every node's state and every frame is of its kind, in every fleet.
THEOREM MeshTypeCorrect == Spec => []TypeOK
<1>1. TypeInv => TypeOK
  BY DEF TypeInv
<1> QED BY <1>1, TypeInit, TypeNext, PTL DEF Spec

-----------------------------------------------------------------------------
(* A follower's floor.  The flip installs whatever is staged without        *)
(* comparing versions, so what matters is that nothing staged is ever below *)
(* the floor: a stage is checked when it is made, only its own flip raises  *)
(* the floor, and a COMMIT cannot arm an empty stage.                       *)

StageAboveFloor ==
    \A n \in Followers :
        /\ armed[n] => staged[n].seq # 0
        /\ staged[n].seq # 0 => Version(staged[n].pol) >= floor[n]

LEMMA StageInit == Init => StageAboveFloor
BY DEF Init, StageAboveFloor, Followers, NoStage

LEMMA StageNext == TypeInv /\ StageAboveFloor /\ [Next]_vars => StageAboveFloor'
<1> SUFFICES ASSUME TypeInv, StageAboveFloor, [Next]_vars PROVE StageAboveFloor'
  OBVIOUS
<1> USE DEF TypeInv, TypeOK, StageAboveFloor, Followers
<1>1. ASSUME NEW n \in Nodes, StartRollout(n) PROVE StageAboveFloor'
  BY <1>1 DEF StartRollout
<1>2. ASSUME NEW n \in Nodes, InjectBad(n) PROVE StageAboveFloor'
  BY <1>2 DEF InjectBad
<1>3. ASSUME NEW n \in Nodes, ResetFloor(n) PROVE StageAboveFloor'
  BY <1>3 DEF ResetFloor
<1>4. ASSUME NEW n \in Nodes, ReceivePrepare(n) PROVE StageAboveFloor'
  <2> DEFINE f == Head(inbox[n])
  <2>1. f \in Frames
    BY <1>4, RestRemoves DEF ReceivePrepare, Arrived
  <2>2. CASE Fresh(n, f.pol)
    <3>1. f.seq # 0 /\ Version(f.pol) \in Nat /\ Version(f.pol) >= floor[n]
      BY <2>1, <2>2, VersionIsPositive DEF Fresh, Frames
    <3>2. staged' = [staged EXCEPT ![n] = [pol |-> f.pol, seq |-> f.seq]]
      BY <1>4, <2>2 DEF ReceivePrepare
    <3> QED BY <1>4, <3>1, <3>2 DEF ReceivePrepare
  <2>3. CASE ~Fresh(n, f.pol)
    BY <1>4, <2>3 DEF ReceivePrepare
  <2> QED BY <2>2, <2>3
<1>5. ASSUME NEW n \in Nodes, ReceiveAck(n) PROVE StageAboveFloor'
  BY <1>5 DEF ReceiveAck
<1>6. ASSUME NEW n \in Nodes, ReceiveCommit(n) PROVE StageAboveFloor'
  <2>1. Head(inbox[n]).seq # 0
    BY <1>6, RestRemoves DEF ReceiveCommit, Arrived, Frames
  <2> QED BY <1>6, <2>1 DEF ReceiveCommit
<1>7. ASSUME NEW n \in Nodes, CloseWindow(n) PROVE StageAboveFloor'
  <2>1. n \notin Followers
    BY <1>7 DEF CloseWindow, CollectsStarted
  <2> QED BY <1>7, <2>1 DEF CloseWindow
<1>8. ASSUME NEW n \in Nodes, Flip(n) PROVE StageAboveFloor'
  <2>1. Version(staged[n].pol) >= Version(staged[n].pol)
    BY VersionIsPositive
  <2> QED BY <1>8, <2>1 DEF Flip
<1>9. ASSUME NEW n \in Nodes, Reboot(n) PROVE StageAboveFloor'
  BY <1>9 DEF Reboot, NoStage
<1>10. CASE UNCHANGED vars
  BY <1>10 DEF vars
<1> QED
  BY <1>1, <1>2, <1>3, <1>4, <1>5, <1>6, <1>7, <1>8, <1>9, <1>10
     DEF Next, Command, Receive, Deadline

LEMMA FloorStep ==
    TypeInv /\ StageAboveFloor /\ [Next]_vars =>
        [\A n \in Followers : floor'[n] >= floor[n]]_vars
<1> SUFFICES ASSUME TypeInv, StageAboveFloor, Next
             PROVE  \A n \in Followers : floor'[n] >= floor[n]
  BY DEF vars
<1> USE DEF TypeInv, TypeOK, StageAboveFloor, Followers
<1>1. CASE floor' = floor
  BY <1>1
<1>2. ASSUME NEW n \in Nodes, ResetFloor(n)
      PROVE  \A m \in Followers : floor'[m] >= floor[m]
  BY <1>2 DEF ResetFloor
<1>3. ASSUME NEW n \in Nodes, Flip(n)
      PROVE  \A m \in Followers : floor'[m] >= floor[m]
  BY <1>3 DEF Flip
<1> QED
  BY <1>1, <1>2, <1>3
     DEF Next, Command, Receive, Deadline, StartRollout, InjectBad, ReceivePrepare,
         ReceiveAck, ReceiveCommit, CloseWindow, Reboot

\* A node that no operator pokes never lowers its anti-rollback floor
\* (floor_save in the flip, the version check of PREPARE), whatever the radio,
\* the power and the coordinators do.
THEOREM MeshFloorIsMonotonic == Spec => FollowerFloorNeverFalls
<1>1. Init => TypeInv /\ StageAboveFloor
  BY TypeInit, StageInit
<1>2. TypeInv /\ StageAboveFloor /\ [Next]_vars => (TypeInv /\ StageAboveFloor)'
  BY TypeNext, StageNext
<1>3. TypeInv /\ StageAboveFloor /\ [Next]_vars =>
         [\A n \in Followers : floor'[n] >= floor[n]]_vars
  BY FloorStep
<1> QED BY <1>1, <1>2, <1>3, PTL DEF Spec, FollowerFloorNeverFalls

-----------------------------------------------------------------------------
(* One coordinator.  Until every other node has acknowledged policy B, the  *)
(* rollout is early: policy A is in force everywhere, nothing is armed, no  *)
(* COMMIT is on the air, and every acknowledgement the coordinator counted  *)
(* is a real one, of B and by another node.                                 *)

AcknowledgedB(m) == \E f \in sent : f.type = "ack" /\ f.src = m /\ f.pol = PolicyB

AllAcknowledgedB == \A m \in Nodes \ Coordinators : AcknowledgedB(m)

\* A frame that may be on the air early, in a queue of node n.
EarlyFrame(n, f) ==
    /\ f \in sent /\ f.src # n
    /\ \/ f.type = "prepare" /\ f.pol # PolicyA
       \/ f.type = "ack" /\ f.pol = PolicyB

Early ==
    /\ \A n \in Nodes : active[n] = PolicyA /\ ~armed[n]
    /\ \A n \in Nodes : \A i \in 1 .. Len(inbox[n]) : EarlyFrame(n, inbox[n][i])
    /\ \A n \in Nodes : \A m \in acked[n] : m # n /\ AcknowledgedB(m)

EarlyOrAcknowledged == AllAcknowledgedB \/ Early

LEMMA EarlyInit == Init => EarlyOrAcknowledged
BY DEF Init, EarlyOrAcknowledged, Early

\* Acknowledgements by as many nodes as there are others are by all others.
LEMMA EnoughIsAll ==
    ASSUME NEW c \in Nodes, NEW S \in SUBSET (Nodes \ {c}),
           Cardinality(S) >= Cardinality(Nodes) - 1
    PROVE  S = Nodes \ {c}
<1>1. IsFiniteSet(Nodes \ {c}) /\ Cardinality(Nodes \ {c}) = Cardinality(Nodes) - 1
  BY FS_RemoveElement, RolesAssumption
<1>2. IsFiniteSet(S) /\ Cardinality(S) <= Cardinality(Nodes \ {c})
  BY <1>1, FS_Subset
<1>3. Cardinality(S) \in Nat /\ Cardinality(Nodes) \in Nat
  BY <1>2, FS_CardinalityType, RolesAssumption
<1>4. Cardinality(S) = Cardinality(Nodes \ {c})
  BY <1>1, <1>2, <1>3
<1> QED BY <1>1, <1>4, FS_Subset

\* Nothing takes an acknowledgement back: sent only grows.
LEMMA SentGrows == [Next]_vars => sent \subseteq sent'
BY DEF Next, Command, Receive, Deadline, StartRollout, InjectBad, ResetFloor, ReceivePrepare,
       ReceiveAck, ReceiveCommit, CloseWindow, Flip, Reboot, Broadcast, vars

LEMMA AcknowledgedStays ==
    ASSUME [Next]_vars
    PROVE  /\ \A m : AcknowledgedB(m) => AcknowledgedB(m)'
           /\ AllAcknowledgedB => AllAcknowledgedB'
BY SentGrows DEF AcknowledgedB, AllAcknowledgedB

\* Queues that hold only frames of the queues before.
Within(queues) ==
    \A m \in Nodes : \A i \in 1 .. Len(queues[m]) :
        \E j \in 1 .. Len(inbox[m]) : queues[m][i] = inbox[m][j]

\* The queues stay early when node n, which may have taken a frame from its
\* own, broadcasts an early frame.
LEMMA BroadcastStaysEarly ==
    ASSUME Early, NEW n \in Nodes, NEW queues \in [Nodes -> Seq(Frames)],
           Within(queues), NEW f \in Frames, NEW hearers \in SUBSET (Nodes \ {n}), f.src = n,
           (f.type = "prepare" /\ f.pol # PolicyA) \/ (f.type = "ack" /\ f.pol = PolicyB),
           sent' = sent \cup {f}, inbox' = Offer(queues, hearers, f)
    PROVE  \A m \in Nodes : \A i \in 1 .. Len(inbox'[m]) : EarlyFrame(m, inbox[m][i])'
<1> SUFFICES ASSUME NEW m \in Nodes, NEW i \in 1 .. Len(inbox'[m])
             PROVE  EarlyFrame(m, inbox[m][i])'
  OBVIOUS
<1>1. QueuedBefore(m, n, f, queues, inbox')
  BY OfferAdds
<1>2. CASE m # n /\ inbox'[m][i] = f
  BY <1>2 DEF EarlyFrame
<1>3. CASE \E j \in 1 .. Len(queues[m]) : inbox'[m][i] = queues[m][j]
  <2>1. PICK j \in 1 .. Len(queues[m]) : inbox'[m][i] = queues[m][j]
    BY <1>3
  <2>2. PICK k \in 1 .. Len(inbox[m]) : queues[m][j] = inbox[m][k]
    BY DEF Within
  <2>3. EarlyFrame(m, inbox[m][k])
    BY <2>2 DEF Early
  <2> QED BY <2>1, <2>2, <2>3 DEF EarlyFrame
<1> QED BY <1>1, <1>2, <1>3 DEF QueuedBefore

LEMMA EarlyNext ==
    ASSUME NEW c \in Nodes, Coordinators = {c}, ExpectAcks >= Cardinality(Nodes) - 1,
           TypeInv, Early, Next
    PROVE  EarlyOrAcknowledged'
<1> USE DEF TypeInv, TypeOK, EarlyOrAcknowledged
<1>1. \A m : AcknowledgedB(m) => AcknowledgedB(m)'
  BY AcknowledgedStays
<1>2. \A n \in Nodes, m \in Nodes :
         Target(active[n]) = PolicyB /\ active[m] = PolicyA /\ ~armed[m]
  BY DEF Early, Target
<1>own. Within(inbox)
  BY DEF Within
<1>3. ASSUME NEW n \in Nodes, StartRollout(n) PROVE Early'
  <2> DEFINE f == [type |-> "prepare", src |-> n, seq |-> seq[n] + 1, pol |-> Target(active[n])]
  <2>1. f \in Frames /\ f.src = n /\ f.type = "prepare" /\ f.pol # PolicyA
    BY <1>2, PacksAssumption DEF Frames, Policies
  <2>2. PICK hearers \in SUBSET (Nodes \ {n}) :
           sent' = sent \cup {f} /\ inbox' = Offer(inbox, hearers, f)
    BY <1>3 DEF StartRollout, Broadcast
  <2> HIDE DEF f
  <2>3. \A m \in Nodes : \A i \in 1 .. Len(inbox'[m]) : EarlyFrame(m, inbox[m][i])'
    BY <1>own, <2>1, <2>2, BroadcastStaysEarly
  <2> QED BY <1>1, <1>3, <2>3 DEF Early, StartRollout
<1>4. ASSUME NEW n \in Nodes, InjectBad(n) PROVE Early'
  <2> DEFINE f == [type |-> "prepare", src |-> n, seq |-> seq[n] + 1, pol |-> Bad]
  <2>1. f \in Frames /\ f.src = n /\ f.type = "prepare" /\ f.pol # PolicyA
    BY PacksAssumption DEF Frames
  <2>2. PICK hearers \in SUBSET (Nodes \ {n}) :
           sent' = sent \cup {f} /\ inbox' = Offer(inbox, hearers, f)
    BY <1>4 DEF InjectBad, Broadcast
  <2> HIDE DEF f
  <2>3. \A m \in Nodes : \A i \in 1 .. Len(inbox'[m]) : EarlyFrame(m, inbox[m][i])'
    BY <1>own, <2>1, <2>2, BroadcastStaysEarly
  <2> QED BY <1>1, <1>4, <2>3 DEF Early, InjectBad
<1>5. ASSUME NEW n \in Nodes, ResetFloor(n) PROVE Early'
  <2>1. armed' = armed /\ inbox' = inbox /\ sent' = sent /\ active' = active /\ acked' = acked
    BY <1>5 DEF ResetFloor
  <2> QED BY <1>1, <2>1 DEF Early, EarlyFrame
<1>6. ASSUME NEW n \in Nodes, Arrived(n, "prepare") \/ Arrived(n, "ack") \/ Arrived(n, "commit")
      PROVE  /\ Rest(n) \in [Nodes -> Seq(Frames)]
             /\ Head(inbox[n]) \in Frames /\ EarlyFrame(n, Head(inbox[n]))
             /\ Within(Rest(n))
  BY <1>6, RestRemoves DEF Arrived, Early, Within
<1>7. ASSUME NEW n \in Nodes, inbox' = Rest(n), sent' = sent,
             Arrived(n, "prepare") \/ Arrived(n, "ack")
      PROVE  \A m \in Nodes : \A i \in 1 .. Len(inbox'[m]) : EarlyFrame(m, inbox[m][i])'
  <2> SUFFICES ASSUME NEW m \in Nodes, NEW i \in 1 .. Len(inbox'[m])
               PROVE  EarlyFrame(m, inbox[m][i])'
    OBVIOUS
  <2>1. PICK j \in 1 .. Len(inbox[m]) : inbox'[m][i] = inbox[m][j]
    BY <1>6, <1>7 DEF Within
  <2>2. EarlyFrame(m, inbox[m][j])
    BY <2>1 DEF Early
  <2> QED BY <1>7, <2>1, <2>2 DEF EarlyFrame
<1>8. ASSUME NEW n \in Nodes, ReceivePrepare(n) PROVE Early'
  <2> DEFINE f == Head(inbox[n])
             a == [type |-> "ack", src |-> n, seq |-> f.seq, pol |-> f.pol]
  <2>1. CASE Fresh(n, f.pol)
    <3>1. f \in Frames /\ f.pol # PolicyA
      BY <1>6, <1>8 DEF ReceivePrepare, Arrived, EarlyFrame
    <3>2. f.pol = PolicyB /\ f.seq \in Nat \ {0}
      BY <2>1, <3>1 DEF Frames, Fresh, Policies
    <3>3. a \in Frames /\ a.src = n /\ a.type = "ack" /\ a.pol = PolicyB
      BY <3>2 DEF Frames, Policies
    <3>4. PICK hearers \in SUBSET (Nodes \ {n}) :
             sent' = sent \cup {a} /\ inbox' = Offer(Rest(n), hearers, a)
      BY <1>8, <2>1 DEF ReceivePrepare, Broadcast
    <3> HIDE DEF a
    <3>5. \A m \in Nodes : \A i \in 1 .. Len(inbox'[m]) : EarlyFrame(m, inbox[m][i])'
      BY <1>6, <1>8, <3>3, <3>4, BroadcastStaysEarly DEF ReceivePrepare
    <3> QED BY <1>1, <1>8, <3>5 DEF Early, ReceivePrepare
  <2>2. CASE ~Fresh(n, f.pol)
    <3>1. \A m \in Nodes : \A i \in 1 .. Len(inbox'[m]) : EarlyFrame(m, inbox[m][i])'
      BY <1>7, <1>8, <2>2 DEF ReceivePrepare
    <3> QED BY <1>1, <1>8, <2>2, <3>1 DEF Early, ReceivePrepare
  <2> QED BY <2>1, <2>2
<1>9. ASSUME NEW n \in Nodes, ReceiveAck(n) PROVE Early'
  <2>1. \A m \in Nodes : \A i \in 1 .. Len(inbox'[m]) : EarlyFrame(m, inbox[m][i])'
    BY <1>7, <1>9 DEF ReceiveAck
  <2>2. Head(inbox[n]).src # n /\ AcknowledgedB(Head(inbox[n]).src)
    BY <1>6, <1>9 DEF ReceiveAck, Arrived, EarlyFrame, AcknowledgedB
  <2>3. \A k \in Nodes : \A m \in acked'[k] : m # k /\ AcknowledgedB(m)'
    BY <1>1, <1>9, <2>2 DEF Early, ReceiveAck
  <2> QED BY <1>9, <2>1, <2>3 DEF Early, ReceiveAck
<1>10. ASSUME NEW n \in Nodes, ReceiveCommit(n) PROVE FALSE
  BY <1>6, <1>10 DEF ReceiveCommit, Arrived, EarlyFrame
<1>11. ASSUME NEW n \in Nodes, CloseWindow(n) PROVE EarlyOrAcknowledged'
  <2>1. CASE Enough(n)
    <3>1. n = c /\ acked[c] \in SUBSET (Nodes \ {c})
      BY <1>11 DEF CloseWindow, CollectsStarted, Early
    <3>2. Cardinality(acked[c]) >= Cardinality(Nodes) - 1
      <4>1. IsFiniteSet(acked[c])
        BY RolesAssumption, FS_Subset
      <4>2. Cardinality(acked[c]) \in Nat /\ Cardinality(Nodes) \in Nat /\ ExpectAcks \in Nat
        BY <4>1, FS_CardinalityType, RolesAssumption, BoundsAssumption
      <4> QED BY <2>1, <3>1, <4>2 DEF Enough
    <3>3. acked[c] = Nodes \ {c}
      BY <3>1, <3>2, EnoughIsAll
    <3>4. AllAcknowledgedB
      BY <3>3 DEF AllAcknowledgedB, Early
    <3> QED BY <3>4, AcknowledgedStays
  <2>2. CASE ~Enough(n)
    <3>1. armed' = armed /\ inbox' = inbox /\ sent' = sent /\ active' = active /\ acked' = acked
      BY <1>11, <2>2 DEF CloseWindow
    <3> QED BY <1>1, <3>1 DEF Early, EarlyFrame
  <2> QED BY <2>1, <2>2
<1>12. ASSUME NEW n \in Nodes, Flip(n) PROVE FALSE
  BY <1>12 DEF Flip, Early
<1>13. ASSUME NEW n \in Nodes, Reboot(n) PROVE Early'
  <2>1. \A m \in Nodes : active'[m] = PolicyA /\ ~armed'[m]
    BY <1>13 DEF Early, Reboot
  <2>2. sent' = sent /\ \A m \in Nodes : inbox'[m] = inbox[m] \/ inbox'[m] = <<>>
    BY <1>13 DEF Reboot
  <2>3. ASSUME NEW m \in Nodes, NEW i \in 1 .. Len(inbox'[m])
        PROVE  EarlyFrame(m, inbox[m][i])'
    <3>1. CASE inbox'[m] = inbox[m]
      <4>1. EarlyFrame(m, inbox[m][i])
        BY <3>1 DEF Early
      <4> QED BY <2>2, <3>1, <4>1 DEF EarlyFrame
    <3>2. CASE inbox'[m] = <<>>
      BY <3>2
    <3> QED BY <2>2, <3>1, <3>2
  <2>4. \A m \in Nodes : acked'[m] \subseteq acked[m]
    BY <1>13 DEF Reboot
  <2>5. \A k \in Nodes : \A m \in acked'[k] : m # k /\ AcknowledgedB(m)'
    BY <1>1, <2>4 DEF Early
  <2> QED BY <2>1, <2>3, <2>5 DEF Early
<1> QED
  BY <1>3, <1>4, <1>5, <1>8, <1>9, <1>10, <1>11, <1>12, <1>13
     DEF Next, Command, Receive, Deadline

LEMMA EarlyStep ==
    ASSUME NEW c \in Nodes, Coordinators = {c}, ExpectAcks >= Cardinality(Nodes) - 1,
           TypeInv, EarlyOrAcknowledged, [Next]_vars
    PROVE  EarlyOrAcknowledged'
<1>1. CASE AllAcknowledgedB
  BY <1>1, AcknowledgedStays DEF EarlyOrAcknowledged
<1>2. CASE Early /\ Next
  BY <1>2, EarlyNext
<1>3. CASE Early /\ UNCHANGED vars
  BY <1>3 DEF EarlyOrAcknowledged, Early, EarlyFrame, AcknowledgedB, vars
<1> QED BY <1>1, <1>2, <1>3 DEF EarlyOrAcknowledged

\* In a fleet with one coordinator that waits for every other node
\* (EXPECT_ACKS), no node enforces the new policy before every other node has
\* staged and acknowledged it, whatever the radio loses and whoever reboots.
THEOREM MeshStagesBeforeFlip ==
    ASSUME NEW c \in Nodes, Coordinators = {c}, ExpectAcks >= Cardinality(Nodes) - 1
    PROVE  Spec => []AllStagedFirst
<1>1. Init => TypeInv /\ EarlyOrAcknowledged
  BY TypeInit, EarlyInit
<1>2. TypeInv /\ EarlyOrAcknowledged /\ [Next]_vars => (TypeInv /\ EarlyOrAcknowledged)'
  BY TypeNext, EarlyStep
<1>3. TypeInv /\ EarlyOrAcknowledged => AllStagedFirst
  <2>1. AllAcknowledgedB => AllStagedFirst
    BY DEF AllAcknowledgedB, AcknowledgedB, AllStagedFirst
  <2>2. Early => AllStagedFirst
    BY PacksAssumption DEF Early, AllStagedFirst
  <2> QED BY <2>1, <2>2 DEF EarlyOrAcknowledged
<1> QED BY <1>1, <1>2, <1>3, PTL DEF Spec
=============================================================================
