---------------------------- MODULE FanoutProofs ----------------------------
(* The join and the calls, for every tree of flows that fan out, whatever  *)
(* faults there are.                                                       *)
EXTENDS Fanout, FiniteSetTheorems, TLAPS

-----------------------------------------------------------------------------
(* The invariant.  The fan-outs at hand are nested, each in the run of a   *)
(* child of the one before; they wait at their node, except the innermost  *)
(* once its engine runs; and a flag that says done is about a file that is *)
(* done and stays it.                                                      *)

Docs == [stopped : Stops, flow : Nodes \cup {End}, node : Nodes \cup {End}, good : BOOLEAN,
         spawned : [FanOuts -> SUBSET ItemIds]]

\* A document of a run: a run that may go on is at a node of its flow.
DocOf(r, doc) ==
    /\ doc \in Docs /\ doc.node \in NodesOf[r] \cup {End}
    /\ doc.stopped \in {"", "waiting", "needs_human"} => doc.node \in NodesOf[r]

Files(fl) == fl \in [Runs -> Docs] /\ \A r \in Runs : DocOf(r, fl[r])

Frames == [run : Runs, node : FanOuts, seen : Seq(BOOLEAN)]
Framed(fr) ==
    fr \in Frames /\ fr.node \in NodesOf[fr.run] /\ Len(fr.seen) <= Len(Items[fr.node])
KidOf(fr) == Append(fr.run, Items[fr.node][Len(fr.seen) + 1])
HasKid(fr) == Len(fr.seen) < Len(Items[fr.node])

Chained(st) ==
    /\ st \in Seq(Frames)
    /\ \A k \in 1 .. Len(st) : Framed(st[k]) /\ Len(st[k].run) = k - 1
    /\ \A k \in 1 .. Len(st) - 1 : HasKid(st[k]) /\ st[k + 1].run = KidOf(st[k])

Told(fl, fr) ==
    \A i \in 1 .. Len(fr.seen) :
        fr.seen[i] => Done(fl[Append(fr.run, Items[fr.node][i])], fr.node)
Waits(fl, fr) == fl[fr.run].stopped = "waiting" /\ fl[fr.run].node = fr.node

Stack ==
    /\ Chained(stack)
    /\ \A k \in 1 .. Len(stack) : Told(file, stack[k])
    /\ \A k \in 1 .. Len(stack) - 1 : Waits(file, stack[k])

Scanning == {"poll", "polled", "nested", "inject", "resume"}
Engaged == {"run", "save"}
DoneItems(fr) == {Items[fr.node][i] : i \in {j \in DOMAIN fr.seen : fr.seen[j]}}

Control ==
    /\ pc \in {"idle"} \cup Scanning \cup Engaged
    /\ pc = "idle" => stack = <<>>
    /\ pc \in Scanning => stack # <<>> /\ Waits(file, Top)
    /\ pc \in {"polled", "nested"} => HasKid(Top)
    /\ pc \in {"inject", "resume"} => ~HasKid(Top) /\ Joins(Top.node, Top.seen)
    /\ pc = "resume" => file[Top.run].spawned[Top.node] = DoneItems(Top)
    /\ pc \in Engaged =>
         /\ active.run \in Runs /\ file[active.run].stopped = ""
         /\ stack # <<>> => \/ active.run = Top.run
                            \/ active.run = Kid /\ HasKid(Top) /\ Waits(file, Top)
    /\ pc = "save" => DocOf(active.run, active.doc)

IInv == Files(file) /\ Stack /\ Control

-----------------------------------------------------------------------------
(* Documents, stacks and writes.                                           *)

LEMMA EdgesStay ==
    ASSUME NEW r \in Runs, NEW n \in NodesOf[r]
    PROVE  /\ n \in Nodes /\ n # End /\ Then[n] \in NodesOf[r] \cup {End}
           /\ (n \in DOMAIN Late => Late[n] \in NodesOf[r] \cup {End})
BY FlowsAssumption, RunsAssumption

\* Entering a node of the run's flow, or the end.
LEMMA EnterIs ==
    ASSUME NEW r \in Runs, NEW doc \in Docs, NEW n \in NodesOf[r] \cup {End}
    PROVE  /\ DocOf(r, Enter(doc, n)) /\ Enter(doc, n).node = n
           /\ Enter(doc, n).stopped = (IF n = End THEN "terminal" ELSE "")
           /\ Enter(doc, n).spawned = doc.spawned
<1>1. n \in Nodes \cup {End} /\ (n # End => n \in NodesOf[r])
  BY EdgesStay
<1> QED BY <1>1 DEF Enter, DocOf, Docs, Stops

LEMMA NoDocIs == NoDoc \in Docs /\ NoDoc.stopped = "none" /\ NoDoc.node = End
BY DEF NoDoc, Docs, Stops

LEMMA FreshIs ==
    ASSUME NEW r \in Runs, NEW n \in NodesOf[r]
    PROVE  DocOf(r, Fresh(n)) /\ Fresh(n).stopped = "" /\ Fresh(n).node = n
<1>1. n # End /\ n \in Nodes
  BY EdgesStay
<1> DEFINE d == [NoDoc EXCEPT !.flow = n]
<1>2. d \in Docs
  BY <1>1, NoDocIs DEF Docs
<1> HIDE DEF d
<1>3. n \in NodesOf[r] \cup {End}
  OBVIOUS
<1>4. DocOf(r, Enter(d, n)) /\ Enter(d, n).node = n
  BY <1>2, <1>3, EnterIs
<1>5. Enter(d, n).stopped = ""
  BY <1>1, <1>2, <1>3, EnterIs
<1> QED BY <1>4, <1>5 DEF Fresh, d

\* What a save changes.
LEMMA SaveIs ==
    ASSUME Files(file), NEW r \in Runs, NEW doc, DocOf(r, doc), Save(r, doc)
    PROVE  Files(file)' /\ file'[r] = doc /\ \A q \in Runs : q # r => file'[q] = file[q]
<1>1. file' = [file EXCEPT ![r] = doc] /\ doc \in Docs /\ file \in [Runs -> Docs]
  BY DEF Save, DocOf, Files
<1>2. file' \in [Runs -> Docs] /\ file'[r] = doc /\ \A q \in Runs : q # r => file'[q] = file[q]
  BY <1>1
<1> QED BY <1>2 DEF Files

LEMMA ItemIs ==
    ASSUME NEW f \in FanOuts, NEW i \in 1 .. Len(Items[f])
    PROVE  Items[f][i] \in ToSet(Items[f]) /\ Items[f][i] \in ItemIds
<1>1. Items[f] \in Seq(ItemIds)
  BY FlowsAssumption
<1> QED BY <1>1 DEF ToSet

LEMMA FileOfItem ==
    ASSUME NEW fr, Framed(fr), NEW i \in 1 .. Len(Items[fr.node])
    PROVE  /\ Append(fr.run, Items[fr.node][i]) \in Runs
           /\ Child[fr.node] \in NodesOf[Append(fr.run, Items[fr.node][i])]
           /\ Len(Append(fr.run, Items[fr.node][i])) = Len(fr.run) + 1
<1>1. fr.run \in Runs /\ fr.node \in FanOuts /\ fr.node \in NodesOf[fr.run]
  BY DEF Framed, Frames
<1>2. Items[fr.node][i] \in ToSet(Items[fr.node])
  BY <1>1, ItemIs
<1>3. fr.run \in Seq(ItemIds)
  BY <1>1, RunsAssumption
<1> QED BY <1>1, <1>2, <1>3, RunsAssumption

LEMMA KidIs ==
    ASSUME NEW fr, Framed(fr), HasKid(fr)
    PROVE  KidOf(fr) \in Runs /\ Child[fr.node] \in NodesOf[KidOf(fr)] /\ Len(KidOf(fr)) = Len(fr.run) + 1
<1>1. Len(fr.seen) \in Nat /\ Len(Items[fr.node]) \in Nat
  BY FlowsAssumption DEF Framed, Frames
<1>2. Len(fr.seen) + 1 \in 1 .. Len(Items[fr.node])
  BY <1>1 DEF HasKid
<1> QED BY <1>2, FileOfItem DEF KidOf

LEMMA TopIs ==
    ASSUME Chained(stack), stack # <<>>
    PROVE  /\ Len(stack) \in Nat \ {0} /\ Top = stack[Len(stack)] /\ Framed(Top) /\ Top \in Frames
           /\ Kid = KidOf(Top) /\ Len(Top.run) = Len(stack) - 1 /\ Top.run \in Runs
<1>1. Len(stack) \in Nat \ {0}
  BY DEF Chained
<1> QED BY <1>1 DEF Chained, Top, Kid, KidOf, Framed, Frames

\* The stack without its last.
LEMMA PopIs ==
    ASSUME Chained(stack), stack # <<>>
    PROVE  /\ Chained(Pop) /\ Len(Pop) = Len(stack) - 1
           /\ \A k \in 1 .. Len(Pop) : Pop[k] = stack[k] /\ HasKid(Pop[k])
<1>1. Len(stack) \in Nat \ {0} /\ stack \in Seq(Frames)
  BY DEF Chained
<1>2. /\ Pop \in Seq(Frames) /\ Len(Pop) = Len(stack) - 1
      /\ \A k \in 1 .. Len(Pop) : Pop[k] = stack[k]
  <2>1. Len(stack) - 1 \in 0 .. Len(stack)
    BY <1>1
  <2> DEFINE m == Len(stack) - 1
  <2>2. m \in Nat /\ m <= Len(stack)
    BY <1>1
  <2> HIDE DEF m
  <2>3. /\ SubSeq(stack, 1, m) \in Seq(Frames) /\ Len(SubSeq(stack, 1, m)) = m
        /\ \A k \in 1 .. m : SubSeq(stack, 1, m)[k] = stack[k]
    BY <1>1, <2>2
  <2> QED BY <2>3 DEF Pop, m
<1> QED BY <1>1, <1>2 DEF Chained

\* The stack with a frame for the child of its last.
LEMMA PushIs ==
    ASSUME Chained(stack), stack # <<>>, HasKid(Top), Files(file), IsFanOut(file[Kid]), NEW st,
           st = Append(stack, Frame(Kid))
    PROVE  /\ Chained(st) /\ Len(st) = Len(stack) + 1 /\ st[Len(st)] = Frame(Kid) /\ Frame(Kid).seen = <<>>
           /\ Waits(file, Frame(Kid)) /\ \A k \in 1 .. Len(stack) : st[k] = stack[k]
<1>1. Kid \in Runs /\ Len(Kid) = Len(stack) /\ Kid = KidOf(Top) /\ Len(stack) \in Nat \ {0}
  BY TopIs, KidIs
<1>2. file[Kid].stopped = "waiting" /\ file[Kid].node \in FanOuts /\ file[Kid].node \in NodesOf[Kid]
  BY <1>1 DEF IsFanOut, Files, DocOf
<1>3. /\ Frame(Kid) \in Frames /\ Frame(Kid).run = Kid /\ Frame(Kid).node = file[Kid].node
      /\ Frame(Kid).seen = <<>>
  BY <1>1, <1>2 DEF Frame, Frames
<1>4. Framed(Frame(Kid)) /\ Waits(file, Frame(Kid))
  <2>1. Items[Frame(Kid).node] \in Seq(ItemIds)
    BY <1>2, <1>3, FlowsAssumption
  <2> QED BY <1>2, <1>3, <2>1 DEF Framed, Waits
<1> DEFINE F == Frame(Kid)
<1> HIDE DEF F
<1>5. stack \in Seq(Frames) /\ F \in Frames /\ st = Append(stack, F)
  BY <1>3 DEF Chained, F
<1>6. /\ st \in Seq(Frames) /\ Len(st) = Len(stack) + 1 /\ st[Len(st)] = F
      /\ \A k \in 1 .. Len(stack) : st[k] = stack[k]
  BY <1>5
<1>7. ASSUME NEW k \in 1 .. Len(st) PROVE Framed(st[k]) /\ Len(st[k].run) = k - 1
  <2>1. CASE k \in 1 .. Len(stack)
    BY <1>6, <2>1 DEF Chained
  <2>2. CASE k = Len(st)
    BY <1>1, <1>3, <1>4, <1>6, <2>2 DEF F
  <2> QED BY <1>1, <1>6, <2>1, <2>2
<1>8. ASSUME NEW k \in 1 .. Len(st) - 1 PROVE HasKid(st[k]) /\ st[k + 1].run = KidOf(st[k])
  <2>1. CASE k \in 1 .. Len(stack) - 1
    <3>1. k + 1 \in 1 .. Len(stack) /\ k \in 1 .. Len(stack)
      BY <1>1, <2>1
    <3> QED BY <1>6, <2>1, <3>1 DEF Chained
  <2>2. CASE k = Len(stack)
    BY <1>1, <1>3, <1>6, <2>2 DEF F, Top
  <2> QED BY <1>1, <1>6, <2>1, <2>2
<1> QED BY <1>3, <1>4, <1>6, <1>7, <1>8 DEF Chained, F

Seeing(fr, flags) == [fr EXCEPT !.seen = flags]
LEMMA SeeingIs ==
    ASSUME NEW fr \in Frames, NEW flags \in Seq(BOOLEAN)
    PROVE  /\ Seeing(fr, flags) \in Frames /\ Seeing(fr, flags).seen = flags
           /\ Seeing(fr, flags).run = fr.run /\ Seeing(fr, flags).node = fr.node
BY DEF Frames, Seeing

\* The stack with one more flag seen by its last.
LEMMA CountIs ==
    ASSUME Chained(stack), stack # <<>>, HasKid(Top), NEW flag \in BOOLEAN, Count(flag)
    PROVE  /\ Chained(stack') /\ Len(stack') = Len(stack) /\ stack' # <<>>
           /\ \A k \in 1 .. Len(stack) - 1 : stack'[k] = stack[k]
           /\ Top' = stack'[Len(stack)] /\ Top'.run = Top.run /\ Top'.node = Top.node
           /\ Top'.seen = Append(Top.seen, flag)
<1>1. /\ Len(stack) \in Nat \ {0} /\ Framed(Top) /\ Top \in Frames /\ Len(Top.run) = Len(stack) - 1
      /\ Top = stack[Len(stack)]
  BY TopIs
<1>2. /\ Pop \in Seq(Frames) /\ Len(Pop) = Len(stack) - 1
      /\ \A k \in 1 .. Len(stack) - 1 : Pop[k] = stack[k]
  BY PopIs DEF Chained
<1> DEFINE F == Seeing(Top, Append(Top.seen, flag))
<1>3. /\ F \in Frames /\ F.run = Top.run /\ F.node = Top.node /\ F.seen = Append(Top.seen, flag)
      /\ Len(F.seen) = Len(Top.seen) + 1
  <2>1. Top.seen \in Seq(BOOLEAN) /\ Top.run \in Runs /\ Top.node \in FanOuts
    BY <1>1 DEF Frames
  <2>2. Append(Top.seen, flag) \in Seq(BOOLEAN) /\ Len(Append(Top.seen, flag)) = Len(Top.seen) + 1
    BY <2>1
  <2> QED BY <1>1, <2>2, SeeingIs
<1>4. Framed(F)
  <2>1. Len(Top.seen) \in Nat /\ Len(Items[Top.node]) \in Nat
    BY <1>1, FlowsAssumption DEF Frames
  <2> QED BY <1>1, <1>3, <2>1 DEF Framed, HasKid
<1>5. stack' = Append(Pop, F)
  BY DEF Count, Seeing
<1> HIDE DEF F
<1>6. /\ stack' \in Seq(Frames) /\ Len(stack') = Len(stack) /\ stack'[Len(stack)] = F
      /\ \A k \in 1 .. Len(stack) - 1 : stack'[k] = stack[k]
  BY <1>1, <1>2, <1>3, <1>5
<1>7. ASSUME NEW k \in 1 .. Len(stack') PROVE Framed(stack'[k]) /\ Len(stack'[k].run) = k - 1
  <2>1. CASE k \in 1 .. Len(stack) - 1
    BY <1>1, <1>6, <2>1 DEF Chained
  <2>2. CASE k = Len(stack)
    BY <1>1, <1>3, <1>4, <1>6, <2>2
  <2> QED BY <1>1, <1>6, <2>1, <2>2
<1>8. ASSUME NEW k \in 1 .. Len(stack') - 1 PROVE HasKid(stack'[k]) /\ stack'[k + 1].run = KidOf(stack'[k])
  <2>1. k + 1 \in 1 .. Len(stack) /\ k \in 1 .. Len(stack) - 1
    BY <1>1, <1>6
  <2>2. stack'[k] = stack[k] /\ HasKid(stack[k]) /\ stack[k + 1].run = KidOf(stack[k])
    BY <1>6, <2>1 DEF Chained
  <2>3. stack'[k + 1].run = stack[k + 1].run
    <3>1. CASE k + 1 \in 1 .. Len(stack) - 1
      BY <1>6, <3>1
    <3>2. CASE k + 1 = Len(stack)
      BY <1>1, <1>3, <1>6, <3>2
    <3> QED BY <1>1, <2>1, <3>1, <3>2
  <2> QED BY <2>2, <2>3
<1>9. Top' = F /\ stack' # <<>>
  BY <1>1, <1>6 DEF Top
<1> QED BY <1>3, <1>6, <1>7, <1>8, <1>9 DEF Chained

\* A file that is done stays done, so that what was seen of it stays true; a
\* frame waits as long as its file is left alone.
LEMMA ToldStays ==
    ASSUME NEW fl, NEW fl2, NEW fr, Framed(fr), Told(fl, fr),
           \A q \in Runs : fl[q].stopped = "terminal" => fl2[q] = fl[q]
    PROVE  Told(fl2, fr)
<1> SUFFICES ASSUME NEW i \in 1 .. Len(fr.seen), fr.seen[i]
             PROVE  Done(fl2[Append(fr.run, Items[fr.node][i])], fr.node)
  BY DEF Told
<1>1. Len(fr.seen) \in Nat /\ Len(Items[fr.node]) \in Nat /\ Len(fr.seen) <= Len(Items[fr.node])
  BY FlowsAssumption DEF Framed, Frames
<1>2. i \in 1 .. Len(Items[fr.node])
  BY <1>1
<1>3. Append(fr.run, Items[fr.node][i]) \in Runs
  BY <1>2, FileOfItem
<1>4. Done(fl[Append(fr.run, Items[fr.node][i])], fr.node)
  BY DEF Told
<1> QED BY <1>3, <1>4 DEF Done

\* Saving the file of a run that neither waits nor is done.
LEMMA SaveAside ==
    ASSUME Files(file), NEW r \in Runs, NEW doc, DocOf(r, doc), Save(r, doc),
           file[r].stopped \notin {"terminal", "waiting"}
    PROVE  /\ Files(file)' /\ file'[r] = doc /\ \A q \in Runs : q # r => file'[q] = file[q]
           /\ \A q \in Runs : file[q].stopped \in {"terminal", "waiting"} => file'[q] = file[q]
BY SaveIs

\* A write that leaves those alone leaves a frame waiting.
LEMMA WaitsStays ==
    ASSUME NEW fl, NEW fl2, NEW fr \in Frames, Waits(fl, fr),
           \A q \in Runs : fl[q].stopped \in {"terminal", "waiting"} => fl2[q] = fl[q]
    PROVE  Waits(fl2, fr)
BY DEF Waits, Frames

\* The stack as it is: what is done is left alone, and the frames wait.
LEMMA StackStays ==
    ASSUME Stack, UNCHANGED stack,
           \A q \in Runs : file[q].stopped = "terminal" => file'[q] = file[q],
           \A k \in 1 .. Len(stack) - 1 : Waits(file', stack[k])
    PROVE  Stack'
<1>1. ASSUME NEW k \in 1 .. Len(stack) PROVE Told(file', stack[k])
  <2>1. Framed(stack[k]) /\ Told(file, stack[k])
    BY DEF Stack, Chained
  <2> QED BY <2>1, ToldStays
<1> QED BY <1>1 DEF Stack

LEMMA OthersWait ==
    ASSUME Stack, \A q \in Runs : file[q].stopped \in {"terminal", "waiting"} => file'[q] = file[q]
    PROVE  \A k \in 1 .. Len(stack) - 1 : Waits(file', stack[k])
<1> TAKE k \in 1 .. Len(stack) - 1
<1>1. stack[k] \in Frames /\ Waits(file, stack[k])
  <2>1. k \in 1 .. Len(stack)
    BY DEF Stack, Chained
  <2> QED BY <2>1 DEF Stack, Chained
<1> QED BY <1>1, WaitsStays

-----------------------------------------------------------------------------
(* The steps, by what they do to the stack.                                *)

\* A flag more: false, or about a child that is done.
LEMMA CountIInv ==
    ASSUME IInv, stack # <<>>, HasKid(Top), Waits(file, Top), Files(file)',
           NEW flag \in BOOLEAN, Count(flag), flag => Done(file'[Kid], Top.node), At("poll"),
           \A q \in Runs : file[q].stopped \in {"terminal", "waiting"} => file'[q] = file[q]
    PROVE  IInv'
<1>1. /\ Chained(stack) /\ Len(stack) \in Nat \ {0} /\ Framed(Top) /\ Top \in Frames /\ Kid = KidOf(Top)
      /\ Top = stack[Len(stack)]
  BY TopIs DEF IInv, Stack
<1>2. /\ Chained(stack)' /\ Len(stack') = Len(stack) /\ stack' # <<>>
      /\ \A k \in 1 .. Len(stack) - 1 : stack'[k] = stack[k]
      /\ Top' = stack'[Len(stack)] /\ Top'.run = Top.run /\ Top'.node = Top.node
      /\ Top'.seen = Append(Top.seen, flag)
  BY <1>1, CountIs
<1>3. Len(Top.seen) \in Nat /\ Top.seen \in Seq(BOOLEAN)
  BY <1>1 DEF Frames
<1>4. Told(file', Top')
  <2> SUFFICES ASSUME NEW i \in 1 .. Len(Top'.seen), Top'.seen[i]
               PROVE  Done(file'[Append(Top.run, Items[Top.node][i])], Top.node)
    BY <1>2 DEF Told
  <2>1. CASE i \in 1 .. Len(Top.seen)
    <3>1. Top.seen[i]
      BY <1>2, <1>3, <2>1
    <3>2. Told(file, Top)
      BY <1>1 DEF IInv, Stack
    <3>3. Told(file', Top)
      BY <1>1, <3>2, ToldStays
    <3> QED BY <2>1, <3>1, <3>3 DEF Told
  <2>2. CASE i = Len(Top.seen) + 1
    <3>1. flag
      BY <1>2, <1>3, <2>2
    <3> QED BY <1>1, <2>2, <3>1 DEF KidOf
  <2> QED BY <1>2, <1>3, <2>1, <2>2
<1>5. ASSUME NEW k \in 1 .. Len(stack') PROVE Told(file', stack'[k])
  <2>1. CASE k \in 1 .. Len(stack) - 1
    <3>1. Framed(stack[k]) /\ Told(file, stack[k])
      BY <1>1, <2>1 DEF IInv, Stack, Chained
    <3>2. Told(file', stack[k])
      BY <3>1, ToldStays
    <3> QED BY <1>2, <2>1, <3>2
  <2>2. CASE k = Len(stack)
    BY <1>2, <1>4, <2>2
  <2> QED BY <1>1, <1>2, <2>1, <2>2
<1>6. \A k \in 1 .. Len(stack) - 1 : Waits(file', stack'[k])
  BY <1>2, OthersWait DEF IInv
<1>7. Waits(file', Top')
  <2>1. Waits(file', Top)
    BY <1>1, WaitsStays
  <2> QED BY <1>2, <2>1 DEF Waits
<1>8. Stack'
  BY <1>2, <1>5, <1>6 DEF Stack
<1>9. Control'
  BY <1>2, <1>7 DEF At, Control, Scanning, Engaged
<1> QED BY <1>8, <1>9 DEF IInv

\* The fan-out at hand is left: the one around it waits for that child.
LEMMA EndFrameIInv ==
    ASSUME IInv, stack # <<>>, EndFrame, Files(file)',
           \A q \in Runs : file[q].stopped = "terminal" => file'[q] = file[q],
           \A k \in 1 .. Len(stack) - 1 : Waits(file', stack[k])
    PROVE  IInv'
<1>1. Chained(stack) /\ Len(stack) \in Nat \ {0}
  BY TopIs DEF IInv, Stack
<1>2. /\ Chained(stack)' /\ Len(stack') = Len(stack) - 1
      /\ \A k \in 1 .. Len(stack') : stack'[k] = stack[k] /\ HasKid(stack'[k])
  BY <1>1, PopIs DEF EndFrame
<1>3. Stack'
  <2>1. ASSUME NEW k \in 1 .. Len(stack') PROVE Told(file', stack'[k])
    <3>1. Framed(stack[k]) /\ Told(file, stack[k]) /\ stack'[k] = stack[k]
      BY <1>1, <1>2 DEF IInv, Stack, Chained
    <3>2. Told(file', stack[k])
      BY <3>1, ToldStays
    <3> QED BY <3>1, <3>2
  <2>2. ASSUME NEW k \in 1 .. Len(stack') - 1 PROVE Waits(file', stack'[k])
    BY <1>1, <1>2
  <2> QED BY <1>2, <2>1, <2>2 DEF Stack
<1>4. CASE Len(stack) = 1
  <2>1. stack' = <<>> /\ pc' = "idle"
    BY <1>2, <1>4 DEF EndFrame, At, Chained
  <2>2. Control'
    BY <2>1 DEF Control, Scanning, Engaged
  <2> QED BY <1>3, <2>2 DEF IInv
<1>5. CASE Len(stack) # 1
  <2>1. /\ Len(stack') \in 1 .. Len(stack) - 1 /\ stack' # <<>> /\ pc' = "nested"
        /\ Top' = stack[Len(stack')] /\ HasKid(Top')
    BY <1>1, <1>2, <1>5 DEF EndFrame, At, Top
  <2>2. Waits(file', Top')
    BY <2>1
  <2>3. Control'
    BY <2>1, <2>2 DEF Control, Scanning, Engaged
  <2> QED BY <1>3, <2>3 DEF IInv
<1> QED BY <1>4, <1>5

\* The engine goes on, in the run of the frame at hand or in its child.
LEMMA RunIInv ==
    ASSUME IInv, UNCHANGED stack, NEW r \in Runs, Run(r), Files(file)', file'[r].stopped = "",
           \A q \in Runs : file[q].stopped = "terminal" => file'[q] = file[q],
           \A k \in 1 .. Len(stack) - 1 : Waits(file', stack[k]),
           stack # <<>> => r = Top.run \/ (r = Kid /\ HasKid(Top) /\ Waits(file', Top))
    PROVE  IInv'
<1>1. Stack'
  BY StackStays DEF IInv
<1>2. Top' = Top /\ Kid' = Kid /\ pc' = "run" /\ active'.run = r
  BY DEF Top, Kid, Run
<1>3. Control'
  BY <1>2 DEF Control, Scanning, Engaged
<1> QED BY <1>1, <1>3 DEF IInv

LEMMA QuitIInv == IInv /\ Quit /\ UNCHANGED file => IInv'
<1> SUFFICES ASSUME IInv, Quit, UNCHANGED file PROVE IInv'
  OBVIOUS
<1>1. stack' = <<>> /\ Len(stack') = 0 /\ stack' \in Seq(Frames) /\ pc' = "idle"
  BY DEF Quit
<1>2. Stack'
  BY <1>1 DEF Stack, Chained
<1>3. Control'
  BY <1>1 DEF Control, Scanning, Engaged
<1> QED BY <1>2, <1>3 DEF IInv

\* A person, or a timer, writes a file that nothing at hand looks at.
LEMMA AsideIInv ==
    ASSUME IInv, UNCHANGED <<pc, stack, active>>, NEW r \in Runs, NEW doc, DocOf(r, doc), Save(r, doc),
           file[r].stopped = "needs_human" \/ pc = "idle"
    PROVE  IInv'
<1>1. Files(file)' /\ file'[r] = doc /\ \A q \in Runs : q # r => file'[q] = file[q]
  BY SaveIs DEF IInv
<1>2. CASE pc = "idle"
  <2>1. stack' = <<>> /\ Len(stack') = 0 /\ stack' \in Seq(Frames) /\ pc' = "idle"
    <3>1. stack = <<>>
      BY <1>2, Zenon DEF IInv, Control
    <3> QED BY <1>2, <3>1
  <2>2. Stack'
    BY <2>1 DEF Stack, Chained
  <2>3. Control'
    BY <2>1 DEF Control, Scanning, Engaged
  <2> QED BY <1>1, <2>2, <2>3 DEF IInv
<1>3. CASE file[r].stopped = "needs_human"
  <2>1. \A q \in Runs : file[q].stopped \in {"terminal", "waiting", ""} => file'[q] = file[q]
    BY <1>1, <1>3
  <2>2. Stack'
    BY <2>1, OthersWait, StackStays DEF IInv
  <2>3. Top' = Top /\ Kid' = Kid
    BY DEF Top, Kid
  <2>4. stack # <<>> => Top \in Frames
    BY TopIs DEF IInv, Stack
  <2>5. ASSUME stack # <<>>, Waits(file, Top) PROVE Waits(file', Top) /\ file'[Top.run] = file[Top.run]
    BY <2>1, <2>4, <2>5 DEF Waits, Frames
  <2>6. Control'
    BY <2>1, <2>3, <2>5 DEF IInv, Control, Scanning, Engaged
  <2> QED BY <1>1, <2>2, <2>6 DEF IInv
<1> QED BY <1>2, <1>3

-----------------------------------------------------------------------------
(* The actions.                                                            *)

LEMMA InitIInv == Init => IInv
<1> SUFFICES ASSUME Init PROVE IInv
  OBVIOUS
<1>1. Files(file)
  <2>1. \A r \in Runs : DocOf(r, NoDoc)
    BY NoDocIs DEF DocOf
  <2> QED BY <2>1, NoDocIs DEF Init, Files
<1>2. stack = <<>> /\ Len(stack) = 0 /\ stack \in Seq(Frames) /\ pc = "idle"
  BY DEF Init
<1>3. Stack
  BY <1>2 DEF Stack, Chained
<1>4. Control
  BY <1>2 DEF Control, Scanning, Engaged
<1> QED BY <1>1, <1>3, <1>4 DEF IInv

LEMMA BeginScanIInv == IInv /\ BeginScan => IInv'
<1> SUFFICES ASSUME IInv, BeginScan PROVE IInv'
  OBVIOUS
<1> DEFINE F == Frame(<<>>)
<1>1. /\ IsFanOut(file[<<>>]) /\ stack' = <<F>> /\ pc' = "poll" /\ active' = Idle /\ UNCHANGED file
  BY DEF BeginScan, At
<1>2. <<>> \in Runs /\ file[<<>>].node \in FanOuts /\ file[<<>>].node \in NodesOf[<<>>]
  BY <1>1, RunsAssumption DEF IsFanOut, IInv, Files, DocOf
<1>3. F \in Frames /\ F.run = <<>> /\ F.node = file[<<>>].node /\ F.seen = <<>>
  BY <1>2 DEF Frame, Frames
<1>4. Framed(F)
  <2>1. Items[F.node] \in Seq(ItemIds)
    BY <1>2, <1>3, FlowsAssumption
  <2> QED BY <1>2, <1>3, <2>1 DEF Framed
<1>5. Waits(file', F)
  BY <1>1, <1>3 DEF Waits, IsFanOut
<1> HIDE DEF F
<1>6. Len(stack') = 1 /\ stack'[1] = F /\ stack' \in Seq(Frames) /\ stack' # <<>>
  BY <1>1, <1>3
<1>7. Stack'
  BY <1>3, <1>4, <1>6 DEF Stack, Chained, Told
<1>8. Top' = F
  BY <1>6 DEF Top
<1>9. Control'
  BY <1>1, <1>5, <1>6, <1>8 DEF Control, Scanning, Engaged
<1> QED BY <1>1, <1>7, <1>9 DEF IInv

\* The child at hand is looked at.
LEMMA JudgeIInv ==
    ASSUME IInv, stack # <<>>, HasKid(Top), Waits(file, Top), Judge(file[Kid]), At("poll"), UNCHANGED file
    PROVE  IInv'
<1>1. CASE IsFanOut(file[Kid])
  <2>1. stack' = Append(stack, Frame(Kid)) /\ pc' = "poll"
    BY <1>1 DEF Judge, At
  <2>2. /\ Chained(stack') /\ Len(stack') = Len(stack) + 1 /\ stack'[Len(stack')] = Frame(Kid)
        /\ Frame(Kid).seen = <<>> /\ Waits(file, Frame(Kid))
        /\ \A k \in 1 .. Len(stack) : stack'[k] = stack[k]
    BY <1>1, <2>1, PushIs DEF IInv, Stack
  <2>3. Len(stack) \in Nat \ {0} /\ Top = stack[Len(stack)]
    BY TopIs DEF IInv, Stack
  <2> DEFINE F == Frame(Kid)
  <2> HIDE DEF F
  <2>4. stack' # <<>> /\ Top' = F /\ stack'[Len(stack')] = F /\ F.seen = <<>> /\ Waits(file, F)
    BY <2>2, <2>3 DEF Top, F
  <2>5. ASSUME NEW k \in 1 .. Len(stack') PROVE Told(file, stack'[k])
    <3>1. CASE k \in 1 .. Len(stack)
      BY <2>2, <3>1 DEF IInv, Stack
    <3>2. CASE k = Len(stack')
      BY <2>4, <3>2 DEF Told
    <3> QED BY <2>2, <2>3, <3>1, <3>2
  <2>6. ASSUME NEW k \in 1 .. Len(stack') - 1 PROVE Waits(file, stack'[k])
    <3>1. k \in 1 .. Len(stack) /\ stack'[k] = stack[k]
      BY <2>2, <2>3
    <3>2. CASE k \in 1 .. Len(stack) - 1
      BY <3>1, <3>2 DEF IInv, Stack
    <3>3. CASE k = Len(stack)
      BY <2>3, <3>1, <3>3
    <3> QED BY <2>3, <3>1, <3>2, <3>3
  <2>7. Stack'
    BY <2>2, <2>5, <2>6 DEF Stack
  <2>8. Control'
    BY <2>1, <2>4 DEF Control, Scanning, Engaged
  <2> QED BY <2>7, <2>8 DEF IInv
<1>2. CASE ~IsFanOut(file[Kid])
  <2> DEFINE flag == Done(file[Kid], Top.node)
  <2>1. Kid \in Runs /\ file[Kid].good \in BOOLEAN
    <3>1. Kid \in Runs
      BY TopIs, KidIs DEF IInv, Stack
    <3> QED BY <3>1 DEF IInv, Files, DocOf, Docs
  <2>2. flag \in BOOLEAN
    BY <2>1 DEF Done
  <2>3. Count(flag) /\ (flag => Done(file'[Kid], Top.node))
    BY <1>2 DEF Judge
  <2> HIDE DEF flag
  <2>4. Files(file)' /\ \A q \in Runs : file[q].stopped \in {"terminal", "waiting"} => file'[q] = file[q]
    BY DEF IInv
  <2> QED BY <2>2, <2>3, <2>4, CountIInv
<1> QED BY <1>1, <1>2

LEMMA PollIInv == IInv /\ Poll => IInv'
<1> SUFFICES ASSUME IInv, Poll PROVE IInv'
  OBVIOUS
<1>1. stack # <<>> /\ Waits(file, Top) /\ HasKid(Top)
  BY DEF Poll, IInv, Control, Scanning, HasKid
<1>2. Framed(Top) /\ Top \in Frames /\ Kid \in Runs /\ Child[Top.node] \in NodesOf[Kid]
  BY <1>1, TopIs, KidIs DEF IInv, Stack
<1>3. CASE ~Exists(Kid) /\ Save(Kid, Fresh(Child[Top.node])) /\ Run(Kid) /\ UNCHANGED stack
  <2>1. DocOf(Kid, Fresh(Child[Top.node])) /\ Fresh(Child[Top.node]).stopped = ""
    BY <1>2, FreshIs
  <2>2. /\ Files(file)' /\ file'[Kid].stopped = ""
        /\ \A q \in Runs : file[q].stopped \in {"terminal", "waiting"} => file'[q] = file[q]
    BY <1>2, <1>3, <2>1, SaveAside DEF IInv, Exists
  <2>3. Waits(file', Top)
    BY <1>1, <1>2, <2>2, WaitsStays
  <2> QED BY <1>1, <1>2, <1>3, <2>2, <2>3, OthersWait, RunIInv DEF IInv
<1>4. CASE Exists(Kid) /\ ~Stable(file[Kid]) /\ Run(Kid) /\ UNCHANGED <<file, stack>>
  <2>1. file[Kid].stopped = ""
    BY <1>2, <1>4 DEF Stable, Exists, IInv, Files, Docs
  <2>2. Files(file)' /\ \A q \in Runs : file[q].stopped \in {"terminal", "waiting"} => file'[q] = file[q]
    BY <1>4 DEF IInv
  <2>3. file'[Kid].stopped = "" /\ Waits(file', Top)
    BY <1>1, <1>4, <2>1
  <2> QED BY <1>1, <1>2, <1>4, <2>2, <2>3, OthersWait, RunIInv DEF IInv
<1>5. CASE Judge(file[Kid]) /\ At("poll") /\ UNCHANGED file
  BY <1>1, <1>5, JudgeIInv
<1> QED BY <1>3, <1>4, <1>5 DEF Poll

LEMMA PolledIInv == IInv /\ Polled => IInv'
<1> SUFFICES ASSUME IInv, Polled PROVE IInv'
  OBVIOUS
<1>1. stack # <<>> /\ Waits(file, Top) /\ HasKid(Top) /\ At("poll")
  BY DEF Polled, IInv, Control, Scanning
<1>2. Kid \in Runs
  BY <1>1, TopIs, KidIs DEF IInv, Stack
<1>3. CASE ~Stable(file[Kid]) /\ Save(Kid, [file[Kid] EXCEPT !.stopped = "error"]) /\ Count(FALSE)
  <2>1. DocOf(Kid, [file[Kid] EXCEPT !.stopped = "error"])
    BY <1>2 DEF IInv, Files, DocOf, Docs, Stops
  <2>2. /\ Files(file)'
        /\ \A q \in Runs : file[q].stopped \in {"terminal", "waiting"} => file'[q] = file[q]
    BY <1>2, <1>3, <2>1, SaveAside DEF IInv, Stable, Stops
  <2> QED BY <1>1, <1>3, <2>2, CountIInv
<1>4. CASE Judge(file[Kid]) /\ UNCHANGED file
  BY <1>1, <1>4, JudgeIInv
<1> QED BY <1>3, <1>4 DEF Polled

LEMMA NestedIInv == IInv /\ Nested => IInv'
<1> SUFFICES ASSUME IInv, Nested PROVE IInv'
  OBVIOUS
<1> DEFINE flag == Done(file[Kid], Top.node)
<1>1. stack # <<>> /\ Waits(file, Top) /\ HasKid(Top) /\ Count(flag) /\ At("poll") /\ UNCHANGED file
  BY DEF Nested, IInv, Control, Scanning
<1>2. Kid \in Runs
  BY <1>1, TopIs, KidIs DEF IInv, Stack
<1>3. flag \in BOOLEAN
  <2>1. file[Kid].good \in BOOLEAN
    BY <1>2 DEF IInv, Files, DocOf, Docs
  <2> QED BY <2>1 DEF Done
<1>4. flag => Done(file'[Kid], Top.node)
  BY <1>1
<1> HIDE DEF flag
<1>5. Files(file)' /\ \A q \in Runs : file[q].stopped \in {"terminal", "waiting"} => file'[q] = file[q]
  BY <1>1 DEF IInv
<1> QED BY <1>1, <1>3, <1>4, <1>5, CountIInv

LEMMA DecideIInv == IInv /\ Decide => IInv'
<1> SUFFICES ASSUME IInv, Decide PROVE IInv'
  OBVIOUS
<1>1. stack # <<>> /\ Waits(file, Top) /\ UNCHANGED file /\ Len(Top.seen) = Len(Items[Top.node])
  BY DEF Decide, IInv, Control, Scanning
<1>2. ~HasKid(Top)
  <2>1. Len(Top.seen) \in Nat
    BY <1>1, TopIs DEF IInv, Stack, Frames
  <2> QED BY <1>1, <2>1 DEF HasKid
<1>3. CASE Joins(Top.node, Top.seen) /\ At("inject") /\ UNCHANGED stack
  <2>1. pc' = "inject" /\ Top' = Top /\ UNCHANGED <<stack, file>>
    BY <1>1, <1>3 DEF At, Top
  <2>2. Stack'
    BY <1>1, <2>1, StackStays DEF IInv, Stack
  <2>3. Control'
    BY <1>1, <1>2, <1>3, <2>1 DEF Control, Scanning, Engaged
  <2> QED BY <1>1, <2>2, <2>3 DEF IInv
<1>4. CASE EndFrame
  <2>1. Files(file)' /\ \A q \in Runs : file[q].stopped = "terminal" => file'[q] = file[q]
    BY <1>1 DEF IInv
  <2>2. \A k \in 1 .. Len(stack) - 1 : Waits(file', stack[k])
    BY <1>1 DEF IInv, Stack
  <2> QED BY <1>1, <1>4, <2>1, <2>2, EndFrameIInv
<1> QED BY <1>3, <1>4 DEF Decide

\* The frames around the one at hand are of other runs.
LEMMA OuterRuns ==
    ASSUME Chained(stack), stack # <<>>, NEW k \in 1 .. Len(stack) - 1
    PROVE  stack[k].run # Top.run /\ stack[k].run \in Runs /\ stack[k] \in Frames
<1>1. Len(stack) \in Nat \ {0} /\ Len(Top.run) = Len(stack) - 1
  BY TopIs
<1>2. k \in 1 .. Len(stack) /\ Framed(stack[k]) /\ Len(stack[k].run) = k - 1
  BY <1>1 DEF Chained
<1> QED BY <1>1, <1>2 DEF Framed, Frames

LEMMA InjectIInv == IInv /\ Inject => IInv'
<1> SUFFICES ASSUME IInv, Inject PROVE IInv'
  OBVIOUS
<1> DEFINE r == Top.run
           doc == [file[r] EXCEPT !.spawned[Top.node] = DoneItems(Top)]
<1>1. /\ stack # <<>> /\ Waits(file, Top) /\ ~HasKid(Top) /\ Joins(Top.node, Top.seen)
      /\ Save(r, doc) /\ pc' = "resume" /\ UNCHANGED stack
  BY DEF Inject, IInv, Control, Scanning, At, DoneItems
<1>2. Chained(stack) /\ Framed(Top) /\ Top \in Frames /\ r \in Runs
  BY <1>1, TopIs DEF IInv, Stack
<1>3. DoneItems(Top) \in SUBSET ItemIds
  <2>1. Len(Top.seen) \in Nat /\ Len(Items[Top.node]) \in Nat /\ Len(Top.seen) <= Len(Items[Top.node])
    BY <1>2, FlowsAssumption DEF Framed, Frames
  <2>2. \A j \in DOMAIN Top.seen : j \in 1 .. Len(Items[Top.node])
    BY <1>2, <2>1 DEF Frames
  <2>3. \A j \in DOMAIN Top.seen : Items[Top.node][j] \in ItemIds
    BY <1>2, <2>2, ItemIs DEF Frames
  <2> QED BY <2>3 DEF DoneItems
<1>4. file[r] \in Docs /\ DocOf(r, file[r]) /\ Top.node \in FanOuts
  BY <1>2 DEF IInv, Files, Frames, DocOf
<1>5. /\ doc \in Docs /\ doc.stopped = file[r].stopped /\ doc.node = file[r].node
      /\ doc.spawned[Top.node] = DoneItems(Top)
  BY <1>3, <1>4 DEF Docs
<1> HIDE DEF doc
<1>6. DocOf(r, doc)
  BY <1>4, <1>5 DEF DocOf
<1>7. Files(file)' /\ file'[r] = doc /\ \A q \in Runs : q # r => file'[q] = file[q]
  BY <1>1, <1>2, <1>6, SaveIs DEF IInv
<1>8. ASSUME NEW k \in 1 .. Len(stack) - 1 PROVE Waits(file', stack[k])
  BY <1>1, <1>2, <1>7, <1>8, OuterRuns DEF IInv, Stack, Waits
<1>9. Stack'
  BY <1>1, <1>7, <1>8, StackStays DEF IInv, Waits
<1>10. Top' = Top /\ Waits(file', Top) /\ file'[r].spawned[Top.node] = DoneItems(Top)
  BY <1>1, <1>5, <1>7 DEF Top, Waits
<1>11. Control'
  BY <1>1, <1>10 DEF Control, Scanning, Engaged
<1> QED BY <1>7, <1>9, <1>11 DEF IInv

LEMMA ResumeIInv == IInv /\ Resume => IInv'
<1> SUFFICES ASSUME IInv, Resume PROVE IInv'
  OBVIOUS
<1> DEFINE r == Top.run
           doc == Enter(file[r], Then[file[r].node])
<1>1. /\ stack # <<>> /\ Waits(file, Top) /\ Save(r, doc)
      /\ IF doc.stopped = "terminal" THEN EndFrame ELSE Run(r) /\ UNCHANGED stack
  BY DEF Resume, IInv, Control, Scanning
<1>2. Chained(stack) /\ Framed(Top) /\ Top \in Frames /\ r \in Runs
  BY <1>1, TopIs DEF IInv, Stack
<1>3. file[r] \in Docs /\ file[r].node \in NodesOf[r]
  BY <1>1, <1>2 DEF IInv, Files, DocOf, Waits
<1>4. Then[file[r].node] \in NodesOf[r] \cup {End}
  BY <1>2, <1>3, EdgesStay
<1>5. DocOf(r, doc) /\ (doc.stopped = "terminal" \/ doc.stopped = "")
  BY <1>2, <1>3, <1>4, EnterIs
<1> HIDE DEF doc
<1>6. Files(file)' /\ file'[r] = doc /\ \A q \in Runs : q # r => file'[q] = file[q]
  BY <1>1, <1>2, <1>5, SaveIs DEF IInv
<1>7. \A q \in Runs : file[q].stopped = "terminal" => file'[q] = file[q]
  BY <1>1, <1>6 DEF Waits
<1>8. ASSUME NEW k \in 1 .. Len(stack) - 1 PROVE Waits(file', stack[k])
  BY <1>1, <1>2, <1>6, <1>8, OuterRuns DEF IInv, Stack, Waits
<1>9. CASE doc.stopped = "terminal"
  BY <1>1, <1>6, <1>7, <1>8, <1>9, EndFrameIInv
<1>10. CASE doc.stopped = ""
  BY <1>1, <1>2, <1>6, <1>7, <1>8, <1>10, RunIInv
<1> QED BY <1>5, <1>9, <1>10

\* The call is over: no run, the fan-out's own run, or the child's.
LEMMA ReturnIInv ==
    ASSUME IInv, pc \in Engaged, Return, Files(file)',
           \A q \in Runs : q # active.run => file'[q] = file[q]
    PROVE  IInv'
<1>1. /\ active.run \in Runs /\ file[active.run].stopped = ""
      /\ stack # <<>> => active.run = Top.run \/ (active.run = Kid /\ HasKid(Top) /\ Waits(file, Top))
  BY DEF IInv, Control, Engaged
<1>2. \A q \in Runs : file[q].stopped \in {"terminal", "waiting"} => file'[q] = file[q]
  BY <1>1
<1>3. \A k \in 1 .. Len(stack) - 1 : Waits(file', stack[k])
  BY <1>2, OthersWait DEF IInv
<1>4. CASE stack = <<>>
  <2>1. stack' = <<>> /\ Len(stack') = 0 /\ stack' \in Seq(Frames) /\ pc' = "idle"
    BY <1>4 DEF Return, Quit
  <2>2. Stack'
    BY <2>1 DEF Stack, Chained
  <2>3. Control'
    BY <2>1 DEF Control, Scanning, Engaged
  <2> QED BY <2>2, <2>3 DEF IInv
<1>5. CASE stack # <<>> /\ active.run = Top.run
  BY <1>2, <1>3, <1>5, EndFrameIInv DEF Return
<1>6. CASE stack # <<>> /\ active.run # Top.run
  <2>1. pc' = "polled" /\ UNCHANGED stack /\ Top' = Top
    BY <1>6 DEF Return, At, Top
  <2>2. Stack'
    BY <1>2, <1>3, <2>1, StackStays DEF IInv
  <2>3. Top \in Frames
    BY <1>6, TopIs DEF IInv, Stack
  <2>4. Waits(file, Top) /\ HasKid(Top)
    BY <1>1, <1>6
  <2>5. Waits(file', Top)
    BY <1>2, <2>3, <2>4, WaitsStays
  <2>6. Control'
    BY <1>6, <2>1, <2>4, <2>5 DEF Control, Scanning, Engaged
  <2> QED BY <2>2, <2>6 DEF IInv
<1> QED BY <1>4, <1>5, <1>6

\* The document after a call that was not cut short.
LEMMA AfterIs ==
    ASSUME NEW r \in Runs, NEW doc, DocOf(r, doc), doc.stopped = "", NEW o \in Outcomes \ {"unsaved", "raise"}
    PROVE  /\ DocOf(r, After(doc, o))
           /\ \/ After(doc, o).stopped # "" /\ After(doc, o).node = doc.node
              \/ /\ After(doc, o).stopped = IF Then[doc.node] = End THEN "terminal" ELSE ""
                 /\ After(doc, o).node = Then[doc.node]
<1>1. doc \in Docs /\ doc.node \in NodesOf[r] /\ Then[doc.node] \in NodesOf[r] \cup {End}
  BY EdgesStay DEF DocOf
<1>2. CASE o \in {"ok", "poor"}
  <2> DEFINE d == [doc EXCEPT !.good = @ \/ o = "ok"]
  <2>1. (doc.good \/ o = "ok") \in BOOLEAN
    BY <1>1 DEF Docs
  <2>2. d \in Docs
    BY <1>1, <2>1 DEF Docs
  <2>3. After(doc, o) = Enter(d, Then[doc.node])
    BY <1>2 DEF After
  <2> HIDE DEF d
  <2>4. /\ DocOf(r, Enter(d, Then[doc.node])) /\ Enter(d, Then[doc.node]).node = Then[doc.node]
        /\ Enter(d, Then[doc.node]).stopped = (IF Then[doc.node] = End THEN "terminal" ELSE "")
    BY <1>1, <2>2, EnterIs
  <2> QED BY <2>3, <2>4
<1>3. CASE o \notin {"ok", "poor"}
  <2>1. PICK s \in Stops \ {""} : After(doc, o) = [doc EXCEPT !.stopped = s]
    BY <1>3 DEF After, Outcomes, Stops
  <2>2. [doc EXCEPT !.stopped = s] \in Docs
    BY <1>1 DEF Docs
  <2> QED BY <1>1, <2>1, <2>2 DEF DocOf, Docs
<1> QED BY <1>2, <1>3

LEMMA CallIInv == IInv /\ Call => IInv'
<1> SUFFICES ASSUME IInv, Call PROVE IInv'
  OBVIOUS
<1> DEFINE r == active.run
<1>1. /\ pc = "run" /\ UNCHANGED file
      /\ r \in Runs /\ file[r].stopped = ""
      /\ stack # <<>> => r = Top.run \/ (r = Kid /\ HasKid(Top) /\ Waits(file, Top))
  BY DEF Call, IInv, Control, Engaged
<1>2. DocOf(r, file[r]) /\ file[r].node \in NodesOf[r]
  BY <1>1 DEF IInv, Files, DocOf
<1>3. PICK o \in Yields[file[r].node] :
        \/ /\ o \notin {"unsaved", "raise"}
           /\ pc' = "save" /\ active' = [active EXCEPT !.doc = After(file[r], o)]
           /\ UNCHANGED <<stack, faults>>
        \/ IF o = "raise" THEN Quit ELSE Return
  BY DEF Call
<1>4. CASE /\ o \notin {"unsaved", "raise"}
           /\ pc' = "save" /\ active' = [active EXCEPT !.doc = After(file[r], o)]
           /\ UNCHANGED <<stack, faults>>
  <2>1. o \in Outcomes \ {"unsaved", "raise"}
    BY <1>1, <1>2, <1>4, EdgesStay, FlowsAssumption
  <2>2. DocOf(r, After(file[r], o))
    BY <1>1, <1>2, <2>1, AfterIs
  <2>3. active'.run = r /\ active'.doc = After(file[r], o)
    BY <1>4
  <2>4. Stack'
    BY <1>1, <1>4, StackStays DEF IInv, Stack
  <2>5. Top' = Top /\ Kid' = Kid
    BY <1>4 DEF Top, Kid
  <2>6. Control'
    BY <1>1, <1>4, <2>2, <2>3, <2>5 DEF Control, Scanning, Engaged
  <2> QED BY <1>1, <2>4, <2>6 DEF IInv
<1>5. CASE Quit
  BY <1>1, <1>5, QuitIInv
<1>6. CASE Return
  <2>1. Files(file)' /\ pc \in Engaged /\ \A q \in Runs : q # active.run => file'[q] = file[q]
    BY <1>1 DEF IInv, Engaged
  <2> QED BY <1>6, <2>1, ReturnIInv
<1> QED BY <1>3, <1>4, <1>5, <1>6

LEMMA SaveStepIInv == IInv /\ SaveStep => IInv'
<1> SUFFICES ASSUME IInv, SaveStep PROVE IInv'
  OBVIOUS
<1> DEFINE r == active.run
<1>1. /\ pc = "save" /\ pc \in Engaged /\ Save(r, active.doc)
      /\ r \in Runs /\ file[r].stopped = "" /\ DocOf(r, active.doc)
      /\ stack # <<>> => r = Top.run \/ (r = Kid /\ HasKid(Top) /\ Waits(file, Top))
  BY DEF SaveStep, IInv, Control, Engaged
<1>2. /\ Files(file)' /\ file'[r] = active.doc /\ \A q \in Runs : q # r => file'[q] = file[q]
      /\ \A q \in Runs : file[q].stopped \in {"terminal", "waiting"} => file'[q] = file[q]
  BY <1>1, SaveAside DEF IInv
<1>3. CASE Return
  BY <1>1, <1>2, <1>3, ReturnIInv
<1>4. CASE active.doc.stopped = "" /\ Run(r) /\ UNCHANGED stack
  <2>1. stack # <<>> => Top \in Frames
    BY TopIs DEF IInv, Stack
  <2>2. stack # <<>> => r = Top.run \/ (r = Kid /\ HasKid(Top) /\ Waits(file', Top))
    <3> SUFFICES ASSUME stack # <<>>, r = Kid, HasKid(Top), Waits(file, Top) PROVE Waits(file', Top)
      BY <1>1
    <3> QED BY <1>2, <2>1, WaitsStays
  <2>3. /\ file'[r].stopped = "" /\ \A q \in Runs : file[q].stopped = "terminal" => file'[q] = file[q]
        /\ \A k \in 1 .. Len(stack) - 1 : Waits(file', stack[k])
    BY <1>2, <1>4, OthersWait DEF IInv
  <2> HIDE DEF r
  <2>4. r \in Runs
    BY <1>1
  <2> QED BY <1>2, <1>4, <2>2, <2>3, <2>4, RunIInv
<1> QED BY <1>3, <1>4 DEF SaveStep

LEMMA RunRootIInv == IInv /\ RunRoot => IInv'
<1> SUFFICES ASSUME IInv, RunRoot PROVE IInv'
  OBVIOUS
<1>1. pc = "idle" /\ ~Stable(file[<<>>]) /\ Run(<<>>) /\ UNCHANGED stack /\ <<>> \in Runs
  BY RunsAssumption DEF RunRoot
<1>2. stack = <<>> /\ Len(stack) = 0
  BY <1>1, Zenon DEF IInv, Control
<1>3. Files(file)' /\ file'[<<>>].stopped = "" /\ \A q \in Runs : file[q].stopped = "terminal" => file'[q] = file[q]
  <2>1. CASE Exists(<<>>) /\ UNCHANGED file
    BY <1>1, <2>1 DEF Exists, Stable, IInv, Files, Docs
  <2>2. CASE ~Exists(<<>>) /\ Save(<<>>, Fresh(RootFlow))
    <3>1. DocOf(<<>>, Fresh(RootFlow)) /\ Fresh(RootFlow).stopped = ""
      BY RunsAssumption, FreshIs
    <3> QED BY <1>1, <2>2, <3>1, SaveAside DEF IInv, Exists
  <2> QED BY <2>1, <2>2 DEF RunRoot
<1>4. \A k \in 1 .. Len(stack) - 1 : Waits(file', stack[k])
  BY <1>2
<1> QED BY <1>1, <1>2, <1>3, <1>4, RunIInv

LEMMA AnswerIInv ==
    ASSUME IInv, NEW r \in Runs, Answer(r)
    PROVE  IInv'
<1>1. file[r] \in Docs /\ file[r].node \in NodesOf[r] /\ file[r].stopped = "needs_human"
  BY DEF Answer, IInv, Files, DocOf
<1>2. DocOf(r, Enter(file[r], Then[file[r].node]))
  BY <1>1, EdgesStay, EnterIs
<1> QED BY <1>1, <1>2, AsideIInv DEF Answer

LEMMA TimeoutIInv == IInv /\ Timeout => IInv'
<1> SUFFICES ASSUME IInv, Timeout PROVE IInv'
  OBVIOUS
<1>1. /\ <<>> \in Runs /\ file[<<>>] \in Docs /\ file[<<>>].node \in NodesOf[<<>>]
      /\ file[<<>>].node \in DOMAIN Late /\ pc = "idle"
  BY RunsAssumption DEF Timeout, IInv, Files, DocOf
<1>2. DocOf(<<>>, Enter(file[<<>>], Late[file[<<>>].node]))
  BY <1>1, EdgesStay, EnterIs
<1> QED BY <1>1, <1>2, AsideIInv DEF Timeout

LEMMA StepIInv == IInv /\ [Next]_vars => IInv'
<1> SUFFICES ASSUME IInv, [Next]_vars PROVE IInv'
  OBVIOUS
<1>1. CASE Harness
  BY <1>1, BeginScanIInv, PollIInv, PolledIInv, NestedIInv, DecideIInv, InjectIInv, ResumeIInv DEF Harness
<1>2. CASE Engine
  BY <1>2, CallIInv, SaveStepIInv, RunRootIInv DEF Engine
<1>3. CASE \E r \in Runs : Answer(r)
  BY <1>3, AnswerIInv
<1>4. CASE Timeout
  BY <1>4, TimeoutIInv
<1>5. CASE Crash
  BY <1>5, QuitIInv DEF Crash
<1>6. CASE UNCHANGED vars
  BY <1>6 DEF vars, IInv, Stack, Control, Top, Kid
<1> QED BY <1>1, <1>2, <1>3, <1>4, <1>5, <1>6 DEF Next

LEMMA Invariance == Spec => []IInv
<1> QED BY InitIInv, StepIInv, PTL DEF Spec

-----------------------------------------------------------------------------
(* The join.                                                               *)

\* No two items of a fan-out share a file, as long as their ids differ.
DistinctItems ==
    \A f \in FanOuts : \A i, j \in 1 .. Len(Items[f]) : Items[f][i] = Items[f][j] => i = j

\* A quorum is a fraction of the children or a count of them.
WholeQuorums ==
    \A f \in FanOuts :
        Join[f].policy = "quorum" /\ Join[f].den # 0 /\ ~(0 < Join[f].num /\ Join[f].num < Join[f].den)
            => \E c \in Int : Join[f].num = c * Join[f].den

\* There are as many items reported as flags that say done.
LEMMA ReportedCount ==
    ASSUME DistinctItems, NEW fr, Framed(fr)
    PROVE  /\ Cardinality(DoneItems(fr)) = Cardinality({i \in DOMAIN fr.seen : fr.seen[i]})
           /\ Cardinality(DoneItems(fr)) \in 0 .. Len(fr.seen)
<1> DEFINE D == {i \in DOMAIN fr.seen : fr.seen[i]}
           g == [i \in D |-> Items[fr.node][i]]
<1>1. /\ fr.node \in FanOuts /\ Len(fr.seen) \in Nat /\ DOMAIN fr.seen = 1 .. Len(fr.seen)
      /\ Len(Items[fr.node]) \in Nat /\ Len(fr.seen) <= Len(Items[fr.node])
  BY FlowsAssumption DEF Framed, Frames
<1>2. D \subseteq 1 .. Len(fr.seen) /\ D \subseteq 1 .. Len(Items[fr.node])
  BY <1>1
<1>3. IsFiniteSet(D) /\ Cardinality(D) \in 0 .. Len(fr.seen)
  <2>1. IsFiniteSet(1 .. Len(fr.seen)) /\ Cardinality(1 .. Len(fr.seen)) = Len(fr.seen)
    <3> DEFINE m == Len(fr.seen)
    <3>1. m \in Nat
      BY <1>1
    <3> HIDE DEF m
    <3>2. IsFiniteSet(1 .. m) /\ Cardinality(1 .. m) = m
      BY <3>1, FS_Interval
    <3> QED BY <3>2 DEF m
  <2> HIDE DEF D
  <2>2. IsFiniteSet(D) /\ Cardinality(D) <= Len(fr.seen)
    BY <1>2, <2>1, FS_Subset
  <2> QED BY <1>1, <2>2, FS_CardinalityType
<1>4. \A i, j \in D : g[i] = g[j] => i = j
  BY <1>1, <1>2 DEF DistinctItems
<1>5. DoneItems(fr) = {g[i] : i \in D}
  BY DEF DoneItems
<1> HIDE DEF D
<1>6. g \in [D -> DoneItems(fr)] /\ \A t \in DoneItems(fr) : \E i \in D : g[i] = t
  BY <1>5
<1> HIDE DEF g
<1>7. g \in Surjection(D, DoneItems(fr)) /\ g \in Injection(D, DoneItems(fr))
  BY <1>4, <1>6 DEF Surjection, Injection, IsInjective
<1>8. Cardinality(DoneItems(fr)) = Cardinality(D)
  BY <1>3, <1>7, FS_Surjection
<1> QED BY <1>3, <1>8 DEF D

\* Rounding up, and the order of products.
LEMMA RoundsUp ==
    ASSUME NEW a \in Int, NEW den \in Nat, den # 0
    PROVE  ((a + den - 1) \div den) \in Int /\ ((a + den - 1) \div den) * den >= a
OBVIOUS

LEMMA ProductsGrow ==
    ASSUME NEW a \in Int, NEW b \in Int, NEW den \in Nat, a <= b
    PROVE  a * den \in Int /\ b * den \in Int /\ a * den <= b * den
OBVIOUS

LEMMA WholeDivides ==
    ASSUME NEW c \in Int, NEW den \in Nat, den # 0
    PROVE  (c * den) \div den = c
OBVIOUS

\* What reaches the threshold is what the quorum asks for, or everything.
LEMMA ThresholdMeets ==
    ASSUME WholeQuorums, NEW f \in FanOuts, Join[f].policy = "quorum",
           NEW n \in Nat \ {0}, NEW done \in 0 .. n, done >= Threshold(Join[f], n)
    PROVE  Met(f, done, n)
<1> DEFINE num == Join[f].num
           den == Join[f].den
<1>1. num \in Int /\ den \in Nat
  BY JoinAssumption
<1>2. CASE den = 0
  BY <1>2 DEF Threshold, Met
<1>3. CASE den # 0 /\ 0 < num /\ num < den
  <2> DEFINE c == (num * n + den - 1) \div den
  <2>1. c \in Int /\ c * den >= num * n /\ num * n \in Int /\ num * n >= 0
    <3>1. num * n \in Int /\ num * n >= 0
      BY <1>1, <1>3, ProductsGrow
    <3> DEFINE a == num * n
    <3> HIDE DEF a, den, num
    <3>2. a \in Int
      BY <3>1 DEF a
    <3>3. ((a + den - 1) \div den) \in Int /\ ((a + den - 1) \div den) * den >= a
      BY <1>1, <1>3, <3>2, RoundsUp
    <3> QED BY <3>1, <3>3 DEF a
  <2>2. done >= Within(c, 1, n)
    BY <1>3 DEF Threshold
  <2> HIDE DEF c
  <2>3. done >= 1 /\ (done >= c \/ done = n)
    BY <2>1, <2>2 DEF Within
  <2>4. CASE done >= c
    <3> HIDE DEF den, num
    <3>1. c * den \in Int /\ done * den \in Int /\ c * den <= done * den
      BY <1>1, <2>1, <2>4, ProductsGrow
    <3>2. done * den >= num * n
      <4> DEFINE x == c * den
                 y == done * den
                 z == num * n
      <4>1. x \in Int /\ y \in Int /\ z \in Int /\ x <= y /\ x >= z
        BY <2>1, <3>1
      <4> HIDE DEF x, y, z
      <4>2. y >= z
        BY <4>1
      <4> QED BY <4>2 DEF y, z
    <3> QED BY <1>3, <2>3, <3>2 DEF Met, den, num
  <2>5. CASE done = n
    BY <2>5 DEF Met
  <2> QED BY <2>3, <2>4, <2>5
<1>4. CASE den # 0 /\ ~(0 < num /\ num < den)
  <2>1. PICK c \in Int : num = c * den
    BY <1>4 DEF WholeQuorums
  <2>2. num \div den = c
    <3> HIDE DEF num, den
    <3> QED BY <1>1, <1>4, <2>1, WholeDivides
  <2>3. done >= Within(c, 1, n)
    <3>1. done >= Within(num \div den, 1, n)
      BY <1>4 DEF Threshold
    <3> QED BY <2>2, <3>1
  <2>4. done >= 1 /\ (done >= c \/ done = n)
    BY <2>3 DEF Within
  <2>5. CASE done >= c
    <3>1. c * den \in Int /\ done * den \in Int /\ c * den <= done * den
      <4> HIDE DEF den
      <4> QED BY <1>1, <2>5, ProductsGrow
    <3>2. done * den >= num
      BY <2>1, <3>1
    <3> QED BY <1>4, <2>4, <3>2 DEF Met
  <2>6. CASE done = n
    BY <2>6 DEF Met
  <2> QED BY <2>4, <2>5, <2>6
<1> QED BY <1>2, <1>3, <1>4

\* A join that fires is one that was asked for.
LEMMA JoinsMeets ==
    ASSUME DistinctItems, WholeQuorums, NEW fr, Framed(fr), ~HasKid(fr), Joins(fr.node, fr.seen)
    PROVE  Met(fr.node, Cardinality(DoneItems(fr)), Len(Items[fr.node]))
<1> DEFINE f == fr.node
           n == Len(Items[f])
           done == Cardinality(DoneItems(fr))
<1>1. f \in FanOuts /\ Len(fr.seen) = n /\ n \in Nat \ {0}
  <2>1. /\ f \in FanOuts /\ Len(fr.seen) \in Nat /\ n \in Nat /\ Len(fr.seen) <= n /\ ~(Len(fr.seen) < n)
        /\ Items[f] \in Seq(ItemIds) /\ Items[f] # <<>>
    BY FlowsAssumption DEF Framed, Frames, HasKid
  <2> QED BY <2>1
<1>2. done = Cardinality({i \in DOMAIN fr.seen : fr.seen[i]}) /\ done \in 0 .. n
  BY <1>1, ReportedCount
<1>3. Join[f].policy \in {"all_done", "any", "quorum"}
  BY <1>1, JoinAssumption
<1> HIDE DEF done
<1>4. CASE Join[f].policy = "any"
  <2>1. done >= 1
    BY <1>2, <1>4 DEF Joins
  <2> QED BY <1>4, <2>1 DEF Met, done
<1>5. CASE Join[f].policy = "all_done"
  <2>1. done = n
    BY <1>1, <1>2, <1>5 DEF Joins
  <2> QED BY <2>1 DEF Met, done
<1>6. CASE Join[f].policy = "quorum"
  <2>1. done >= Threshold(Join[f], n)
    BY <1>1, <1>2, <1>6 DEF Joins
  <2> QED BY <1>1, <1>2, <1>6, <2>1, ThresholdMeets DEF done
<1> QED BY <1>3, <1>4, <1>5, <1>6

\* For every tree of flows, every join and every fault: a parent that takes its
\* join edge has the children that the join asks for, and its summary names
\* only children that are done.  What was seen of a child is old when the join
\* is decided, but a child that is done stays so.  Two items of one id would be
\* one child counted twice, and a quorum such as 1.5 is cut to 1.
THEOREM JoinsAreAlwaysEarned ==
    ASSUME DistinctItems, WholeQuorums
    PROVE  Spec => JoinIsEarned
<1>1. ASSUME IInv, NEW f \in FanOuts, Joined(f)
      PROVE  LET reported == file[Top.run].spawned[f] IN
             /\ reported \subseteq Finished(Top.run, f)
             /\ Met(f, Cardinality(reported), Len(Items[f]))
  <2>1. /\ pc = "resume" /\ Top.node = f /\ stack # <<>> /\ ~HasKid(Top) /\ Joins(Top.node, Top.seen)
        /\ file[Top.run].spawned[f] = DoneItems(Top)
    BY <1>1 DEF Joined, IInv, Control, Scanning
  <2>2. Framed(Top) /\ Top \in Frames /\ Told(file, Top)
    <3>1. Chained(stack) /\ \A k \in 1 .. Len(stack) : Told(file, stack[k])
      BY <1>1 DEF IInv, Stack
    <3>2. Framed(Top) /\ Top \in Frames /\ Top = stack[Len(stack)] /\ Len(stack) \in 1 .. Len(stack)
      BY <2>1, <3>1, TopIs
    <3> QED BY <3>1, <3>2
  <2>3. DoneItems(Top) \subseteq Finished(Top.run, f)
    <3> SUFFICES ASSUME NEW i \in DOMAIN Top.seen, Top.seen[i]
                 PROVE  Items[f][i] \in Finished(Top.run, f)
      BY <2>1 DEF DoneItems
    <3>1. i \in 1 .. Len(Top.seen) /\ i \in 1 .. Len(Items[f])
      <4>1. Len(Top.seen) \in Nat /\ Len(Items[f]) \in Nat /\ Len(Top.seen) <= Len(Items[f])
            /\ DOMAIN Top.seen = 1 .. Len(Top.seen)
        BY <2>1, <2>2, FlowsAssumption DEF Framed, Frames
      <4> QED BY <4>1
    <3>2. Done(file[Append(Top.run, Items[f][i])], f) /\ Items[f][i] \in ToSet(Items[f])
      BY <2>1, <2>2, <3>1, ItemIs DEF Told
    <3> QED BY <3>2 DEF Finished, Done
  <2>4. Met(f, Cardinality(DoneItems(Top)), Len(Items[f]))
    BY <2>1, <2>2, JoinsMeets
  <2> QED BY <2>1, <2>3, <2>4
<1>2. IInv /\ [Next]_vars =>
        [\A f \in FanOuts : Joined(f) =>
            LET reported == file[Top.run].spawned[f] IN
            /\ reported \subseteq Finished(Top.run, f)
            /\ Met(f, Cardinality(reported), Len(Items[f]))]_vars
  BY <1>1
<1> QED BY <1>2, Invariance, PTL DEF Spec, JoinIsEarned

-----------------------------------------------------------------------------
(* The calls.  A flow that goes forward can be ranked.                     *)

Forward(rank) ==
    /\ rank \in [Nodes -> Nat]
    /\ \A n \in Nodes : Then[n] # End => rank[Then[n]] > rank[n]
    /\ \A n \in DOMAIN Late : Late[n] # End => rank[Late[n]] > rank[n]

\* The calls c of a run with document doc, after ft faults: none yet of what is
\* ahead of a run that may go on.
CalledOnce(rank, c, ft, doc) ==
    /\ \A n \in Nodes : c[n] <= 1 + ft
    /\ doc.stopped = "none" => \A n \in Nodes : c[n] = 0
    /\ doc.stopped \in {"", "waiting", "needs_human"} =>
         \A n \in Nodes : rank[n] > rank[doc.node] => c[n] = 0

\* A pending node is yet to be called, or was called in vain.
CalledInVain(rank, c, ft, doc) ==
    CalledOnce(rank, c, ft, doc) /\ (doc.stopped = "" => c[doc.node] <= ft)

\* The document to be saved stops at the node that was called, or goes on.
Forwards(rank, old, new) ==
    \/ new.stopped = "terminal"
    \/ new.stopped \notin {"", "none"} /\ new.node = old.node
    \/ new.stopped = "" /\ rank[new.node] > rank[old.node]

Calling(rank) ==
    /\ calls \in [Runs -> [Nodes -> Nat]] /\ faults \in Nat
    /\ \A r \in Runs :
        /\ CalledOnce(rank, calls[r], faults, file[r])
        /\ pc # "save" \/ active.run # r => CalledInVain(rank, calls[r], faults, file[r])
    /\ pc = "save" => Forwards(rank, file[active.run], active.doc)

LEMMA CallsAre ==
    ASSUME NEW rank, Calling(rank), NEW r \in Runs
    PROVE  calls[r] \in [Nodes -> Nat] /\ faults \in Nat /\ CalledOnce(rank, calls[r], faults, file[r])
BY DEF Calling

LEMMA EnterCalled ==
    ASSUME NEW rank, NEW c \in [Nodes -> Nat], NEW ft \in Nat, NEW r \in Runs, NEW doc, DocOf(r, doc), Forward(rank),
           CalledOnce(rank, c, ft, doc), doc.stopped \in {"waiting", "needs_human"},
           NEW n \in NodesOf[r] \cup {End}, n = End \/ rank[n] > rank[doc.node]
    PROVE  CalledInVain(rank, c, ft, Enter(doc, n))
<1>1. doc \in Docs
  BY DEF DocOf
<1>2. /\ Enter(doc, n).node = n /\ Enter(doc, n).stopped = (IF n = End THEN "terminal" ELSE "")
      /\ n \in Nodes \cup {End} /\ doc.node \in Nodes
  BY <1>1, EnterIs, EdgesStay DEF DocOf
<1>3. CASE n = End
  BY <1>2, <1>3 DEF CalledInVain, CalledOnce
<1>4. CASE n # End
  <2>1. n \in Nodes /\ rank[n] > rank[doc.node] /\ rank[n] \in Nat /\ rank[doc.node] \in Nat
    BY <1>2, <1>4 DEF Forward
  <2>2. c[n] = 0
    BY <2>1 DEF CalledOnce
  <2>3. ASSUME NEW k \in Nodes, rank[k] > rank[n] PROVE c[k] = 0
    <3>1. rank[k] > rank[doc.node]
      BY <2>1, <2>3 DEF Forward
    <3> QED BY <3>1 DEF CalledOnce
  <2> DEFINE d == Enter(doc, n)
  <2>4. d.node = n /\ d.stopped = ""
    BY <1>2, <1>4
  <2> HIDE DEF d
  <2>5. CalledOnce(rank, c, ft, d)
    BY <2>3, <2>4 DEF CalledOnce
  <2>6. CalledInVain(rank, c, ft, d)
    <3>1. 0 <= ft
      OBVIOUS
    <3>2. c[d.node] <= ft
      BY <2>2, <2>4, <3>1
    <3> QED BY <2>5, <3>2, Zenon DEF CalledInVain
  <2> QED BY <2>6 DEF d
<1> QED BY <1>3, <1>4

\* A fault makes up for a call.
LEMMA LaterCalled ==
    ASSUME NEW rank, NEW c \in [Nodes -> Nat], NEW ft \in Nat, NEW r \in Runs, NEW doc, DocOf(r, doc), CalledOnce(rank, c, ft, doc)
    PROVE  CalledInVain(rank, c, ft + 1, doc)
<1>1. ASSUME NEW n \in Nodes PROVE c[n] <= ft + 1 /\ c[n] <= 1 + (ft + 1)
  <2>1. c[n] \in Nat /\ c[n] <= 1 + ft
    BY DEF CalledOnce
  <2> QED BY <2>1
<1>2. CalledOnce(rank, c, ft + 1, doc)
  BY <1>1 DEF CalledOnce
<1>3. doc.stopped = "" => doc.node \in Nodes
  BY EdgesStay DEF DocOf
<1> QED BY <1>1, <1>2, <1>3 DEF CalledInVain

\* A step that calls nothing, out of a state where nothing is to be saved, and
\* writes at most one file.
LEMMA QuietStep ==
    ASSUME NEW rank, IInv, Calling(rank), pc # "save", pc' # "save", UNCHANGED <<calls, faults>>,
           NEW r \in Runs, CalledInVain(rank, calls[r], faults, file'[r]),
           \A q \in Runs : q # r => file'[q] = file[q]
    PROVE  Calling(rank)'
<1>1. ASSUME NEW q \in Runs PROVE CalledInVain(rank, calls[q], faults, file'[q])
  BY DEF Calling
<1> QED BY <1>1 DEF Calling, CalledInVain

LEMMA FileAlone ==
    ASSUME NEW rank, IInv, Calling(rank), pc # "save", pc' # "save", UNCHANGED <<calls, faults, file>>
    PROVE  Calling(rank)'
<1>1. \A q \in Runs : CalledInVain(rank, calls[q], faults, file'[q])
  BY DEF Calling
<1> QED BY <1>1 DEF Calling, CalledInVain

LEMMA FreshCalled ==
    ASSUME NEW rank, Calling(rank), NEW r \in Runs, ~Exists(r), NEW n \in NodesOf[r]
    PROVE  CalledInVain(rank, calls[r], faults, Fresh(n))
<1>1. Fresh(n).stopped = "" /\ Fresh(n).node = n /\ n \in Nodes
  BY FreshIs, EdgesStay
<1>2. \A k \in Nodes : calls[r][k] = 0 /\ calls[r][k] <= 1 + faults
  BY DEF Calling, CalledOnce, Exists
<1> DEFINE d == Fresh(n)
<1>3. d.stopped = "" /\ d.node = n
  BY <1>1
<1> HIDE DEF d
<1>4. CalledOnce(rank, calls[r], faults, d)
  BY <1>2, <1>3 DEF CalledOnce
<1>5. calls[r][n] <= faults
  <2>1. calls[r][n] = 0
    BY <1>1, <1>2
  <2>2. faults \in Nat
    BY DEF Calling
  <2>3. 0 <= faults
    BY <2>2
  <2> QED BY <2>1, <2>3
<1>6. CalledInVain(rank, calls[r], faults, d)
  BY <1>3, <1>4, <1>5 DEF CalledInVain
<1> QED BY <1>6 DEF d

LEMMA EndFrameGoes == EndFrame \/ Return => pc' # "save"
BY DEF EndFrame, Return, Quit, At

LEMMA HarnessCalling ==
    ASSUME NEW rank, Forward(rank), IInv, Calling(rank), Harness
    PROVE  Calling(rank)'
<1>1. ASSUME pc \in Scanning
      PROVE  stack # <<>> /\ Waits(file, Top) /\ Framed(Top) /\ Top.run \in Runs /\ Top.node \in FanOuts
  <2>1. stack # <<>> /\ Waits(file, Top)
    BY <1>1 DEF IInv, Control
  <2> QED BY <2>1, TopIs DEF IInv, Stack, Frames
<1>2. ASSUME pc \in Scanning, HasKid(Top)
      PROVE  Kid \in Runs /\ Child[Top.node] \in NodesOf[Kid] /\ DocOf(Kid, file[Kid])
  <2>1. Kid \in Runs /\ Child[Top.node] \in NodesOf[Kid]
    BY <1>1, <1>2, TopIs, KidIs DEF IInv, Stack
  <2> QED BY <2>1 DEF IInv, Files
<1>3. CASE BeginScan
  BY <1>3, FileAlone DEF BeginScan, At
<1>4. CASE Poll
  <2>1. pc \in Scanning /\ pc # "save" /\ HasKid(Top) /\ UNCHANGED <<calls, faults>>
    BY <1>4 DEF Poll, Scanning, HasKid
  <2>2. CASE ~Exists(Kid) /\ Save(Kid, Fresh(Child[Top.node])) /\ Run(Kid)
    <3>1. DocOf(Kid, Fresh(Child[Top.node])) /\ CalledInVain(rank, calls[Kid], faults, Fresh(Child[Top.node]))
      BY <1>2, <2>1, <2>2, FreshIs, FreshCalled
    <3>2. file'[Kid] = Fresh(Child[Top.node]) /\ \A q \in Runs : q # Kid => file'[q] = file[q]
      BY <1>2, <2>1, <2>2, <3>1, SaveIs DEF IInv
    <3>3. Kid \in Runs /\ pc' # "save" /\ CalledInVain(rank, calls[Kid], faults, file'[Kid])
      BY <1>2, <2>1, <2>2, <3>1, <3>2 DEF Run
    <3> QED BY <2>1, <3>2, <3>3, QuietStep
  <2>3. CASE UNCHANGED file /\ (Run(Kid) \/ At("poll"))
    BY <2>1, <2>3, FileAlone DEF Run, At
  <2> QED BY <1>4, <2>2, <2>3 DEF Poll
<1>5. CASE Polled
  <2>1. pc \in Scanning /\ pc = "polled" /\ pc # "save" /\ pc' # "save" /\ UNCHANGED <<calls, faults>>
    BY <1>5 DEF Polled, Scanning, At
  <2>2. HasKid(Top)
    BY <2>1 DEF IInv, Control
  <2>3. CASE Save(Kid, [file[Kid] EXCEPT !.stopped = "error"])
    <3> DEFINE doc == [file[Kid] EXCEPT !.stopped = "error"]
    <3>1. DocOf(Kid, doc) /\ doc.stopped = "error"
      BY <1>2, <2>1, <2>2 DEF DocOf, Docs, Stops
    <3> HIDE DEF doc
    <3>2. file'[Kid] = doc /\ \A q \in Runs : q # Kid => file'[q] = file[q]
      BY <1>2, <2>1, <2>2, <2>3, <3>1, SaveIs DEF IInv, doc
    <3>3. Kid \in Runs /\ CalledOnce(rank, calls[Kid], faults, file[Kid])
      BY <1>2, <2>1, <2>2 DEF Calling
    <3>4. CalledInVain(rank, calls[Kid], faults, file'[Kid])
      BY <3>1, <3>2, <3>3 DEF CalledInVain, CalledOnce
    <3> QED BY <2>1, <3>2, <3>3, <3>4, QuietStep
  <2>4. CASE UNCHANGED file
    BY <2>1, <2>4, FileAlone
  <2> QED BY <1>5, <2>3, <2>4 DEF Polled
<1>6. CASE Nested
  BY <1>6, FileAlone DEF Nested, At
<1>7. CASE Decide
  BY <1>7, FileAlone DEF Decide, At, EndFrame
<1>8. CASE Inject
  <2> DEFINE r == Top.run
             doc == [file[r] EXCEPT !.spawned[Top.node] = DoneItems(Top)]
  <2>1. /\ pc \in Scanning /\ pc # "save" /\ pc' # "save" /\ UNCHANGED <<calls, faults>>
        /\ file' = [file EXCEPT ![r] = doc]
    BY <1>8 DEF Inject, Scanning, At, Save, DoneItems
  <2>2. r \in Runs /\ file \in [Runs -> Docs] /\ file[r] \in Docs /\ Waits(file, Top)
    BY <1>1, <2>1 DEF IInv, Files
  <2>3. doc.stopped = file[r].stopped /\ doc.node = file[r].node
    BY <2>2 DEF Docs
  <2> HIDE DEF doc
  <2>4. file'[r] = doc /\ \A q \in Runs : q # r => file'[q] = file[q]
    BY <2>1, <2>2
  <2>5. CalledOnce(rank, calls[r], faults, file[r]) /\ file[r].stopped = "waiting"
    BY <2>2 DEF Calling, Waits
  <2>6. CalledInVain(rank, calls[r], faults, file'[r])
    BY <2>3, <2>4, <2>5 DEF CalledInVain, CalledOnce
  <2> QED BY <2>1, <2>2, <2>4, <2>6, QuietStep
<1>9. CASE Resume
  <2> DEFINE r == Top.run
             n == file[r].node
             doc == Enter(file[r], Then[n])
  <2>1. /\ pc \in Scanning /\ pc # "save" /\ pc' # "save" /\ UNCHANGED <<calls, faults>> /\ Save(r, doc)
    BY <1>9, EndFrameGoes DEF Resume, Scanning, Run
  <2>2. r \in Runs /\ DocOf(r, file[r]) /\ file[r].stopped = "waiting" /\ n \in NodesOf[r]
    BY <1>1, <2>1 DEF IInv, Files, DocOf, Waits
  <2>3. Then[n] \in NodesOf[r] \cup {End} /\ (Then[n] = End \/ rank[Then[n]] > rank[n])
    BY <2>2, EdgesStay DEF Forward
  <2>4. DocOf(r, doc)
    <3>1. file[r] \in Docs
      BY <2>2 DEF DocOf
    <3> HIDE DEF n, r
    <3>2. DocOf(r, Enter(file[r], Then[n]))
      BY <2>2, <2>3, <3>1, EnterIs
    <3> QED BY <3>2
  <2>5. CalledOnce(rank, calls[r], faults, file[r])
    BY <2>2 DEF Calling
  <2>6. CalledInVain(rank, calls[r], faults, doc)
    BY <2>2, <2>3, <2>5, CallsAre, EnterCalled
  <2> HIDE DEF doc
  <2>7. file'[r] = doc /\ \A q \in Runs : q # r => file'[q] = file[q]
    BY <2>1, <2>2, <2>4, SaveIs DEF IInv
  <2> QED BY <2>1, <2>2, <2>6, <2>7, QuietStep
<1> QED BY <1>3, <1>4, <1>5, <1>6, <1>7, <1>8, <1>9 DEF Harness

\* The call counts, whether it is cut short or not; only a call that was not
\* is followed by a save.
LEMMA CallCalling ==
    ASSUME NEW rank, Forward(rank), IInv, Calling(rank), Call
    PROVE  Calling(rank)'
<1> DEFINE r == active.run
           doc == file[r]
           n == doc.node
<1>1. /\ pc = "run" /\ UNCHANGED file /\ r \in Runs /\ doc.stopped = ""
      /\ calls' = [calls EXCEPT ![r][n] = @ + 1]
  BY DEF Call, IInv, Control, Engaged
<1>2. DocOf(r, doc) /\ n \in NodesOf[r] /\ n \in Nodes
  BY <1>1, EdgesStay DEF IInv, Files, DocOf
<1>3. CalledInVain(rank, calls[r], faults, doc) /\ calls \in [Runs -> [Nodes -> Nat]] /\ faults \in Nat
  BY <1>1 DEF Calling
<1>4. calls[r] \in [Nodes -> Nat] /\ calls[r][n] \in Nat /\ calls[r][n] <= faults
  BY <1>1, <1>2, <1>3 DEF CalledInVain
<1>5. /\ calls' \in [Runs -> [Nodes -> Nat]] /\ \A q \in Runs : q # r => calls'[q] = calls[q]
      /\ calls'[r][n] = calls[r][n] + 1 /\ \A k \in Nodes : k # n => calls'[r][k] = calls[r][k]
  <2> DEFINE c == calls[r]
             d == [c EXCEPT ![n] = c[n] + 1]
  <2>1. d \in [Nodes -> Nat] /\ d[n] = c[n] + 1 /\ \A k \in Nodes : k # n => d[k] = c[k]
    BY <1>2, <1>4
  <2>2. calls' = [calls EXCEPT ![r] = d]
    BY <1>1
  <2> HIDE DEF d
  <2>3. /\ calls' \in [Runs -> [Nodes -> Nat]] /\ calls'[r] = d
        /\ \A q \in Runs : q # r => calls'[q] = calls[q]
    BY <1>1, <1>3, <2>1, <2>2
  <2> QED BY <2>1, <2>3
<1>6. CalledOnce(rank, calls'[r], faults, doc)
  <2>1. \A k \in Nodes : calls[r][k] <= 1 + faults /\ (rank[k] > rank[n] => calls[r][k] = 0)
    BY <1>1, <1>3 DEF CalledInVain, CalledOnce
  <2>2. \A k \in Nodes : rank[k] > rank[n] => k # n
    BY <1>2 DEF Forward
  <2>3. \A k \in Nodes : calls'[r][k] <= 1 + faults
    BY <1>3, <1>4, <1>5, <2>1
  <2>4. \A k \in Nodes : rank[k] > rank[n] => calls'[r][k] = 0
    BY <1>5, <2>1, <2>2
  <2> QED BY <1>1, <1>3, <1>5, <2>3, <2>4 DEF CalledOnce
<1>7. PICK o \in Yields[n] :
        \/ /\ o \notin {"unsaved", "raise"}
           /\ pc' = "save" /\ active' = [active EXCEPT !.doc = After(doc, o)]
           /\ UNCHANGED <<stack, faults>>
        \/ faults' = faults + 1 /\ (Quit \/ Return)
  BY DEF Call
<1>8. CASE /\ o \notin {"unsaved", "raise"}
           /\ pc' = "save" /\ active' = [active EXCEPT !.doc = After(doc, o)]
           /\ UNCHANGED <<stack, faults>>
  <2>1. o \in Outcomes \ {"unsaved", "raise"}
    BY <1>2, <1>8, FlowsAssumption
  <2>2. /\ \/ After(doc, o).stopped # "" /\ After(doc, o).node = n
           \/ /\ After(doc, o).stopped = IF Then[n] = End THEN "terminal" ELSE ""
              /\ After(doc, o).node = Then[n]
    BY <1>1, <1>2, <2>1, AfterIs
  <2>3. After(doc, o).stopped # "none"
    <3>1. CASE o \in {"ok", "poor"}
      <4> DEFINE d == [doc EXCEPT !.good = @ \/ o = "ok"]
      <4>1. After(doc, o) = Enter(d, Then[n])
        BY <3>1 DEF After
      <4>2. d \in Docs
        <5>1. doc \in Docs /\ (doc.good \/ o = "ok") \in BOOLEAN
          BY <1>2 DEF DocOf, Docs
        <5> QED BY <5>1 DEF Docs
      <4>3. Then[n] \in NodesOf[r] \cup {End}
        BY <1>1, <1>2, EdgesStay
      <4>4. Enter(d, Then[n]).stopped = (IF Then[n] = End THEN "terminal" ELSE "")
        <5> HIDE DEF d, n, r
        <5>1. r \in Runs
          BY <1>1
        <5> QED BY <4>2, <4>3, <5>1, EnterIs
      <4> HIDE DEF d
      <4> QED BY <4>1, <4>4
    <3>2. CASE o \notin {"ok", "poor"}
      BY <1>2, <2>1, <3>2 DEF After, Outcomes, DocOf, Docs
    <3> QED BY <3>1, <3>2
  <2>4. Then[n] # End => rank[Then[n]] > rank[n]
    BY <1>2 DEF Forward
  <2>5. Forwards(rank, doc, After(doc, o))
    BY <2>2, <2>3, <2>4 DEF Forwards
  <2>6. active'.run = r /\ active'.doc = After(doc, o)
    BY <1>8
  <2>7. ASSUME NEW q \in Runs
        PROVE  /\ CalledOnce(rank, calls'[q], faults, file[q])
               /\ q # r => CalledInVain(rank, calls'[q], faults, file[q])
    BY <1>1, <1>5, <1>6 DEF Calling
  <2> QED BY <1>1, <1>3, <1>5, <1>8, <2>5, <2>6, <2>7 DEF Calling
<1>9. CASE faults' = faults + 1 /\ (Quit \/ Return)
  <2>1. pc' # "save"
    BY <1>9, EndFrameGoes DEF Quit
  <2>2. ASSUME NEW q \in Runs PROVE CalledInVain(rank, calls'[q], faults + 1, file[q])
    <3>1. CASE q = r
      <4>1. calls'[r] \in [Nodes -> Nat] /\ CalledOnce(rank, calls'[r], faults, doc)
        BY <1>1, <1>5, <1>6
      <4> HIDE DEF r, doc, n
      <4>2. r \in Runs /\ DocOf(r, doc)
        BY <1>1, <1>2
      <4>3. CalledInVain(rank, calls'[r], faults + 1, doc)
        BY <1>3, <4>1, <4>2, LaterCalled
      <4> QED BY <3>1, <4>3 DEF doc
    <3>2. CASE q # r
      <4>1. calls[q] \in [Nodes -> Nat] /\ CalledOnce(rank, calls[q], faults, file[q]) /\ calls'[q] = calls[q]
        BY <1>5, <3>2, CallsAre
      <4>2. DocOf(q, file[q])
        BY DEF IInv, Files
      <4> QED BY <1>3, <4>1, <4>2, LaterCalled
    <3> QED BY <3>1, <3>2
  <2>3. faults + 1 \in Nat
    BY <1>3
  <2> QED BY <1>1, <1>5, <1>9, <2>1, <2>2, <2>3 DEF Calling, CalledInVain
<1> QED BY <1>7, <1>8, <1>9

LEMMA CrashCalling ==
    ASSUME NEW rank, IInv, Calling(rank), Crash
    PROVE  Calling(rank)'
<1>1. pc' # "save" /\ faults' = faults + 1 /\ UNCHANGED <<file, calls>>
  BY DEF Crash, Quit
<1>2. ASSUME NEW q \in Runs PROVE CalledInVain(rank, calls[q], faults + 1, file[q])
  <2>1. DocOf(q, file[q])
    BY DEF IInv, Files
  <2> QED BY <2>1, CallsAre, LaterCalled
<1>3. faults + 1 \in Nat
  BY DEF Calling
<1> QED BY <1>1, <1>2, <1>3 DEF Calling, CalledInVain

LEMMA SaveStepCalling ==
    ASSUME NEW rank, Forward(rank), IInv, Calling(rank), SaveStep
    PROVE  Calling(rank)'
<1> DEFINE r == active.run
           new == active.doc
           old == file[r]
<1>1. /\ pc = "save" /\ Save(r, new) /\ r \in Runs /\ old.stopped = "" /\ DocOf(r, new)
      /\ UNCHANGED <<calls, faults>>
  BY DEF SaveStep, IInv, Control, Engaged
<1>2. pc' # "save"
  BY EndFrameGoes DEF SaveStep, Run
<1>3. file'[r] = new /\ \A q \in Runs : q # r => file'[q] = file[q]
  BY <1>1, SaveIs DEF IInv
<1>4. Forwards(rank, old, new) /\ CalledOnce(rank, calls[r], faults, old) /\ faults \in Nat
  BY <1>1 DEF Calling
<1>5. old.node \in Nodes /\ (new.stopped \in {"", "waiting", "needs_human"} => new.node \in Nodes)
  BY <1>1, EdgesStay DEF IInv, Files, DocOf
<1>6. /\ \A k \in Nodes : calls[r][k] <= 1 + faults
      /\ \A k \in Nodes : rank[k] > rank[old.node] => calls[r][k] = 0
  BY <1>1, <1>4 DEF CalledOnce
<1> HIDE DEF old, new
<1>7. CASE new.stopped = "" /\ rank[new.node] > rank[old.node]
  <2>1. calls[r][new.node] = 0
    BY <1>5, <1>6, <1>7
  <2>2. ASSUME NEW k \in Nodes, rank[k] > rank[new.node] PROVE rank[k] > rank[old.node]
    <3>1. rank[k] \in Nat /\ rank[new.node] \in Nat /\ rank[old.node] \in Nat
      BY <1>5, <1>7 DEF Forward
    <3> DEFINE x == rank[k]
               y == rank[new.node]
               z == rank[old.node]
    <3>2. x \in Nat /\ y \in Nat /\ z \in Nat /\ x > y /\ y > z
      BY <1>7, <2>2, <3>1
    <3> HIDE DEF x, y, z
    <3>3. x > z
      BY <3>2
    <3> QED BY <3>3 DEF x, z
  <2>3. CalledOnce(rank, calls[r], faults, new)
    BY <1>4, <1>6, <1>7, <2>2 DEF CalledOnce
  <2>4. 0 <= faults
    BY <1>4
  <2>5. calls[r][new.node] <= faults
    BY <2>1, <2>4
  <2>6. CalledInVain(rank, calls[r], faults, new)
    BY <2>3, <2>5, Zenon DEF CalledInVain
  <2> QED BY <1>1, <1>2, <1>3, <2>6 DEF Calling, CalledInVain
<1>8. CASE new.stopped = "terminal" \/ (new.stopped \notin {"", "none"} /\ new.node = old.node)
  <2>1. CalledOnce(rank, calls[r], faults, new)
    BY <1>4, <1>6, <1>8 DEF CalledOnce
  <2>2. CalledInVain(rank, calls[r], faults, new)
    BY <1>8, <2>1 DEF CalledInVain
  <2> QED BY <1>1, <1>2, <1>3, <2>2 DEF Calling, CalledInVain
<1> QED BY <1>4, <1>7, <1>8 DEF Forwards

LEMMA RunRootCalling ==
    ASSUME NEW rank, IInv, Calling(rank), RunRoot
    PROVE  Calling(rank)'
<1>1. pc # "save" /\ pc' # "save" /\ UNCHANGED <<calls, faults>> /\ <<>> \in Runs
  BY RunsAssumption DEF RunRoot, Run
<1>2. CASE UNCHANGED file
  BY <1>1, <1>2, FileAlone
<1>3. CASE ~Exists(<<>>) /\ Save(<<>>, Fresh(RootFlow))
  <2>1. CalledInVain(rank, calls[<<>>], faults, Fresh(RootFlow)) /\ DocOf(<<>>, Fresh(RootFlow))
    BY <1>3, RunsAssumption, FreshIs, FreshCalled
  <2>2. file'[<<>>] = Fresh(RootFlow) /\ \A q \in Runs : q # <<>> => file'[q] = file[q]
    BY <1>1, <1>3, <2>1, SaveIs DEF IInv
  <2>3. CalledInVain(rank, calls[<<>>], faults, file'[<<>>])
    BY <2>1, <2>2
  <2> QED BY <1>1, <2>2, <2>3, QuietStep
<1> QED BY <1>2, <1>3 DEF RunRoot

LEMMA AnswerCalling ==
    ASSUME NEW rank, Forward(rank), IInv, Calling(rank), NEW r \in Runs, Answer(r)
    PROVE  Calling(rank)'
<1> DEFINE old == file[r]
           new == Enter(old, Then[old.node])
<1>1. old.stopped = "needs_human" /\ Save(r, new) /\ UNCHANGED <<calls, pc, stack, active, faults>>
  BY DEF Answer
<1>2. DocOf(r, old) /\ old \in Docs /\ old.node \in NodesOf[r] /\ Then[old.node] \in NodesOf[r] \cup {End}
  BY <1>1, EdgesStay DEF IInv, Files, DocOf
<1>3. Then[old.node] = End \/ rank[Then[old.node]] > rank[old.node]
  BY <1>2, EdgesStay DEF Forward
<1>4. CalledOnce(rank, calls[r], faults, old)
  BY DEF Calling
<1> HIDE DEF old
<1>5. DocOf(r, new) /\ CalledInVain(rank, calls[r], faults, new)
  BY <1>1, <1>2, <1>3, <1>4, CallsAre, EnterIs, EnterCalled
<1> HIDE DEF new
<1>6. file'[r] = new /\ \A q \in Runs : q # r => file'[q] = file[q]
  BY <1>1, <1>5, SaveIs DEF IInv
<1>7. pc = "save" => active.run \in Runs /\ active.run # r
  BY <1>1 DEF IInv, Control, Engaged, old
<1>8. ASSUME NEW q \in Runs
      PROVE  /\ CalledOnce(rank, calls[q], faults, file'[q])
             /\ pc # "save" \/ active.run # q => CalledInVain(rank, calls[q], faults, file'[q])
  <2>1. CASE q = r
    BY <1>5, <1>6, <2>1 DEF CalledInVain
  <2>2. CASE q # r
    BY <1>6, <2>2 DEF Calling
  <2> QED BY <2>1, <2>2
<1>9. pc = "save" => Forwards(rank, file'[active.run], active.doc)
  BY <1>6, <1>7 DEF Calling
<1>10. calls \in [Runs -> [Nodes -> Nat]] /\ faults \in Nat
  BY DEF Calling
<1> QED BY <1>1, <1>8, <1>9, <1>10 DEF Calling

LEMMA TimeoutCalling ==
    ASSUME NEW rank, Forward(rank), IInv, Calling(rank), Timeout
    PROVE  Calling(rank)'
<1> DEFINE r == <<>>
           old == file[r]
           new == Enter(old, Late[old.node])
<1>1. /\ pc = "idle" /\ r \in Runs /\ old.stopped = "waiting" /\ old.node \in DOMAIN Late /\ Save(r, new)
      /\ UNCHANGED <<calls, pc, stack, active, faults>>
  BY RunsAssumption DEF Timeout
<1>2. DocOf(r, old) /\ old \in Docs /\ old.node \in NodesOf[r] /\ Late[old.node] \in NodesOf[r] \cup {End}
  BY <1>1, EdgesStay DEF IInv, Files, DocOf
<1>3. Late[old.node] = End \/ rank[Late[old.node]] > rank[old.node]
  BY <1>1 DEF Forward
<1>4. CalledOnce(rank, calls[r], faults, old)
  BY <1>1 DEF Calling
<1> HIDE DEF old, r
<1>5. DocOf(r, new) /\ CalledInVain(rank, calls[r], faults, new)
  BY <1>1, <1>2, <1>3, <1>4, CallsAre, EnterIs, EnterCalled
<1> HIDE DEF new
<1>6. file'[r] = new /\ \A q \in Runs : q # r => file'[q] = file[q]
  BY <1>1, <1>5, SaveIs DEF IInv
<1>7. pc # "save" /\ pc' # "save" /\ CalledInVain(rank, calls[r], faults, file'[r])
  BY <1>1, <1>5, <1>6
<1> QED BY <1>1, <1>6, <1>7, QuietStep

LEMMA InitCalling ==
    ASSUME NEW rank, Forward(rank), Init
    PROVE  Calling(rank)
<1>1. /\ calls \in [Runs -> [Nodes -> Nat]] /\ faults = 0 /\ pc = "idle"
      /\ \A r \in Runs : file[r] = NoDoc /\ \A n \in Nodes : calls[r][n] = 0
  BY DEF Init
<1>2. NoDoc.stopped = "none"
  BY NoDocIs
<1>3. ASSUME NEW r \in Runs PROVE CalledInVain(rank, calls[r], faults, file[r])
  <2>1. file[r].stopped = "none" /\ \A n \in Nodes : calls[r][n] = 0 /\ calls[r][n] <= 1 + faults
    BY <1>1, <1>2
  <2> QED BY <2>1 DEF CalledInVain, CalledOnce
<1> QED BY <1>1, <1>3 DEF Calling, CalledInVain

\* For every tree of flows that go forward, and however scans, crashes, people
\* and timers interleave: a worker is called once, and once more at most for
\* each fault.  A person's answer never comes between a call and its save, and
\* a file is there before the first call of its run.
THEOREM NothingIsRunTwice ==
    ASSUME NEW rank, Forward(rank)
    PROVE  Spec => []NothingTwice
<1>1. Init => Calling(rank)
  BY InitCalling
<1>2. IInv /\ Calling(rank) /\ [Next]_vars => Calling(rank)'
  <2> SUFFICES ASSUME IInv, Calling(rank), [Next]_vars PROVE Calling(rank)'
    OBVIOUS
  <2>1. CASE Harness
    BY <2>1, HarnessCalling
  <2>2. CASE Engine
    BY <2>2, CallCalling, SaveStepCalling, RunRootCalling DEF Engine
  <2>3. CASE \E r \in Runs : Answer(r)
    BY <2>3, AnswerCalling
  <2>4. CASE Timeout
    BY <2>4, TimeoutCalling
  <2>5. CASE Crash
    BY <2>5, CrashCalling
  <2>6. CASE UNCHANGED vars
    BY <2>6 DEF vars, Calling
  <2> QED BY <2>1, <2>2, <2>3, <2>4, <2>5, <2>6 DEF Next
<1>3. Calling(rank) => NothingTwice
  BY DEF Calling, CalledOnce, NothingTwice
<1> QED BY <1>1, <1>2, <1>3, InitIInv, StepIInv, PTL DEF Spec
=============================================================================
