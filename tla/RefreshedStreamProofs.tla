------------------------ MODULE RefreshedStreamProofs ------------------------
(* The window and the bound on staleness, for every profile and delay.     *)
EXTENDS RefreshedStream, FiniteSetTheorems, TLAPS

-----------------------------------------------------------------------------
(* The invariant.  A frame carries the state its sender had when it was    *)
(* sent; the mask is what was admitted of the ticks just below the top;    *)
(* what arrived and was not admitted is too late for good.                 *)

Sending ==
    /\ profile \in Profiles /\ now \in Nat
    /\ truth \in Seq(States) /\ Len(truth) \in {now, now + 1}
    /\ frames \in Seq([state : States, at : Nat])
    /\ \A i \in 1 .. Len(frames) :
        frames[i].at + 1 \in 1 .. Len(truth) /\ truth[frames[i].at + 1] = frames[i].state

Admitting ==
    /\ top \in Int /\ -1 <= top /\ top < Len(frames) /\ (top >= 0 => top \in admitted)
    /\ admitted \subseteq 0 .. top /\ mask \subseteq 0 .. Width - 1
    /\ \A k \in 0 .. Width - 1 : k \in mask <=> top - k \in admitted
    /\ arrived \subseteq 0 .. Len(frames) - 1
    /\ \A t \in arrived : t \in admitted \/ (t <= top /\ top - t >= profile.reorder)

Mirroring ==
    \/ lastFrame = Never
    \/ /\ lastFrame \in Nat /\ mirror \in 0 .. Len(frames) - 1
       /\ frames[mirror + 1].at >= lastFrame - Delay

IInv == Sending /\ Admitting /\ Mirroring

LEMMA ProfileIs ==
    ASSUME profile \in Profiles
    PROVE  /\ profile.keyframe \in Nat /\ profile.stale \in Nat /\ profile.reorder \in Nat
           /\ Width \in Nat \ {0} /\ (profile.reorder > 0 => Width = profile.reorder)
<1>1. profile.keyframe \in Nat /\ profile.stale \in Nat /\ profile.reorder \in 0 .. 64
  BY ProfilesAssumption
<1> QED BY <1>1 DEF Width

\* What the window says of a tick, in terms of what it admitted.
LEMMA CheckIs ==
    ASSUME Sending, Admitting, NEW t \in Nat
    PROVE  /\ Check(t) = "accept" <=> t \notin admitted /\ (t > top \/ top - t < profile.reorder)
           /\ Check(t) = "replay-duplicate" => t \in admitted
<1>1. profile.reorder \in Nat /\ (profile.reorder > 0 => Width = profile.reorder)
  BY ProfileIs DEF Sending
<1>2. top \in Int /\ (t > top => t \notin admitted) /\ (top >= 0 => top \in admitted)
  BY DEF Admitting
<1>3. CASE t > top
  BY <1>2, <1>3 DEF Check
<1>4. CASE t <= top /\ profile.reorder = 0
  BY <1>2, <1>4 DEF Check
<1>5. CASE t <= top /\ profile.reorder > 0 /\ top - t >= profile.reorder
  BY <1>1, <1>2, <1>5 DEF Check
<1>6. CASE t <= top /\ profile.reorder > 0 /\ top - t < profile.reorder
  <2>1. top - t \in 0 .. Width - 1 /\ top - (top - t) = t
    BY <1>1, <1>2, <1>6
  <2>2. top - t \in mask <=> t \in admitted
    BY <2>1 DEF Admitting
  <2> QED BY <1>1, <1>2, <1>6, <2>2 DEF Check
<1> QED BY <1>1, <1>2, <1>3, <1>4, <1>5, <1>6

\* A frame that is accepted has not arrived before.
LEMMA AcceptedIsFirst ==
    ASSUME IInv, NEW t \in Nat, Check(t) = "accept"
    PROVE  t \notin arrived
<1>1. t \notin admitted /\ (t > top \/ top - t < profile.reorder)
  BY CheckIs DEF IInv
<1>2. profile.reorder \in Nat /\ top \in Int
  BY ProfileIs DEF IInv, Sending, Admitting
<1> QED BY <1>1, <1>2 DEF IInv, Admitting

LEMMA FrameIs ==
    ASSUME Sending, NEW i \in 1 .. Len(frames)
    PROVE  frames[i].at \in Nat
<1> DEFINE F == [state : States, at : Nat]
<1>1. frames \in Seq(F)
  BY DEF Sending
<1>2. \A f \in F : f.at \in Nat
  OBVIOUS
<1> HIDE DEF F
<1>3. frames[i] \in F
  BY <1>1
<1> QED BY <1>2, <1>3

LEMMA InitIInv == Init => IInv
<1> SUFFICES ASSUME Init PROVE IInv
  OBVIOUS
<1>1. Sending
  BY DEF Init, Sending
<1>2. Width \in Nat \ {0}
  BY <1>1, ProfileIs DEF Sending
<1>3. Admitting
  BY <1>2 DEF Init, Admitting
<1>4. Mirroring
  BY DEF Init, Mirroring
<1> QED BY <1>1, <1>3, <1>4 DEF IInv

LEMMA SampleIInv ==
    ASSUME IInv, NEW s \in States, Sample(s)
    PROVE  IInv'
<1>1. /\ now \in Nat /\ truth \in Seq(States) /\ Len(truth) = now
      /\ frames \in Seq([state : States, at : Nat]) /\ Len(frames) \in Nat
  BY DEF IInv, Sending, Sample, Sampled
<1>2. /\ truth' = Append(truth, s) /\ UNCHANGED <<profile, now, arrived, window, mirror, lastFrame, stale>>
  BY DEF Sample
<1>3. /\ Len(truth') = now + 1 /\ truth' \in Seq(States) /\ truth'[now + 1] = s
      /\ \A i \in 1 .. now : truth'[i] = truth[i]
  BY <1>1, <1>2
<1>4. CASE frames' = Append(frames, [state |-> s, at |-> now])
  <2> DEFINE F == [state : States, at : Nat]
             f == [state |-> s, at |-> now]
  <2>1. f \in F /\ f.state = s /\ f.at = now
    BY <1>1
  <2> HIDE DEF F, f
  <2>2. /\ frames' \in Seq(F) /\ Len(frames') = Len(frames) + 1 /\ frames'[Len(frames) + 1] = f
        /\ \A i \in 1 .. Len(frames) : frames'[i] = frames[i]
    BY <1>1, <1>4, <2>1 DEF F, f
  <2>3. ASSUME NEW i \in 1 .. Len(frames')
        PROVE  frames'[i].at + 1 \in 1 .. Len(truth') /\ truth'[frames'[i].at + 1] = frames'[i].state
    <3>1. CASE i \in 1 .. Len(frames)
      BY <1>1, <1>3, <2>2, <3>1 DEF IInv, Sending
    <3>2. CASE i = Len(frames) + 1
      BY <1>1, <1>3, <2>1, <2>2, <3>2
    <3> QED BY <1>1, <2>2, <3>1, <3>2
  <2>4. Sending'
    BY <1>2, <1>3, <2>2, <2>3 DEF IInv, Sending, F
  <2>5. Admitting'
    BY <1>1, <1>2, <2>2 DEF IInv, Admitting, window, Width
  <2>6. Mirroring'
    <3>1. CASE lastFrame = Never
      BY <1>2, <3>1 DEF Mirroring
    <3>2. CASE lastFrame # Never
      <4>1. /\ lastFrame \in Nat /\ mirror \in 0 .. Len(frames) - 1
            /\ frames[mirror + 1].at >= lastFrame - Delay
        BY <3>2 DEF IInv, Mirroring
      <4>2. mirror + 1 \in 1 .. Len(frames) /\ mirror \in 0 .. Len(frames') - 1
        BY <1>1, <2>2, <4>1
      <4>3. frames'[mirror + 1] = frames[mirror + 1]
        BY <2>2, <4>2
      <4> QED BY <1>2, <4>1, <4>2, <4>3 DEF Mirroring
    <3> QED BY <3>1, <3>2
  <2> QED BY <2>4, <2>5, <2>6 DEF IInv
<1>5. CASE frames' = frames
  <2>1. Sending'
    BY <1>1, <1>2, <1>3, <1>5 DEF IInv, Sending
  <2>2. Admitting' /\ Mirroring'
    BY <1>2, <1>5 DEF IInv, Admitting, Mirroring, window, Width
  <2> QED BY <2>1, <2>2 DEF IInv
<1> QED BY <1>4, <1>5 DEF Sample

LEMMA PassIInv == IInv /\ Pass => IInv'
<1> SUFFICES ASSUME IInv, Pass PROVE IInv'
  OBVIOUS
<1>1. /\ now' = now + 1 /\ Len(truth) = now + 1 /\ UNCHANGED <<profile, arrived, mirror, lastFrame>>
      /\ UNCHANGED <<sender, window>>
  BY DEF Pass, Sampled
<1>2. Sending'
  BY <1>1 DEF IInv, Sending, sender
<1>3. Admitting' /\ Mirroring'
  BY <1>1 DEF IInv, Admitting, Mirroring, sender, window, Width
<1> QED BY <1>2, <1>3 DEF IInv

LEMMA ArriveIInv ==
    ASSUME IInv, NEW t \in 0 .. Len(frames) - 1, Arrive(t)
    PROVE  IInv'
<1>1. /\ arrived' = arrived \cup {t} /\ UNCHANGED <<profile, now>> /\ UNCHANGED sender
      /\ t \in arrived \/ InTime(t)
  BY DEF Arrive
<1>2. Sending'
  BY <1>1 DEF IInv, Sending, sender
<1>3. /\ Len(frames) \in Nat /\ t \in Nat /\ now \in Nat /\ top \in Int /\ profile.reorder \in Nat
      /\ Width \in Nat \ {0} /\ (profile.reorder > 0 => Width = profile.reorder) /\ Width' = Width
      /\ frames' = frames
  BY <1>1, ProfileIs DEF IInv, Sending, Admitting, sender, Width
<1>4. CASE Check(t) = "accept"
  <2>1. /\ top' = IF t > top THEN t ELSE top
        /\ mask' = Slide(t) /\ admitted' = admitted \cup {t} /\ mirror' = t /\ lastFrame' = now
    BY <1>4 DEF Arrive
  <2>2. t \notin admitted /\ (t > top \/ top - t < profile.reorder)
    BY <1>3, <1>4, CheckIs DEF IInv
  <2>3. /\ admitted \subseteq 0 .. top /\ mask \subseteq 0 .. Width - 1
        /\ \A k \in 0 .. Width - 1 : k \in mask <=> top - k \in admitted
        /\ \A u \in arrived : u \in admitted \/ (u <= top /\ top - u >= profile.reorder)
        /\ -1 <= top /\ top < Len(frames) /\ arrived \subseteq 0 .. Len(frames) - 1
    BY DEF IInv, Admitting
  <2>4. ASSUME t > top PROVE Admitting'
    <3>1. top' = t /\ mask' = ({k + (t - top) : k \in mask} \cup {0}) \cap 0 .. Width - 1
      BY <2>1, <2>4 DEF Slide
    <3>2. ASSUME NEW k \in 0 .. Width - 1 PROVE k \in mask' <=> t - k \in admitted'
      <4>1. CASE k = 0
        BY <1>3, <2>1, <3>1, <4>1
      <4>2. CASE k # 0 /\ k - (t - top) < 0
        <5>1. t - k > top /\ t - k # t
          BY <1>3, <4>2
        <5>2. t - k \notin admitted'
          BY <1>3, <2>1, <2>3, <5>1
        <5>3. k \notin {j + (t - top) : j \in mask}
          BY <1>3, <2>3, <4>2
        <5> QED BY <3>1, <4>2, <5>2, <5>3
      <4>3. CASE k # 0 /\ k - (t - top) >= 0
        <5> DEFINE j == k - (t - top)
        <5>1. j \in 0 .. Width - 1 /\ top - j = t - k /\ j + (t - top) = k /\ t - k # t
          BY <1>3, <2>4, <4>3
        <5>2. j \in mask <=> t - k \in admitted
          BY <2>3, <5>1
        <5>3. k \in {i + (t - top) : i \in mask} <=> j \in mask
          <6>1. \A i \in mask : i + (t - top) = k => i = j
            BY <1>3, <2>3
          <6> QED BY <5>1, <6>1
        <5> QED BY <2>1, <3>1, <4>3, <5>1, <5>2, <5>3
      <4> QED BY <1>3, <4>1, <4>2, <4>3
    <3>3. admitted' \subseteq 0 .. t /\ t \in admitted' /\ mask' \subseteq 0 .. Width - 1
      BY <1>3, <2>1, <2>3, <2>4, <3>1
    <3>4. \A u \in arrived' : u \in admitted' \/ (u <= top' /\ top' - u >= profile.reorder)
      BY <1>1, <1>3, <2>1, <2>3, <2>4, <3>1
    <3>5. arrived' \subseteq 0 .. Len(frames) - 1
      BY <1>1, <2>3
    <3>6. top' \in Int /\ -1 <= top' /\ top' < Len(frames')
      BY <1>3, <3>1
    <3> QED BY <1>1, <1>3, <3>1, <3>2, <3>3, <3>4, <3>5, <3>6 DEF Admitting
  <2>5. ASSUME t <= top PROVE Admitting'
    <3>1. top' = top /\ mask' = mask \cup {top - t} /\ top - t < profile.reorder /\ top - t \in 0 .. Width - 1
      BY <1>3, <2>1, <2>2, <2>5 DEF Slide
    <3>2. ASSUME NEW k \in 0 .. Width - 1 PROVE k \in mask' <=> top - k \in admitted'
      BY <1>3, <2>1, <2>3, <3>1
    <3>3. admitted' \subseteq 0 .. top /\ (top >= 0 => top \in admitted') /\ mask' \subseteq 0 .. Width - 1
      BY <1>3, <2>1, <2>3, <2>5, <3>1 DEF IInv, Admitting
    <3>4. \A u \in arrived' : u \in admitted' \/ (u <= top' /\ top' - u >= profile.reorder)
      BY <1>1, <2>1, <2>3, <3>1
    <3>5. arrived' \subseteq 0 .. Len(frames) - 1
      BY <1>1, <2>3
    <3>6. top' \in Int /\ -1 <= top' /\ top' < Len(frames')
      BY <1>3, <2>3, <3>1
    <3> QED BY <1>1, <1>3, <3>1, <3>2, <3>3, <3>4, <3>5, <3>6 DEF Admitting
  <2>6. Admitting'
    BY <1>3, <2>4, <2>5
  <2>7. frames[t + 1].at \in Nat /\ now - frames[t + 1].at <= Delay
    <3>1. frames[t + 1].at \in Nat
      <4>1. t + 1 \in 1 .. Len(frames)
        BY <1>3
      <4> QED BY <4>1, FrameIs DEF IInv
    <3>2. InTime(t)
      BY <1>1, <1>3, <1>4, AcceptedIsFirst
    <3> QED BY <3>1, <3>2 DEF InTime
  <2>8. Mirroring'
    BY <1>3, <2>1, <2>7, ProfilesAssumption DEF Mirroring
  <2> QED BY <1>2, <2>6, <2>8 DEF IInv
<1>5. CASE Check(t) # "accept"
  <2>1. UNCHANGED <<window, mirror, lastFrame>>
    BY <1>5 DEF Arrive
  <2>2. t \in admitted \/ (t <= top /\ top - t >= profile.reorder)
    BY <1>3, <1>5, CheckIs DEF IInv
  <2>3. Admitting'
    BY <1>1, <1>3, <2>1, <2>2 DEF IInv, Admitting, window
  <2>4. Mirroring'
    BY <1>3, <2>1 DEF IInv, Mirroring
  <2> QED BY <1>2, <2>3, <2>4 DEF IInv
<1> QED BY <1>4, <1>5

LEMMA StepIInv == IInv /\ [Next]_vars => IInv'
<1> SUFFICES ASSUME IInv, [Next]_vars PROVE IInv'
  OBVIOUS
<1>1. CASE \E s \in States : Sample(s)
  BY <1>1, SampleIInv
<1>2. CASE Pass
  BY <1>2, PassIInv
<1>3. CASE \E t \in 0 .. Len(frames) - 1 : Arrive(t)
  BY <1>3, ArriveIInv
<1>4. CASE Act \/ UNCHANGED vars
  <2>1. UNCHANGED <<profile, now, arrived, mirror, lastFrame>> /\ UNCHANGED <<sender, window>>
    BY <1>4 DEF Act, vars, sender, window
  <2> QED BY <2>1 DEF IInv, Sending, Admitting, Mirroring, sender, window, Width
<1> QED BY <1>1, <1>2, <1>3, <1>4 DEF Next

LEMMA Invariance == Spec => []IInv
<1> QED BY InitIInv, StepIInv, PTL DEF Spec

-----------------------------------------------------------------------------
(* The theorems.                                                           *)

\* For every tolerance: the bit mask, shifted by jumps and marked by late
\* frames, never accepts a tick twice nor refuses a new one in the window.
THEOREM WindowAlwaysExact == Spec => []WindowIsExact
<1>1. IInv => WindowIsExact
  <2> SUFFICES ASSUME IInv, NEW t \in 0 .. Len(frames)
               PROVE  /\ Check(t) = "accept" <=> t \notin admitted /\ (t > top \/ top - t < profile.reorder)
                      /\ Check(t) = "replay-duplicate" => t \in admitted
    BY DEF WindowIsExact
  <2> QED BY CheckIs DEF IInv
<1> QED BY <1>1, Invariance, PTL

\* For every cadence, bound, tolerance and delay: whatever frames are lost,
\* late, out of order or repeated, no consumer acts on a state older than the
\* bound and the delay.  Because the window refuses what arrived before, a
\* frame that is repeated later cannot pass for a new one.
THEOREM StalenessIsBounded == Spec => []BoundedStaleness
<1>1. IInv => BoundedStaleness
  <2> SUFFICES ASSUME IInv, Fresh
               PROVE  \E i \in 1 .. Len(truth) : /\ truth[i] = frames[mirror + 1].state
                                                 /\ i - 1 > now - profile.stale - Delay
    BY DEF BoundedStaleness
  <2>1. /\ lastFrame \in Nat /\ mirror \in 0 .. Len(frames) - 1 /\ now - lastFrame < profile.stale
        /\ frames[mirror + 1].at >= lastFrame - Delay
    BY DEF IInv, Mirroring, Fresh
  <2>2. mirror + 1 \in 1 .. Len(frames)
    BY <2>1 DEF IInv, Sending
  <2> DEFINE i == frames[mirror + 1].at + 1
  <2>3. i \in 1 .. Len(truth) /\ truth[i] = frames[mirror + 1].state /\ now \in Nat /\ Len(truth) \in Nat
    BY <2>2 DEF IInv, Sending
  <2>4. profile.stale \in Nat /\ Delay \in Nat
    BY ProfileIs, ProfilesAssumption DEF IInv, Sending
  <2>5. frames[mirror + 1].at \in Nat
    BY <2>2, FrameIs DEF IInv
  <2>6. i - 1 > now - profile.stale - Delay
    <3>1. i - 1 = frames[mirror + 1].at
      BY <2>5
    <3>2. lastFrame > now - profile.stale
      BY <2>1, <2>3, <2>4
    <3> HIDE DEF i
    <3> QED BY <2>1, <2>3, <2>4, <2>5, <3>1, <3>2
  <2> QED BY <2>3, <2>6
<1> QED BY <1>1, Invariance, PTL

-----------------------------------------------------------------------------
(* Losses.                                                                 *)

\* The times of the frames go up.  A cadence leaves no room between two frames
\* for as many instants as it is long.  A frame below the top was sent no later
\* than one was accepted last, so that what was sent after that and is missing
\* never arrived.
Spacing ==
    /\ lastEmit \in Int /\ (truth # <<>> => lastEmit \in 0 .. Len(truth) - 1)
    /\ truth # <<>> => \E i \in 1 .. Len(frames) : frames[i].at = lastEmit
    /\ \A i, j \in 1 .. Len(frames) : i <= j => frames[i].at <= frames[j].at
    /\ truth # <<>> /\ profile.keyframe # 0 => Len(truth) - lastEmit <= profile.keyframe
    /\ profile.keyframe # 0 =>
         \A x \in Nat : x + profile.keyframe <= Len(truth) =>
            \E i \in 1 .. Len(frames) : frames[i].at >= x /\ frames[i].at < x + profile.keyframe
    /\ \A i \in 1 .. Len(frames) : i - 1 <= top => frames[i].at <= lastFrame

LEMMA InitSpacing == Init => Spacing
<1> SUFFICES ASSUME Init PROVE Spacing
  OBVIOUS
<1>1. /\ truth = <<>> /\ Len(truth) = 0 /\ frames = <<>> /\ Len(frames) = 0 /\ lastEmit = Never
      /\ profile.keyframe \in Nat
  BY ProfileIs DEF Init
<1> QED BY <1>1 DEF Spacing, Never

\* A sample that is sent, or one that is not because a frame is recent enough.
LEMMA SampleSpacing ==
    ASSUME IInv, Spacing, NEW s \in States, Sample(s)
    PROVE  Spacing'
<1> DEFINE L == Len(truth)
           n == Len(frames)
           k == profile.keyframe
<1>1. /\ now \in Nat /\ L = now /\ truth \in Seq(States) /\ n \in Nat /\ k \in Nat
      /\ truth' = Append(truth, s) /\ UNCHANGED <<profile, top, lastFrame>> /\ top < n /\ top \in Int
  BY ProfileIs DEF IInv, Sending, Admitting, Sample, Sampled, window
<1>2. Len(truth') = L + 1 /\ truth' # <<>> /\ (truth = <<>> <=> L = 0)
  BY <1>1
<1>3. \A i \in 1 .. n : frames[i].at \in Nat /\ frames[i].at < L
  BY <1>1, FrameIs DEF IInv, Sending
<1>4. CASE frames' = Append(frames, [state |-> s, at |-> now]) /\ lastEmit' = now
  <2> DEFINE f == [state |-> s, at |-> now]
  <2>1. /\ Len(frames') = n + 1 /\ frames'[n + 1] = f /\ f.at = L
        /\ \A i \in 1 .. n : frames'[i] = frames[i]
    BY <1>1, <1>4 DEF IInv, Sending
  <2> HIDE DEF f, L, n
  <2>2. \A i \in 1 .. (n + 1) : i \in 1 .. n \/ i = n + 1
    BY <1>1
  <2>3. \A i \in 1 .. (n + 1) : frames'[i].at \in Nat /\ frames'[i].at <= L /\ (i \in 1 .. n => frames'[i] = frames[i])
    BY <1>1, <1>3, <2>1, <2>2
  <2>4. \A i, j \in 1 .. (n + 1) : i <= j => frames'[i].at <= frames'[j].at
    <3> SUFFICES ASSUME NEW i \in 1 .. (n + 1), NEW j \in 1 .. (n + 1), i <= j
                 PROVE  frames'[i].at <= frames'[j].at
      OBVIOUS
    <3>1. CASE j = n + 1
      BY <2>1, <2>3, <3>1
    <3>2. CASE j \in 1 .. n
      <4>1. i \in 1 .. n
        BY <1>1, <3>2
      <4> QED BY <2>1, <3>2, <4>1 DEF Spacing, n
    <3> QED BY <2>2, <3>1, <3>2
  <2>5. ASSUME k # 0, NEW x \in Nat, x + k <= L + 1
        PROVE  \E i \in 1 .. (n + 1) : frames'[i].at >= x /\ frames'[i].at < x + k
    <3>1. CASE x + k <= L
      <4>1. PICK i \in 1 .. n : frames[i].at >= x /\ frames[i].at < x + k
        BY <2>5, <3>1 DEF Spacing, n, L
      <4>2. i \in 1 .. (n + 1) /\ frames'[i] = frames[i]
        BY <1>1, <2>1
      <4> QED BY <4>1, <4>2
    <3>2. CASE x + k = L + 1
      <4>1. n + 1 \in 1 .. (n + 1) /\ frames'[n + 1].at = L /\ L >= x /\ L < x + k
        BY <1>1, <2>1, <2>5, <3>2
      <4> QED BY <4>1
    <3> QED BY <1>1, <2>5, <3>1, <3>2
  <2>6. ASSUME NEW i \in 1 .. (n + 1), i - 1 <= top PROVE frames'[i].at <= lastFrame
    <3>1. i \in 1 .. n
      BY <1>1, <2>6
    <3> QED BY <2>1, <2>6, <3>1 DEF Spacing, n
  <2>7. lastEmit' = L /\ L \in Nat
    BY <1>1, <1>4
  <2>8. \E i \in 1 .. (n + 1) : frames'[i].at = lastEmit'
    <3>1. n + 1 \in 1 .. (n + 1) /\ frames'[n + 1].at = L
      BY <1>1, <2>1
    <3> QED BY <2>7, <3>1
  <2>9. /\ Len(truth') = L + 1 /\ Len(frames') = n + 1 /\ profile'.keyframe = k
        /\ top' = top /\ lastFrame' = lastFrame
    BY <1>1, <1>2, <2>1
  <2>10. lastEmit' \in Int /\ lastEmit' \in 0 .. (L + 1) - 1 /\ (k # 0 => (L + 1) - lastEmit' <= k)
    BY <1>1, <2>7
  <2> QED BY <2>4, <2>5, <2>6, <2>8, <2>9, <2>10 DEF Spacing
<1>5. CASE frames' = frames /\ lastEmit' = lastEmit /\ ~ShouldEmit(Changed(s))
  <2>1. truth # <<>> /\ lastEmit # Never /\ (k # 0 => now - lastEmit < k)
    BY <1>1, <1>5 DEF ShouldEmit, Changed, Spacing
  <2> HIDE DEF L, n, k
  <2>2. /\ lastEmit \in 0 .. L - 1 /\ \E i \in 1 .. n : frames[i].at = lastEmit
    BY <2>1 DEF Spacing, L, n
  <2>3. ASSUME k # 0, NEW x \in Nat, x + k <= L + 1
        PROVE  \E i \in 1 .. n : frames[i].at >= x /\ frames[i].at < x + k
    <3>1. CASE x + k <= L
      BY <2>3, <3>1 DEF Spacing, n, L, k
    <3>2. CASE x + k = L + 1
      <4>1. lastEmit >= x /\ lastEmit < x + k
        BY <1>1, <2>1, <2>2, <2>3, <3>2
      <4> QED BY <2>2, <4>1
    <3> QED BY <1>1, <2>3, <3>1, <3>2
  <2>4. lastEmit \in Int /\ lastEmit \in 0 .. (L + 1) - 1 /\ (k # 0 => (L + 1) - lastEmit <= k)
    BY <1>1, <2>1, <2>2
  <2>5. /\ Len(truth') = L + 1 /\ Len(frames') = n /\ profile'.keyframe = k
        /\ top' = top /\ lastFrame' = lastFrame /\ frames' = frames /\ lastEmit' = lastEmit
    BY <1>1, <1>2, <1>5 DEF L, n, k
  <2>6. /\ \A i, j \in 1 .. n : i <= j => frames[i].at <= frames[j].at
        /\ \A i \in 1 .. n : i - 1 <= top => frames[i].at <= lastFrame
    BY DEF Spacing, n
  <2> QED BY <2>2, <2>3, <2>4, <2>5, <2>6 DEF Spacing
<1> QED BY <1>4, <1>5 DEF Sample

\* Everything below the new top was sent by now.
LEMMA ArriveSpacing ==
    ASSUME IInv, Spacing, NEW t \in 0 .. Len(frames) - 1, Arrive(t)
    PROVE  Spacing'
<1>1. UNCHANGED <<profile, now, truth, frames, lastEmit>>
  BY DEF Arrive, sender
<1>2. \A i \in 1 .. Len(frames)' : i - 1 <= top' => frames'[i].at <= lastFrame'
  <2>1. CASE Check(t) = "accept"
    <3>1. lastFrame' = now
      BY <2>1 DEF Arrive
    <3>2. \A i \in 1 .. Len(frames) : frames[i].at <= now
      <4> TAKE i \in 1 .. Len(frames)
      <4>1. frames[i].at \in Nat
        BY FrameIs DEF IInv
      <4>2. frames[i].at + 1 \in 1 .. Len(truth) /\ Len(truth) \in {now, now + 1} /\ now \in Nat
        BY DEF IInv, Sending
      <4> QED BY <4>1, <4>2
    <3> QED BY <1>1, <3>1, <3>2
  <2>2. CASE Check(t) # "accept"
    BY <1>1, <2>2 DEF Arrive, window, Spacing
  <2> QED BY <2>1, <2>2
<1> QED BY <1>1, <1>2 DEF Spacing

LEMMA StepSpacing == IInv /\ Spacing /\ [Next]_vars => Spacing'
<1> SUFFICES ASSUME IInv, Spacing, [Next]_vars PROVE Spacing'
  OBVIOUS
<1>1. CASE \E s \in States : Sample(s)
  BY <1>1, SampleSpacing
<1>2. CASE \E t \in 0 .. Len(frames) - 1 : Arrive(t)
  BY <1>2, ArriveSpacing
<1>3. CASE Pass \/ Act \/ UNCHANGED vars
  <2>1. UNCHANGED <<profile, truth, frames, lastEmit, top, lastFrame>>
    BY <1>3 DEF Pass, Act, vars, sender, window
  <2> QED BY <2>1 DEF Spacing
<1> QED BY <1>1, <1>2, <1>3 DEF Next

\* Whole multiples, in order.
LEMMA Multiples ==
    ASSUME NEW a \in Int, NEW b \in Int, NEW k \in Nat, a <= b
    PROVE  a * k \in Int /\ b * k \in Int /\ a * k <= b * k
OBVIOUS

LEMMA Quotient ==
    ASSUME NEW a \in Int, NEW k \in Nat, k # 0
    PROVE  (a \div k) \in Int /\ (a \div k) * k <= a
OBVIOUS

\* The start of a cadence, in terms of its end.
LEMMA Cadence ==
    ASSUME NEW j \in Int, NEW k \in Nat
    PROVE  /\ (j - 1) * k \in Int /\ j * k \in Int /\ (j - 1) * k + k = j * k
           /\ (j >= 1 => (j - 1) * k \in Nat)
OBVIOUS

LEMMA LostIsFinite ==
    ASSUME IInv
    PROVE  IsFiniteSet(Lost) /\ Cardinality(Lost) \in Nat
<1>1. Len(frames) \in Nat
  BY DEF IInv, Sending
<1>2. IsFiniteSet(1 .. Len(frames))
  BY <1>1, FS_Interval
<1>3. Lost \subseteq 1 .. Len(frames)
  BY DEF Lost
<1> QED BY <1>2, <1>3, FS_Subset, FS_CardinalityType

\* A frame of a time after the last one accepted, and old enough, was lost.
LEMMA MissingIsLost ==
    ASSUME IInv, Spacing, NEW i \in 1 .. Len(frames),
           frames[i].at > lastFrame, frames[i].at + Delay < now, lastFrame \in Nat
    PROVE  i \in Lost
<1>1. profile.reorder \in Nat /\ top \in Int /\ Len(frames) \in Nat /\ frames[i].at \in Nat
  BY ProfileIs, FrameIs DEF IInv, Sending, Admitting
<1>2. i - 1 \in arrived => i - 1 <= top
  BY <1>1 DEF IInv, Admitting
<1>3. i - 1 <= top => frames[i].at <= lastFrame
  BY DEF Spacing
<1> QED BY <1>1, <1>2, <1>3 DEF Lost

\* For every cadence, bound, tolerance and delay: a consumer that parks on the
\* fail-safe lost a frame of each whole cadence between the last it accepted
\* and the instant before which every frame has come or is lost.  The cadences
\* do not overlap, so that there are as many such frames.
THEOREM ParksAlwaysOnLoss == Spec => []ParksOnlyOnLoss
<1>1. IInv /\ Spacing => ParksOnlyOnLoss
  <2> SUFFICES ASSUME IInv, Spacing, profile.keyframe # 0, lastFrame # Never, ~Fresh
               PROVE  Cardinality(Lost) >= (profile.stale - Delay - 1) \div profile.keyframe
    BY DEF ParksOnlyOnLoss
  <2> DEFINE k == profile.keyframe
             m == (profile.stale - Delay - 1) \div k
             From(j) == lastFrame + 1 + (j - 1) * k
             In(j, i) == frames[i].at >= From(j) /\ frames[i].at < From(j) + k
  <2>1. /\ k \in Nat \ {0} /\ profile.stale \in Nat /\ Delay \in Nat /\ now \in Nat
        /\ Len(truth) \in Nat /\ now <= Len(truth)
    BY ProfileIs, ProfilesAssumption DEF IInv, Sending
  <2>2. lastFrame \in Nat /\ now - lastFrame >= profile.stale
    BY <2>1 DEF IInv, Mirroring, Fresh
  <2>3. m \in Int /\ m * k <= profile.stale - Delay - 1
    <3> DEFINE a == profile.stale - Delay - 1
    <3>1. a \in Int
      BY <2>1
    <3> HIDE DEF k, a
    <3>2. (a \div k) \in Int /\ (a \div k) * k <= a
      BY <2>1, <3>1, Quotient
    <3> QED BY <3>2 DEF a
  <2> HIDE DEF m
  <2>4. ASSUME NEW j \in 1 .. m
        PROVE  From(j) \in Nat /\ From(j) + k <= now - Delay
    <3>1. j * k \in Int /\ j * k <= m * k
      BY <2>1, <2>3, Multiples
    <3> HIDE DEF k
    <3>2. (j - 1) * k \in Nat /\ (j - 1) * k + k = j * k
      BY <2>1, <2>3, Cadence
    <3> DEFINE u == (j - 1) * k
               v == j * k
               w == m * k
    <3>3. /\ u \in Nat /\ v \in Int /\ w \in Int /\ u + k = v /\ v <= w /\ w <= profile.stale - Delay - 1
          /\ From(j) = lastFrame + 1 + u
      BY <2>1, <2>3, <3>1, <3>2, Cadence
    <3> HIDE DEF u, v, w, From
    <3> QED BY <2>1, <2>2, <3>3
  <2>5. ASSUME NEW j \in 1 .. m
        PROVE  \E i \in Lost : In(j, i)
    <3>1. From(j) \in Nat /\ From(j) + k <= Len(truth) /\ From(j) + k <= now - Delay
      BY <2>1, <2>4
    <3> HIDE DEF From
    <3>2. PICK i \in 1 .. Len(frames) : frames[i].at >= From(j) /\ frames[i].at < From(j) + k
      BY <2>1, <3>1 DEF Spacing
    <3>3. From(j) >= lastFrame + 1
      <4>1. (j - 1) * k \in Nat
        <5> HIDE DEF k
        <5> QED BY <2>1, <2>3, Cadence
      <4> QED BY <2>2, <4>1 DEF From
    <3>4. frames[i].at \in Nat
      BY FrameIs DEF IInv
    <3>5. i \in Lost
      <4>1. frames[i].at > lastFrame /\ frames[i].at + Delay < now
        <5> DEFINE at == frames[i].at
                   x == From(j)
        <5>1. /\ at \in Nat /\ x \in Nat /\ at >= x /\ at < x + k /\ x + k <= now - Delay
              /\ x >= lastFrame + 1
          BY <3>1, <3>2, <3>3, <3>4
        <5> HIDE DEF at, x, k
        <5>2. at > lastFrame /\ at + Delay < now
          BY <2>1, <2>2, <5>1
        <5> QED BY <5>2 DEF at
      <4> HIDE DEF In, k
      <4> QED BY <2>2, <4>1, MissingIsLost
    <3> QED BY <3>2, <3>5
  <2>6. ASSUME NEW a \in 1 .. m, NEW b \in 1 .. m, a < b, NEW i \in Lost, In(a, i), In(b, i)
        PROVE  FALSE
    <3>1. a * k \in Int /\ (b - 1) * k \in Int /\ a * k <= (b - 1) * k
      <4>1. a \in Int /\ b - 1 \in Int /\ a <= b - 1
        BY <2>6
      <4> HIDE DEF k
      <4> QED BY <2>1, <4>1, Multiples
    <3>2. (a - 1) * k \in Int /\ (a - 1) * k + k = a * k
      <4> HIDE DEF k
      <4> QED BY <2>1, <2>6, Cadence
    <3>3. frames[i].at \in Nat
      <4>1. i \in 1 .. Len(frames)
        BY DEF Lost
      <4> QED BY <4>1, FrameIs DEF IInv
    <3> DEFINE u == (a - 1) * k
               v == (b - 1) * k
    <3>4. /\ u \in Int /\ v \in Int /\ u + k <= v
          /\ frames[i].at < lastFrame + 1 + u + k /\ frames[i].at >= lastFrame + 1 + v
      BY <2>6, <3>1, <3>2
    <3> HIDE DEF u, v
    <3> QED BY <2>1, <2>2, <3>3, <3>4
  <2> HIDE DEF In, From
  <2>7. IsFiniteSet(Lost) /\ Cardinality(Lost) \in Nat
    BY LostIsFinite
  <2>8. CASE m <= 0
    BY <2>1, <2>3, <2>7, <2>8 DEF m
  <2>9. CASE m > 0 /\ Cardinality(Lost) < m
    <3> DEFINE f == [j \in 1 .. m |-> CHOOSE i \in Lost : In(j, i)]
    <3>1. \A j \in 1 .. m : f[j] \in Lost /\ In(j, f[j])
      BY <2>5
    <3>2. IsFiniteSet(1 .. m) /\ Cardinality(1 .. m) = m
      BY <2>3, <2>9, FS_Interval
    <3>3. f \in [1 .. m -> Lost]
      BY <3>1
    <3> HIDE DEF f
    <3>4. PICK a \in 1 .. m, b \in 1 .. m : a # b /\ f[a] = f[b]
      BY <2>7, <2>9, <3>2, <3>3, FS_PigeonHole
    <3>5. a < b \/ b < a
      BY <3>4
    <3> QED BY <2>6, <3>1, <3>4, <3>5
  <2> QED BY <2>3, <2>7, <2>8, <2>9 DEF m
<1>2. Spec => [](IInv /\ Spacing)
  BY InitIInv, StepIInv, InitSpacing, StepSpacing, PTL DEF Spec
<1> QED BY <1>1, <1>2, PTL
=============================================================================
