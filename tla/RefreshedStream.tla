--------------------------- MODULE RefreshedStream ---------------------------
(***************************************************************************)
(* A stream that is sent on change and refreshed by keyframes, received    *)
(* behind a replay window (prismpath/telemetry/refresh.py and replay.py),  *)
(* joined as PROTOCOL.md 2.7 and 2.8 and the tests of the two do: a frame  *)
(* the window accepts is given to the staleness tracker.                   *)
(*                                                                         *)
(* Time goes by instants; the sender looks at its state once in each.  The *)
(* network loses frames, delivers the others within Delay in any order,    *)
(* and may deliver again, at any time, what it delivered once.  A tick is  *)
(* the number of a frame.  The tracker's record of its transitions is its  *)
(* flag `stale`, written down whenever it changes.                         *)
(***************************************************************************)
EXTENDS Integers, Sequences, FiniteSets

CONSTANTS
    States,
    Profiles,       \* cadence (0: none), bound on staleness, reorder tolerance
    Delay,          \* bound on the time a frame takes
    MaxTime         \* bound on the clock

ASSUME ProfilesAssumption ==
    /\ Profiles \subseteq [keyframe : Nat, stale : Nat \ {0}, reorder : 0 .. 64]
    /\ Delay \in Nat /\ MaxTime \in Nat

VARIABLES
    profile,
    now,
    truth,          \* the state the sender saw at each instant
    frames,         \* the frames sent, tick 0 first
    lastEmit,
    arrived,        \* ticks that arrived once
    top, mask,      \* the window: the highest tick, and the bits below it
    mirror,         \* the tick of the frame the consumer mirrors
    lastFrame, stale,
    admitted        \* ticks the window admitted

vars == <<profile, now, truth, frames, lastEmit, arrived, top, mask, mirror, lastFrame, stale, admitted>>
sender == <<truth, frames, lastEmit>>
window == <<top, mask, admitted>>

Never == -1

Init ==
    /\ profile \in Profiles
    /\ now = 0 /\ truth = <<>> /\ frames = <<>> /\ lastEmit = Never /\ arrived = {}
    /\ top = -1 /\ mask = {} /\ admitted = {}
    /\ mirror = -1 /\ lastFrame = Never /\ stale = TRUE

-----------------------------------------------------------------------------
(* The sender.                                                             *)

\* Mutant of ShouldEmit: an instant later than due.
ShouldEmitLate(changed) ==
    changed \/ lastEmit = Never \/ (profile.keyframe # 0 /\ now - lastEmit > profile.keyframe)

ShouldEmit(changed) ==
    changed \/ lastEmit = Never \/ (profile.keyframe # 0 /\ now - lastEmit >= profile.keyframe)

Sampled == Len(truth) = now + 1
Changed(s) == truth = <<>> \/ s # truth[Len(truth)]

Sample(s) ==
    /\ ~Sampled
    /\ truth' = Append(truth, s)
    /\ IF ShouldEmit(Changed(s))
       THEN frames' = Append(frames, [state |-> s, at |-> now]) /\ lastEmit' = now
       ELSE UNCHANGED <<frames, lastEmit>>
    /\ UNCHANGED <<profile, now, arrived, window, mirror, lastFrame, stale>>

Pass ==
    /\ Sampled /\ now < MaxTime
    /\ now' = now + 1
    /\ UNCHANGED <<profile, sender, arrived, window, mirror, lastFrame, stale>>

-----------------------------------------------------------------------------
(* The replay window.                                                      *)

Check(t) ==
    IF t > top THEN "accept"
    ELSE IF profile.reorder = 0 THEN IF t = top THEN "replay-duplicate" ELSE "replay-stale"
    ELSE IF top - t >= profile.reorder THEN "replay-stale"
    ELSE IF top - t \in mask THEN "replay-duplicate" ELSE "accept"

Width == IF profile.reorder > 1 THEN profile.reorder ELSE 1

\* Mutant of Slide: the bits stay where they are.
SlideNot(t) == IF t > top THEN mask \cup {0} ELSE mask \cup {top - t}

\* The mask once a tick is admitted: shifted to the new top, or one bit more.
Slide(t) ==
    IF t > top THEN ({k + (t - top) : k \in mask} \cup {0}) \cap 0 .. Width - 1
    ELSE mask \cup {top - t}

-----------------------------------------------------------------------------
(* The consumer.                                                           *)

\* Mutant of Fresh: stale only when older than the bound.
FreshAtBound == lastFrame # Never /\ now - lastFrame <= profile.stale

Fresh == lastFrame # Never /\ now - lastFrame < profile.stale

InTime(t) == now - frames[t + 1].at <= Delay

Arrive(t) ==
    /\ t \in arrived \/ InTime(t)
    /\ arrived' = arrived \cup {t}
    /\ IF Check(t) = "accept"
       THEN /\ top' = IF t > top THEN t ELSE top
            /\ mask' = Slide(t)
            /\ admitted' = admitted \cup {t}
            /\ mirror' = t /\ lastFrame' = now /\ stale' = FALSE
       ELSE UNCHANGED <<window, mirror, lastFrame, stale>>
    /\ UNCHANGED <<profile, now, sender>>

\* The consumer asks what it may act on: the mirrored state, or the fail-safe.
Act ==
    /\ stale' = (stale \/ ~Fresh)
    /\ UNCHANGED <<profile, now, sender, arrived, window, mirror, lastFrame>>

Next ==
    \/ \E s \in States : Sample(s)
    \/ Pass
    \/ \E t \in 0 .. Len(frames) - 1 : Arrive(t)
    \/ Act

Spec == Init /\ [][Next]_vars

-----------------------------------------------------------------------------
(* Properties.                                                             *)

\* The window against the set of all ticks it ever admitted: it accepts a tick
\* just when it is new and not too late, whatever jumps and late frames moved
\* the mask, and a refusal as a duplicate names one that was admitted.
WindowIsExact ==
    \A t \in 0 .. Len(frames) :
        /\ Check(t) = "accept" <=> t \notin admitted /\ (t > top \/ top - t < profile.reorder)
        /\ Check(t) = "replay-duplicate" => t \in admitted

\* Bounded staleness (I6): a consumer acts on the fail-safe or on a state the
\* sender had less than the bound, and the delay of a frame, ago.
BoundedStaleness ==
    Fresh => \E i \in 1 .. Len(truth) :
                /\ truth[i] = frames[mirror + 1].state
                /\ i - 1 > now - profile.stale - Delay

\* A consumer parks on the fail-safe only when as many frames in a row were
\* lost as the bound leaves room for between two that arrive.
Lost == {i \in 1 .. Len(frames) :
            frames[i].at > lastFrame /\ frames[i].at + Delay < now /\ i - 1 \notin arrived}
ParksOnlyOnLoss ==
    profile.keyframe # 0 /\ lastFrame # Never /\ ~Fresh
        => Cardinality(Lost) >= (profile.stale - Delay - 1) \div profile.keyframe
=============================================================================
