----------------------------- MODULE Retention -----------------------------
(***************************************************************************)
(* What the durable epochs promise (prismpath/telemetry/epochs.py and      *)
(* epoch_journal.py): the chain of sealed windows is permanent, and the    *)
(* readings of an epoch go only when the ground verified them or when      *)
(* their loss is on record.  EpochJournal is shown to implement it.        *)
(***************************************************************************)
EXTENDS Naturals, Sequences, FiniteSets

CONSTANT Windows    \* the stream windows that can be sealed

VARIABLES
    sealed,     \* the chain: the window of every epoch, in order
    kept,       \* the epochs whose readings are still stored
    lost,       \* the epochs whose loss is on record
    verified,   \* the ground verified every epoch up to this one
    got         \* the windows the ground received

vars == <<sealed, kept, lost, verified, got>>

Init ==
    /\ sealed = <<>> /\ kept = {} /\ lost = {} /\ verified = 0 /\ got = {}

Epochs == 1..Len(sealed)

\* A window becomes the newest epoch, with its readings.
Seal(w) ==
    /\ sealed' = Append(sealed, w)
    /\ kept' = kept \cup {Len(sealed) + 1}
    /\ UNCHANGED <<lost, verified, got>>

\* The loss of an epoch is put on record, before its readings go.
Record(i) ==
    /\ i \in kept
    /\ lost' = lost \cup {i}
    /\ UNCHANGED <<sealed, kept, verified, got>>

\* The ground receives the readings of an epoch.
Transmit(i) ==
    /\ i \in kept
    /\ got' = got \cup {sealed[i]}
    /\ UNCHANGED <<sealed, kept, lost, verified>>

\* An acknowledgement covers everything up to an epoch, never less than before.
Verify(n) ==
    /\ n \in Epochs /\ n >= verified
    /\ \A i \in 1..n : sealed[i] \in got \/ i \in lost
    /\ verified' = n
    /\ UNCHANGED <<sealed, kept, lost, got>>

\* Readings go when they are verified or their loss is on record.
Forget(i) ==
    /\ i \in kept /\ (i <= verified \/ i \in lost)
    /\ kept' = kept \ {i}
    /\ UNCHANGED <<sealed, lost, verified, got>>

Next ==
    \/ \E w \in Windows : Seal(w)
    \/ \E i \in Epochs : Record(i) \/ Transmit(i) \/ Verify(i) \/ Forget(i)

Spec == Init /\ [][Next]_vars

-----------------------------------------------------------------------------
\* No silent hole: the readings of every sealed epoch are stored, on the
\* ground, or on record as lost.
NoSilentHole ==
    \A i \in Epochs : i \in kept \/ i \in lost \/ sealed[i] \in got
=============================================================================
