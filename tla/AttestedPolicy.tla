--------------------------- MODULE AttestedPolicy ---------------------------
(***************************************************************************)
(* What the policy host promises, whatever fails: a policy comes into      *)
(* force only after it was accepted, acceptances respect a floor that only *)
(* rises, and at one version only one policy is ever accepted.             *)
(***************************************************************************)
EXTENDS Integers

CONSTANTS Hosts, NoPolicy   \* a policy has a field ver, 0 when it is unsigned

VARIABLES
    floor,      \* the highest version reserved so far
    accepted,   \* the policies accepted so far
    committed,  \* the policy a new process restores
    inForce     \* the policy each process enforces

vars == <<floor, accepted, committed, inForce>>

Init ==
    /\ floor = 0
    /\ accepted = {}
    /\ committed = NoPolicy
    /\ inForce = [h \in Hosts |-> NoPolicy]

\* A version is reserved before any policy is accepted at it.
Reserve ==
    /\ floor' \in Nat
    /\ floor' > floor
    /\ UNCHANGED <<accepted, committed, inForce>>

Accept ==
    /\ \E p \in accepted' :
        /\ p.ver # 0 => p.ver = floor /\ \A q \in accepted : q.ver = floor => q = p
        /\ accepted' = accepted \cup {p}
    /\ UNCHANGED <<floor, committed, inForce>>

\* A swap or a rollback: disk and memory change together.
Commit(h) ==
    /\ committed' \in accepted
    /\ inForce' = [inForce EXCEPT ![h] = committed']
    /\ UNCHANGED <<floor, accepted>>

\* A new process over the directory.
Restore(h) ==
    /\ inForce[h] = NoPolicy
    /\ \E p \in accepted : inForce' = [inForce EXCEPT ![h] = p]
    /\ UNCHANGED <<floor, accepted, committed>>

Drop(h) ==
    /\ inForce' = [inForce EXCEPT ![h] = NoPolicy]
    /\ UNCHANGED <<floor, accepted, committed>>

Next ==
    \/ Reserve
    \/ Accept
    \/ \E h \in Hosts : Commit(h) \/ Restore(h) \/ Drop(h)

Spec == Init /\ [][Next]_vars
=============================================================================
