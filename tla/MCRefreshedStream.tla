-------------------------- MODULE MCRefreshedStream --------------------------
(* Without a cadence and in order; with room for a lost frame or two, in    *)
(* order and with windows of one tick, of two and of three.                 *)
EXTENDS RefreshedStream

MCProfiles ==
    {[keyframe |-> k, stale |-> s, reorder |-> r] : k \in {0, 1, 2}, s \in {3, 5}, r \in {0, 1, 2, 3}}
=============================================================================
