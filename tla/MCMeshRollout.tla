--------------------------- MODULE MCMeshRollout ---------------------------
(* The fleet of the certification: a coordinator and followers, all alike. *)
EXTENDS MeshRollout, TLC

CONSTANTS c, f1, f2, f3

FollowerSymmetry == Permutations({f1, f2, f3} \cap Nodes)
=============================================================================
