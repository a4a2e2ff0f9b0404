---------------------------- MODULE MCPolicyHost ----------------------------
(* Small instances of PolicyHost: two images, three signed packs, two of   *)
(* them at one version, so that the floor must tell images apart.          *)
EXTENDS PolicyHost

CONSTANTS imgA, imgB

MCPacks == {[img |-> imgA, ver |-> 1], [img |-> imgB, ver |-> 1],
            [img |-> imgB, ver |-> 2]}

\* At most s swaps, r rollbacks, i interruptions, and o of each other action.
Bound(s, r, i, o) == [act \in Actions |->
    CASE act = "swap"            -> s
      [] act = "rollback"        -> r
      [] act = "swap_incomplete" -> i
      [] OTHER                   -> o]
Appends == [Bound(3, 1, 1, 0) EXCEPT !["attestation"] = 1]
=============================================================================
