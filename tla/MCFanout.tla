------------------------------ MODULE MCFanout ------------------------------
(* A release: three reviews of which half must approve, then one build that *)
(* fans out over two parts and goes on when either is done.                *)
EXTENDS Fanout

MCRuns == {<<>>, <<"a">>, <<"b">>, <<"c">>, <<"x">>, <<"x", "p">>, <<"x", "q">>}
MCNodes == {"reviews", "builds", "review", "parts", "part"}
MCFanOuts == {"reviews", "builds", "parts"}
MCNodesOf == [r \in MCRuns |->
    CASE r = <<>>    -> {"reviews", "builds"}
      [] r = <<"x">> -> {"parts"}
      [] Len(r) = 2  -> {"part"}
      [] OTHER       -> {"review"}]
MCThen == [n \in MCNodes |-> IF n = "reviews" THEN "builds" ELSE End]
MCLate == [f \in {"reviews"} |-> End]
MCChild == [f \in MCFanOuts |->
    CASE f = "reviews" -> "review" [] f = "builds" -> "parts" [] f = "parts" -> "part"]
MCItems == [f \in MCFanOuts |->
    CASE f = "reviews" -> <<"a", "b", "c">> [] f = "builds" -> <<"x">> [] f = "parts" -> <<"p", "q">>]
JoinOn(policy, num, den) == [policy |-> policy, num |-> num, den |-> den]
MCJoin == [f \in MCFanOuts |->
    CASE f = "reviews" -> JoinOn("quorum", 1, 2)
      [] f = "builds"  -> JoinOn("all_done", 0, 0)
      [] f = "parts"   -> JoinOn("any", 0, 0)]
MCYields == [n \in MCNodes |->
    CASE n = "review" -> {"ok", "poor", "human"}
      [] n = "part"   -> {"ok", "stuck", "unsaved", "raise"}
      [] OTHER        -> {"spawn"}]
=============================================================================
