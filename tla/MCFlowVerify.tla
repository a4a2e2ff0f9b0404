---------------------------- MODULE MCFlowVerify ----------------------------
(* Small flows: two edges at a node that may loop, and a second node that  *)
(* ends the run, gives up after a number of visits, or may be stuck; where *)
(* it ends the run, the third one is unreachable.                          *)
EXTENDS FlowVerify, TLC

MCNodes == {"a", "b", "c"}
Lt(f, k) == Cmp(f, "<", Num(2 * k))
Gt(f, k) == Cmp(f, ">", Num(2 * k))
Eq(f, k) == Cmp(f, "==", Num(2 * k))

Conds == {Always} \cup {When(S) : S \in {
    {Is("x")}, {Not(Is("x"))}, {Lt("x", 2)}, {Not(Lt("x", 2))}, {Cmp("x", ">=", Num(4))}, {Cmp("x", "!=", Num(4))}, {Eq("x", 2)},
    {Cmp("x", "==", Str(1))}, {Gt(Visits, 1)}, {Eq(Visits, 2)}, {Cmp2("x", "<", "y")}, {Is("x"), Gt("y", 2)},
    {Lt("x", 2), Is("x")}, {Gt("x", 2), Lt("x", 2)}, {Cmp("x", ">=", Num(4)), Cmp("x", "<=", Num(4))},
    {Gt("x", 2), Lt("x", 3)}, {Lt("x", 1), Is("x")}, {Cmp("x", ">", Bool(TRUE))}, {Cmp("x", "==", Bool(TRUE))},
    {Gt("x", 0), Cmp("x", "!=", Bool(TRUE))}, {Cmp(Visits, ">", Bool(TRUE))}, {Cmp("x", ">", Num(5))}}}
Wide == When({Cmp2("x", "<", "y"), Is("z")})
Others == {Cond("semantic", {}, ""), Cond("error", {}, ""), Cond("error", {Gt(Visits, 1)}, ""), Cond("event", {}, "e")}
To(t, c) == [to |-> t, on |-> c]

Pairs == {<<To("a", c), To("b", d)>> : c \in Conds, d \in Conds \cup Others}
         \cup {<<To("b", c), To("a", d)>> : c \in Others, d \in Conds \cup Others}
         \cup {<<To("a", Wide), To("b", Cond("semantic", {}, ""))>>}
GiveUp == <<To("c", When({Gt(Visits, 1)})), To("a", Always)>>
Halt == <<To("c", When({Not(Is("x"))}))>>

Ask(pairs, second, as, bd, faults) ==
    [start |-> "a", edges |-> ("a" :> pairs) @@ ("b" :> second) @@ ("c" :> <<>>),
     assume |-> as, raises |-> faults, waits |-> faults, bound |-> bd]

\* A counter against a field (or a field against another), at a node that must
\* be left three times to reach "c".
Race(f, g) == <<To("b", When({Cmp2(f, "<", g)}))>>
Third == <<To("c", When({Gt(Visits, 2)})), To("a", Always)>>
MCRaces == {Ask(Race(p[1], p[2]), Third, as, 25, FALSE) :
              p \in {<<Visits, "x">>, <<"x", Visits>>, <<"x", "y">>},
              as \in {Always, When({Cmp("x", "<=", Num(6))})}}

MCQuestions ==
    {Ask(p, GiveUp, as, bd, TRUE) : p \in Pairs, as \in {Always, When({Is("x")})}, bd \in {3, 25}}
    \cup {Ask(p, Halt, Always, 25, b) : p \in Pairs, b \in BOOLEAN}
    \cup {Ask(p, <<>>, Always, 25, TRUE) : p \in Pairs}
    \cup MCRaces
MCValues == {None, Str(0), Str(1), Str(9), Num(-2), Num(0), Num(2), Num(4), Num(5), Num(6)}
=============================================================================
