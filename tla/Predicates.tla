----------------------------- MODULE Predicates -----------------------------
(***************************************************************************)
(* Edge conditions of a flow (prismpath/kernel/predicates.py), the Level M *)
(* fragment (level_m.py) and what the analyzer proves of one or two of     *)
(* them (analysis.py).                                                     *)
(*                                                                         *)
(* A value is None (which a missing field reads as), a string or a number  *)
(* in halves, for the midpoints the verifier tries.  Python compares True  *)
(* and False as 1 and 0, and so does a condition here; as constants of one *)
(* they are kept apart, because the verifier and the analyzer do not count *)
(* them among the numbers.  A `when` condition is the conjunction of a set *)
(* of literals, the empty one the catch-alls; `or` is two edges to one     *)
(* target, `in` is equalities.                                             *)
(***************************************************************************)
EXTENDS Integers, FiniteSets

None == [kind |-> "none", n |-> 0]
Str(i) == [kind |-> "str", n |-> i]     \* Str(0) is the empty one
Num(halves) == [kind |-> "num", n |-> halves]
Bool(b) == [kind |-> "bool", n |-> IF b THEN 2 ELSE 0]      \* a constant only
Fresh == Str(9)         \* the verifier's own string, equal to no constant of a flow

Visits == "visits"      \* the counter, a name like the fields'
NoField == ""

\* A literal: a field alone (`is`), or compared with a constant or a field.
Is(f) == [field |-> f, op |-> "is", const |-> None, than |-> NoField, neg |-> FALSE]
Cmp(f, op, v) == [field |-> f, op |-> op, const |-> v, than |-> NoField, neg |-> FALSE]
Cmp2(f, op, g) == [field |-> f, op |-> op, const |-> None, than |-> g, neg |-> FALSE]
Not(l) == [l EXCEPT !.neg = ~@]

\* A condition; an error edge may have literals, an event edge has a name.
Cond(kind, lits, name) == [kind |-> kind, lits |-> lits, name |-> name]
When(lits) == Cond("when", lits, "")
Always == When({})

Orders == {"<", "<=", ">", ">="}
Value == {v \in [kind : {"none", "str", "num"}, n : Int] : v.kind = "none" => v = None}
Constant == (Value \ {Fresh}) \cup {Bool(TRUE), Bool(FALSE)}
Names == STRING \ {NoField}
Literal == [field : Names, op : {"is", "==", "!="} \cup Orders, const : Constant, than : STRING, neg : BOOLEAN]
Conditions == {c \in [kind : {"when", "semantic", "error", "event"}, lits : SUBSET Literal, name : STRING] :
                 IsFiniteSet(c.lits)}

-----------------------------------------------------------------------------
(* Evaluation: total, an order between values of two kinds holds neither   *)
(* way.  A context gives the fields and the counter their values.          *)

Truthy(v) == v.n # 0

Compare(op, a, b) ==
    \/ op = "==" /\ a = b
    \/ op = "!=" /\ a # b
    \/ /\ a.kind = b.kind /\ a.kind # "none"
       /\ \/ op = "<"  /\ a.n < b.n
          \/ op = "<=" /\ a.n <= b.n
          \/ op = ">"  /\ a.n > b.n
          \/ op = ">=" /\ a.n >= b.n

\* What a constant is compared as.
Meant(const) == IF const.kind = "bool" THEN Num(const.n) ELSE const
Operand(l, ctx) == IF l.than = NoField THEN Meant(l.const) ELSE ctx[l.than]
Atom(l, ctx) ==
    IF l.op = "is" THEN Truthy(ctx[l.field]) ELSE Compare(l.op, ctx[l.field], Operand(l, ctx))
Holds(c, ctx) == \A l \in c.lits : Atom(l, ctx) = ~l.neg

\* The names a condition reads and the constants it mentions.
Reads(c) == ({l.field : l \in c.lits} \cup {l.than : l \in c.lits}) \ {NoField}
Consts(c) == {l.const : l \in {k \in c.lits : k.op # "is" /\ k.than = NoField}}
Numbers(S) == {v.n : v \in {u \in S : u.kind = "num"}}

-----------------------------------------------------------------------------
(* The Level M fragment: a field alone or against a constant that is not a *)
(* fraction, and strings are not ordered.                                  *)

Fraction(const) == const.kind = "num" /\ const.n % 2 # 0
InLevelM(c) ==
    \A l \in c.lits :
        l.op = "is" \/ (l.than = NoField /\ ~Fraction(l.const) /\ ~(l.op \in Orders /\ l.const.kind = "str"))

-----------------------------------------------------------------------------
(* What the analyzer proves.                                               *)

AlwaysTrue(c) == c.kind = "when" /\ c.lits = {}

Opposite == [op \in {"==", "!="} \cup Orders |->
    CASE op = "==" -> "!=" [] op = "!=" -> "==" [] op = "<" -> ">=" [] op = ">=" -> "<"
      [] op = ">" -> "<=" [] op = "<=" -> ">"]

\* Mutant of Negates: two different conditions about one field will do.
NegatesField(c, d) ==
    \E l \in c.lits, k \in d.lits : c # d /\ c.lits = {l} /\ d.lits = {k} /\ l.field = k.field

\* One is the other with `not` in front, or compares the same by the opposite.
Negates(c, d) ==
    \E l \in c.lits, k \in d.lits :
        /\ c.lits = {l} /\ d.lits = {k}
        /\ \/ l = Not(k)
           \/ /\ l.op # "is" /\ ~l.neg /\ ~k.neg
              /\ k = [l EXCEPT !.op = Opposite[l.op]]

\* The bounds a conjunction puts on a field: numbers, no negations.
Bounds(c, f, ops) ==
    {l \in c.lits : l.field = f /\ l.than = NoField /\ ~l.neg
                    /\ l.const.kind = "num" /\ l.op \in ops}

\* Mutant of Contradicts: bounds that meet exclude each other.
ContradictsAtBound(c) ==
    \E f \in Reads(c) : \E l \in Bounds(c, f, {">", ">=", "=="}), u \in Bounds(c, f, {"<", "<=", "=="}) :
        l.const.n >= u.const.n /\ l # u

\* A lower bound of a field lies above an upper one: always false.
Contradicts(c) ==
    \E f \in Reads(c) : \E l \in Bounds(c, f, {">", ">=", "=="}), u \in Bounds(c, f, {"<", "<=", "=="}) :
        \/ l.const.n > u.const.n
        \/ l.const.n = u.const.n /\ (l.op = ">" \/ u.op = "<")
=============================================================================
