-------------------------- MODULE FlowVerifyProofs --------------------------
(* Why "proven unreachable" holds of every run, for every flow.            *)
EXTENDS FlowVerify, FiniteSetTheorems, WellFoundedInduction, TLAPS

-----------------------------------------------------------------------------
(* Least and greatest elements.                                            *)

\* A set of naturals has a least element.
LEMMA Least ==
    ASSUME NEW T, T \subseteq Nat, T # {}
    PROVE  \E x \in T : \A y \in T : x <= y
<1> DEFINE R == OpToRel(<, Nat)
<1>1. IsWellFoundedOn(R, Nat)
  BY NatLessThanWellFounded
<1>2. \A x, y \in Nat : <<x, y>> \in R <=> x < y
  BY DEF OpToRel
<1> HIDE DEF R
<1>3. PICK x \in T : \A y \in T : ~ (<<y, x>> \in R)
  BY <1>1, WFMin
<1>4. \A y \in T : ~(y < x) /\ y \in Nat /\ x \in Nat
  BY <1>2, <1>3
<1>5. \A y \in T : x <= y
  BY <1>4
<1> QED BY <1>5

LEMMA FirstIsLeast ==
    ASSUME NEW S, S \subseteq Nat, S # {}
    PROVE  First(S) \in S /\ \A j \in S : First(S) <= j
<1>1. \E i \in S : \A j \in S : i <= j
  BY Least
<1> QED BY <1>1 DEF First

\* A function on a finite set is highest somewhere: where the fewest are above.
LEMMA Highest ==
    ASSUME NEW S, IsFiniteSet(S), S # {}, NEW f \in [S -> Int]
    PROVE  \E x \in S : \A y \in S : f[y] <= f[x]
<1> DEFINE Above(x) == {y \in S : f[y] > f[x]}
           T == {Cardinality(Above(x)) : x \in S}
<1>1. \A x \in S : IsFiniteSet(Above(x)) /\ Cardinality(Above(x)) \in Nat
  <2> TAKE x \in S
  <2>1. Above(x) \in SUBSET S
    OBVIOUS
  <2> HIDE DEF Above
  <2> QED BY <2>1, FS_Subset, FS_CardinalityType
<1>2. T \subseteq Nat /\ T # {}
  BY <1>1
<1>3. PICK k \in T : \A j \in T : k <= j
  <2> HIDE DEF T
  <2> QED BY <1>2, Least
<1>4. PICK x \in S : k = Cardinality(Above(x))
  BY <1>3
<1>5. ASSUME NEW y \in S, f[y] > f[x] PROVE FALSE
  <2>1. Above(y) \in SUBSET Above(x) /\ y \in Above(x) /\ y \notin Above(y)
    BY <1>5
  <2>2. Cardinality(Above(x)) <= Cardinality(Above(y))
    BY <1>3, <1>4
  <2> HIDE DEF Above
  <2>3. Cardinality(Above(y)) <= Cardinality(Above(x))
        /\ (Cardinality(Above(x)) = Cardinality(Above(y)) => Above(x) = Above(y))
    BY <1>1, <2>1, FS_Subset
  <2> QED BY <1>1, <2>1, <2>2, <2>3
<1>6. \A y \in S : f[y] <= f[x]
  BY <1>5
<1> QED BY <1>6

\* A bounded set of integers with 0 in it has a greatest element.
LEMMA MaxOfBounded ==
    ASSUME NEW S, S \subseteq Int, 0 \in S, NEW u \in Nat, \A x \in S : x <= u
    PROVE  Max(S) \in S /\ \A x \in S : x <= Max(S)
<1> DEFINE T == {i \in Nat : u - i \in S}
<1>1. T \subseteq Nat /\ u \in T
  OBVIOUS
<1>2. PICK k \in T : \A j \in T : k <= j
  <2> HIDE DEF T
  <2> QED BY <1>1, Least
<1>3. u - k \in S /\ k \in Nat
  BY <1>2
<1>4. ASSUME NEW x \in S PROVE x <= u - k
  <2>1. u - x \in Nat /\ u - (u - x) = x
    OBVIOUS
  <2>2. k <= u - x
    BY <1>2, <2>1
  <2> QED BY <1>3, <2>2
<1>5. \E x \in S : \A y \in S : x >= y
  BY <1>3, <1>4
<1>6. Max(S) \in S /\ \A y \in S : Max(S) >= y
  BY <1>5 DEF Max
<1> QED BY <1>6

-----------------------------------------------------------------------------
(* What a question is, and the caps of its counters.                       *)

LEMMA QuestionIs ==
    ASSUME question \in Questions
    PROVE  /\ question.start \in Nodes /\ question.bound \in Nat
           /\ question.assume \in Conditions /\ Visits \notin Reads(question.assume)
           /\ \A n \in Nodes : Edges(n) \in Seq(Edge) /\ DOMAIN Edges(n) = 1 .. Len(Edges(n))
                               /\ Len(Edges(n)) \in Nat
<1> QED BY QuestionsAssumption DEF Edges

LEMMA EdgesAre ==
    ASSUME question \in Questions, NEW n \in Nodes, NEW i \in DOMAIN Edges(n)
    PROVE  Edges(n)[i].to \in Nodes /\ Edges(n)[i].on \in Conditions
<1>1. Edges(n)[i] \in Edge
  BY QuestionIs
<1> QED BY <1>1 DEF Edge

LEMMA KindIs ==
    ASSUME question \in Questions, NEW n \in Nodes, NEW k
    PROVE  Kind(n, k) \subseteq DOMAIN Edges(n) /\ Kind(n, k) \subseteq Nat \ {0}
<1> QED BY QuestionIs DEF Kind

\* True and False stand for numbers no higher than one; other constants for
\* themselves.
LEMMA MeantIs ==
    ASSUME NEW const \in Constant
    PROVE  /\ Meant(const) \in Value \ {Fresh} /\ Meant(const).n = const.n
           /\ Meant(const) = [kind |-> Meant(const).kind, n |-> Meant(const).n]
           /\ IF const.kind = "bool" THEN Meant(const).kind = "num" /\ const.n <= 2
              ELSE Meant(const) = const
<1>1. CASE const \in Value \ {Fresh}
  BY <1>1 DEF Value, Meant
<1>2. CASE const \in {Bool(TRUE), Bool(FALSE)}
  <2>1. const.kind = "bool" /\ const.n \in {0, 2}
    BY <1>2 DEF Bool
  <2>2. Meant(const) = Num(const.n)
    BY <2>1 DEF Meant
  <2>3. Meant(const).kind = "num" /\ Meant(const).n = const.n /\ Meant(const) \in Value
    BY <2>1, <2>2 DEF Num, Value, None
  <2>4. Fresh.kind = "str"
    BY DEF Fresh, Str
  <2> QED BY <2>1, <2>2, <2>3, <2>4 DEF Num
<1> QED BY <1>1, <1>2 DEF Constant

LEMMA LiteralIs ==
    ASSUME NEW c \in Conditions, NEW l \in c.lits
    PROVE  /\ l.const \in Constant /\ l.const.n \in Int /\ l.field # NoField /\ IsFiniteSet(c.lits)
           /\ Meant(l.const).kind \in {"none", "str", "num"} /\ l.field \in Reads(c)
           /\ (l.than # NoField => l.than \in Reads(c))
<1>1. l.const \in Constant
  BY DEF Conditions, Literal
<1>2. Meant(l.const) \in Value /\ Meant(l.const).n = l.const.n
  BY <1>1, MeantIs
<1>3. l.const.n \in Int /\ Meant(l.const).kind \in {"none", "str", "num"}
  BY <1>2 DEF Value
<1> QED BY <1>1, <1>3 DEF Conditions, Literal, Names, Reads

\* No constant of a node is above some bound.
LEMMA ConstantsBounded ==
    ASSUME question \in Questions, NEW n \in Nodes
    PROVE  \E u \in Nat : \A i \in DOMAIN Edges(n) : \A l \in Edges(n)[i].on.lits : l.const.n <= u
<1> DEFINE D == DOMAIN Edges(n)
           Tops(i) == {u \in Nat : \A l \in Edges(n)[i].on.lits : l.const.n <= u}
           g == [i \in D |-> CHOOSE u \in Nat : u \in Tops(i)]
<1>1. D = 1 .. Len(Edges(n)) /\ Len(Edges(n)) \in Nat /\ IsFiniteSet(D)
  BY QuestionIs, FS_Interval
<1>2. ASSUME NEW i \in D PROVE \E u \in Nat : u \in Tops(i)
  <2>1. Edges(n)[i].on \in Conditions
    BY EdgesAre
  <2> DEFINE L == Edges(n)[i].on.lits
             f == [l \in L |-> l.const.n]
  <2>2. f \in [L -> Int]
    BY <2>1, LiteralIs
  <2>3. CASE L = {}
    BY <2>3
  <2>4. CASE L # {}
    <3>1. IsFiniteSet(L)
      BY <2>1, <2>4, LiteralIs
    <3>2. PICK x \in L : \A y \in L : f[y] <= f[x]
      <4> HIDE DEF f, L
      <4> QED BY <2>2, <2>4, <3>1, Highest
    <3>3. f[x] \in Int /\ \A y \in L : y.const.n \in Int /\ y.const.n <= f[x]
      BY <2>2, <3>2
    <3>4. CASE f[x] >= 0
      BY <3>3, <3>4
    <3>5. CASE f[x] < 0
      <4>1. \A y \in L : y.const.n <= 0
        BY <3>3, <3>5
      <4> QED BY <4>1
    <3> QED BY <3>3, <3>4, <3>5
  <2> QED BY <2>3, <2>4
<1>3. g \in [D -> Int] /\ \A i \in D : g[i] \in Nat /\ g[i] \in Tops(i)
  BY <1>2
<1>4. CASE D = {}
  BY <1>4
<1>5. CASE D # {}
  <2>1. PICK x \in D : \A y \in D : g[y] <= g[x]
    <3> HIDE DEF g, D, Tops
    <3> QED BY <1>1, <1>3, <1>5, Highest
  <2>2. \A i \in D : \A l \in Edges(n)[i].on.lits : l.const.n \in Int
    BY EdgesAre, LiteralIs
  <2>3. \A i \in D : \A l \in Edges(n)[i].on.lits : l.const.n <= g[x]
    BY <1>3, <2>1, <2>2
  <2> QED BY <1>3, <2>3
<1> QED BY <1>4, <1>5

\* The cap of a counter is above every number it is compared with.
LEMMA CapIs ==
    ASSUME question \in Questions, NEW n \in Nodes
    PROVE  /\ Cap(n) \in Nat /\ Cap(n) >= 2
           /\ \A i \in Kind(n, "when") : \A l \in Edges(n)[i].on.lits :
                Visits \in Reads(Edges(n)[i].on) /\ l.op # "is" /\ l.than = NoField /\ Meant(l.const).kind = "num"
                    => l.const.n < 2 * Cap(n)
<1> DEFINE N == Numbers(UNION {Consts(c) : c \in CountConds(n)})
           T == {0} \cup {k \div 2 : k \in N}
<1>1. PICK u \in Nat : \A i \in DOMAIN Edges(n) : \A l \in Edges(n)[i].on.lits : l.const.n <= u
  BY ConstantsBounded
<1>2. ASSUME NEW k \in N PROVE k \in Int /\ k <= u
  <2>1. PICK c \in CountConds(n) : \E l \in c.lits : k = l.const.n
    BY DEF Numbers, Consts
  <2>2. PICK i \in DOMAIN Edges(n) : c = Edges(n)[i].on
    BY KindIs DEF CountConds
  <2>3. c \in Conditions
    BY <2>2, EdgesAre
  <2> QED BY <1>1, <2>1, <2>2, <2>3, LiteralIs
<1>3. T \subseteq Int /\ 0 \in T /\ \A x \in T : x <= u
  <2>1. \A k \in N : k \div 2 \in Int /\ k \div 2 <= u
    BY <1>2
  <2> HIDE DEF N
  <2> QED BY <2>1
<1>4. Max(T) \in T /\ \A x \in T : x <= Max(T)
  <2> HIDE DEF T
  <2> QED BY <1>3, MaxOfBounded
<1>5. Cap(n) = 2 + Max(T) /\ Max(T) \in Int /\ Max(T) >= 0
  BY <1>3, <1>4 DEF Cap
<1>6. ASSUME NEW i \in Kind(n, "when"), NEW l \in Edges(n)[i].on.lits,
             Visits \in Reads(Edges(n)[i].on), l.op # "is", l.than = NoField, Meant(l.const).kind = "num"
      PROVE  l.const.n < 2 * Cap(n)
  <2>1. Edges(n)[i].on \in CountConds(n)
    BY <1>6 DEF CountConds
  <2>2. l.const \in Consts(Edges(n)[i].on)
    BY <1>6 DEF Consts
  <2>3. l.const \in Constant /\ l.const.n \in Int
    BY <1>6, KindIs, EdgesAre, LiteralIs
  <2>4. CASE l.const.kind = "bool"
    <3>1. l.const.n <= 2
      BY <2>3, <2>4, MeantIs
    <3> HIDE DEF T
    <3> QED BY <1>5, <2>3, <3>1
  <2>5. CASE l.const.kind # "bool"
    <3>1. l.const.kind = "num"
      BY <1>6, <2>3, <2>5, MeantIs
    <3>2. l.const.n \in N
      BY <2>1, <2>2, <3>1 DEF Numbers
    <3>3. l.const.n \div 2 <= Max(T)
      BY <1>4, <3>2
    <3> HIDE DEF T
    <3> QED BY <1>5, <2>3, <3>3
  <2> QED BY <2>4, <2>5
<1> QED BY <1>5, <1>6

-----------------------------------------------------------------------------
(* A saturated counter decides the `when` edges as the exact one does.     *)

Shown(n, v) == IF Counted(n) THEN Saturate(n, v) ELSE 1

LEMMA ShownIs ==
    ASSUME question \in Questions, NEW n \in Nodes, NEW v \in Nat \ {0}
    PROVE  Shown(n, v) \in 1 .. Cap(n)
<1> QED BY CapIs DEF Shown, Saturate

LEMMA SameWithout ==
    ASSUME NEW cond \in Conditions, NEW c, NEW v, NEW w,
           Visits \notin Reads(cond), Reads(cond) \subseteq DOMAIN c
    PROVE  Holds(cond, Context(c, v)) = Holds(cond, Context(c, w))
<1>1. ASSUME NEW l \in cond.lits PROVE Atom(l, Context(c, v)) = Atom(l, Context(c, w))
  <2>1. l.field \in Reads(cond) /\ (l.than # NoField => l.than \in Reads(cond))
    BY LiteralIs
  <2>2. \A f \in Reads(cond) : Context(c, v)[f] = c[f] /\ Context(c, w)[f] = c[f]
    BY DEF Context
  <2> QED BY <2>1, <2>2 DEF Atom, Operand
<1> QED BY <1>1 DEF Holds

\* No literal compares visits with a field.
Plain(cond) == \A l \in cond.lits : l.op # "is" /\ l.than # NoField => Visits \notin {l.field, l.than}

LEMMA SameShown ==
    ASSUME question \in Questions, NEW n \in Nodes, NEW v \in Nat \ {0}, NEW c, DOMAIN c = Fields(n),
           NEW i \in Kind(n, "when"), Plain(Edges(n)[i].on)
    PROVE  Holds(Edges(n)[i].on, Context(c, v)) = Holds(Edges(n)[i].on, Context(c, Shown(n, v)))
<1> DEFINE cond == Edges(n)[i].on
           w == Shown(n, v)
<1>1. cond \in Conditions
  BY KindIs, EdgesAre
<1>2. Reads(cond) \subseteq Fields(n) \cup {Visits}
  BY DEF Fields
<1>3. CASE Visits \notin Reads(cond)
  <2>1. Reads(cond) \subseteq DOMAIN c
    BY <1>2, <1>3
  <2> HIDE DEF cond, w
  <2>2. Holds(cond, Context(c, v)) = Holds(cond, Context(c, w))
    BY <1>1, <1>3, <2>1, SameWithout
  <2> QED BY <2>2 DEF cond, w
<1>4. CASE Visits \in Reads(cond)
  <2>1. Counted(n) /\ w = Saturate(n, v)
    BY <1>4 DEF Counted, CountConds, Shown
  <2>2. Cap(n) \in Nat /\ Cap(n) >= 2 /\ w \in Nat /\ w >= 1
        /\ (w = v \/ (v > Cap(n) /\ w = Cap(n)))
    BY <2>1, CapIs DEF Saturate
  <2>3. ASSUME NEW l \in cond.lits PROVE Atom(l, Context(c, v)) = Atom(l, Context(c, w))
    <3>1. l.op = "is" \/ l.than = NoField \/ Visits \notin {l.field, l.than}
      BY DEF Plain
    <3>2. l.const.n \in Int /\ l.field \in Fields(n) \cup {Visits} /\ l.const \in Constant
          /\ Meant(l.const).kind \in {"none", "str", "num"}
          /\ (l.than # NoField => l.than \in Fields(n) \cup {Visits})
      BY <1>1, <1>2, LiteralIs
    <3>3. CASE l.field # Visits
      <4>1. \A f \in Fields(n) : f # Visits => Context(c, v)[f] = c[f] /\ Context(c, w)[f] = c[f]
        BY DEF Context
      <4>2. Context(c, v)[l.field] = Context(c, w)[l.field]
        BY <3>2, <3>3, <4>1
      <4>3. l.op # "is" => Operand(l, Context(c, v)) = Operand(l, Context(c, w))
        <5>1. CASE l.than = NoField
          BY <5>1 DEF Operand
        <5>2. CASE l.than # NoField /\ l.op # "is"
          BY <3>1, <3>2, <4>1, <5>2 DEF Operand
        <5> QED BY <5>1, <5>2
      <4> QED BY <4>2, <4>3 DEF Atom
    <3>4. CASE l.field = Visits
      <4>1. Context(c, v)[l.field] = Num(2 * v) /\ Context(c, w)[l.field] = Num(2 * w)
        BY <3>4 DEF Context
      <4>2. CASE l.op = "is"
        BY <2>2, <4>1, <4>2 DEF Atom, Truthy, Num
      <4>3. CASE l.op # "is"
        <5>1. l.than = NoField
          BY <3>1, <3>4, <4>3
        <5> DEFINE m == Meant(l.const)
        <5>2. m.n \in Int /\ (m.kind = "num" => m.n < 2 * Cap(n))
          BY <1>4, <3>2, <4>3, <5>1, CapIs, MeantIs
        <5>3. m.kind \in {"none", "str", "num"}
          BY <3>2
        <5> HIDE DEF m
        <5>4. Compare(l.op, Num(2 * v), m) = Compare(l.op, Num(2 * w), m)
          BY <2>2, <5>2, <5>3 DEF Compare, Num
        <5> QED BY <4>1, <4>3, <5>1, <5>4 DEF Atom, Operand, m
      <4> QED BY <4>2, <4>3
    <3> QED BY <3>3, <3>4
  <2> QED BY <2>3 DEF Holds
<1> QED BY <1>3, <1>4

-----------------------------------------------------------------------------
(* Whatever edge a run takes, the search has a move along it.              *)

LEMMA CoversRun ==
    ASSUME question \in Questions, PartitionCovers, NEW n \in Nodes, NEW v \in Nat \ {0}, Complete(n),
           NEW ctx \in Allowed(Contexts(n, Values, v))
    PROVE  \E c \in Tried(n, Shown(n, v)) : Hit(n, c) = Hit(n, ctx)
<1> DEFINE w == Shown(n, v)
<1>1. PICK c \in [Fields(n) -> Values] : ctx = Context(c, v)
  BY DEF Allowed, Contexts
<1>2. w \in 1 .. Cap(n)
  BY ShownIs
<1>3. Holds(question.assume, Context(c, v)) = Holds(question.assume, Context(c, w))
  <2>1. question.assume \in Conditions /\ Visits \notin Reads(question.assume)
    BY QuestionIs
  <2>2. Reads(question.assume) \subseteq DOMAIN c
    <3>1. DOMAIN c = Fields(n)
      BY <1>1
    <3>2. Reads(question.assume) \subseteq Fields(n)
      BY <2>1 DEF Fields
    <3> QED BY <3>1, <3>2
  <2> HIDE DEF w
  <2> QED BY <2>1, <2>2, SameWithout
<1>4. Context(c, w) \in Allowed(Contexts(n, Values, w))
  <2>1. Holds(question.assume, Context(c, v))
    BY <1>1 DEF Allowed
  <2> HIDE DEF w
  <2> QED BY <1>3, <2>1 DEF Allowed, Contexts
<1>5. Matching(n, "when", Context(c, v)) = Matching(n, "when", Context(c, w))
  <2>1. \A i \in Kind(n, "when") :
           Holds(Edges(n)[i].on, Context(c, v)) = Holds(Edges(n)[i].on, Context(c, w))
    <3> TAKE i \in Kind(n, "when")
    <3>1. Plain(Edges(n)[i].on)
      BY DEF Complete, InLevelM, Plain
    <3> QED BY <3>1, SameShown
  <2> QED BY <2>1 DEF Matching
<1>6. Hit(n, Context(c, w)) = Hit(n, ctx)
  <2> HIDE DEF w
  <2> QED BY <1>1, <1>5 DEF Hit
<1>7. Covered(n)
  BY DEF PartitionCovers
<1>8. \E d \in Tried(n, w) : Hit(n, d) = Hit(n, Context(c, w))
  <2> HIDE DEF w
  <2> QED BY <1>2, <1>4, <1>7 DEF Covered
<1> QED BY <1>6, <1>8

LEMMA MatchIs ==
    ASSUME question \in Questions, NEW n \in Nodes, NEW ctx
    PROVE  /\ Matching(n, "when", ctx) \subseteq Kind(n, "when")
           /\ Matching(n, "when", ctx) # {} => /\ First(Matching(n, "when", ctx)) \in Kind(n, "when")
                                               /\ Hit(n, ctx) = First(Matching(n, "when", ctx))
           /\ Matching(n, "when", ctx) = {} <=> Hit(n, ctx) = 0
<1> DEFINE M == Matching(n, "when", ctx)
<1>1. M \subseteq Kind(n, "when")
  BY DEF Matching
<1>2. M \subseteq Nat \ {0}
  BY <1>1, KindIs
<1>3. M # {} => First(M) \in M
  <2> HIDE DEF M
  <2> QED BY <1>2, FirstIsLeast
<1>4. Hit(n, ctx) = IF M = {} THEN 0 ELSE First(M)
  BY DEF Hit
<1> HIDE DEF M
<1>5. /\ M \subseteq Kind(n, "when")
      /\ M # {} => First(M) \in Kind(n, "when") /\ Hit(n, ctx) = First(M)
      /\ M = {} <=> Hit(n, ctx) = 0
  BY <1>1, <1>2, <1>3, <1>4
<1> QED BY <1>5 DEF M

\* The edges a run may take from a node on its v-th visit.
Taken(n, v, i) ==
    \/ \E ctx \in Allowed(Contexts(n, Values, v)) :
         \/ Matching(n, "when", ctx) # {} /\ i = First(Matching(n, "when", ctx))
         \/ Matching(n, "when", ctx) = {} /\ i \in Kind(n, "semantic")
    \/ question.raises /\ i \in Kind(n, "error")
    \/ question.waits /\ i \in Kind(n, "event")

LEMMA MovesAre ==
    ASSUME NEW n, NEW v, NEW i
    PROVE  (\E m \in Moves(n, v) : m.edge = i) <=>
             \/ i \in Takeable(n, v)
             \/ ~Complete(n) /\ i \in Kind(n, "when")
             \/ MayFail(n, v) /\ i \in Kind(n, "semantic")
             \/ question.raises /\ i \in Kind(n, "error")
             \/ question.waits /\ i \in Kind(n, "event")
<1> DEFINE may == (IF Complete(n) THEN {} ELSE Kind(n, "when") \ Takeable(n, v))
                  \cup (IF MayFail(n, v) THEN Kind(n, "semantic") ELSE {})
                  \cup (IF question.raises THEN Kind(n, "error") ELSE {})
                  \cup (IF question.waits THEN Kind(n, "event") ELSE {})
<1>1. Moves(n, v) = [edge : Takeable(n, v), sure : {TRUE}] \cup [edge : may, sure : {FALSE}]
  BY DEF Moves
<1>2. (\E m \in Moves(n, v) : m.edge = i) <=> i \in Takeable(n, v) \cup may
  <2> HIDE DEF may
  <2>1. ASSUME NEW m \in Moves(n, v), m.edge = i PROVE i \in Takeable(n, v) \cup may
    BY <1>1, <2>1
  <2>2. ASSUME i \in Takeable(n, v) PROVE \E m \in Moves(n, v) : m.edge = i
    <3>1. [edge |-> i, sure |-> TRUE] \in Moves(n, v)
      BY <1>1, <2>2
    <3> QED BY <3>1
  <2>3. ASSUME i \in may PROVE \E m \in Moves(n, v) : m.edge = i
    <3>1. [edge |-> i, sure |-> FALSE] \in Moves(n, v)
      BY <1>1, <2>3
    <3> QED BY <3>1
  <2> QED BY <2>1, <2>2, <2>3
<1> QED BY <1>2

LEMMA Followed ==
    ASSUME question \in Questions, PartitionCovers, NEW n \in Nodes, NEW v \in Nat \ {0}, NEW i, Taken(n, v, i)
    PROVE  \E m \in Moves(n, Shown(n, v)) : m.edge = i
<1> DEFINE w == Shown(n, v)
<1>1. ASSUME NEW ctx \in Allowed(Contexts(n, Values, v)), Matching(n, "when", ctx) # {},
             i = First(Matching(n, "when", ctx))
      PROVE  i \in Takeable(n, w) \/ (~Complete(n) /\ i \in Kind(n, "when"))
  <2>1. i \in Kind(n, "when") /\ i # 0 /\ Hit(n, ctx) = i
    BY <1>1, MatchIs, KindIs
  <2>2. CASE Complete(n)
    <3>1. PICK c \in Tried(n, w) : Hit(n, c) = i
      BY <1>1, <2>1, <2>2, CoversRun
    <3>2. Matching(n, "when", c) # {} /\ First(Matching(n, "when", c)) = i
      BY <2>1, <3>1, MatchIs
    <3> HIDE DEF w
    <3> QED BY <3>1, <3>2 DEF Takeable
  <2> QED BY <2>1, <2>2
<1>2. ASSUME NEW ctx \in Allowed(Contexts(n, Values, v)), Matching(n, "when", ctx) = {}
      PROVE  MayFail(n, w)
  <2>1. CASE Complete(n)
    <3>1. PICK c \in Tried(n, w) : Hit(n, c) = 0
      BY <1>2, <2>1, CoversRun, MatchIs
    <3>2. Matching(n, "when", c) = {}
      BY <3>1, MatchIs
    <3> HIDE DEF w
    <3> QED BY <3>1, <3>2 DEF MayFail
  <2> QED BY <2>1 DEF MayFail
<1> HIDE DEF w
<1>3. \/ i \in Takeable(n, w)
      \/ ~Complete(n) /\ i \in Kind(n, "when")
      \/ MayFail(n, w) /\ i \in Kind(n, "semantic")
      \/ question.raises /\ i \in Kind(n, "error")
      \/ question.waits /\ i \in Kind(n, "event")
  BY <1>1, <1>2 DEF Taken
<1>4. (\E m \in Moves(n, w) : m.edge = i) <=>
        \/ i \in Takeable(n, w)
        \/ ~Complete(n) /\ i \in Kind(n, "when")
        \/ MayFail(n, w) /\ i \in Kind(n, "semantic")
        \/ question.raises /\ i \in Kind(n, "error")
        \/ question.waits /\ i \in Kind(n, "event")
  BY MovesAre
<1>5. \E m \in Moves(n, w) : m.edge = i
  BY <1>3, <1>4
<1> QED BY <1>5 DEF w

-----------------------------------------------------------------------------
(* The state of the search that shadows a run.                             *)

Shadow(at, visits) ==
    State(at, [n \in Nodes |-> IF Counted(n) THEN Saturate(n, visits[n]) ELSE 0])

LEMMA VisitsAtShadow ==
    ASSUME NEW n \in Nodes, NEW visits \in [Nodes -> Nat]
    PROVE  VisitsAt(Shadow(n, visits)) = Shown(n, visits[n]) /\ Shadow(n, visits).node = n
<1> QED BY DEF VisitsAt, Shadow, State, Shown

LEMMA BumpShadow ==
    ASSUME question \in Questions, NEW t \in Nodes, NEW visits \in [Nodes -> Nat], NEW n
    PROVE  State(t, Bump(Shadow(n, visits).counts, t)) = Shadow(t, [visits EXCEPT ![t] = @ + 1])
<1> DEFINE C == [k \in Nodes |-> IF Counted(k) THEN Saturate(k, visits[k]) ELSE 0]
           next == [visits EXCEPT ![t] = @ + 1]
           D == [k \in Nodes |-> IF Counted(k) THEN Saturate(k, next[k]) ELSE 0]
<1>1. Shadow(n, visits).counts = C
  BY DEF Shadow, State
<1>2. \A k \in Nodes : Cap(k) \in Nat /\ Cap(k) >= 2
  BY CapIs
<1>3. Bump(C, t) = D
  <2>1. CASE ~Counted(t)
    <3>1. \A k \in Nodes : D[k] = C[k]
      BY <2>1
    <3> QED BY <2>1, <3>1 DEF Bump
  <2>2. CASE Counted(t)
    <3>1. Bump(C, t) = [C EXCEPT ![t] = Saturate(t, C[t] + 1)]
      BY <2>2 DEF Bump
    <3>2. Saturate(t, C[t] + 1) = D[t]
      BY <1>2, <2>2 DEF Saturate
    <3>3. \A k \in Nodes : k # t => D[k] = C[k]
      OBVIOUS
    <3>4. [C EXCEPT ![t] = Saturate(t, C[t] + 1)] = [k \in Nodes |-> IF k = t THEN D[t] ELSE C[k]]
      BY <3>2
    <3> QED BY <3>1, <3>3, <3>4
  <2> QED BY <2>1, <2>2
<1>4. Shadow(t, next) = State(t, D)
  BY DEF Shadow
<1> QED BY <1>1, <1>3, <1>4

LEMMA TargetShadow ==
    ASSUME question \in Questions, NEW n \in Nodes, NEW visits \in [Nodes -> Nat], NEW i \in DOMAIN Edges(n)
    PROVE  Target(Shadow(n, visits), i)
             = Shadow(Edges(n)[i].to, [visits EXCEPT ![Edges(n)[i].to] = @ + 1])
<1>1. Shadow(n, visits).node = n /\ Edges(n)[i].to \in Nodes
  BY EdgesAre DEF Shadow, State
<1>2. Target(Shadow(n, visits), i) = State(Edges(n)[i].to, Bump(Shadow(n, visits).counts, Edges(n)[i].to))
  BY <1>1 DEF Target
<1> QED BY <1>1, <1>2, BumpShadow

LEMMA StartShadow ==
    ASSUME question \in Questions, NEW visits, visits = [n \in Nodes |-> 0]
    PROVE  StartState = Shadow(question.start, [visits EXCEPT ![question.start] = @ + 1])
<1> DEFINE zero == [n \in Nodes |-> 0]
<1>1. question.start \in Nodes /\ visits \in [Nodes -> Nat]
  BY QuestionIs
<1>2. Shadow(question.start, visits).counts = zero
  BY CapIs DEF Shadow, State, Saturate
<1> QED BY <1>1, <1>2, BumpShadow DEF StartState

-----------------------------------------------------------------------------
(* The question does not change, nor what is read off it.                  *)

LEMMA FrozenEdges ==
    ASSUME question' = question
    PROVE  /\ \A n : Edges(n)' = Edges(n)
           /\ \A n, k : Kind(n, k)' = Kind(n, k)
           /\ \A n, k, ctx : Matching(n, k, ctx)' = Matching(n, k, ctx)
           /\ \A n : Fields(n)' = Fields(n)
           /\ \A n : Mentioned(n)' = Mentioned(n)
<1>1. \A n : Edges(n)' = Edges(n)
  BY DEF Edges
<1>2. \A n, k : Kind(n, k)' = Kind(n, k)
  BY <1>1 DEF Kind
<1>3. \A n, k, ctx : Matching(n, k, ctx)' = Matching(n, k, ctx)
  BY <1>1, <1>2 DEF Matching
<1>4. \A n : Fields(n)' = Fields(n)
  BY <1>1, <1>2 DEF Fields
<1>5. \A n : Mentioned(n)' = Mentioned(n)
  BY <1>1, <1>2 DEF Mentioned
<1> QED BY <1>1, <1>2, <1>3, <1>4, <1>5

LEMMA FrozenTried ==
    ASSUME question' = question
    PROVE  /\ \A n, S, v : Allowed(Contexts(n, S, v))' = Allowed(Contexts(n, S, v))
           /\ \A n, v : Tried(n, v)' = Tried(n, v)
           /\ \A n : Complete(n)' = Complete(n)
<1>1. \A n, S, v : Contexts(n, S, v)' = Contexts(n, S, v)
  BY FrozenEdges DEF Contexts
<1>2. \A n, S, v : Allowed(Contexts(n, S, v))' = Allowed(Contexts(n, S, v))
  BY <1>1 DEF Allowed
<1>3. \A n : Candidates(n)' = Candidates(n)
  BY FrozenEdges DEF Candidates, Constants
<1>4. \A n : TooMany(n)' = TooMany(n)
  BY FrozenEdges DEF TooMany
<1>5. \A n, v : Tried(n, v)' = Tried(n, v)
  BY <1>2, <1>3, <1>4, FrozenEdges DEF Tried, Contexts, Allowed
<1>6. \A n : Complete(n)' = Complete(n)
  BY <1>4, FrozenEdges DEF Complete
<1> QED BY <1>2, <1>5, <1>6

LEMMA FrozenMoves ==
    ASSUME question' = question
    PROVE  \A n, v : Moves(n, v)' = Moves(n, v)
<1>1. \A n, v : Takeable(n, v)' = Takeable(n, v)
  BY FrozenEdges, FrozenTried DEF Takeable
<1>2. \A n, v : MayFail(n, v)' = MayFail(n, v)
  BY FrozenEdges, FrozenTried DEF MayFail
<1>3. \A n, v : Moves(n, v)' = Moves(n, v)
  BY <1>1, <1>2, FrozenEdges, FrozenTried DEF Moves
<1> QED BY <1>3

LEMMA FrozenCounts ==
    ASSUME question' = question
    PROVE  /\ \A n : Counted(n)' = Counted(n) /\ Cap(n)' = Cap(n)
           /\ StartState' = StartState
           /\ \A s : VisitsAt(s)' = VisitsAt(s)
           /\ \A s, i : Target(s, i)' = Target(s, i)
           /\ \A n, visits : Shadow(n, visits)' = Shadow(n, visits)
<1>1. \A n : CountConds(n)' = CountConds(n)
  BY FrozenEdges DEF CountConds
<1>2. \A n : Counted(n)' = Counted(n) /\ Cap(n)' = Cap(n)
  BY <1>1 DEF Counted, Cap
<1>3. \A n, v : Saturate(n, v)' = Saturate(n, v)
  BY <1>2 DEF Saturate
<1>4. \A counts, n : Bump(counts, n)' = Bump(counts, n)
  BY <1>2, <1>3 DEF Bump
<1>5. StartState' = StartState
  BY <1>4 DEF StartState, State
<1>6. \A s : VisitsAt(s)' = VisitsAt(s)
  BY <1>2 DEF VisitsAt
<1>7. \A s, i : Target(s, i)' = Target(s, i)
  BY <1>4, FrozenEdges DEF Target, State
<1>8. \A n, visits : Shadow(n, visits)' = Shadow(n, visits)
  BY <1>2, <1>3 DEF Shadow, State
<1> QED BY <1>2, <1>5, <1>6, <1>7, <1>8

LEMMA FrozenPartition ==
    ASSUME question' = question
    PROVE  PartitionCovers' = PartitionCovers
<1>1. \A n, ctx : Hit(n, ctx)' = Hit(n, ctx)
  BY FrozenEdges DEF Hit
<1>2. \A n : Covered(n)' = Covered(n)
  BY <1>1, FrozenTried, FrozenCounts DEF Covered
<1> QED BY <1>2, FrozenTried DEF PartitionCovers

-----------------------------------------------------------------------------
(* The invariant.  A state of the search has the depth it was first found  *)
(* at; every move out of a state leads to one found no later than a step   *)
(* after it, but for those not followed yet and those cut by the bound.    *)

Depths(d) ==
    /\ d \in [DOMAIN best -> Nat] /\ StartState \in DOMAIN best /\ d[StartState] = 0
    /\ cur.state \in DOMAIN best /\ cur.depth \in Nat /\ d[cur.state] <= cur.depth
    /\ \A s \in DOMAIN best : d[s] <= cur.depth + 1

Queue(d) ==
    /\ frontier \in Seq([state : DOMAIN best, depth : Nat])
    /\ \A i \in 1 .. Len(frontier) :
        /\ d[frontier[i].state] <= frontier[i].depth
        /\ cur.depth <= frontier[i].depth /\ frontier[i].depth <= cur.depth + 1
        /\ \A j \in 1 .. Len(frontier) : i < j => frontier[i].depth <= frontier[j].depth

Waiting(d, s) == \E i \in 1 .. Len(frontier) : frontier[i].state = s /\ frontier[i].depth = d[s]
Cut(d, s) == d[s] >= question.bound /\ ~exhausted
Reached(d, s, m) == Target(s, m.edge) \in DOMAIN best /\ d[Target(s, m.edge)] <= d[s] + 1
Explored(d, s) ==
    \A m \in Moves(s.node, VisitsAt(s)) :
        (cur.state = s /\ cur.depth = d[s] /\ m \in moves) \/ Reached(d, s, m)
Closed(d) == \A s \in DOMAIN best : Waiting(d, s) \/ Cut(d, s) \/ Explored(d, s)

Endings == {"not started", "", "terminal", "max_steps", "stuck", "raised"}
Runs == [at : Nodes \cup {""}, visits : [Nodes -> Nat], steps : Nat,
         from : Nodes \cup {""}, edge : Nat, stopped : Endings]
RunIs ==
    /\ run \in Runs
    /\ run # NoRun => ~Searching /\ run.at \in Nodes /\ run.visits[run.at] \in Nat \ {0}

Followable == PartitionCovers /\ (exhausted \/ run.steps <= question.bound)
Found(d) ==
    /\ Shadow(run.at, run.visits) \in DOMAIN best
    /\ run.steps <= question.bound => d[Shadow(run.at, run.visits)] <= run.steps
Shadows(d) == run # NoRun /\ Followable => Found(d)

IInv ==
    /\ question \in Questions /\ RunIs
    /\ \E d : Depths(d) /\ Queue(d) /\ Closed(d) /\ Shadows(d)

LEMMA InitIInv == Init => IInv
<1> SUFFICES ASSUME Init PROVE IInv
  OBVIOUS
<1> USE DEF Init
<1>1. run = NoRun /\ RunIs
  <2>1. run = NoRun
    OBVIOUS
  <2>2. NoRun \in Runs
    BY DEF NoRun, Runs, Endings
  <2> QED BY <2>1, <2>2 DEF RunIs
<1>2. PICK d : d = [s \in {StartState} |-> 0]
  OBVIOUS
<1>3. DOMAIN best = {StartState} /\ Len(frontier) = 1 /\ frontier[1] = [state |-> StartState, depth |-> 0]
  OBVIOUS
<1>4. Depths(d)
  BY <1>2, <1>3 DEF Depths
<1>5. Queue(d)
  BY <1>2, <1>3 DEF Queue
<1>6. Closed(d)
  BY <1>2, <1>3 DEF Closed, Waiting
<1>7. Shadows(d)
  BY DEF Shadows
<1> QED BY <1>1, <1>4, <1>5, <1>6, <1>7 DEF IInv

LEMMA SeqMonotone ==
    ASSUME NEW S, NEW T, S \subseteq T, NEW q \in Seq(S)
    PROVE  q \in Seq(T)
<1>1. Len(q) \in Nat /\ q = [i \in 1 .. Len(q) |-> q[i]] /\ \A i \in 1 .. Len(q) : q[i] \in T
  OBVIOUS
<1> QED BY <1>1

LEMMA ExpandIInv == IInv /\ Expand => IInv'
<1> SUFFICES ASSUME IInv, Expand PROVE IInv'
  OBVIOUS
<1> DEFINE h == Head(frontier)
<1>1. /\ moves = {} /\ frontier # <<>> /\ question' = question /\ best' = best /\ run' = run
      /\ cur'.state = h.state /\ cur'.depth = h.depth /\ frontier' = Tail(frontier)
      /\ moves' = IF h.depth >= question.bound THEN {} ELSE Moves(h.state.node, VisitsAt(h.state))
      /\ exhausted' = (exhausted /\ h.depth < question.bound)
  BY DEF Expand
<1>2. PICK d : Depths(d) /\ Queue(d) /\ Closed(d)
  BY DEF IInv
<1>3. /\ frontier \in Seq([state : DOMAIN best, depth : Nat]) /\ Len(frontier) \in Nat \ {0}
      /\ h = frontier[1] /\ h.state \in DOMAIN best /\ h.depth \in Nat
      /\ Len(frontier') = Len(frontier) - 1
      /\ \A i \in 1 .. Len(frontier') : frontier'[i] = frontier[i + 1] /\ i + 1 \in 1 .. Len(frontier)
      /\ frontier' \in Seq([state : DOMAIN best, depth : Nat])
      /\ \A i \in 1 .. Len(frontier) : frontier[i].depth \in Nat
  <2> DEFINE R == [state : DOMAIN best, depth : Nat]
  <2>1. frontier \in Seq(R)
    BY <1>2 DEF Queue
  <2>2. \A r \in R : r.state \in DOMAIN best /\ r.depth \in Nat
    OBVIOUS
  <2> HIDE DEF R
  <2>3. Len(frontier) \in Nat \ {0} /\ h = frontier[1] /\ h \in R
    BY <1>1, <2>1
  <2>4. /\ frontier' \in Seq(R) /\ Len(frontier') = Len(frontier) - 1
        /\ \A i \in 1 .. Len(frontier') : frontier'[i] = frontier[i + 1]
    BY <1>1, <2>1
  <2>5. \A i \in 1 .. Len(frontier') : i + 1 \in 1 .. Len(frontier)
    BY <2>3, <2>4
  <2>6. \A i \in 1 .. Len(frontier) : frontier[i] \in R
    BY <2>1
  <2>7. \A i \in 1 .. Len(frontier) : frontier[i].depth \in Nat
    BY <2>2, <2>6
  <2> QED BY <2>1, <2>2, <2>3, <2>4, <2>5, <2>7 DEF R
<1>4. Depths(d)'
  BY <1>1, <1>2, <1>3, FrozenCounts DEF Depths, Queue
<1>5. Queue(d)'
  <2>1. ASSUME NEW i \in 1 .. Len(frontier')
        PROVE  /\ d[frontier'[i].state] <= frontier'[i].depth
               /\ h.depth <= frontier'[i].depth /\ frontier'[i].depth <= h.depth + 1
               /\ \A j \in 1 .. Len(frontier') : i < j => frontier'[i].depth <= frontier'[j].depth
    <3>1. frontier'[i] = frontier[i + 1] /\ i + 1 \in 1 .. Len(frontier) /\ 1 \in 1 .. Len(frontier) /\ 1 < i + 1
      BY <1>3, <2>1
    <3>2. /\ d[frontier[i + 1].state] <= frontier[i + 1].depth
          /\ frontier[1].depth <= frontier[i + 1].depth
          /\ frontier[i + 1].depth <= cur.depth + 1 /\ cur.depth <= frontier[1].depth
      BY <1>2, <3>1 DEF Queue
    <3>3. frontier[i + 1].depth \in Nat /\ cur.depth \in Nat /\ h.depth \in Nat /\ h = frontier[1]
      BY <1>2, <1>3, <3>1 DEF Depths
    <3>4. ASSUME NEW j \in 1 .. Len(frontier'), i < j PROVE frontier'[i].depth <= frontier'[j].depth
      <4>1. frontier'[j] = frontier[j + 1] /\ j + 1 \in 1 .. Len(frontier) /\ i + 1 < j + 1
        BY <1>3, <3>4
      <4> QED BY <1>2, <3>1, <4>1 DEF Queue
    <3> HIDE DEF h
    <3>5. h.depth <= frontier[i + 1].depth /\ frontier[i + 1].depth <= h.depth + 1
      BY <3>2, <3>3
    <3> QED BY <3>1, <3>2, <3>4, <3>5
  <2> HIDE DEF h
  <2> QED BY <1>1, <1>3, <2>1 DEF Queue
<1>6. Closed(d)'
  <2> SUFFICES ASSUME NEW s \in DOMAIN best PROVE Waiting(d, s)' \/ Cut(d, s)' \/ Explored(d, s)'
    BY <1>1 DEF Closed
  <2>1. CASE s = h.state /\ h.depth = d[s]
    <3>1. CASE h.depth >= question.bound
      <4>1. question.bound \in Nat
        BY QuestionIs DEF IInv
      <4> HIDE DEF h
      <4>2. ~(h.depth < question.bound)
        BY <1>3, <3>1, <4>1
      <4>3. ~exhausted'
        BY <1>1, <4>2
      <4> QED BY <1>1, <2>1, <3>1, <4>3 DEF Cut
    <3>2. CASE ~(h.depth >= question.bound)
      BY <1>1, <2>1, <3>2, FrozenMoves, FrozenCounts DEF Explored
    <3> QED BY <3>1, <3>2
  <2>2. CASE Waiting(d, s) /\ ~(s = h.state /\ h.depth = d[s])
    <3>1. PICK i \in 1 .. Len(frontier) : frontier[i].state = s /\ frontier[i].depth = d[s]
      BY <2>2 DEF Waiting
    <3>2. i - 1 \in 1 .. Len(frontier') /\ frontier'[i - 1] = frontier[i]
      <4>1. i # 1
        BY <1>3, <2>2, <3>1
      <4> HIDE DEF h
      <4>2. Len(frontier) \in Nat /\ Len(frontier') = Len(frontier) - 1
        BY <1>3
      <4>3. i - 1 \in 1 .. Len(frontier') /\ (i - 1) + 1 = i
        BY ONLY <4>1, <4>2, i \in 1 .. Len(frontier)
      <4>4. frontier'[i - 1] = frontier[(i - 1) + 1]
        BY <1>3, <4>3
      <4> QED BY <4>3, <4>4
    <3> QED BY <3>1, <3>2 DEF Waiting
  <2>3. CASE Cut(d, s)
    BY <1>1, <2>3 DEF Cut
  <2>4. CASE Explored(d, s)
    BY <1>1, <2>4, FrozenMoves, FrozenCounts DEF Explored, Reached
  <2> QED BY <1>2, <2>1, <2>2, <2>3, <2>4 DEF Closed
<1>7. run' = NoRun
  BY <1>1 DEF IInv, RunIs, Searching
<1> QED BY <1>1, <1>4, <1>5, <1>6, <1>7 DEF IInv, RunIs, Shadows, NoRun

LEMMA FollowIInv == IInv /\ Follow => IInv'
<1> SUFFICES ASSUME IInv, Follow PROVE IInv'
  OBVIOUS
<1> DEFINE m == CHOOSE x \in moves : TRUE
           t == Target(cur.state, m.edge)
           new == t \notin DOMAIN best \/ (best[t] = "may" /\ Certainty(m) = "certain")
           R == [state : DOMAIN best, depth : Nat]
<1>1. /\ moves # {} /\ moves' = moves \ {m} /\ question' = question /\ cur' = cur
      /\ exhausted' = exhausted /\ run' = run
  BY DEF Follow
<1>2. PICK d : Depths(d) /\ Queue(d) /\ Closed(d)
  BY DEF IInv
<1>3. run' = NoRun
  BY <1>1 DEF IInv, RunIs, Searching
<1>4. cur.depth \in Nat /\ cur.state \in DOMAIN best /\ frontier \in Seq(R) /\ Len(frontier) \in Nat
      /\ \A i \in 1 .. Len(frontier) : frontier[i] \in R
  <2>1. cur.depth \in Nat /\ cur.state \in DOMAIN best /\ frontier \in Seq(R)
    BY <1>2 DEF Depths, Queue
  <2> HIDE DEF R
  <2> QED BY <2>1
<1>5. CASE new
  <2>1. DOMAIN best' = DOMAIN best \cup {t} /\ frontier' = Append(frontier, [state |-> t, depth |-> cur.depth + 1])
    BY <1>5 DEF Follow
  <2>2. PICK e : e = [s \in DOMAIN best \cup {t} |-> IF s \in DOMAIN best THEN d[s] ELSE cur.depth + 1]
    OBVIOUS
  <2> HIDE DEF m, t, new
  <2>3. /\ \A s \in DOMAIN best : e[s] = d[s] /\ d[s] \in Nat
        /\ e[t] \in Nat /\ e[t] <= cur.depth + 1 /\ e \in [DOMAIN best' -> Nat]
        /\ t \notin DOMAIN best => e[t] = cur.depth + 1
    BY <1>2, <1>4, <2>1, <2>2 DEF Depths
  <2>4. Depths(e)'
    BY <1>1, <1>2, <1>4, <2>1, <2>3, FrozenCounts DEF Depths
  <2>5. /\ Len(frontier') = Len(frontier) + 1
        /\ \A i \in 1 .. Len(frontier) : frontier'[i] = frontier[i]
        /\ frontier'[Len(frontier) + 1] = [state |-> t, depth |-> cur.depth + 1]
        /\ frontier' \in Seq([state : DOMAIN best', depth : Nat])
    <3> DEFINE Q == [state : DOMAIN best', depth : Nat]
    <3>1. R \subseteq Q /\ [state |-> t, depth |-> cur.depth + 1] \in Q
      BY <1>4, <2>1
    <3> HIDE DEF R, Q
    <3>2. frontier \in Seq(Q)
      BY <1>4, <3>1, SeqMonotone
    <3>3. /\ frontier' \in Seq(Q) /\ Len(frontier') = Len(frontier) + 1
          /\ \A i \in 1 .. Len(frontier) : frontier'[i] = frontier[i]
          /\ frontier'[Len(frontier) + 1] = [state |-> t, depth |-> cur.depth + 1]
      BY <2>1, <3>1, <3>2
    <3> QED BY <3>3 DEF Q
  <2>6. Queue(e)'
    <3>1. ASSUME NEW i \in 1 .. Len(frontier')
          PROVE  /\ e[frontier'[i].state] <= frontier'[i].depth
                 /\ cur.depth <= frontier'[i].depth /\ frontier'[i].depth <= cur.depth + 1
                 /\ \A j \in 1 .. Len(frontier') : i < j => frontier'[i].depth <= frontier'[j].depth
      <4>1. CASE i = Len(frontier) + 1
        BY <1>4, <2>3, <2>5, <4>1
      <4>2. CASE i \in 1 .. Len(frontier)
        <5>1. frontier'[i] = frontier[i] /\ frontier[i].state \in DOMAIN best
          BY <1>4, <2>5, <4>2
        <5>2. /\ e[frontier'[i].state] <= frontier'[i].depth
              /\ cur.depth <= frontier'[i].depth /\ frontier'[i].depth <= cur.depth + 1
          BY <1>2, <2>3, <4>2, <5>1 DEF Queue
        <5>3. ASSUME NEW j \in 1 .. Len(frontier'), i < j PROVE frontier'[i].depth <= frontier'[j].depth
          <6>1. CASE j = Len(frontier) + 1
            BY <2>5, <5>2, <6>1
          <6>2. CASE j \in 1 .. Len(frontier)
            BY <1>2, <2>5, <4>2, <5>3, <6>2 DEF Queue
          <6> QED BY <1>4, <2>5, <6>1, <6>2
        <5> QED BY <5>2, <5>3
      <4> QED BY <1>4, <2>5, <4>1, <4>2
    <3> QED BY <1>1, <2>5, <3>1 DEF Queue
  <2>7. Closed(e)'
    <3> SUFFICES ASSUME NEW s \in DOMAIN best'
                 PROVE  Waiting(e, s)' \/ Cut(e, s)' \/ Explored(e, s)'
      BY DEF Closed
    <3>1. CASE s \notin DOMAIN best
      <4>1. s = t /\ e[s] = cur.depth + 1
        BY <2>1, <2>3, <3>1
      <4>2. Len(frontier) + 1 \in 1 .. Len(frontier')
        BY <1>4, <2>5
      <4> QED BY <2>5, <4>1, <4>2 DEF Waiting
    <3>2. CASE s \in DOMAIN best /\ Waiting(d, s)
      <4>1. PICK i \in 1 .. Len(frontier) : frontier[i].state = s /\ frontier[i].depth = d[s]
        BY <3>2 DEF Waiting
      <4>2. i \in 1 .. Len(frontier') /\ frontier'[i] = frontier[i] /\ e[s] = d[s]
        <5>1. i \in 1 .. Len(frontier')
          BY <1>4, <2>5
        <5> QED BY <2>3, <2>5, <3>2, <5>1
      <4> QED BY <4>1, <4>2 DEF Waiting
    <3>3. CASE s \in DOMAIN best /\ Cut(d, s)
      BY <1>1, <2>3, <3>3 DEF Cut
    <3>4. CASE s \in DOMAIN best /\ Explored(d, s)
      <4> SUFFICES ASSUME NEW k \in Moves(s.node, VisitsAt(s))
                   PROVE  \/ cur.state = s /\ cur.depth = e[s] /\ k \in moves'
                          \/ Target(s, k.edge) \in DOMAIN best' /\ e[Target(s, k.edge)] <= e[s] + 1
        BY <1>1, FrozenMoves, FrozenCounts DEF Explored, Reached
      <4>1. CASE Reached(d, s, k)
        BY <2>1, <2>3, <3>4, <4>1 DEF Reached
      <4>2. CASE cur.state = s /\ cur.depth = d[s] /\ k \in moves
        <5>1. CASE k = m
          <6>1. Target(s, k.edge) = t
            BY <4>2, <5>1 DEF t
          <6> QED BY <2>1, <2>3, <3>4, <4>2, <6>1
        <5>2. CASE k # m
          BY <1>1, <2>3, <3>4, <4>2, <5>2
        <5> QED BY <5>1, <5>2
      <4> QED BY <3>4, <4>1, <4>2 DEF Explored
    <3> QED BY <1>2, <3>1, <3>2, <3>3, <3>4 DEF Closed
  <2> QED BY <1>1, <1>3, <2>4, <2>6, <2>7 DEF IInv, RunIs, Shadows, NoRun
<1>6. CASE ~new
  <2>1. best' = best /\ frontier' = frontier
    BY <1>6 DEF Follow
  <2>2. t \in DOMAIN best /\ d[t] <= cur.depth + 1
    BY <1>2, <1>6 DEF Depths
  <2> HIDE DEF m, new
  <2>3. Depths(d)' /\ Queue(d)'
    BY <1>1, <1>2, <2>1, FrozenCounts DEF Depths, Queue
  <2>4. Closed(d)'
    <3> SUFFICES ASSUME NEW s \in DOMAIN best
                 PROVE  Waiting(d, s)' \/ Cut(d, s)' \/ Explored(d, s)'
      BY <2>1 DEF Closed
    <3>1. CASE Waiting(d, s)
      BY <2>1, <3>1 DEF Waiting
    <3>2. CASE Cut(d, s)
      BY <1>1, <3>2 DEF Cut
    <3>3. CASE Explored(d, s)
      <4> SUFFICES ASSUME NEW k \in Moves(s.node, VisitsAt(s))
                   PROVE  \/ cur.state = s /\ cur.depth = d[s] /\ k \in moves'
                          \/ Target(s, k.edge) \in DOMAIN best /\ d[Target(s, k.edge)] <= d[s] + 1
        BY <1>1, <2>1, FrozenMoves, FrozenCounts DEF Explored, Reached
      <4>1. CASE k = m
        BY <2>2, <3>3, <4>1 DEF Explored, Reached
      <4>2. CASE k # m
        BY <1>1, <3>3, <4>2 DEF Explored, Reached
      <4> QED BY <4>1, <4>2
    <3> QED BY <1>2, <3>1, <3>2, <3>3 DEF Closed
  <2> QED BY <1>1, <1>3, <2>3, <2>4 DEF IInv, RunIs, Shadows, NoRun
<1> QED BY <1>5, <1>6

-----------------------------------------------------------------------------
(* A run goes on, and its shadow with it.                                  *)

\* While the engine runs, the search stands.
LEMMA SearchStands ==
    ASSUME UNCHANGED <<question, search>>, NEW d, Depths(d), Queue(d), Closed(d)
    PROVE  Depths(d)' /\ Queue(d)' /\ Closed(d)'
<1>1. /\ question' = question /\ best' = best /\ frontier' = frontier
      /\ cur' = cur /\ moves' = moves /\ exhausted' = exhausted
  BY DEF search
<1>2. Depths(d)'
  BY <1>1, FrozenCounts DEF Depths
<1>3. Queue(d)'
  BY <1>1 DEF Queue
<1>4. \A s : Waiting(d, s)' = Waiting(d, s) /\ Cut(d, s)' = Cut(d, s)
  BY <1>1 DEF Waiting, Cut
<1>5. \A s, m : Reached(d, s, m)' = Reached(d, s, m)
  BY <1>1, FrozenCounts DEF Reached
<1>6. \A s : Explored(d, s) => Explored(d, s)'
  BY <1>1, <1>5, FrozenCounts, FrozenMoves DEF Explored
<1>7. Closed(d)'
  BY <1>1, <1>4, <1>6 DEF Closed
<1> QED BY <1>2, <1>3, <1>7

LEMMA NoRunIs ==
    NoRun.stopped = "not started" /\ NoRun.visits = [n \in Nodes |-> 0] /\ (Running => run # NoRun)
<1>1. NoRun.stopped = "not started" /\ NoRun.visits = [n \in Nodes |-> 0]
  BY DEF NoRun
<1> QED BY <1>1 DEF Running

LEMMA RunHas ==
    ASSUME RunIs
    PROVE  /\ run \in Runs /\ run.visits \in [Nodes -> Nat] /\ run.steps \in Nat
           /\ run # NoRun => ~Searching /\ run.at \in Nodes /\ run.visits[run.at] \in Nat \ {0}
<1>1. run \in Runs
  BY DEF RunIs
<1>2. run.visits \in [Nodes -> Nat] /\ run.steps \in Nat
  BY <1>1 DEF Runs
<1>3. run # NoRun => ~Searching /\ run.at \in Nodes /\ run.visits[run.at] \in Nat \ {0}
  BY DEF RunIs
<1> QED BY <1>1, <1>2, <1>3

LEMMA CountedVisit ==
    ASSUME NEW n \in Nodes, NEW visits \in [Nodes -> Nat]
    PROVE  [visits EXCEPT ![n] = @ + 1] \in [Nodes -> Nat] /\ [visits EXCEPT ![n] = @ + 1][n] \in Nat \ {0}
<1>1. visits[n] \in Nat
  OBVIOUS
<1>2. visits[n] + 1 \in Nat \ {0}
  BY <1>1
<1> QED BY <1>2

\* A node is entered.
Enters(r, n, visits, steps) ==
    /\ r.at = n /\ r.visits = [visits EXCEPT ![n] = @ + 1] /\ r.steps = steps
    /\ r \in Runs /\ r.visits[n] \in Nat \ {0}

LEMMA EnteredIs ==
    \A n \in Nodes, visits \in [Nodes -> Nat], steps \in Nat, from \in Nodes \cup {""}, edge \in Nat :
        Enters(Entered(n, visits, steps, from, edge), n, visits, steps)
<1> TAKE n \in Nodes, visits \in [Nodes -> Nat], steps \in Nat, from \in Nodes \cup {""}, edge \in Nat
<1> DEFINE r == Entered(n, visits, steps, from, edge)
           next == [visits EXCEPT ![n] = @ + 1]
           end == IF steps = MaxSteps THEN "max_steps" ELSE IF Terminal(n) THEN "terminal" ELSE ""
           N == Nodes \cup {""}
           V == [Nodes -> Nat]
           E == Endings
<1>1. next \in [Nodes -> Nat] /\ next[n] \in Nat \ {0}
  BY CountedVisit
<1>2. n \in N /\ from \in N /\ next \in V /\ end \in E
  BY <1>1 DEF Endings
<1>3. r = [at |-> n, visits |-> next, steps |-> steps, from |-> from, edge |-> edge, stopped |-> end]
  BY DEF Entered
<1> HIDE DEF r, next, end, N, V, E
<1>4. r.at = n /\ r.visits = next /\ r.steps = steps
  BY <1>3
<1>5. r \in [at : N, visits : V, steps : Nat, from : N, edge : Nat, stopped : E]
  BY <1>2, <1>3
<1>6. r \in Runs
  BY <1>5 DEF Runs, N, V, E
<1> QED BY <1>1, <1>4, <1>6 DEF r, next, Enters

LEMMA StartIInv == IInv /\ Start => IInv'
<1> SUFFICES ASSUME IInv, Start PROVE IInv'
  OBVIOUS
<1> DEFINE next == [run.visits EXCEPT ![question.start] = @ + 1]
<1>1. /\ ~Searching /\ run = NoRun /\ question' = question /\ best' = best /\ frontier' = frontier
      /\ cur' = cur /\ moves' = moves /\ exhausted' = exhausted
      /\ run' = Entered(question.start, run.visits, 0, "", 0)
  BY DEF Start, search
<1>2. PICK d : Depths(d) /\ Queue(d) /\ Closed(d)
  BY DEF IInv
<1>3. question.start \in Nodes /\ run.visits = [n \in Nodes |-> 0] /\ run.visits \in [Nodes -> Nat]
  <2>1. question.start \in Nodes
    BY QuestionIs DEF IInv
  <2>2. run.visits = [n \in Nodes |-> 0]
    BY <1>1, NoRunIs
  <2> QED BY <2>1, <2>2
<1>4. /\ run'.at = question.start /\ run'.visits = next /\ run'.steps = 0
      /\ run' \in Runs /\ run'.visits[question.start] \in Nat \ {0}
  <2>1. 0 \in Nat /\ "" \in Nodes \cup {""}
    OBVIOUS
  <2>2. Enters(Entered(question.start, run.visits, 0, "", 0), question.start, run.visits, 0)
    BY <1>3, <2>1, EnteredIs
  <2> QED BY <1>1, <2>2 DEF Enters
<1>5. StartState = Shadow(run'.at, run'.visits)
  BY <1>3, <1>4, StartShadow DEF IInv
<1>6. Found(d)'
  <2>1. \A n, visits : Shadow(n, visits)' = Shadow(n, visits)
    BY <1>1, FrozenCounts
  <2>2. StartState \in DOMAIN best /\ d[StartState] = 0
    BY <1>2 DEF Depths
  <2>3. Shadow(run.at, run.visits)' = StartState
    BY <1>5, <2>1
  <2>4. run'.steps <= question'.bound => d[StartState] <= run'.steps
    BY <1>4, <2>2
  <2> QED BY <1>1, <2>2, <2>3, <2>4 DEF Found
<1>7. Depths(d)' /\ Queue(d)' /\ Closed(d)'
  <2>1. UNCHANGED <<question, search>>
    BY DEF Start
  <2> QED BY <1>2, <2>1, SearchStands
<1>8. RunIs'
  <2>1. ~Searching'
    BY <1>1 DEF Searching
  <2> QED BY <1>3, <1>4, <2>1 DEF RunIs
<1> QED BY <1>1, <1>6, <1>7, <1>8 DEF IInv, Shadows

\* What an edge that may be taken is.
LEMMA TakenIs ==
    ASSUME question \in Questions, NEW n \in Nodes, NEW v, NEW i, Taken(n, v, i)
    PROVE  i \in DOMAIN Edges(n) /\ i \in Nat /\ Edges(n)[i].to \in Nodes
<1>1. \A k : Kind(n, k) \subseteq DOMAIN Edges(n) /\ Kind(n, k) \subseteq Nat
  BY KindIs
<1>2. \A ctx : Matching(n, "when", ctx) # {} => First(Matching(n, "when", ctx)) \in Kind(n, "when")
  BY MatchIs
<1>3. i \in DOMAIN Edges(n) /\ i \in Nat
  BY <1>1, <1>2 DEF Taken
<1> QED BY <1>3, EdgesAre

LEMMA TakeIInv ==
    ASSUME IInv, Running, NEW i, Taken(run.at, run.visits[run.at], i), Take(i), UNCHANGED <<question, search>>
    PROVE  IInv'
<1> DEFINE n == run.at
           to == Edges(n)[i].to
           next == [run.visits EXCEPT ![to] = @ + 1]
           s == Shadow(n, run.visits)
<1>1. /\ question' = question /\ best' = best /\ frontier' = frontier
      /\ cur' = cur /\ moves' = moves /\ exhausted' = exhausted
  BY DEF search
<1>2. PICK d : Depths(d) /\ Queue(d) /\ Closed(d) /\ Shadows(d)
  BY DEF IInv
<1>3. question \in Questions /\ question.bound \in Nat
  BY QuestionIs DEF IInv
<1>4. run # NoRun /\ ~Searching /\ run \in Runs /\ n \in Nodes /\ run.visits[n] \in Nat \ {0}
  BY RunHas, NoRunIs DEF IInv
<1>5. i \in DOMAIN Edges(n) /\ i \in Nat /\ to \in Nodes
  BY <1>3, <1>4, TakenIs
<1>6. run.visits \in [Nodes -> Nat] /\ run.steps \in Nat
  BY RunHas DEF IInv
<1>7. /\ run'.at = to /\ run'.visits = next /\ run'.steps = run.steps + 1
      /\ run' \in Runs /\ run'.visits[to] \in Nat \ {0}
  <2>1. run' = Entered(to, run.visits, run.steps + 1, n, i)
    BY DEF Take
  <2> HIDE DEF n, to
  <2>2. run.steps + 1 \in Nat /\ n \in Nodes \cup {""}
    <3>1. run.steps + 1 \in Nat
      BY <1>6
    <3> QED BY <1>4, <3>1
  <2>3. Enters(Entered(to, run.visits, run.steps + 1, n, i), to, run.visits, run.steps + 1)
    BY <1>5, <1>6, <2>2, EnteredIs
  <2> QED BY <2>1, <2>3 DEF Enters
<1>8. RunIs'
  <2>1. ~Searching'
    BY <1>1, <1>4 DEF Searching
  <2> QED BY <1>5, <1>7, <2>1 DEF RunIs
<1>9. Depths(d)' /\ Queue(d)' /\ Closed(d)'
  BY <1>2, SearchStands
<1>10. ASSUME Followable' PROVE Found(d)'
  <2>1. PartitionCovers /\ (exhausted \/ run.steps + 1 <= question.bound)
    BY <1>1, <1>7, <1>10, FrozenPartition DEF Followable
  <2>2. Followable
    BY <1>3, <1>6, <2>1 DEF Followable
  <2>3. s \in DOMAIN best /\ (run.steps <= question.bound => d[s] <= run.steps) /\ d[s] \in Nat
    BY <1>2, <1>4, <2>2 DEF Shadows, Found, Depths
  <2>4. s.node = n /\ VisitsAt(s) = Shown(n, run.visits[n])
    BY <1>4, <1>6, VisitsAtShadow
  <2>5. PICK m \in Moves(n, Shown(n, run.visits[n])) : m.edge = i
    BY <1>3, <1>4, <2>1, Followed
  <2>6. Target(s, i) = Shadow(to, next)
    BY <1>3, <1>4, <1>5, <1>6, TargetShadow
  <2> HIDE DEF s, next
  <2>7. Explored(d, s)
    <3>1. ~Waiting(d, s)
      BY <1>4 DEF Waiting, Searching
    <3>2. ~Cut(d, s)
      BY <1>3, <1>6, <2>1, <2>3 DEF Cut
    <3> QED BY <1>2, <2>3, <3>1, <3>2 DEF Closed
  <2>8. Reached(d, s, m)
    BY <1>4, <2>4, <2>5, <2>7 DEF Explored, Searching
  <2>9. Shadow(to, next) \in DOMAIN best /\ d[Shadow(to, next)] <= d[s] + 1 /\ d[Shadow(to, next)] \in Nat
    BY <1>2, <2>5, <2>6, <2>8 DEF Reached, Depths
  <2>10. run.steps + 1 <= question.bound => d[Shadow(to, next)] <= run.steps + 1
    BY <1>3, <1>6, <2>3, <2>9
  <2> QED BY <1>1, <1>7, <2>9, <2>10, FrozenCounts DEF Found
<1> QED BY <1>1, <1>3, <1>8, <1>9, <1>10 DEF IInv, Shadows

LEMMA StopIInv ==
    ASSUME IInv, Running, NEW how \in Endings \ {"not started"}, Stop(how), UNCHANGED <<question, search>>
    PROVE  IInv'
<1>1. /\ question' = question /\ best' = best /\ frontier' = frontier
      /\ cur' = cur /\ moves' = moves /\ exhausted' = exhausted
  BY DEF search
<1>2. PICK d : Depths(d) /\ Queue(d) /\ Closed(d) /\ Shadows(d)
  BY DEF IInv
<1>3. run # NoRun /\ run \in Runs /\ ~Searching /\ run.at \in Nodes /\ run.visits[run.at] \in Nat \ {0}
  BY RunHas, NoRunIs DEF IInv
<1>4. run'.at = run.at /\ run'.visits = run.visits /\ run'.steps = run.steps /\ run' \in Runs
  BY <1>3 DEF Stop, Runs
<1>5. RunIs'
  <2>1. ~Searching'
    BY <1>1, <1>3 DEF Searching
  <2>2. run'.visits[run'.at] \in Nat \ {0} /\ run'.at \in Nodes
    BY <1>3, <1>4
  <2> QED BY <1>4, <2>1, <2>2 DEF RunIs
<1>6. Depths(d)' /\ Queue(d)' /\ Closed(d)'
  BY <1>2, SearchStands
<1>7. Followable' => Followable
  BY <1>1, <1>4, FrozenPartition DEF Followable
<1>8. Found(d) => Found(d)'
  BY <1>1, <1>4, FrozenCounts DEF Found
<1> QED BY <1>1, <1>2, <1>3, <1>5, <1>6, <1>7, <1>8 DEF IInv, Shadows

LEMMA RouteIInv == IInv /\ Route => IInv'
<1> SUFFICES ASSUME IInv, Route PROVE IInv'
  OBVIOUS
<1>1. PICK ctx \in Allowed(Contexts(run.at, Values, run.visits[run.at])) :
        LET hits == Matching(run.at, "when", ctx) IN
        \/ hits # {} /\ Take(First(hits))
        \/ hits = {} /\ \E i \in Kind(run.at, "semantic") : Take(i)
        \/ hits = {} /\ Kind(run.at, "semantic") = {} /\ Stop("stuck")
  BY DEF Route
<1>2. Running /\ UNCHANGED <<question, search>>
  BY DEF Route
<1>3. CASE \E i : Taken(run.at, run.visits[run.at], i) /\ Take(i)
  BY <1>2, <1>3, TakeIInv
<1>4. CASE Stop("stuck")
  <2>1. "stuck" \in Endings \ {"not started"}
    BY DEF Endings
  <2> QED BY <1>2, <1>4, <2>1, StopIInv
<1> QED BY <1>1, <1>3, <1>4 DEF Taken

LEMMA RaiseIInv == IInv /\ Raise => IInv'
<1> SUFFICES ASSUME IInv, Raise PROVE IInv'
  OBVIOUS
<1> DEFINE hits == Matching(run.at, "error", ErrorContext)
<1>1. /\ Running /\ question.raises /\ UNCHANGED <<question, search>>
      /\ IF hits = {} THEN Stop("raised") ELSE Take(First(hits))
  BY DEF Raise
<1>2. question \in Questions /\ run.at \in Nodes
  BY <1>1, RunHas, NoRunIs DEF IInv
<1>3. hits \subseteq Kind(run.at, "error")
  BY DEF Matching
<1>4. hits \subseteq Nat
  BY <1>2, <1>3, KindIs
<1> HIDE DEF hits
<1>5. CASE hits = {}
  <2>1. "raised" \in Endings \ {"not started"}
    BY DEF Endings
  <2> QED BY <1>1, <1>5, <2>1, StopIInv
<1>6. CASE hits # {}
  <2>1. First(hits) \in Kind(run.at, "error")
    BY <1>3, <1>4, <1>6, FirstIsLeast
  <2>2. Taken(run.at, run.visits[run.at], First(hits))
    BY <1>1, <2>1 DEF Taken
  <2> QED BY <1>1, <1>6, <2>2, TakeIInv
<1> QED BY <1>5, <1>6

LEMMA ResumeIInv == IInv /\ Resume => IInv'
<1> SUFFICES ASSUME IInv, Resume PROVE IInv'
  OBVIOUS
<1>1. PICK i \in Kind(run.at, "event") : Take(First(Awaiting(run.at, Edges(run.at)[i].on.name)))
  BY DEF Resume
<1>2. Running /\ question.waits /\ UNCHANGED <<question, search>>
  BY DEF Resume
<1> DEFINE S == Awaiting(run.at, Edges(run.at)[i].on.name)
<1>3. question \in Questions /\ run.at \in Nodes
  BY <1>2, RunHas, NoRunIs DEF IInv
<1>4. S \subseteq Kind(run.at, "event") /\ i \in S
  BY DEF Awaiting
<1>5. S \subseteq Nat
  BY <1>3, <1>4, KindIs
<1> HIDE DEF S
<1>6. First(S) \in Kind(run.at, "event")
  BY <1>4, <1>5, FirstIsLeast
<1>7. Taken(run.at, run.visits[run.at], First(S))
  BY <1>2, <1>6 DEF Taken
<1>8. Take(First(S))
  BY <1>1 DEF S
<1> QED BY <1>2, <1>7, <1>8, TakeIInv

LEMMA StepIInv == IInv /\ [Next]_vars => IInv'
<1> SUFFICES ASSUME IInv, [Next]_vars PROVE IInv'
  OBVIOUS
<1>1. CASE Next
  BY <1>1, ExpandIInv, FollowIInv, StartIInv, RouteIInv, RaiseIInv, ResumeIInv DEF Next
<1>2. CASE UNCHANGED vars
  <2>1. UNCHANGED <<question, search>> /\ run' = run
    BY <1>2 DEF vars, search
  <2>2. PICK d : Depths(d) /\ Queue(d) /\ Closed(d) /\ Shadows(d)
    BY DEF IInv
  <2>3. Depths(d)' /\ Queue(d)' /\ Closed(d)'
    BY <2>1, <2>2, SearchStands
  <2>4. Shadows(d)'
    <3>1. Followable' = Followable
      BY <2>1, FrozenPartition DEF Followable, search
    <3>2. Found(d)' = Found(d)
      BY <2>1, FrozenCounts DEF Found, search
    <3> QED BY <2>1, <2>2, <3>1, <3>2 DEF Shadows, NoRun
  <2>5. RunIs'
    BY <2>1 DEF IInv, RunIs, Runs, Searching, search, NoRun
  <2> QED BY <2>1, <2>3, <2>4, <2>5 DEF IInv
<1> QED BY <1>1, <1>2

\* The node of a run the search covers was found.
LEMMA IInvIsEnough == IInv => NoMeansNo
<1> SUFFICES ASSUME IInv, run # NoRun, Followable PROVE Verdict(run.at) # "no"
  BY DEF NoMeansNo, Followable
<1>1. Shadow(run.at, run.visits) \in DOMAIN best
  BY DEF IInv, Shadows, Found
<1>2. Shadow(run.at, run.visits).node = run.at
  BY DEF Shadow, State
<1> QED BY <1>1, <1>2 DEF Verdict

\* "UNREACHABLE (proven for all bounds)" and "within bound only": in every
\* flow whose candidates cover what its worker emits, a node that has the
\* verdict "no" is entered by no run of the engine, or by none so short,
\* though the search counts visits only up to a cap and a run counts on.
THEOREM ProvenUnreachableIsNeverEntered == Spec => []NoMeansNo
<1>1. Spec => []IInv
  BY InitIInv, StepIInv, PTL DEF Spec
<1> QED BY <1>1, IInvIsEnough, PTL

-----------------------------------------------------------------------------
(* A node that halts as stuck was warned of.                               *)

LEMMA NegatedHolds ==
    ASSUME NEW c \in Conditions, NEW d \in Conditions, Negates(c, d), NEW ctx,
           ~Holds(c, ctx), ~Holds(d, ctx)
    PROVE  \A l \in c.lits : l.op \in Orders
<1>1. PICK l \in c.lits, k \in d.lits :
        /\ c.lits = {l} /\ d.lits = {k}
        /\ \/ l = Not(k)
           \/ /\ l.op # "is" /\ ~l.neg /\ ~k.neg
              /\ k = [l EXCEPT !.op = Opposite[l.op]]
  BY DEF Negates
<1>2. l \in Literal /\ k \in Literal /\ l.neg \in BOOLEAN /\ k.neg \in BOOLEAN
  BY DEF Conditions, Literal
<1>3. Atom(l, ctx) # ~l.neg /\ Atom(k, ctx) # ~k.neg
  BY <1>1 DEF Holds
<1>4. CASE l = Not(k)
  <2>1. l.neg = ~k.neg /\ l.op = k.op /\ l.field = k.field /\ l.than = k.than /\ l.const = k.const
    BY <1>2, <1>4 DEF Not, Literal
  <2>2. Atom(l, ctx) = Atom(k, ctx) /\ Atom(k, ctx) \in BOOLEAN
    BY <2>1 DEF Atom, Operand, Truthy, Compare
  <2> QED BY <1>2, <1>3, <2>1, <2>2
<1>5. CASE l.op # "is" /\ ~l.neg /\ ~k.neg /\ k = [l EXCEPT !.op = Opposite[l.op]]
  <2>1. k.op = Opposite[l.op] /\ k.field = l.field /\ k.than = l.than /\ k.const = l.const
    BY <1>2, <1>5 DEF Literal
  <2>2. ~Atom(l, ctx) /\ ~Atom(k, ctx)
    BY <1>3, <1>5 DEF Atom, Truthy, Compare
  <2>3. l.op \in {"==", "!="} \cup Orders
    BY <1>2, <1>5 DEF Literal
  <2>4. l.op # "=="
    <3> SUFFICES ASSUME l.op = "==" PROVE FALSE
      OBVIOUS
    <3>1. k.op = "!="
      BY <2>1 DEF Opposite
    <3> QED BY <2>1, <2>2, <3>1 DEF Atom, Operand, Compare
  <2>5. l.op # "!="
    <3> SUFFICES ASSUME l.op = "!=" PROVE FALSE
      OBVIOUS
    <3>1. k.op = "=="
      BY <2>1 DEF Opposite
    <3> QED BY <2>1, <2>2, <3>1 DEF Atom, Operand, Compare
  <2> QED BY <1>1, <2>3, <2>4, <2>5
<1> QED BY <1>1, <1>4, <1>5

LEMMA StuckIsPossible ==
    ASSUME question \in Questions, NEW n \in Nodes, NEW ctx,
           Matching(n, "when", ctx) = {}, Kind(n, "semantic") = {}, Kind(n, "when") # {}
    PROVE  PossibleStuck(n) \/ OrderPair(n)
<1>1. \A i \in Kind(n, "when") : Edges(n)[i].on \in Conditions /\ ~Holds(Edges(n)[i].on, ctx)
  BY KindIs, EdgesAre DEF Matching
<1>2. \A i \in Kind(n, "when") : ~AlwaysTrue(Edges(n)[i].on)
  BY <1>1 DEF AlwaysTrue, Holds
<1>3. ASSUME NEW i \in Kind(n, "when"), NEW j \in Kind(n, "when"), Negates(Edges(n)[i].on, Edges(n)[j].on)
      PROVE  OrderPair(n)
  <2>1. \A l \in Edges(n)[i].on.lits : l.op \in Orders
    BY <1>1, <1>3, NegatedHolds
  <2> QED BY <1>3, <2>1 DEF OrderPair
<1> QED BY <1>2, <1>3 DEF PossibleStuck

LEMMA StepStuck == IInv /\ StuckIsWarned /\ [Next]_vars => StuckIsWarned'
<1> SUFFICES ASSUME IInv, StuckIsWarned, [Next]_vars, run'.stopped = "stuck", Kind(run.at, "when")' # {}
             PROVE  (PossibleStuck(run.at) \/ OrderPair(run.at))'
  BY DEF StuckIsWarned
<1>1. question' = question
  BY DEF Next, Expand, Follow, Start, Route, Raise, Resume, vars
<1>2. \A n : /\ Edges(n)' = Edges(n)
             /\ PossibleStuck(n)' = PossibleStuck(n) /\ OrderPair(n)' = OrderPair(n)
             /\ \A k : Kind(n, k)' = Kind(n, k)
  BY <1>1 DEF Edges, Kind, PossibleStuck, OrderPair
<1>3. CASE run' = run
  BY <1>2, <1>3 DEF StuckIsWarned
<1>4. ASSUME NEW i, Take(i) PROVE FALSE
  BY <1>4 DEF Take, Entered
<1>5. CASE Start
  BY <1>5 DEF Start, Entered
<1>6. CASE Route
  <2>1. PICK ctx : Matching(run.at, "when", ctx) = {} /\ Kind(run.at, "semantic") = {} /\ Stop("stuck")
    BY <1>4, <1>6 DEF Route
  <2>2. run'.at = run.at /\ run.at \in Nodes
    <3>1. run \in Runs /\ run # NoRun
      BY <1>6, RunHas, NoRunIs DEF Route, IInv
    <3>2. run.at \in Nodes
      BY <3>1, RunHas DEF IInv
    <3> QED BY <2>1, <3>1, <3>2 DEF Stop, Runs
  <2>3. question \in Questions /\ Kind(run.at, "when") # {}
    BY <1>2, <2>2 DEF IInv
  <2> QED BY <1>2, <2>1, <2>2, <2>3, StuckIsPossible
<1>7. CASE Raise
  <2>1. Stop("raised")
    BY <1>4, <1>7 DEF Raise
  <2>2. run \in Runs
    BY RunHas DEF IInv
  <2> QED BY <2>1, <2>2 DEF Stop, Runs
<1>8. CASE Resume
  BY <1>4, <1>8 DEF Resume
<1> QED BY <1>3, <1>5, <1>6, <1>7, <1>8 DEF Next, Expand, Follow, vars

\* A run that halts at a node with `when` edges because none held and there
\* was nothing to ask halts at a node `validate` reports as possibly stuck, or
\* at one with a pair of opposite orders, which the analyzer trusts.
THEOREM StuckIsAlwaysWarned == Spec => []StuckIsWarned
<1>1. Init => StuckIsWarned
  <2> SUFFICES ASSUME Init PROVE run.stopped # "stuck"
    BY DEF StuckIsWarned
  <2> QED BY NoRunIs DEF Init
<1>2. Spec => []IInv
  BY InitIInv, StepIInv, PTL DEF Spec
<1> QED BY <1>1, <1>2, StepStuck, PTL DEF Spec

-----------------------------------------------------------------------------
(* The nodes `validate` calls reachable are closed under every edge.       *)

LEMMA UpTo ==
    ASSUME NEW N \in Nat, NEW S, 0 \in S, \A k \in 0 .. N : k < N /\ k \in S => k + 1 \in S
    PROVE  0 .. N \subseteq S
<1> SUFFICES ASSUME NEW bad \in 0 .. N, bad \notin S PROVE FALSE
  OBVIOUS
<1> DEFINE T == {k \in 0 .. N : k \notin S}
<1>1. T \subseteq Nat /\ T # {}
  OBVIOUS
<1>2. PICK k \in T : \A j \in T : k <= j
  <2> HIDE DEF T
  <2> QED BY <1>1, Least
<1>3. k # 0 /\ k - 1 \in 0 .. N /\ k - 1 < N
  BY <1>2
<1>4. k - 1 \in S
  BY <1>2, <1>3
<1>5. k - 1 + 1 \in S
  BY <1>3, <1>4
<1> QED BY <1>2, <1>5

Grows(f, k) == [j \in 0 .. k |-> IF j = 0 THEN {question.start} ELSE Successors(f[j - 1])]

LEMMA GrowExists ==
    ASSUME NEW N \in Nat
    PROVE  \E f : f = Grows(f, N)
<1> DEFINE S == {k \in 0 .. N : \E f : f = Grows(f, k)}
<1>1. 0 \in S
  <2> DEFINE f == [j \in 0 .. 0 |-> {question.start}]
  <2>1. f = Grows(f, 0)
    BY DEF Grows
  <2> QED BY <2>1
<1>2. ASSUME NEW k \in 0 .. N, k < N, k \in S PROVE k + 1 \in S
  <2>1. PICK f : f = Grows(f, k)
    BY <1>2
  <2> DEFINE h == [j \in 0 .. k + 1 |-> IF j = k + 1 THEN Successors(f[k]) ELSE f[j]]
             g == Grows(h, k + 1)
  <2>2. \A j \in 0 .. k : h[j] = f[j]
    OBVIOUS
  <2>3. ASSUME NEW j \in 0 .. k + 1 PROVE h[j] = g[j]
    <3>1. g[j] = IF j = 0 THEN {question.start} ELSE Successors(h[j - 1])
      BY DEF Grows
    <3>2. CASE j = k + 1
      <4>1. h[j - 1] = f[k] /\ j # 0
        BY <2>2, <3>2
      <4> QED BY <3>1, <3>2, <4>1
    <3>3. CASE j # k + 1
      <4>1. j \in 0 .. k
        BY <3>3
      <4>2. f[j] = IF j = 0 THEN {question.start} ELSE Successors(f[j - 1])
        BY <2>1, <4>1 DEF Grows
      <4>3. j # 0 => h[j - 1] = f[j - 1]
        <5>1. j # 0 => j - 1 \in 0 .. k
          BY <4>1
        <5> QED BY <2>2, <5>1
      <4> HIDE DEF h, g
      <4> QED BY <2>2, <3>1, <4>1, <4>2, <4>3
    <3> QED BY <3>2, <3>3
  <2>4. h = g
    <3>1. h = [j \in 0 .. k + 1 |-> h[j]] /\ g = [j \in 0 .. k + 1 |-> g[j]]
      BY DEF Grows
    <3> HIDE DEF h, g
    <3> QED BY <2>3, <3>1
  <2> HIDE DEF h
  <2> QED BY <1>2, <2>4
<1>3. 0 .. N \subseteq S
  <2> HIDE DEF S
  <2> QED BY <1>1, <1>2, UpTo
<1> QED BY <1>3

LEMMA SuccessorsAre ==
    ASSUME question \in Questions, NEW S, S \subseteq Nodes
    PROVE  S \subseteq Successors(S) /\ Successors(S) \subseteq Nodes
<1> QED BY EdgesAre DEF Successors

LEMMA ReachableIs ==
    ASSUME question \in Questions
    PROVE  /\ question.start \in Reachable
           /\ \A n \in Nodes : n \in Reachable => \A i \in DOMAIN Edges(n) : Edges(n)[i].to \in Reachable
<1> DEFINE N == Cardinality(Nodes)
           grow[k \in 0 .. N] == IF k = 0 THEN {question.start} ELSE Successors(grow[k - 1])
<1>1. N \in Nat
  BY FiniteAssumption, FS_CardinalityType
<1>2. grow = Grows(grow, N)
  BY <1>1, GrowExists DEF Grows
<1>3. Reachable = grow[N]
  BY DEF Reachable
<1> HIDE DEF grow
<1>4. grow[0] = {question.start} /\ question.start \in Nodes
  BY <1>1, <1>2, QuestionIs DEF Grows
<1>5. \A k \in 0 .. N : k < N => grow[k + 1] = Successors(grow[k])
  <2> TAKE k \in 0 .. N
  <2>1. k < N => k + 1 \in 0 .. N /\ k + 1 # 0 /\ k + 1 - 1 = k
    BY <1>1
  <2> QED BY <1>2, <2>1 DEF Grows
<1> DEFINE Kept(k) == question.start \in grow[k] /\ grow[k] \subseteq Nodes
           Tall(k) == Cardinality(grow[k]) >= k + 1
           Shut(k) == Successors(grow[k]) = grow[k]
           S == {k \in 0 .. N : Kept(k) /\ (Tall(k) \/ Shut(k))}
<1>6. 0 \in S
  <2>1. Cardinality(grow[0]) = 1
    BY <1>4, FS_Singleton
  <2> QED BY <1>1, <1>4, <2>1
<1>7. ASSUME NEW k \in 0 .. N, k < N, k \in S PROVE k + 1 \in S
  <2>1. grow[k + 1] = Successors(grow[k]) /\ k + 1 \in 0 .. N
    BY <1>1, <1>5, <1>7
  <2>2. grow[k] \subseteq grow[k + 1] /\ grow[k + 1] \subseteq Nodes /\ question.start \in grow[k + 1]
    BY <1>7, <2>1, SuccessorsAre
  <2>3. CASE Shut(k)
    <3>1. grow[k + 1] = grow[k]
      BY <2>1, <2>3
    <3>2. Shut(k + 1)
      BY <2>3, <3>1
    <3> QED BY <2>1, <2>2, <3>2
  <2>4. CASE Tall(k) /\ ~Shut(k)
    <3>1. IsFiniteSet(grow[k + 1]) /\ Cardinality(grow[k + 1]) \in Nat
      BY <2>2, FiniteAssumption, FS_Subset, FS_CardinalityType
    <3>2. Cardinality(grow[k]) <= Cardinality(grow[k + 1]) /\ Cardinality(grow[k]) \in Nat
          /\ Cardinality(grow[k]) # Cardinality(grow[k + 1])
      BY <2>1, <2>2, <2>4, <3>1, FS_Subset, FS_CardinalityType
    <3>3. Tall(k + 1)
      BY <2>4, <3>1, <3>2
    <3> QED BY <2>1, <2>2, <3>3
  <2> QED BY <1>7, <2>3, <2>4
<1>8. 0 .. N \subseteq S
  <2> HIDE DEF S
  <2> QED BY <1>1, <1>6, <1>7, UpTo
<1>9. Kept(N) /\ (Tall(N) \/ Shut(N))
  BY <1>1, <1>8
<1>10. ~Tall(N)
  <2>1. Cardinality(grow[N]) <= N /\ Cardinality(grow[N]) \in Nat
    BY <1>9, FiniteAssumption, FS_Subset, FS_CardinalityType
  <2> HIDE DEF N
  <2> QED BY <1>1, <2>1
<1>11. Successors(Reachable) = Reachable
  BY <1>3, <1>9, <1>10
<1> QED BY <1>3, <1>9, <1>11 DEF Successors

-----------------------------------------------------------------------------
(* What is reported as dead is.                                            *)

\* A lower bound above an upper one: no value of the field is between them.
LEMMA ContradictsNever ==
    ASSUME NEW c \in Conditions, NEW ctx, \A f \in Reads(c) : ctx[f] \in Value, Holds(c, ctx)
    PROVE  ~Contradicts(c)
<1> SUFFICES ASSUME NEW f \in Reads(c), NEW l \in Bounds(c, f, {">", ">=", "=="}),
                    NEW u \in Bounds(c, f, {"<", "<=", "=="}),
                    \/ l.const.n > u.const.n
                    \/ l.const.n = u.const.n /\ (l.op = ">" \/ u.op = "<")
             PROVE  FALSE
  BY DEF Contradicts
<1>1. ctx[f] \in Value /\ ctx[f].n \in Int
  BY DEF Value
<1>2. /\ l \in c.lits /\ l.field = f /\ l.than = NoField /\ ~l.neg
      /\ l.const.kind = "num" /\ l.op \in {">", ">=", "=="}
      /\ u \in c.lits /\ u.field = f /\ u.than = NoField /\ ~u.neg
      /\ u.const.kind = "num" /\ u.op \in {"<", "<=", "=="}
  BY DEF Bounds
<1>3. l.const.n \in Int /\ u.const.n \in Int
  BY <1>2, LiteralIs
<1>4. Compare(l.op, ctx[f], l.const) /\ Compare(u.op, ctx[f], u.const)
  BY <1>2 DEF Holds, Atom, Operand, Meant
<1>5. ctx[f].n >= l.const.n /\ (l.op = ">" => ctx[f].n > l.const.n)
  BY <1>1, <1>2, <1>3, <1>4 DEF Compare
<1>6. ctx[f].n <= u.const.n /\ (u.op = "<" => ctx[f].n < u.const.n)
  BY <1>1, <1>2, <1>3, <1>4 DEF Compare
<1> QED BY <1>1, <1>3, <1>5, <1>6

\* The values a condition of a node reads are values.
LEMMA ReadsAre ==
    ASSUME question \in Questions, NEW n \in Nodes, NEW v \in Nat, NEW i \in Kind(n, "when"),
           NEW ctx \in Contexts(n, Values, v)
    PROVE  \A f \in Reads(Edges(n)[i].on) : ctx[f] \in Value
<1>1. PICK c \in [Fields(n) -> Values] : ctx = Context(c, v)
  BY DEF Contexts
<1>2. TAKE f \in Reads(Edges(n)[i].on)
<1>3. f \in Fields(n) \cup {Visits}
  BY DEF Fields
<1>4. CASE f = Visits
  <2>1. ctx[f] = Num(2 * v) /\ 2 * v \in Int
    BY <1>1, <1>4 DEF Context
  <2> QED BY <2>1 DEF Value, Num
<1>5. CASE f # Visits
  <2>1. ctx[f] = c[f] /\ c[f] \in Values
    BY <1>1, <1>3, <1>5 DEF Context
  <2> QED BY <2>1, FiniteAssumption
<1> QED BY <1>3, <1>4, <1>5

Dead(n, i) == Shadowed(n, i) \/ AlwaysFalse(n, i)

\* The first `when` edge that holds is not behind a catch-all, nor always false.
LEMMA FirstWhenLives ==
    ASSUME question \in Questions, NEW n \in Nodes, NEW v \in Nat, NEW ctx \in Contexts(n, Values, v),
           Matching(n, "when", ctx) # {}
    PROVE  ~Dead(n, First(Matching(n, "when", ctx)))
<1> DEFINE M == Matching(n, "when", ctx)
           i == First(M)
<1>1. M \subseteq Kind(n, "when") /\ Kind(n, "when") \subseteq Nat
  BY KindIs DEF Matching
<1>2. i \in M /\ \A j \in M : i <= j
  <2>1. M # {} /\ M \subseteq Nat
    BY <1>1
  <2> HIDE DEF M
  <2> QED BY <2>1, FirstIsLeast
<1> HIDE DEF i
<1>3. i \in Kind(n, "when") /\ Edges(n)[i].on.kind = "when" /\ Holds(Edges(n)[i].on, ctx)
  BY <1>1, <1>2 DEF Matching, Kind
<1>4. Edges(n)[i].on \in Conditions
  BY <1>3, KindIs, EdgesAre
<1>5. ~AlwaysFalse(n, i)
  BY <1>3, <1>4, ReadsAre, ContradictsNever DEF AlwaysFalse
<1>6. ASSUME NEW j \in Kind(n, "when"), j < i, AlwaysTrue(Edges(n)[j].on) PROVE FALSE
  <2>1. j \in M
    BY <1>6 DEF AlwaysTrue, Holds, Matching
  <2> QED BY <1>1, <1>2, <1>6, <2>1
<1>7. ~Shadowed(n, i)
  BY <1>3, <1>6 DEF Shadowed
<1> QED BY <1>5, <1>7 DEF Dead, i

\* Nor is a semantic edge where no `when` edge holds.
LEMMA SemanticLives ==
    ASSUME NEW n, NEW ctx, Matching(n, "when", ctx) = {}, NEW i \in Kind(n, "semantic")
    PROVE  ~Dead(n, i)
<1>1. Edges(n)[i].on.kind = "semantic"
  BY DEF Kind
<1>2. \A j \in Kind(n, "when") : ~AlwaysTrue(Edges(n)[j].on)
  BY DEF AlwaysTrue, Holds, Matching
<1> QED BY <1>1, <1>2 DEF Dead, Shadowed, AlwaysFalse

\* Nor the first error edge whose guard holds.
LEMMA FirstErrorLives ==
    ASSUME question \in Questions, NEW n \in Nodes, NEW ctx, Matching(n, "error", ctx) # {}
    PROVE  ~Dead(n, First(Matching(n, "error", ctx)))
<1> DEFINE M == Matching(n, "error", ctx)
           i == First(M)
<1>1. M \subseteq Kind(n, "error") /\ Kind(n, "error") \subseteq Nat
  BY KindIs DEF Matching
<1>2. i \in M /\ \A j \in M : i <= j
  <2>1. M # {} /\ M \subseteq Nat
    BY <1>1
  <2> HIDE DEF M
  <2> QED BY <2>1, FirstIsLeast
<1> HIDE DEF i
<1>3. Edges(n)[i].on.kind = "error"
  BY <1>2 DEF Matching, Kind
<1>4. ASSUME NEW j \in Kind(n, "error"), j < i, Edges(n)[j].on.lits = {} PROVE FALSE
  <2>1. j \in M
    BY <1>4 DEF Holds, Matching
  <2> QED BY <1>1, <1>2, <1>4, <2>1
<1>5. ~Shadowed(n, i) /\ ~AlwaysFalse(n, i)
  BY <1>3, <1>4 DEF Shadowed, AlwaysFalse
<1> QED BY <1>5 DEF Dead, i

\* Nor the first edge that awaits an event.
LEMMA FirstEventLives ==
    ASSUME question \in Questions, NEW n \in Nodes, NEW name, Awaiting(n, name) # {}
    PROVE  ~Dead(n, First(Awaiting(n, name)))
<1> DEFINE M == Awaiting(n, name)
           i == First(M)
<1>1. M \subseteq Kind(n, "event") /\ Kind(n, "event") \subseteq Nat
  BY KindIs DEF Awaiting
<1>2. i \in M /\ \A j \in M : i <= j
  <2>1. M # {} /\ M \subseteq Nat
    BY <1>1
  <2> HIDE DEF M
  <2> QED BY <2>1, FirstIsLeast
<1> HIDE DEF i
<1>3. Edges(n)[i].on.kind = "event" /\ Edges(n)[i].on.name = name
  BY <1>2 DEF Awaiting, Kind
<1>4. ASSUME NEW j \in Kind(n, "event"), j < i, Edges(n)[j].on.name = name PROVE FALSE
  <2>1. j \in M
    BY <1>4 DEF Awaiting
  <2> QED BY <1>1, <1>2, <1>4, <2>1
<1>5. ~Shadowed(n, i) /\ ~AlwaysFalse(n, i)
  BY <1>3, <1>4 DEF Shadowed, AlwaysFalse
<1> QED BY <1>5 DEF Dead, i

LEMMA FrozenDead ==
    ASSUME question' = question
    PROVE  Reachable' = Reachable /\ \A n, i : Dead(n, i)' = Dead(n, i)
<1>1. \A n : Edges(n)' = Edges(n) /\ \A k : Kind(n, k)' = Kind(n, k)
  BY DEF Edges, Kind
<1>2. Reachable' = Reachable
  BY DEF Reachable, Successors, Edges
<1>3. \A n, i : Dead(n, i)' = Dead(n, i)
  BY <1>1 DEF Dead, Shadowed, AlwaysFalse
<1> QED BY <1>2, <1>3

LEMMA TakeDead ==
    ASSUME IInv, DeadIsDead, run # NoRun, NEW i, Taken(run.at, run.visits[run.at], i), Take(i),
           ~Dead(run.at, i), question' = question
    PROVE  DeadIsDead'
<1>1. question \in Questions /\ run.at \in Nodes
  BY RunHas DEF IInv
<1>2. i \in DOMAIN Edges(run.at)
  BY <1>1, TakenIs
<1>3. Edges(run.at)[i].to \in Reachable
  BY <1>1, <1>2, ReachableIs DEF DeadIsDead
<1>4. run'.at = Edges(run.at)[i].to /\ run'.from = run.at /\ run'.edge = i
  BY DEF Take, Entered
<1>5. run'.at \in Reachable' /\ ~Dead(run.from, run.edge)'
  BY <1>3, <1>4, FrozenDead
<1> QED BY <1>5 DEF DeadIsDead, Dead

LEMMA StepDead == IInv /\ DeadIsDead /\ [Next]_vars => DeadIsDead'
<1> SUFFICES ASSUME IInv, DeadIsDead, [Next]_vars PROVE DeadIsDead'
  OBVIOUS
<1>1. question' = question
  BY DEF Next, Expand, Follow, Start, Route, Raise, Resume, vars
<1>2. Reachable' = Reachable /\ \A n, i : Dead(n, i)' = Dead(n, i)
  BY <1>1, FrozenDead
<1>3. ASSUME run'.at = run.at, run'.from = run.from, run'.edge = run.edge, run = NoRun => run' = NoRun
      PROVE  DeadIsDead'
  <2>1. Dead(run.from, run.edge)' = Dead(run.from, run.edge)
    BY <1>2, <1>3
  <2>2. run' # NoRun' => run # NoRun
    BY <1>3 DEF NoRun
  <2> QED BY <1>2, <1>3, <2>1, <2>2 DEF DeadIsDead, Dead
<1>4. CASE run' = run
  BY <1>3, <1>4
<1>5. ASSUME NEW how, Running, Stop(how) PROVE DeadIsDead'
  <2>1. run \in Runs /\ run # NoRun
    BY <1>5, RunHas, NoRunIs DEF IInv
  <2>2. run'.at = run.at /\ run'.from = run.from /\ run'.edge = run.edge
    BY <1>5, <2>1 DEF Stop, Runs
  <2> QED BY <1>3, <2>1, <2>2
<1>6. ASSUME Running PROVE run # NoRun /\ run.at \in Nodes /\ question \in Questions /\ run.visits[run.at] \in Nat
  <2>1. run # NoRun
    BY <1>6, NoRunIs
  <2> QED BY <2>1, RunHas DEF IInv
<1>7. CASE Start
  <2>1. run'.at = question.start /\ run'.edge = 0
    BY <1>7 DEF Start, Entered
  <2>2. question.start \in Reachable
    BY ReachableIs DEF IInv
  <2> QED BY <1>2, <2>1, <2>2 DEF DeadIsDead
<1>8. CASE Route
  <2>1. PICK ctx \in Allowed(Contexts(run.at, Values, run.visits[run.at])) :
          LET hits == Matching(run.at, "when", ctx) IN
          \/ hits # {} /\ Take(First(hits))
          \/ hits = {} /\ \E i \in Kind(run.at, "semantic") : Take(i)
          \/ hits = {} /\ Kind(run.at, "semantic") = {} /\ Stop("stuck")
    BY <1>8 DEF Route
  <2>2. Running /\ ctx \in Contexts(run.at, Values, run.visits[run.at])
    BY <1>8 DEF Route, Allowed
  <2> DEFINE hits == Matching(run.at, "when", ctx)
  <2>3. CASE hits # {} /\ Take(First(hits))
    <3>1. ~Dead(run.at, First(hits))
      BY <1>6, <2>2, <2>3, FirstWhenLives
    <3>2. Taken(run.at, run.visits[run.at], First(hits))
      BY <2>3 DEF Taken
    <3> QED BY <1>1, <1>6, <2>2, <2>3, <3>1, <3>2, TakeDead
  <2>4. ASSUME hits = {}, NEW i \in Kind(run.at, "semantic"), Take(i) PROVE DeadIsDead'
    <3>1. ~Dead(run.at, i)
      BY <2>4, SemanticLives
    <3>2. Taken(run.at, run.visits[run.at], i)
      BY <2>4 DEF Taken
    <3> QED BY <1>1, <1>6, <2>2, <2>4, <3>1, <3>2, TakeDead
  <2> QED BY <1>5, <2>1, <2>2, <2>3, <2>4
<1>9. CASE Raise
  <2> DEFINE hits == Matching(run.at, "error", ErrorContext)
  <2>1. Running /\ question.raises /\ IF hits = {} THEN Stop("raised") ELSE Take(First(hits))
    BY <1>9 DEF Raise
  <2>2. CASE hits # {}
    <3>1. ~Dead(run.at, First(hits))
      BY <1>6, <2>1, <2>2, FirstErrorLives
    <3>2. First(hits) \in Kind(run.at, "error")
      <4>1. hits \subseteq Kind(run.at, "error") /\ Kind(run.at, "error") \subseteq Nat
        BY <1>6, <2>1, KindIs DEF Matching
      <4> HIDE DEF hits
      <4>2. First(hits) \in hits
        BY <2>2, <4>1, FirstIsLeast
      <4> QED BY <4>1, <4>2
    <3>3. Taken(run.at, run.visits[run.at], First(hits))
      BY <2>1, <3>2 DEF Taken
    <3> QED BY <1>1, <1>6, <2>1, <2>2, <3>1, <3>3, TakeDead
  <2> QED BY <1>5, <2>1, <2>2
<1>10. CASE Resume
  <2>1. PICK e \in Kind(run.at, "event") : Take(First(Awaiting(run.at, Edges(run.at)[e].on.name)))
    BY <1>10 DEF Resume
  <2>2. Running /\ question.waits
    BY <1>10 DEF Resume
  <2> DEFINE S == Awaiting(run.at, Edges(run.at)[e].on.name)
  <2>3. S \subseteq Kind(run.at, "event") /\ S # {} /\ Kind(run.at, "event") \subseteq Nat
    BY <1>6, <2>2, KindIs DEF Awaiting
  <2>4. ~Dead(run.at, First(S))
    BY <1>6, <2>2, <2>3, FirstEventLives
  <2>5. First(S) \in Kind(run.at, "event")
    <3> HIDE DEF S
    <3>1. First(S) \in S
      BY <2>3, FirstIsLeast
    <3> QED BY <2>3, <3>1
  <2>6. Taken(run.at, run.visits[run.at], First(S))
    BY <2>2, <2>5 DEF Taken
  <2> QED BY <1>1, <1>6, <2>1, <2>2, <2>4, <2>6, TakeDead
<1> QED BY <1>4, <1>7, <1>8, <1>9, <1>10 DEF Next, Expand, Follow, vars

\* Whatever a worker emits, raises or waits for, a run never enters a node the
\* analyzer calls unreachable, nor takes an edge it calls shadowed or always
\* false: each of them can be deleted.
THEOREM DeadIsAlwaysDead == Spec => []DeadIsDead
<1>1. Init => DeadIsDead
  BY DEF Init, DeadIsDead
<1>2. Spec => []IInv
  BY InitIInv, StepIInv, PTL DEF Spec
<1> QED BY <1>1, <1>2, StepDead, PTL DEF Spec

-----------------------------------------------------------------------------
(* The candidates hit every region the conditions cut out of a field.      *)

\* The literals of a node's `when` edges and of the assumption.
Lits(n) == UNION ({Edges(n)[i].on.lits : i \in Kind(n, "when")} \cup {question.assume.lits})

LEMMA LitsAre ==
    ASSUME question \in Questions, NEW n \in Nodes
    PROVE  /\ IsFiniteSet(Lits(n))
           /\ \A l \in Lits(n) : /\ l.const \in Constant /\ l.field \in Fields(n) \cup {Visits}
                                 /\ l.op \in {"is", "==", "!="} \cup Orders
                                 /\ Complete(n) => \/ l.op = "is"
                                                   \/ /\ l.than = NoField /\ l.const \in Mentioned(n)
                                                      /\ ~(l.op \in Orders /\ l.const.kind = "str")
           /\ \A k \in Numbers(Mentioned(n)) : \E l \in Lits(n) : k = l.const.n
<1> DEFINE D == DOMAIN Edges(n)
           W == Kind(n, "when")
           cond(i) == Edges(n)[i].on
           C == {cond(i) : i \in W} \cup {question.assume}
<1>1. D = 1 .. Len(Edges(n)) /\ Len(Edges(n)) \in Nat /\ IsFiniteSet(D) /\ W \subseteq D
  BY QuestionIs, KindIs, FS_Interval
<1>2. \A c \in C : c \in Conditions
  BY <1>1, EdgesAre, QuestionIs
<1>3. Lits(n) = UNION {c.lits : c \in C}
  BY DEF Lits
<1>4. IsFiniteSet(Lits(n))
  <2> DEFINE f == [i \in D \cup {0} |-> IF i \in W THEN cond(i).lits ELSE question.assume.lits]
             T == {f[i] : i \in D \cup {0}}
  <2>1. IsFiniteSet(D \cup {0})
    BY <1>1, FS_AddElement
  <2>2. f \in Surjection(D \cup {0}, T)
    BY DEF Surjection
  <2>3. IsFiniteSet(T)
    <3> HIDE DEF T, f, D
    <3> QED BY <2>1, <2>2, FS_Surjection
  <2>4. \A L \in T : IsFiniteSet(L)
    BY <1>1, <1>2, QuestionIs DEF Conditions
  <2>5. Lits(n) \subseteq UNION T
    <3>1. 0 \notin W
      BY <1>1
    <3> QED BY <1>1, <3>1 DEF Lits
  <2>6. IsFiniteSet(UNION T)
    <3> HIDE DEF T
    <3> QED BY <2>3, <2>4, FS_UNION
  <2> QED BY <2>5, <2>6, FS_Subset
<1>5. ASSUME NEW l \in Lits(n)
      PROVE  /\ l.const \in Constant /\ l.field \in Fields(n) \cup {Visits}
             /\ l.op \in {"is", "==", "!="} \cup Orders
             /\ Complete(n) => \/ l.op = "is"
                               \/ /\ l.than = NoField /\ l.const \in Mentioned(n)
                                  /\ ~(l.op \in Orders /\ l.const.kind = "str")
  <2>1. PICK c \in C : l \in c.lits
    BY <1>3
  <2>2. c \in Conditions
    BY <1>2
  <2>3. l \in Literal
    BY <2>1, <2>2 DEF Conditions
  <2>4. l.field \in Fields(n) \cup {Visits}
    <3>1. l.field \in Reads(c)
      BY <2>1, <2>2, LiteralIs
    <3> QED BY <3>1 DEF Fields
  <2>5. l.op # "is" /\ l.than = NoField => l.const \in Mentioned(n)
    BY <2>1 DEF Mentioned, Consts
  <2>6. Complete(n) => InLevelM(c)
    BY DEF Complete
  <2> QED BY <2>1, <2>2, <2>3, <2>4, <2>5, <2>6, LiteralIs DEF Literal, InLevelM
<1>6. ASSUME NEW k \in Numbers(Mentioned(n)) PROVE \E l \in Lits(n) : k = l.const.n
  <2>1. PICK v \in Mentioned(n) : k = v.n
    BY DEF Numbers
  <2>2. PICK c \in C : v \in Consts(c)
    BY DEF Mentioned
  <2>3. PICK l \in c.lits : v = l.const
    BY <2>2 DEF Consts
  <2> QED BY <1>3, <2>1, <2>3
<1> QED BY <1>4, <1>5, <1>6

\* Below, above or between the numbers there is a candidate on the same side
\* of each of them.
Tight(S) == {p \in S \X S : p[1] < p[2] /\ ~\E k \in S : p[1] < k /\ k < p[2]}
Between(S) == {k - 2 : k \in S} \cup {k + 2 : k \in S} \cup {(p[1] + p[2]) \div 2 : p \in Tight(S)}

LEMMA SameSide ==
    ASSUME NEW L, IsFiniteSet(L), NEW f \in [L -> Int], NEW S, S # {}, S \subseteq {f[l] : l \in L},
           NEW x \in Int, x \notin S
    PROVE  \E z \in Between(S) : z \in Int /\ \A k \in S : k # z /\ (k < x <=> k < z)
<1> DEFINE Down == {l \in L : f[l] \in S /\ f[l] < x}
           Up == {l \in L : f[l] \in S /\ f[l] > x}
<1>1. S \subseteq Int /\ IsFiniteSet(Down) /\ IsFiniteSet(Up)
  BY FS_Subset
<1>2. \A k \in S : k \in Int /\ (k < x \/ k > x)
  BY <1>1
<1>3. ASSUME Down # {} PROVE \E p \in S : p < x /\ \A k \in S : k < x => k <= p
  <2> DEFINE h == [l \in Down |-> f[l]]
  <2>1. h \in [Down -> Int]
    OBVIOUS
  <2>2. PICK l \in Down : \A m \in Down : h[m] <= h[l]
    <3> HIDE DEF h, Down
    <3> QED BY <1>1, <1>3, <2>1, Highest
  <2>3. f[l] \in S /\ f[l] < x
    OBVIOUS
  <2>4. ASSUME NEW k \in S, k < x PROVE k <= f[l]
    <3>1. PICK m \in L : k = f[m]
      OBVIOUS
    <3>2. m \in Down
      BY <2>4, <3>1
    <3> QED BY <2>2, <3>1, <3>2
  <2> QED BY <2>3, <2>4
<1>4. ASSUME Up # {} PROVE \E q \in S : q > x /\ \A k \in S : k > x => k >= q
  <2> DEFINE h == [l \in Up |-> 0 - f[l]]
  <2>1. h \in [Up -> Int]
    OBVIOUS
  <2>2. PICK l \in Up : \A m \in Up : h[m] <= h[l]
    <3> HIDE DEF h, Up
    <3> QED BY <1>1, <1>4, <2>1, Highest
  <2>3. f[l] \in S /\ f[l] > x
    OBVIOUS
  <2>4. ASSUME NEW k \in S, k > x PROVE k >= f[l]
    <3>1. PICK m \in L : k = f[m]
      OBVIOUS
    <3>2. m \in Up
      BY <2>4, <3>1
    <3>3. 0 - f[m] <= 0 - f[l] /\ f[m] \in Int /\ f[l] \in Int
      BY <2>2, <3>2
    <3> QED BY <3>1, <3>3
  <2> QED BY <2>3, <2>4
<1>5. CASE Down = {}
  <2>1. \A k \in S : k > x
    BY <1>2, <1>5
  <2>2. PICK q \in S : q > x /\ \A k \in S : k > x => k >= q
    <3>1. Up # {}
      BY <2>1
    <3> QED BY <1>4, <3>1
  <2>3. q - 2 \in Between(S) /\ q - 2 \in Int /\ \A k \in S : k # q - 2 /\ ~(k < q - 2) /\ ~(k < x)
    BY <1>2, <2>1, <2>2 DEF Between
  <2> QED BY <2>3
<1>6. CASE Up = {}
  <2>1. \A k \in S : k < x
    BY <1>2, <1>6
  <2>2. PICK p \in S : p < x /\ \A k \in S : k < x => k <= p
    <3>1. Down # {}
      BY <2>1
    <3> QED BY <1>3, <3>1
  <2>3. p + 2 \in Between(S) /\ p + 2 \in Int /\ \A k \in S : k # p + 2 /\ k < p + 2 /\ k < x
    BY <1>2, <2>1, <2>2 DEF Between
  <2> QED BY <2>3
<1>7. CASE Down # {} /\ Up # {}
  <2>1. PICK p \in S : p < x /\ \A k \in S : k < x => k <= p
    BY <1>3, <1>7
  <2>2. PICK q \in S : q > x /\ \A k \in S : k > x => k >= q
    BY <1>4, <1>7
  <2>3. \A k \in S : k <= p \/ k >= q
    BY <1>2, <2>1, <2>2
  <2>4. <<p, q>> \in Tight(S)
    <3>1. p < q /\ p \in Int /\ q \in Int
      BY <1>2, <2>1, <2>2
    <3>2. \A k \in S : ~(p < k /\ k < q)
      BY <1>2, <2>3, <3>1
    <3> QED BY <3>1, <3>2 DEF Tight
  <2> DEFINE z == (p + q) \div 2
  <2>5. z \in Int /\ p < z /\ z < q
    BY <1>2, <2>1, <2>2
  <2>6. z \in Between(S)
    BY <2>4 DEF Between
  <2> HIDE DEF z
  <2>7. \A k \in S : k # z /\ (k < x <=> k < z)
    BY <1>2, <2>1, <2>2, <2>3, <2>5
  <2> QED BY <2>5, <2>6, <2>7
<1> QED BY <1>5, <1>6, <1>7

\* The literal cannot tell the two values of its field apart.
Alike(l, x, y) == IF l.op = "is" THEN Truthy(x) = Truthy(y)
                  ELSE Compare(l.op, x, Meant(l.const)) = Compare(l.op, y, Meant(l.const))

LEMMA SomeCandidateIsAlike ==
    ASSUME question \in Questions, NEW n \in Nodes, Complete(n), ~Mixed(n), NEW f \in Fields(n),
           NEW x \in Value
    PROVE  \E y \in Candidates(n) : \A l \in Lits(n) : l.field = f => Alike(l, x, y)
<1> DEFINE nums == Numbers(Mentioned(n))
<1>1. Poles \subseteq Candidates(n) /\ Constants(n) \subseteq Candidates(n)
  BY DEF Candidates
<1>2. \A z \in Between(nums) : Num(z) \in Candidates(n)
  BY DEF Between, Tight, Candidates
<1>3. CASE x \in Poles \cup Constants(n)
  BY <1>1, <1>3 DEF Alike
<1>4. ASSUME x \notin Poles \cup Constants(n)
      PROVE  /\ x.kind \in {"str", "num"} /\ x.n \in Int /\ Truthy(x)
             /\ x = [kind |-> x.kind, n |-> x.n]
  <2>1. x.kind \in {"none", "str", "num"} /\ x.n \in Int /\ x = [kind |-> x.kind, n |-> x.n]
    BY DEF Value
  <2>2. x.kind # "none"
    BY <1>4 DEF Value, Poles
  <2>3. x.n # 0
    <3> SUFFICES ASSUME x.n = 0 PROVE FALSE
      OBVIOUS
    <3>1. x = Str(0) \/ x = Num(0)
      BY <2>1, <2>2 DEF Str, Num
    <3> QED BY <1>4, <3>1 DEF Poles
  <2> QED BY <2>1, <2>2, <2>3 DEF Truthy
<1>5. ASSUME NEW l \in Lits(n)
      PROVE  /\ l.const \in Constant /\ Meant(l.const).n \in Int /\ Meant(l.const) # Fresh
             /\ Meant(l.const).kind \in {"none", "str", "num"}
             /\ l.op \in {"is", "==", "!="} \cup Orders
             /\ \/ l.op = "is"
                \/ /\ l.const \in Mentioned(n) /\ Meant(l.const) \in Constants(n)
                   /\ ~(l.op \in Orders /\ Meant(l.const).kind = "str")
  <2>1. /\ l.const \in Constant /\ l.op \in {"is", "==", "!="} \cup Orders
        /\ \/ l.op = "is"
           \/ l.const \in Mentioned(n) /\ ~(l.op \in Orders /\ l.const.kind = "str")
    BY LitsAre
  <2>2. Meant(l.const) \in Value \ {Fresh} /\ (Meant(l.const).kind = "str" => l.const.kind = "str")
    BY <2>1, MeantIs
  <2>3. Meant(l.const).n \in Int /\ Meant(l.const).kind \in {"none", "str", "num"}
    BY <2>2 DEF Value
  <2>4. l.const \in Mentioned(n) => Meant(l.const) \in Constants(n)
    BY DEF Constants
  <2> QED BY <2>1, <2>2, <2>3, <2>4
\* Against a literal that does not order numbers, the fresh string will do.
<1>6. ASSUME x \notin Poles \cup Constants(n), NEW l \in Lits(n), ~(l.op \in Orders /\ Meant(l.const).kind = "num")
      PROVE  Alike(l, x, Fresh)
  <2>1. Truthy(x) /\ Truthy(Fresh)
    BY <1>4, <1>6 DEF Truthy, Fresh, Str
  <2>2. l.op # "is" => Meant(l.const) # x /\ Meant(l.const) # Fresh
    BY <1>5, <1>6
  <2>3. l.op \in Orders => Meant(l.const).kind = "none"
    <3>1. l.op \in Orders => l.op # "is"
      BY DEF Orders
    <3> QED BY <1>5, <1>6, <3>1
  <2>4. Orders = {"<", "<=", ">", ">="}
    BY DEF Orders
  <2> HIDE DEF nums
  <2>5. CASE l.op = "is"
    BY <2>1, <2>5 DEF Alike
  <2>6. CASE l.op \in {"==", "!="}
    BY <2>2, <2>6 DEF Alike, Compare
  <2>7. CASE l.op \in Orders
    <3>1. l.op # "is" /\ l.op # "==" /\ l.op # "!="
      BY <2>4, <2>7
    <3>2. Compare(l.op, x, Meant(l.const)) = FALSE /\ Compare(l.op, Fresh, Meant(l.const)) = FALSE
      BY <2>3, <2>7, <3>1 DEF Compare
    <3> QED BY <3>1, <3>2 DEF Alike
  <2> QED BY <1>5, <2>5, <2>6, <2>7
<1>7. CASE x \notin Poles \cup Constants(n)
           /\ \A l \in Lits(n) : l.field = f => ~(l.op \in Orders /\ Meant(l.const).kind = "num")
  <2>1. Fresh \in Candidates(n)
    BY <1>1 DEF Poles
  <2> QED BY <1>6, <1>7, <2>1
<1>8. ASSUME x \notin Poles \cup Constants(n), x.kind = "str", NEW l \in Lits(n)
      PROVE  Alike(l, x, Fresh)
  <2>1. CASE ~(l.op \in Orders /\ Meant(l.const).kind = "num")
    BY <1>6, <1>8, <2>1
  <2>2. CASE l.op \in Orders /\ Meant(l.const).kind = "num"
    <3>1. l.op # "is" /\ l.op # "==" /\ l.op # "!="
      BY <2>2 DEF Orders
    <3>2. Compare(l.op, x, Meant(l.const)) = FALSE /\ Compare(l.op, Fresh, Meant(l.const)) = FALSE
      BY <1>8, <2>2, <3>1 DEF Compare, Fresh, Str
    <3> QED BY <3>1, <3>2 DEF Alike
  <2> QED BY <2>1, <2>2
\* Against one that does, a number beside the constants.
<1>9. ASSUME x \notin Poles \cup Constants(n), x.kind = "num",
             NEW o \in Lits(n), o.field = f, o.op \in Orders, Meant(o.const).kind = "num"
      PROVE  \E y \in Candidates(n) : \A l \in Lits(n) : l.field = f => Alike(l, x, y)
  <2>1. ASSUME NEW l \in Lits(n), l.field = f
        PROVE  l.op # "is" /\ l.const.kind # "bool" /\ Meant(l.const) = l.const
    <3>1. l.op # "is" /\ l.const.kind # "bool"
      BY <1>9, <2>1 DEF Mixed, Lits
    <3> QED BY <1>5, <3>1, MeantIs
  <2>2. o.const.n \in nums
    <3>1. o.op # "is" /\ o.const.kind = "num"
      BY <1>9, <2>1
    <3> QED BY <1>5, <3>1 DEF Numbers
  <2>3. x.n \in Int /\ x.n \notin nums
    <3> SUFFICES ASSUME NEW v \in Mentioned(n), v.kind = "num", v.n = x.n PROVE FALSE
      BY <1>4, <1>9 DEF Numbers
    <3>1. v \in Constant
      <4>1. PICK c \in Conditions : v \in Consts(c)
        BY QuestionIs, KindIs, EdgesAre DEF Mentioned
      <4>2. PICK l \in c.lits : v = l.const
        BY <4>1 DEF Consts
      <4> QED BY <4>1, <4>2, LiteralIs
    <3>2. Meant(v) = v /\ v = [kind |-> v.kind, n |-> v.n]
      BY <3>1, MeantIs
    <3>3. v \in Constants(n)
      BY <3>2 DEF Constants
    <3> QED BY <1>4, <1>9, <3>2, <3>3
  <2>4. PICK z \in Between(nums) : z \in Int /\ \A k \in nums : k # z /\ (k < x.n <=> k < z)
    <3> DEFINE g == [l \in Lits(n) |-> l.const.n]
    <3>1. \A l \in Lits(n) : l.const.n \in Int
      BY <1>5, MeantIs
    <3>2. g \in [Lits(n) -> Int] /\ nums \subseteq {g[l] : l \in Lits(n)} /\ IsFiniteSet(Lits(n))
      BY <3>1, LitsAre
    <3> HIDE DEF g, nums
    <3> QED BY <2>2, <2>3, <3>2, SameSide
  <2>5. ASSUME NEW l \in Lits(n), l.field = f PROVE Alike(l, x, Num(z))
    <3>1. l.op # "is" /\ l.const \in Mentioned(n) /\ l.const.n \in Int /\ Meant(l.const) = l.const
          /\ l.op \in {"==", "!="} \cup Orders
      BY <1>5, <2>1, <2>5
    <3>2. CASE l.const.kind # "num"
      <4>1. l.const # x /\ l.const # Num(z) /\ x.kind # l.const.kind /\ Num(z).kind # l.const.kind
        BY <1>9, <3>2 DEF Num
      <4> QED BY <3>1, <4>1 DEF Alike, Compare
    <3>3. CASE l.const.kind = "num"
      <4>1. l.const.n \in nums
        BY <3>1, <3>3 DEF Numbers
      <4>2. l.const.n # z /\ (l.const.n < x.n <=> l.const.n < z) /\ l.const.n # x.n
        BY <2>3, <2>4, <4>1
      <4>3. Num(z).kind = "num" /\ Num(z).n = z
        BY DEF Num
      <4>4. l.const # x /\ l.const # Num(z)
        BY <4>2, <4>3
      <4>5. x.n \in Int /\ z \in Int
        BY <2>3, <2>4
      <4> HIDE DEF nums
      <4>6. Compare(l.op, x, l.const) = Compare(l.op, Num(z), l.const)
        BY <1>9, <3>1, <3>3, <4>2, <4>3, <4>4, <4>5 DEF Compare
      <4> QED BY <3>1, <4>6 DEF Alike
    <3> QED BY <3>2, <3>3
  <2> QED BY <1>2, <2>5
<1>10. CASE x \notin Poles \cup Constants(n) /\ x.kind = "str"
  <2>1. Fresh \in Candidates(n)
    BY <1>1 DEF Poles
  <2> QED BY <1>8, <1>10, <2>1
<1> QED BY <1>3, <1>4, <1>7, <1>9, <1>10

\* So every context has one of candidates that takes the same edge.
LEMMA PartitionIsCovered ==
    ASSUME question \in Questions, NEW n \in Nodes, Complete(n), ~Mixed(n)
    PROVE  Covered(n)
<1> SUFFICES ASSUME NEW v \in 1 .. Cap(n), NEW ctx \in Allowed(Contexts(n, Values, v))
             PROVE  \E c \in Tried(n, v) : Hit(n, c) = Hit(n, ctx)
  BY DEF Covered
<1>1. PICK c \in [Fields(n) -> Values] : ctx = Context(c, v)
  BY DEF Allowed, Contexts
<1> DEFINE Fits(f, y) == \A l \in Lits(n) : l.field = f => Alike(l, c[f], y)
           d == [f \in Fields(n) |-> CHOOSE y \in Candidates(n) : Fits(f, y)]
<1>2. \A f \in Fields(n) : d[f] \in Candidates(n) /\ Fits(f, d[f])
  <2> TAKE f \in Fields(n)
  <2>1. c[f] \in Value
    BY <1>1, FiniteAssumption
  <2>2. \E y \in Candidates(n) : Fits(f, y)
    BY <2>1, SomeCandidateIsAlike
  <2> HIDE DEF Fits
  <2> QED BY <2>2
<1>3. d \in [Fields(n) -> Candidates(n)]
  <2> HIDE DEF Fits
  <2> QED BY <1>2
<1> HIDE DEF d
<1>4. ASSUME NEW l \in Lits(n) PROVE Atom(l, Context(c, v)) = Atom(l, Context(d, v))
  <2>1. l.field \in Fields(n) \cup {Visits} /\ (l.op = "is" \/ l.than = NoField)
    BY LitsAre
  <2>2. CASE l.field = Visits
    <3>1. Context(c, v)[l.field] = Num(2 * v) /\ Context(d, v)[l.field] = Num(2 * v)
      BY <2>2 DEF Context
    <3> QED BY <2>1, <3>1 DEF Atom, Operand
  <2>3. CASE l.field # Visits
    <3>1. Context(c, v)[l.field] = c[l.field] /\ Context(d, v)[l.field] = d[l.field]
      BY <1>1, <1>3, <2>1, <2>3 DEF Context
    <3>2. Alike(l, c[l.field], d[l.field])
      BY <1>2, <2>1, <2>3
    <3> QED BY <2>1, <3>1, <3>2 DEF Atom, Operand, Alike
  <2> QED BY <2>2, <2>3
<1>5. Holds(question.assume, Context(d, v))
  <2>1. question.assume.lits \subseteq Lits(n)
    BY DEF Lits
  <2>2. Holds(question.assume, Context(c, v))
    BY <1>1 DEF Allowed
  <2> QED BY <1>4, <2>1, <2>2 DEF Holds
<1>6. Context(d, v) \in Tried(n, v)
  BY <1>3, <1>5 DEF Tried, Complete, Allowed, Contexts
<1>7. Matching(n, "when", Context(d, v)) = Matching(n, "when", ctx)
  <2>1. \A i \in Kind(n, "when") : Edges(n)[i].on.lits \subseteq Lits(n)
    BY DEF Lits
  <2>2. \A i \in Kind(n, "when") :
          Holds(Edges(n)[i].on, Context(d, v)) = Holds(Edges(n)[i].on, Context(c, v))
    BY <1>4, <2>1 DEF Holds
  <2> QED BY <1>1, <2>2 DEF Matching
<1>8. Hit(n, Context(d, v)) = Hit(n, ctx)
  BY <1>7 DEF Hit
<1> QED BY <1>6, <1>8

\* The docstring's "hits every truth-region a Level M atom set can carve out
\* of one field's value space", for any flow, constants and values: whatever a
\* worker emits, a candidate takes the same edge, unless a field that the node
\* orders is also tested for truth or compared with True or False.
THEOREM CandidatesAlwaysCover == Spec => []CandidatesCover
<1>1. IInv => CandidatesCover
  BY PartitionIsCovered DEF IInv, CandidatesCover
<1>2. Spec => []IInv
  BY InitIInv, StepIInv, PTL DEF Spec
<1> QED BY <1>1, <1>2, PTL

\* Hence "UNREACHABLE" needs no hypothesis on the values a worker emits in a
\* flow none of whose nodes orders a field that it also tests for truth or
\* compares with True or False.
Unmixed == \A n \in Nodes : Complete(n) => ~Mixed(n)
UnmixedNoMeansNo ==
    run # NoRun /\ Unmixed /\ Verdict(run.at) = "no" => ~exhausted /\ run.steps > question.bound
THEOREM NoMeansNoUnlessMixed == Spec => []UnmixedNoMeansNo
<1>1. IInv => UnmixedNoMeansNo
  <2> SUFFICES ASSUME IInv, run # NoRun, Unmixed, Verdict(run.at) = "no"
               PROVE  ~exhausted /\ run.steps > question.bound
    BY DEF UnmixedNoMeansNo
  <2>1. PartitionCovers
    BY PartitionIsCovered DEF IInv, Unmixed, PartitionCovers
  <2>2. ~(exhausted \/ run.steps <= question.bound)
    BY <2>1, IInvIsEnough DEF NoMeansNo
  <2>3. run.steps \in Nat /\ question.bound \in Nat
    BY RunHas, QuestionIs DEF IInv
  <2> QED BY <2>2, <2>3
<1>2. Spec => []IInv
  BY InitIInv, StepIInv, PTL DEF Spec
<1> QED BY <1>1, <1>2, PTL

-----------------------------------------------------------------------------
(* A node reported reachable has a witness that the engine can replay.     *)
(* What is certain stays so, with the parent it has then.                  *)

Certain == {s \in DOMAIN best : best[s] = "certain"}

\* The edge that some candidate takes at state p leads to s.
Hop(p, i, s) == i \in Takeable(p.node, VisitsAt(p)) /\ s = Target(p, i)

\* Certain states are ranked in the order they became so: one is made certain by
\* a parent that is certain before it.
Ranked(rank) ==
    /\ IsFiniteSet(DOMAIN best) /\ rank \in [Certain -> Nat]
    /\ \A s \in Certain : rank[s] < Cardinality(Certain)
    /\ StartState \in Certain /\ StartState \notin DOMAIN parent
    /\ \A s \in Certain \ {StartState} :
        /\ s \in DOMAIN parent /\ parent[s].state \in Certain
        /\ rank[parent[s].state] < rank[s] /\ Hop(parent[s].state, parent[s].edge, s)

\* The moves of a certain state that are sure have a candidate that takes them.
Expanding ==
    moves # {} =>
        /\ cur.mine = "certain" => cur.state \in Certain
        /\ \A m \in moves : m.sure => m.edge \in Takeable(cur.state.node, VisitsAt(cur.state))

CertainInv == Expanding /\ \E rank : Ranked(rank)

LEMMA SureMoves ==
    ASSUME NEW n, NEW v, NEW m \in Moves(n, v), m.sure
    PROVE  m.edge \in Takeable(n, v)
<1> DEFINE may == (IF Complete(n) THEN {} ELSE Kind(n, "when") \ Takeable(n, v))
                  \cup (IF MayFail(n, v) THEN Kind(n, "semantic") ELSE {})
                  \cup (IF question.raises THEN Kind(n, "error") ELSE {})
                  \cup (IF question.waits THEN Kind(n, "event") ELSE {})
<1>1. Moves(n, v) = [edge : Takeable(n, v), sure : {TRUE}] \cup [edge : may, sure : {FALSE}]
  BY DEF Moves
<1> HIDE DEF may
<1> QED BY <1>1

LEMMA FrozenTakeable ==
    ASSUME question' = question
    PROVE  \A n, v : Takeable(n, v)' = Takeable(n, v)
<1> QED BY FrozenEdges, FrozenTried DEF Takeable

LEMMA InitCertain == Init => CertainInv
<1> SUFFICES ASSUME Init PROVE CertainInv
  OBVIOUS
<1> USE DEF Init
<1>1. DOMAIN best = {StartState} /\ best[StartState] = "certain" /\ DOMAIN parent = {}
  OBVIOUS
<1>2. Certain = {StartState}
  BY <1>1 DEF Certain
<1>3. IsFiniteSet({StartState}) /\ Cardinality({StartState}) = 1
  BY FS_Singleton
<1>4. PICK rank : rank = [s \in {StartState} |-> 0]
  OBVIOUS
<1>5. Ranked(rank)
  BY <1>1, <1>2, <1>3, <1>4 DEF Ranked
<1> QED BY <1>5 DEF CertainInv, Expanding

\* Nothing of the search's states changes.
LEMMA CertainStands ==
    ASSUME question' = question, best' = best, parent' = parent, NEW rank, Ranked(rank)
    PROVE  Certain' = Certain /\ Ranked(rank)'
<1>1. Certain' = Certain /\ StartState' = StartState
  BY FrozenCounts DEF Certain
<1>2. \A p, i, s : Hop(p, i, s)' = Hop(p, i, s)
  BY FrozenCounts, FrozenTakeable DEF Hop
<1> QED BY <1>1, <1>2 DEF Ranked

LEMMA ExpandCertain == IInv /\ CertainInv /\ Expand => CertainInv'
<1> SUFFICES ASSUME IInv, CertainInv, Expand PROVE CertainInv'
  OBVIOUS
<1> DEFINE h == Head(frontier)
<1>1. /\ frontier # <<>> /\ question' = question /\ best' = best /\ parent' = parent
      /\ cur' = [state |-> h.state, depth |-> h.depth, mine |-> best[h.state]]
      /\ moves' = IF h.depth >= question.bound THEN {} ELSE Moves(h.state.node, VisitsAt(h.state))
  BY DEF Expand
<1>2. h.state \in DOMAIN best
  <2>1. PICK d : Queue(d)
    BY DEF IInv
  <2> DEFINE R == [state : DOMAIN best, depth : Nat]
  <2>2. frontier \in Seq(R)
    BY <2>1 DEF Queue
  <2>3. h \in R
    <3> HIDE DEF R
    <3> QED BY <1>1, <2>2
  <2> QED BY <2>3
<1>3. PICK rank : Ranked(rank)
  BY DEF CertainInv
<1>4. Certain' = Certain /\ Ranked(rank)'
  BY <1>1, <1>3, CertainStands
<1>5. cur'.state = h.state /\ (cur'.mine = "certain" => h.state \in Certain)
  BY <1>1, <1>2 DEF Certain
<1> HIDE DEF h
<1>6. \A m \in moves' : m.sure => m.edge \in Takeable(h.state.node, VisitsAt(h.state))
  BY <1>1, SureMoves
<1>7. Expanding'
  BY <1>1, <1>4, <1>5, <1>6, FrozenCounts, FrozenTakeable DEF Expanding
<1> QED BY <1>4, <1>7 DEF CertainInv

LEMMA FollowCertain == CertainInv /\ Follow => CertainInv'
<1> SUFFICES ASSUME CertainInv, Follow PROVE CertainInv'
  OBVIOUS
<1> DEFINE m == CHOOSE x \in moves : TRUE
           t == Target(cur.state, m.edge)
           new == t \notin DOMAIN best \/ (best[t] = "may" /\ Certainty(m) = "certain")
<1>1. moves # {} /\ moves' = moves \ {m} /\ m \in moves /\ question' = question /\ cur' = cur
  BY DEF Follow
<1>2. PICK rank : Ranked(rank)
  BY DEF CertainInv
<1>3. \A p, i, s : Hop(p, i, s)' = Hop(p, i, s)
  BY <1>1, FrozenCounts, FrozenTakeable DEF Hop
<1>4. StartState' = StartState
  BY <1>1, FrozenCounts
<1>5. ASSUME Certain \subseteq Certain' PROVE Expanding'
  BY <1>1, <1>5, FrozenCounts, FrozenTakeable DEF Expanding, CertainInv
<1>6. CASE new
  <2>1. /\ best' = [s \in DOMAIN best \cup {t} |-> IF s = t THEN Certainty(m) ELSE best[s]]
        /\ parent' = [s \in DOMAIN parent \cup {t} |->
                        IF s = t THEN [state |-> cur.state, edge |-> m.edge] ELSE parent[s]]
    BY <1>6 DEF Follow
  <2>2. t \notin Certain /\ t # StartState
    BY <1>2, <1>6 DEF Certain, Ranked
  <2>3. Certainty(m) = "certain" => cur.state \in Certain /\ Hop(cur.state, m.edge, t)
    BY <1>1 DEF CertainInv, Expanding, Certainty, Hop
  <2> HIDE DEF m, t, new
  <2>4. /\ DOMAIN best' = DOMAIN best \cup {t} /\ best'[t] = Certainty(m)
        /\ \A s \in DOMAIN best : s # t => best'[s] = best[s]
        /\ DOMAIN parent' = DOMAIN parent \cup {t} /\ parent'[t] = [state |-> cur.state, edge |-> m.edge]
        /\ \A s \in DOMAIN parent : s # t => parent'[s] = parent[s]
    BY <2>1
  <2>5. IsFiniteSet(DOMAIN best')
    BY <1>2, <2>4, FS_AddElement DEF Ranked
  <2>6. StartState \notin DOMAIN parent'
    BY <1>2, <2>2, <2>4 DEF Ranked
  <2>7. CASE Certainty(m) = "certain"
    <3>1. Certain' = Certain \cup {t}
      BY <2>4, <2>2, <2>7 DEF Certain
    <3>2. IsFiniteSet(Certain)
      <4>1. Certain \in SUBSET DOMAIN best
        BY DEF Certain
      <4> QED BY <1>2, <4>1, FS_Subset DEF Ranked
    <3>3. Cardinality(Certain) \in Nat /\ Cardinality(Certain') = Cardinality(Certain) + 1
      BY <2>2, <3>1, <3>2, FS_AddElement, FS_CardinalityType
    <3>4. PICK high : high = [s \in Certain' |-> IF s = t THEN Cardinality(Certain) ELSE rank[s]]
      OBVIOUS
    <3>5. /\ high \in [Certain' -> Nat] /\ high[t] = Cardinality(Certain)
          /\ \A s \in Certain : high[s] = rank[s] /\ rank[s] \in Nat /\ rank[s] < Cardinality(Certain)
      BY <1>2, <2>2, <3>1, <3>3, <3>4 DEF Ranked
    <3>6. \A s \in Certain' : high[s] < Cardinality(Certain')
      BY <3>1, <3>3, <3>5
    <3>7. ASSUME NEW s \in Certain' \ {StartState}
          PROVE  /\ s \in DOMAIN parent' /\ parent'[s].state \in Certain'
                 /\ high[parent'[s].state] < high[s] /\ Hop(parent'[s].state, parent'[s].edge, s)
      <4>1. CASE s = t
        BY <2>3, <2>4, <2>7, <3>1, <3>5, <4>1
      <4>2. CASE s # t
        <5>1. s \in Certain \ {StartState}
          BY <3>1, <3>7, <4>2
        <5>2. /\ s \in DOMAIN parent /\ parent[s].state \in Certain
              /\ rank[parent[s].state] < rank[s] /\ Hop(parent[s].state, parent[s].edge, s)
          BY <1>2, <5>1 DEF Ranked
        <5> QED BY <2>4, <3>1, <3>5, <4>2, <5>1, <5>2
      <4> QED BY <4>1, <4>2
    <3>8. Ranked(high)'
      BY <1>2, <1>3, <1>4, <2>5, <2>6, <3>1, <3>5, <3>6, <3>7 DEF Ranked
    <3>9. Expanding'
      BY <1>5, <3>1
    <3> QED BY <3>8, <3>9 DEF CertainInv
  <2>8. CASE Certainty(m) # "certain"
    <3>1. Certain' = Certain
      BY <2>2, <2>4, <2>8 DEF Certain
    <3>2. Ranked(rank)'
      BY <1>2, <1>3, <1>4, <2>2, <2>4, <2>5, <2>6, <3>1 DEF Ranked
    <3> QED BY <1>5, <3>1, <3>2 DEF CertainInv
  <2> QED BY <2>7, <2>8
<1>7. CASE ~new
  <2>1. best' = best /\ parent' = parent
    BY <1>7 DEF Follow
  <2>2. Certain' = Certain /\ Ranked(rank)'
    BY <1>1, <1>2, <2>1, CertainStands
  <2> QED BY <1>5, <2>2 DEF CertainInv
<1> QED BY <1>6, <1>7

LEMMA StepCertain == IInv /\ CertainInv /\ [Next]_vars => CertainInv'
<1> SUFFICES ASSUME IInv, CertainInv, [Next]_vars PROVE CertainInv'
  OBVIOUS
<1>1. CASE Expand
  BY <1>1, ExpandCertain
<1>2. CASE Follow
  BY <1>2, FollowCertain
<1>3. CASE UNCHANGED <<question, search>>
  <2>1. question' = question /\ best' = best /\ parent' = parent /\ cur' = cur /\ moves' = moves
    BY <1>3 DEF search
  <2>2. PICK rank : Ranked(rank)
    BY DEF CertainInv
  <2>3. Certain' = Certain /\ Ranked(rank)'
    BY <2>1, <2>2, CertainStands
  <2>4. Expanding'
    BY <2>1, <2>3, FrozenCounts, FrozenTakeable DEF Expanding, CertainInv
  <2> QED BY <2>3, <2>4 DEF CertainInv
<1>4. Start \/ Route \/ Raise \/ Resume => UNCHANGED <<question, search>>
  BY DEF Start, Route, Raise, Resume
<1>5. UNCHANGED vars => UNCHANGED <<question, search>>
  BY DEF vars, search
<1> QED BY <1>1, <1>2, <1>3, <1>4, <1>5 DEF Next

\* One state back along the parents, and the states of k steps back.
Up(x) == IF x \in DOMAIN parent THEN parent[x].state ELSE x
Ups(f, s, k) == [j \in 0 .. k |-> IF j = 0 THEN s ELSE Up(f[j - 1])]

LEMMA UpsExist ==
    ASSUME NEW N \in Nat, NEW s
    PROVE  \E f : f = Ups(f, s, N)
<1> DEFINE S == {k \in 0 .. N : \E f : f = Ups(f, s, k)}
<1>1. 0 \in S
  <2> DEFINE f == [j \in 0 .. 0 |-> s]
  <2>1. f = Ups(f, s, 0)
    BY DEF Ups
  <2> QED BY <2>1
<1>2. ASSUME NEW k \in 0 .. N, k < N, k \in S PROVE k + 1 \in S
  <2>1. PICK f : f = Ups(f, s, k)
    BY <1>2
  <2> DEFINE h == [j \in 0 .. k + 1 |-> IF j = k + 1 THEN Up(f[k]) ELSE f[j]]
             g == Ups(h, s, k + 1)
  <2>2. \A j \in 0 .. k : h[j] = f[j]
    OBVIOUS
  <2>3. ASSUME NEW j \in 0 .. k + 1 PROVE h[j] = g[j]
    <3>1. g[j] = IF j = 0 THEN s ELSE Up(h[j - 1])
      BY DEF Ups
    <3>2. CASE j = k + 1
      <4>1. h[j - 1] = f[k] /\ j # 0
        BY <2>2, <3>2
      <4> QED BY <3>1, <3>2, <4>1
    <3>3. CASE j # k + 1
      <4>1. j \in 0 .. k
        BY <3>3
      <4>2. f[j] = IF j = 0 THEN s ELSE Up(f[j - 1])
        BY <2>1, <4>1 DEF Ups
      <4>3. j # 0 => h[j - 1] = f[j - 1]
        <5>1. j # 0 => j - 1 \in 0 .. k
          BY <4>1
        <5> QED BY <2>2, <5>1
      <4> HIDE DEF h, g
      <4> QED BY <2>2, <3>1, <4>1, <4>2, <4>3
    <3> QED BY <3>2, <3>3
  <2>4. h = g
    <3>1. h = [j \in 0 .. k + 1 |-> h[j]] /\ g = [j \in 0 .. k + 1 |-> g[j]]
      BY DEF Ups
    <3> HIDE DEF h, g
    <3> QED BY <2>3, <3>1
  <2> HIDE DEF h
  <2> QED BY <1>2, <2>4
<1>3. 0 .. N \subseteq S
  <2> HIDE DEF S
  <2> QED BY <1>1, <1>2, UpTo
<1> QED BY <1>3

LEMMA BackIs ==
    ASSUME IsFiniteSet(DOMAIN best), NEW s
    PROVE  /\ Cardinality(DOMAIN best) \in Nat
           /\ DOMAIN Back(s) = 0 .. Cardinality(DOMAIN best) /\ Back(s)[0] = s
           /\ \A k \in 0 .. Cardinality(DOMAIN best) :
                k < Cardinality(DOMAIN best) => Back(s)[k + 1] = Up(Back(s)[k])
<1> DEFINE N == Cardinality(DOMAIN best)
           back[k \in 0 .. N] ==
             IF k = 0 THEN s ELSE IF back[k - 1] \in DOMAIN parent THEN parent[back[k - 1]].state ELSE back[k - 1]
<1>1. N \in Nat
  BY FS_CardinalityType
<1>2. back = Ups(back, s, N)
  <2>1. PICK f : f = Ups(f, s, N)
    BY <1>1, UpsExist
  <2>2. f = [k \in 0 .. N |->
               IF k = 0 THEN s ELSE IF f[k - 1] \in DOMAIN parent THEN parent[f[k - 1]].state ELSE f[k - 1]]
    BY <2>1 DEF Ups, Up
  <2>3. back = [k \in 0 .. N |->
               IF k = 0 THEN s ELSE IF back[k - 1] \in DOMAIN parent THEN parent[back[k - 1]].state ELSE back[k - 1]]
    BY <2>2
  <2> HIDE DEF back, N
  <2> QED BY <2>3 DEF Ups, Up
<1>3. Back(s) = back
  BY DEF Back
<1> HIDE DEF back, N
<1>4. DOMAIN back = 0 .. N /\ back[0] = s
  BY <1>1, <1>2 DEF Ups
<1>5. \A k \in 0 .. N : k < N => back[k + 1] = Up(back[k])
  <2> TAKE k \in 0 .. N
  <2>1. k < N => k + 1 \in 0 .. N /\ k + 1 # 0 /\ k + 1 - 1 = k
    BY <1>1
  <2> QED BY <1>2, <2>1 DEF Ups
<1> QED BY <1>1, <1>3, <1>4, <1>5 DEF N

\* Going back from a certain state, the rank falls until the start is met.
LEMMA BackClimbs ==
    ASSUME NEW rank, Ranked(rank), NEW s \in Certain, NEW N, N = Cardinality(DOMAIN best)
    PROVE  \A k \in 0 .. N :
             /\ Back(s)[k] \in Certain
             /\ Back(s)[k] = StartState \/ rank[Back(s)[k]] <= rank[s] - k
<1> DEFINE b == Back(s)
           Low(k) == b[k] \in Certain /\ (b[k] = StartState \/ rank[b[k]] <= rank[s] - k)
           S == {k \in 0 .. N : Low(k)}
<1>1. /\ N \in Nat /\ b[0] = s /\ \A k \in 0 .. N : k < N => b[k + 1] = Up(b[k])
      /\ rank[s] \in Nat /\ \A x \in Certain : rank[x] \in Nat
  BY BackIs DEF Ranked
<1> HIDE DEF b
<1>2. 0 \in S
  BY <1>1
<1>3. ASSUME NEW k \in 0 .. N, k < N, k \in S PROVE k + 1 \in S
  <2>1. b[k + 1] = Up(b[k]) /\ b[k] \in Certain
    BY <1>1, <1>3
  <2>2. CASE b[k] = StartState
    BY <1>1, <1>3, <2>1, <2>2 DEF Up, Ranked
  <2>3. CASE b[k] # StartState
    <3>1. /\ b[k] \in DOMAIN parent /\ parent[b[k]].state \in Certain
          /\ rank[parent[b[k]].state] < rank[b[k]]
      BY <2>1, <2>3 DEF Ranked
    <3>2. b[k + 1] = parent[b[k]].state /\ rank[b[k]] <= rank[s] - k
      BY <1>3, <2>1, <2>3, <3>1 DEF Up
    <3>3. rank[b[k + 1]] \in Nat /\ rank[b[k]] \in Nat
      BY <1>1, <2>1, <3>1, <3>2
    <3>4. rank[b[k + 1]] <= rank[s] - (k + 1) /\ k + 1 \in 0 .. N
      BY <1>1, <1>3, <3>1, <3>2, <3>3
    <3> QED BY <3>1, <3>2, <3>4
  <2> QED BY <2>2, <2>3
<1>4. 0 .. N \subseteq S
  <2> HIDE DEF S
  <2> QED BY <1>1, <1>2, <1>3, UpTo
<1> QED BY <1>4 DEF b

\* The witness of s is the path that b climbs in N certain parents, read from the start.
Climbs(s, N, b) ==
    /\ \A k \in 0 .. N : b[k] \in Certain
    /\ b[N] = StartState
    /\ \A k \in 0 .. N : k < N => b[k] # StartState /\ b[k + 1] = parent[b[k]].state
    /\ Witness(s) = [i \in 1 .. N |-> [node |-> b[N - i + 1].node, state |-> b[N - i + 1],
                                       edge |-> parent[b[N - i]].edge]]

\* So the witness of a certain state is the path of certain parents from the
\* start to it.
LEMMA WitnessIs ==
    ASSUME NEW rank, Ranked(rank), NEW s \in Certain
    PROVE  \E N \in Nat : \E b : Climbs(s, N, b)
<1> DEFINE M == Cardinality(DOMAIN best)
           b == Back(s)
           T == {k \in DOMAIN b : b[k] \notin DOMAIN parent}
           N == Min(T)
<1>1. /\ M \in Nat /\ DOMAIN b = 0 .. M /\ \A k \in 0 .. M : k < M => b[k + 1] = Up(b[k])
      /\ rank[s] \in Nat /\ \A x \in Certain : rank[x] \in Nat
  BY BackIs DEF Ranked
<1>2. \A k \in 0 .. M : b[k] \in Certain /\ (b[k] = StartState \/ rank[b[k]] <= rank[s] - k)
  BY BackClimbs
<1>3. rank[s] < M
  <2>1. Certain \in SUBSET DOMAIN best /\ IsFiniteSet(DOMAIN best)
    BY DEF Certain, Ranked
  <2>2. Cardinality(Certain) <= M /\ Cardinality(Certain) \in Nat
    BY <2>1, FS_Subset, FS_CardinalityType
  <2>3. rank[s] < Cardinality(Certain)
    BY DEF Ranked
  <2> HIDE DEF M
  <2> QED BY <1>1, <2>2, <2>3
<1> HIDE DEF M, b
<1>4. b[M] = StartState
  BY <1>1, <1>2, <1>3
<1>5. T \subseteq Nat /\ M \in T
  BY <1>1, <1>4 DEF Ranked
<1>6. N \in T /\ \A k \in T : N <= k
  <2>1. \E x \in T : \A y \in T : x <= y
    <3> HIDE DEF T
    <3> QED BY <1>5, Least
  <2> HIDE DEF T
  <2> QED BY <2>1 DEF Min
<1>7. N \in 0 .. M /\ N \in Nat
  BY <1>1, <1>6
<1> HIDE DEF N
<1>8. \A k \in 0 .. N : k \in 0 .. M /\ b[k] \in Certain
  BY <1>1, <1>2, <1>7
<1>9. b[N] = StartState
  BY <1>6, <1>8, <1>7 DEF Ranked
<1>10. ASSUME NEW k \in 0 .. N, k < N PROVE b[k] # StartState /\ b[k + 1] = parent[b[k]].state
  <2>1. k \notin T /\ k \in 0 .. M /\ k < M
    <3> HIDE DEF T
    <3> QED BY <1>1, <1>6, <1>7, <1>10
  <2>2. b[k] \in DOMAIN parent
    BY <1>1, <2>1
  <2> QED BY <1>1, <2>1, <2>2 DEF Up, Ranked
<1>11. Witness(s) = [i \in 1 .. N |-> [node |-> b[N - i + 1].node, state |-> b[N - i + 1],
                                       edge |-> parent[b[N - i]].edge]]
  BY DEF Witness, b, N
<1> HIDE DEF T
<1> QED BY <1>7, <1>8, <1>9, <1>10, <1>11 DEF Climbs

\* How often each node is entered in the first i hops of a witness.
Entries(w, i) == [n \in Nodes |-> Cardinality({j \in 1 .. i : w[j].node = n})]

LEMMA EntriesGrow ==
    ASSUME NEW w, NEW i \in Nat, w[i + 1].node \in Nodes
    PROVE  /\ Entries(w, i) \in [Nodes -> Nat]
           /\ Entries(w, i + 1) = [Entries(w, i) EXCEPT ![w[i + 1].node] = @ + 1]
<1> DEFINE At(k, n) == {j \in 1 .. k : w[j].node = n}
<1>1. ASSUME NEW n \in Nodes
      PROVE  /\ Cardinality(At(i, n)) \in Nat
             /\ Cardinality(At(i + 1, n)) = Cardinality(At(i, n)) + (IF w[i + 1].node = n THEN 1 ELSE 0)
  <2>1. IsFiniteSet(1 .. i) /\ At(i, n) \in SUBSET (1 .. i)
    BY FS_Interval
  <2>2. IsFiniteSet(At(i, n)) /\ Cardinality(At(i, n)) \in Nat
    <3> HIDE DEF At
    <3> QED BY <2>1, FS_Subset, FS_CardinalityType
  <2>3. i + 1 \notin At(i, n)
    OBVIOUS
  <2>4. CASE w[i + 1].node = n
    <3>1. At(i + 1, n) = At(i, n) \cup {i + 1}
      BY <2>4
    <3> HIDE DEF At
    <3> QED BY <2>2, <2>3, <2>4, <3>1, FS_AddElement
  <2>5. CASE w[i + 1].node # n
    <3>1. At(i + 1, n) = At(i, n)
      BY <2>5
    <3> HIDE DEF At
    <3> QED BY <2>2, <2>5, <3>1
  <2> QED BY <2>4, <2>5
<1>2. /\ Entries(w, i) = [n \in Nodes |-> Cardinality(At(i, n))]
      /\ Entries(w, i + 1) = [n \in Nodes |-> Cardinality(At(i + 1, n))]
  BY DEF Entries
<1> HIDE DEF At
<1> QED BY <1>1, <1>2

LEMMA NoEntries == ASSUME NEW w PROVE Entries(w, 0) = [n \in Nodes |-> 0]
<1>1. \A n : {j \in 1 .. 0 : w[j].node = n} = {}
  OBVIOUS
<1>2. Cardinality({}) = 0
  BY FS_EmptySet
<1> QED BY <1>1, <1>2 DEF Entries

\* What is sure at the i-th hop of a witness: the state of the search shadows the
\* engine's counts, and some candidate takes the edge.
SureHop(w, i) ==
    /\ w[i].node \in Nodes /\ w[i].state = Shadow(w[i].node, Entries(w, i))
    /\ w[i].edge \in Takeable(w[i].node, VisitsAt(w[i].state))
    /\ Entries(w, i) \in [Nodes -> Nat] /\ Entries(w, i)[w[i].node] \in Nat \ {0}

LEMMA TakeableIs ==
    ASSUME question \in Questions, NEW n \in Nodes, NEW v, NEW i \in Takeable(n, v)
    PROVE  i \in Kind(n, "when") /\ i \in DOMAIN Edges(n)
<1>1. PICK ctx : Matching(n, "when", ctx) # {} /\ i = First(Matching(n, "when", ctx))
  BY DEF Takeable
<1> QED BY <1>1, MatchIs, KindIs

LEMMA HopsAreSure ==
    ASSUME question \in Questions, NEW rank, Ranked(rank), NEW s \in Certain
    PROVE  \A i \in DOMAIN Witness(s) : SureHop(Witness(s), i)
<1>0. PICK N \in Nat : \E b : Climbs(s, N, b)
  BY WitnessIs
<1>1. PICK b :
         /\ \A k \in 0 .. N : b[k] \in Certain
         /\ b[N] = StartState
         /\ \A k \in 0 .. N : k < N => b[k] # StartState /\ b[k + 1] = parent[b[k]].state
         /\ Witness(s) = [i \in 1 .. N |-> [node |-> b[N - i + 1].node, state |-> b[N - i + 1],
                                            edge |-> parent[b[N - i]].edge]]
  BY <1>0 DEF Climbs
<1> DEFINE w == Witness(s)
<1>2. \A i \in 1 .. N : /\ w[i].node = b[N - i + 1].node /\ w[i].state = b[N - i + 1]
                        /\ w[i].edge = parent[b[N - i]].edge
  BY <1>1
<1>3. DOMAIN w = 1 .. N
  BY <1>1
<1> HIDE DEF w
<1>4. ASSUME NEW i \in 1 .. N
      PROVE  w[i].edge \in Takeable(w[i].node, VisitsAt(w[i].state)) /\ b[N - i] = Target(w[i].state, w[i].edge)
  <2>1. N - i \in 0 .. N /\ N - i < N /\ (N - i) + 1 = N - i + 1
    OBVIOUS
  <2>2. b[N - i] \in Certain \ {StartState} /\ parent[b[N - i]].state = b[N - i + 1]
    BY <1>1, <2>1
  <2>3. Hop(parent[b[N - i]].state, parent[b[N - i]].edge, b[N - i])
    BY <2>2 DEF Ranked
  <2> QED BY <1>2, <2>2, <2>3 DEF Hop
<1> DEFINE Fine(i) == w[i].node \in Nodes /\ w[i].state = Shadow(w[i].node, Entries(w, i))
                      /\ Entries(w, i) \in [Nodes -> Nat] /\ Entries(w, i)[w[i].node] \in Nat \ {0}
           S == {k \in 0 .. N : k = 0 \/ Fine(k)}
<1>5. 0 \in S
  OBVIOUS
<1>6. ASSUME NEW k \in 0 .. N, k < N, k \in S PROVE k + 1 \in S
  <2>1. k + 1 \in 1 .. N /\ k + 1 \in 0 .. N
    BY <1>6
  <2>2. CASE k = 0
    <3>1. w[1].state = StartState /\ w[1].node = StartState.node
      <4>1. N - 1 + 1 = N /\ 1 \in 1 .. N
        BY <2>1, <2>2
      <4> QED BY <1>1, <1>2, <4>1
    <3>2. question.start \in Nodes /\ StartState.node = question.start
      BY QuestionIs DEF StartState, State
    <3>3. Entries(w, 0) \in [Nodes -> Nat] /\ Entries(w, 1) = [Entries(w, 0) EXCEPT ![question.start] = @ + 1]
      <4>1. w[0 + 1].node = question.start /\ w[0 + 1].node \in Nodes /\ 0 + 1 = 1 /\ 0 \in Nat
        BY <3>1, <3>2
      <4>2. Entries(w, 0) \in [Nodes -> Nat] /\ Entries(w, 0 + 1) = [Entries(w, 0) EXCEPT ![w[0 + 1].node] = @ + 1]
        BY <4>1, EntriesGrow
      <4> QED BY <4>1, <4>2
    <3>4. StartState = Shadow(question.start, Entries(w, 1))
      <4>1. Entries(w, 0) = [n \in Nodes |-> 0]
        BY NoEntries
      <4> QED BY <3>3, <4>1, StartShadow
    <3>5. Entries(w, 1) \in [Nodes -> Nat] /\ Entries(w, 1)[question.start] \in Nat \ {0}
      BY <3>2, <3>3, CountedVisit
    <3>6. Fine(1)
      BY <3>1, <3>2, <3>4, <3>5
    <3> QED BY <2>1, <2>2, <3>6
  <2>3. CASE k # 0
    <3> DEFINE n == w[k].node
               t == Edges(n)[w[k].edge].to
               visits == Entries(w, k)
    <3>1. k \in 1 .. N /\ n \in Nodes /\ w[k].state = Shadow(n, visits) /\ visits \in [Nodes -> Nat]
      BY <1>6, <2>3
    <3>2. w[k].edge \in DOMAIN Edges(n) /\ b[N - k] = Target(w[k].state, w[k].edge)
      BY <1>4, <3>1, TakeableIs
    <3>3. t \in Nodes
      BY <3>1, <3>2, EdgesAre
    <3>4. b[N - k] = Shadow(t, [visits EXCEPT ![t] = @ + 1])
      <4>1. Target(Shadow(n, visits), w[k].edge) = Shadow(t, [visits EXCEPT ![t] = @ + 1])
        <5> HIDE DEF n, visits
        <5> QED BY <3>1, <3>2, TargetShadow DEF t
      <4> QED BY <3>1, <3>2, <4>1
    <3>5. w[k + 1].state = b[N - k] /\ w[k + 1].node = b[N - k].node
      <4>1. N - (k + 1) + 1 = N - k
        OBVIOUS
      <4> QED BY <1>2, <2>1, <4>1
    <3>6. w[k + 1].node = t
      BY <3>4, <3>5 DEF Shadow, State
    <3>7. Entries(w, k + 1) = [visits EXCEPT ![t] = @ + 1]
      BY <3>3, <3>6, EntriesGrow
    <3>8. Entries(w, k + 1) \in [Nodes -> Nat] /\ Entries(w, k + 1)[t] \in Nat \ {0}
      BY <3>1, <3>3, <3>7, CountedVisit
    <3>9. Fine(k + 1)
      BY <3>3, <3>4, <3>5, <3>6, <3>7, <3>8
    <3> QED BY <2>1, <3>9
  <2> QED BY <2>2, <2>3
<1>7. 0 .. N \subseteq S
  <2> HIDE DEF S
  <2> QED BY <1>5, <1>6, UpTo
<1>8. \A i \in 1 .. N : i # 0 /\ i \in 0 .. N
  OBVIOUS
<1>9. \A i \in 1 .. N : SureHop(w, i)
  BY <1>4, <1>7, <1>8 DEF SureHop
<1> QED BY <1>3, <1>9 DEF w

AllPlain == \A n \in Nodes : \A i \in Kind(n, "when") : Plain(Edges(n)[i].on)

\* So the engine, counting on, takes each edge of the witness.
LEMMA CertainReplays ==
    ASSUME question \in Questions, AllPlain, NEW w, \A i \in DOMAIN w : SureHop(w, i)
    PROVE  Replays(w)
<1> SUFFICES ASSUME NEW i \in DOMAIN w
             PROVE  \E ctx \in Tried(w[i].node, VisitsAt(w[i].state)) :
                      LET v == Cardinality({j \in 1 .. i : w[j].node = w[i].node})
                          hits == Matching(w[i].node, "when", [ctx EXCEPT ![Visits] = Num(2 * v)])
                      IN hits # {} /\ First(hits) = w[i].edge
  BY DEF Replays
<1> DEFINE n == w[i].node
           v == Cardinality({j \in 1 .. i : w[j].node = n})
           seen == VisitsAt(w[i].state)
<1>1. n \in Nodes /\ w[i].edge \in Takeable(n, seen) /\ v \in Nat \ {0} /\ seen = Shown(n, v)
  <2>1. SureHop(w, i)
    OBVIOUS
  <2>2. n \in Nodes /\ Entries(w, i)[n] = v
    BY <2>1 DEF SureHop, Entries
  <2> QED BY <2>1, <2>2, VisitsAtShadow DEF SureHop
<1> HIDE DEF v, seen, n
<1>2. PICK ctx \in Tried(n, seen) : Matching(n, "when", ctx) # {} /\ w[i].edge = First(Matching(n, "when", ctx))
  BY <1>1 DEF Takeable
<1>3. PICK c \in [Fields(n) -> Candidates(n)] : ctx = Context(c, seen)
  BY <1>2 DEF Tried, Allowed, Contexts
<1>4. ASSUME NEW k \in Kind(n, "when")
      PROVE  Holds(Edges(n)[k].on, Context(c, v)) = Holds(Edges(n)[k].on, Context(c, seen))
  <2>1. Plain(Edges(n)[k].on)
    BY <1>1, <1>4 DEF AllPlain
  <2>2. DOMAIN c = Fields(n)
    BY <1>3
  <2> QED BY <1>1, <1>4, <2>1, <2>2, SameShown
<1>5. Matching(n, "when", Context(c, v)) = Matching(n, "when", Context(c, seen))
  BY <1>4 DEF Matching
<1>6. [ctx EXCEPT ![Visits] = Num(2 * v)] = Context(c, v)
  BY <1>3 DEF Context
<1> QED BY <1>2, <1>3, <1>5, <1>6 DEF v, seen, n

CertaintyInv == IInv /\ CertainInv

LEMMA AlwaysCertain == Spec => []CertaintyInv
<1>1. Init => CertaintyInv
  BY InitIInv, InitCertain DEF CertaintyInv
<1>2. CertaintyInv /\ [Next]_vars => CertaintyInv'
  BY StepIInv, StepCertain DEF CertaintyInv
<1> QED BY <1>1, <1>2, PTL DEF Spec

LEMMA CertainIsWitnessed ==
    ASSUME CertaintyInv, AllPlain, NEW s \in Certain
    PROVE  Replays(Witness(s))
<1>1. PICK rank : Ranked(rank)
  BY DEF CertaintyInv, CertainInv
<1>2. \A i \in DOMAIN Witness(s) : SureHop(Witness(s), i)
  BY <1>1, HopsAreSure DEF CertaintyInv, IInv
<1> QED BY <1>2, CertainReplays DEF CertaintyInv, IInv

\* "Every hop proven with a concrete example outcome": in every flow that does
\* not compare visits with a field, a state the search holds for certain has a
\* witness whose every edge the engine takes, with the counts it has by then,
\* for some outcome that was tried.
THEOREM YesIsAlwaysWitnessed == Spec => []YesIsWitnessed
<1>1. CertaintyInv => YesIsWitnessed
  <2> SUFFICES ASSUME CertaintyInv, PlainCounters, NEW s \in DOMAIN best, best[s] = "certain"
               PROVE  Replays(Witness(s))
    BY DEF YesIsWitnessed, WitnessesReplay
  <2>1. AllPlain
    BY DEF PlainCounters, AllPlain, Plain
  <2>2. s \in Certain
    BY DEF Certain
  <2> QED BY <2>1, <2>2, CertainIsWitnessed
<1> QED BY <1>1, AlwaysCertain, PTL

-----------------------------------------------------------------------------
(* "Verdicts are exact" where nothing was over-approximated.               *)

\* All that can happen at a node is that a Level M condition holds.
Deterministic ==
    \A n \in Nodes :
        /\ Complete(n) /\ Kind(n, "semantic") = {}
        /\ question.raises => Kind(n, "error") = {}
        /\ question.waits => Kind(n, "event") = {}

\* Then whatever the search finds is certain, and whatever it follows is sure.
AllSure ==
    /\ \A s \in DOMAIN best : best[s] = "certain" /\ s.node \in Nodes
    /\ moves # {} => cur.mine = "certain"
    /\ \A m \in moves : m.sure

SureInv == Deterministic => AllSure

LEMMA FrozenDeterministic == ASSUME question' = question PROVE Deterministic' = Deterministic
<1>1. \A n : Complete(n)' = Complete(n)
  BY FrozenEdges, FrozenTried
<1> QED BY <1>1, FrozenEdges DEF Deterministic

LEMMA MovesAreSure ==
    ASSUME Deterministic, NEW n \in Nodes, NEW v, NEW m \in Moves(n, v)
    PROVE  m.sure
<1> DEFINE may == (IF Complete(n) THEN {} ELSE Kind(n, "when") \ Takeable(n, v))
                  \cup (IF MayFail(n, v) THEN Kind(n, "semantic") ELSE {})
                  \cup (IF question.raises THEN Kind(n, "error") ELSE {})
                  \cup (IF question.waits THEN Kind(n, "event") ELSE {})
<1>1. Moves(n, v) = [edge : Takeable(n, v), sure : {TRUE}] \cup [edge : may, sure : {FALSE}]
  BY DEF Moves
<1>2. may = {}
  BY DEF Deterministic
<1> HIDE DEF may
<1> QED BY <1>1, <1>2

LEMMA StepSure == CertaintyInv /\ SureInv /\ [Next]_vars => SureInv'
<1> SUFFICES ASSUME CertaintyInv, SureInv, [Next]_vars, Deterministic' PROVE AllSure'
  BY DEF SureInv
<1>1. question' = question
  BY DEF Next, vars, Expand, Follow, Start, Route, Raise, Resume
<1>2. Deterministic /\ AllSure
  BY <1>1, FrozenDeterministic DEF SureInv
<1>3. CASE Expand
  <2> DEFINE h == Head(frontier)
  <2>1. /\ frontier # <<>> /\ best' = best
        /\ cur' = [state |-> h.state, depth |-> h.depth, mine |-> best[h.state]]
        /\ moves' = IF h.depth >= question.bound THEN {} ELSE Moves(h.state.node, VisitsAt(h.state))
    BY <1>3 DEF Expand
  <2>2. h.state \in DOMAIN best /\ h.state.node \in Nodes
    <3>1. PICK d : Queue(d)
      BY DEF CertaintyInv, IInv
    <3> DEFINE R == [state : DOMAIN best, depth : Nat]
    <3>2. frontier \in Seq(R)
      BY <3>1 DEF Queue
    <3>3. h \in R
      <4> HIDE DEF R
      <4> QED BY <2>1, <3>2
    <3> QED BY <1>2, <3>3 DEF AllSure
  <2> HIDE DEF h
  <2> QED BY <1>2, <2>1, <2>2, MovesAreSure DEF AllSure
<1>4. CASE Follow
  <2> DEFINE m == CHOOSE x \in moves : TRUE
             t == Target(cur.state, m.edge)
  <2>1. m \in moves /\ moves' = moves \ {m} /\ cur' = cur
    BY <1>4 DEF Follow
  <2>2. Certainty(m) = "certain"
    BY <1>2, <2>1 DEF AllSure, Certainty
  <2>3. t.node \in Nodes
    <3>1. cur.state \in Certain /\ m.edge \in Takeable(cur.state.node, VisitsAt(cur.state))
      BY <1>2, <2>1 DEF CertaintyInv, CertainInv, Expanding, AllSure
    <3>2. cur.state.node \in Nodes
      BY <1>2, <3>1 DEF AllSure, Certain
    <3>3. m.edge \in Kind(cur.state.node, "when")
      BY <3>1, <3>2, TakeableIs DEF CertaintyInv, IInv
    <3>4. Edges(cur.state.node)[m.edge].to \in Nodes
      BY <3>2, <3>3, EdgesAre, KindIs DEF CertaintyInv, IInv
    <3> HIDE DEF m
    <3> QED BY <3>4 DEF Target, State
  <2>4. \/ best' = best
        \/ best' = [s \in DOMAIN best \cup {t} |-> IF s = t THEN Certainty(m) ELSE best[s]]
    BY <1>4 DEF Follow
  <2> HIDE DEF m, t
  <2> QED BY <1>2, <2>1, <2>2, <2>3, <2>4 DEF AllSure
<1>5. CASE UNCHANGED <<question, search>>
  BY <1>2, <1>5 DEF AllSure, search
<1>6. Start \/ Route \/ Raise \/ Resume => UNCHANGED <<question, search>>
  BY DEF Start, Route, Raise, Resume
<1>7. UNCHANGED vars => UNCHANGED <<question, search>>
  BY DEF vars, search
<1> QED BY <1>3, <1>4, <1>5, <1>6, <1>7 DEF Next

\* "For Level M predicates ... verdicts are exact": in a flow of such conditions
\* alone, where no node orders a field that it also tests for truth or compares
\* with True or False, each node is "yes" with a witness that the engine can
\* replay, or "no" and entered by no run, but for runs longer than a bound that
\* cut the search.
ExactVerdicts ==
    run # NoRun /\ Deterministic /\ (\A n \in Nodes : ~Mixed(n)) =>
        \A n \in Nodes :
            \/ Verdict(n) = "yes" /\ \E s \in DOMAIN best : s.node = n /\ Replays(Witness(s))
            \/ Verdict(n) = "no" /\ (run.at = n => ~exhausted /\ run.steps > question.bound)
THEOREM VerdictsAreExact == Spec => []ExactVerdicts
<1>1. Spec => []SureInv
  <2>1. Init => SureInv
    BY QuestionIs DEF Init, SureInv, AllSure, StartState, State
  <2> QED BY <2>1, AlwaysCertain, StepSure, PTL DEF Spec
<1>2. CertaintyInv /\ SureInv => ExactVerdicts
  <2> SUFFICES ASSUME CertaintyInv, SureInv, run # NoRun, Deterministic, \A n \in Nodes : ~Mixed(n),
                      NEW n \in Nodes
               PROVE  \/ Verdict(n) = "yes" /\ \E s \in DOMAIN best : s.node = n /\ Replays(Witness(s))
                      \/ Verdict(n) = "no" /\ (run.at = n => ~exhausted /\ run.steps > question.bound)
    BY DEF ExactVerdicts
  <2>1. AllSure /\ IInv
    BY DEF SureInv, CertaintyInv
  <2>2. CASE \E s \in DOMAIN best : s.node = n
    <3>1. PICK s \in DOMAIN best : s.node = n
      BY <2>2
    <3>2. s \in Certain
      BY <2>1 DEF AllSure, Certain
    <3>3. AllPlain
      BY DEF AllPlain, Plain, Deterministic, Complete, InLevelM
    <3>4. Replays(Witness(s))
      BY <3>2, <3>3, CertainIsWitnessed
    <3>5. Verdict(n) = "yes"
      BY <2>1, <3>1 DEF Verdict, AllSure
    <3> QED BY <3>1, <3>4, <3>5
  <2>3. CASE ~\E s \in DOMAIN best : s.node = n
    <3>1. Verdict(n) = "no"
      BY <2>3 DEF Verdict
    <3>2. PartitionCovers
      BY <2>1, PartitionIsCovered DEF IInv, PartitionCovers
    <3>3. run.at = n => ~(exhausted \/ run.steps <= question.bound)
      BY <2>1, <3>1, <3>2, IInvIsEnough DEF NoMeansNo
    <3>4. run.steps \in Nat /\ question.bound \in Nat
      BY <2>1, RunHas, QuestionIs DEF IInv
    <3> QED BY <3>1, <3>3, <3>4
  <2> QED BY <2>2, <2>3
<1> QED BY <1>1, <1>2, AlwaysCertain, PTL
=============================================================================
