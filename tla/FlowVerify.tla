----------------------------- MODULE FlowVerify -----------------------------
(***************************************************************************)
(* What `prismpath verify` and `prismpath validate` say of a flow          *)
(* (prismpath/kernel/model_check.py and analysis.py), and what the engine  *)
(* (engine.py) then does with it.  The search is breadth first over nodes  *)
(* and saturating visit counters; the engine runs with a worker that emits *)
(* anything, raises or waits, and a router that picks any semantic edge.   *)
(*                                                                         *)
(* A question is a flow with what is assumed of its worker and the bound   *)
(* of the search.  Edges to nodes that do not exist, choices of a person   *)
(* and the type gate are left out.                                         *)
(***************************************************************************)
EXTENDS Predicates, Sequences, FiniteSetsExt

CONSTANTS
    Nodes,
    Questions,
    Values,         \* what a worker may emit for a field
    MaxFields,      \* fields whose candidates the search still enumerates
    MaxSteps        \* bound on a run, its resumes included

Edge == [to : Nodes, on : Conditions]
ASSUME QuestionsAssumption ==
    /\ \A q \in Questions :
        /\ DOMAIN q = {"start", "edges", "assume", "raises", "waits", "bound"}
        /\ q.start \in Nodes /\ q.edges \in [Nodes -> Seq(Edge)]
        /\ q.assume \in Conditions /\ Visits \notin Reads(q.assume)
        /\ q.raises \in BOOLEAN /\ q.waits \in BOOLEAN /\ q.bound \in Nat
    /\ MaxFields \in Nat /\ MaxSteps \in Nat
ASSUME FiniteAssumption == IsFiniteSet(Nodes) /\ Values \subseteq Value

VARIABLES
    question,
    best,           \* the states found and their certainty
    parent,         \* the state and the edge each was found by
    frontier,       \* states to expand, with their depths
    cur, moves,     \* the state being expanded and its moves left to follow
    exhausted,      \* no state was cut by the bound
    run             \* the run of the engine

vars == <<question, best, parent, frontier, cur, moves, exhausted, run>>
search == <<best, parent, frontier, cur, moves, exhausted>>

NoRun == [at |-> "", visits |-> [n \in Nodes |-> 0], steps |-> 0,
          from |-> "", edge |-> 0, stopped |-> "not started"]

-----------------------------------------------------------------------------
(* The edges of a node, and routing.                                       *)

Edges(n) == question.edges[n]
Kind(n, kind) == {i \in DOMAIN Edges(n) : Edges(n)[i].on.kind = kind}
First(S) == CHOOSE i \in S : \A j \in S : i <= j

\* The edges of a kind whose condition holds; the first one is taken.
Matching(n, kind, ctx) == {i \in Kind(n, kind) : Holds(Edges(n)[i].on, ctx)}

\* The fields the `when` edges of a node and the assumption read, and the
\* contexts that give them values from S on the v-th visit.
Fields(n) ==
    (Reads(question.assume) \cup UNION {Reads(Edges(n)[i].on) : i \in Kind(n, "when")}) \ {Visits}
Context(c, v) == [f \in DOMAIN c \cup {Visits} |-> IF f = Visits THEN Num(2 * v) ELSE c[f]]
Contexts(n, S, v) == {Context(c, v) : c \in [Fields(n) -> S]}
Allowed(C) == {ctx \in C : Holds(question.assume, ctx)}

-----------------------------------------------------------------------------
(* Candidates, and the moves out of a state of the search.                 *)

Mentioned(n) ==
    Consts(question.assume) \cup UNION {Consts(Edges(n)[i].on) : i \in Kind(n, "when")}
Poles == {None, Num(0), Num(2), Str(0), Fresh}

Constants(n) == {Meant(const) : const \in Mentioned(n)}

\* Mutant of Candidates: the constants alone.
ConstantsOnly(n) == Poles \cup Constants(n)

\* The poles, the constants, and of the numbers among them (True and False are
\* none) the neighbours and the midpoints.
Candidates(n) ==
    LET nums == Numbers(Mentioned(n)) IN
    Poles \cup Constants(n) \cup {Num(k - 2) : k \in nums} \cup {Num(k + 2) : k \in nums}
    \cup {Num((p[1] + p[2]) \div 2) :
            p \in {q \in nums \X nums : q[1] < q[2] /\ ~\E k \in nums : q[1] < k /\ k < q[2]}}

TooMany(n) == Cardinality(Fields(n)) > MaxFields
Tried(n, v) == IF TooMany(n) THEN {} ELSE Allowed(Contexts(n, Candidates(n), v))
Complete(n) ==
    /\ ~TooMany(n) /\ InLevelM(question.assume)
    /\ \A i \in Kind(n, "when") : InLevelM(Edges(n)[i].on)

Takeable(n, v) == {First(Matching(n, "when", ctx)) :
                     ctx \in {c \in Tried(n, v) : Matching(n, "when", c) # {}}}
MayFail(n, v) == ~Complete(n) \/ \E ctx \in Tried(n, v) : Matching(n, "when", ctx) = {}

\* The edges that some candidate takes, and those that may be taken.
Moves(n, v) ==
    LET sure == Takeable(n, v)
        may == (IF Complete(n) THEN {} ELSE Kind(n, "when") \ sure)
               \cup (IF MayFail(n, v) THEN Kind(n, "semantic") ELSE {})
               \cup (IF question.raises THEN Kind(n, "error") ELSE {})
               \cup (IF question.waits THEN Kind(n, "event") ELSE {})
    IN [edge : sure, sure : {TRUE}] \cup [edge : may, sure : {FALSE}]

-----------------------------------------------------------------------------
(* Saturating counters: the largest constant compared plus two, at the     *)
(* nodes that compare their visits.                                        *)

CountConds(n) == {c \in {Edges(n)[i].on : i \in Kind(n, "when") \cup Kind(n, "error")} : Visits \in Reads(c)}
Counted(n) == CountConds(n) # {}

\* Mutant of Cap: the counter stops at the constant.
CapAtConstant(n) == Max({1} \cup {k \div 2 : k \in Numbers(UNION {Consts(c) : c \in CountConds(n)})})

Cap(n) == 2 + Max({0} \cup {k \div 2 : k \in Numbers(UNION {Consts(c) : c \in CountConds(n)})})

Saturate(n, v) == IF v > Cap(n) THEN Cap(n) ELSE v

Bump(counts, n) == IF Counted(n) THEN [counts EXCEPT ![n] = Saturate(n, @ + 1)] ELSE counts

State(n, counts) == [node |-> n, counts |-> counts]
VisitsAt(s) == IF Counted(s.node) THEN s.counts[s.node] ELSE 1
StartState == State(question.start, Bump([n \in Nodes |-> 0], question.start))
Target(s, i) == LET t == Edges(s.node)[i].to IN State(t, Bump(s.counts, t))

-----------------------------------------------------------------------------
(* The search.                                                             *)

Searching == frontier # <<>> \/ moves # {}

Init ==
    /\ question \in Questions
    /\ best = [s \in {StartState} |-> "certain"]
    /\ parent = [s \in {} |-> 0]
    /\ frontier = <<[state |-> StartState, depth |-> 0]>>
    /\ cur = [state |-> StartState, depth |-> 0, mine |-> "certain"]
    /\ moves = {}
    /\ exhausted = TRUE
    /\ run = NoRun

\* The oldest state of the frontier: cut by the bound, or its moves to follow.
Expand ==
    /\ moves = {} /\ frontier # <<>>
    /\ LET h == Head(frontier) IN
        /\ cur' = [state |-> h.state, depth |-> h.depth, mine |-> best[h.state]]
        /\ moves' = IF h.depth >= question.bound THEN {} ELSE Moves(h.state.node, VisitsAt(h.state))
        /\ exhausted' = (exhausted /\ h.depth < question.bound)
    /\ frontier' = Tail(frontier)
    /\ UNCHANGED <<question, best, parent, run>>

\* Mutant of Certainty: what the way to the state was does not matter.
CertaintyOfMove(m) == IF m.sure THEN "certain" ELSE "may"

Certainty(m) == IF m.sure /\ cur.mine = "certain" THEN "certain" ELSE "may"

\* One move, in an order of the search's own: a state that is new, or certain
\* where it only may have been, is expanded in its turn.
Follow ==
    /\ moves # {}
    /\ LET m == CHOOSE x \in moves : TRUE
           t == Target(cur.state, m.edge)
           new == t \notin DOMAIN best \/ (best[t] = "may" /\ Certainty(m) = "certain")
       IN /\ moves' = moves \ {m}
          /\ IF new
             THEN /\ best' = [s \in DOMAIN best \cup {t} |-> IF s = t THEN Certainty(m) ELSE best[s]]
                  /\ parent' = [s \in DOMAIN parent \cup {t} |->
                                  IF s = t THEN [state |-> cur.state, edge |-> m.edge] ELSE parent[s]]
                  /\ frontier' = Append(frontier, [state |-> t, depth |-> cur.depth + 1])
             ELSE UNCHANGED <<best, parent, frontier>>
    /\ UNCHANGED <<question, cur, exhausted, run>>

Verdict(n) ==
    LET hits == {s \in DOMAIN best : s.node = n} IN
    IF hits = {} THEN "no" ELSE IF \E s \in hits : best[s] = "certain" THEN "yes" ELSE "may"

-----------------------------------------------------------------------------
(* The engine.                                                             *)

Running == run.stopped = ""
Terminal(n) == Edges(n) = <<>>

\* A node is entered, and its visit counted for the call that follows.
Entered(n, visits, steps, from, edge) ==
    [at |-> n, visits |-> [visits EXCEPT ![n] = @ + 1], steps |-> steps, from |-> from, edge |-> edge,
     stopped |-> IF steps = MaxSteps THEN "max_steps" ELSE IF Terminal(n) THEN "terminal" ELSE ""]

Start ==
    /\ ~Searching /\ run = NoRun
    /\ run' = Entered(question.start, run.visits, 0, "", 0)
    /\ UNCHANGED <<question, search>>

Take(i) == run' = Entered(Edges(run.at)[i].to, run.visits, run.steps + 1, run.at, i)
Stop(how) == run' = [run EXCEPT !.stopped = how]

\* The worker emitted something: the first `when` edge, else a semantic one.
Route ==
    /\ Running
    /\ \E ctx \in Allowed(Contexts(run.at, Values, run.visits[run.at])) :
        LET hits == Matching(run.at, "when", ctx) IN
        \/ hits # {} /\ Take(First(hits))
        \/ hits = {} /\ \E i \in Kind(run.at, "semantic") : Take(i)
        \/ hits = {} /\ Kind(run.at, "semantic") = {} /\ Stop("stuck")
    /\ UNCHANGED <<question, search>>

\* The worker raised: the first error edge whose guard holds, or the run ends.
ErrorContext == [f \in {Visits} |-> Num(2 * run.visits[run.at])]
Raise ==
    /\ Running /\ question.raises
    /\ LET hits == Matching(run.at, "error", ErrorContext) IN
        IF hits = {} THEN Stop("raised") ELSE Take(First(hits))
    /\ UNCHANGED <<question, search>>

\* The worker waited: the event comes, and resumes the first edge for it.
Awaiting(n, name) == {i \in Kind(n, "event") : Edges(n)[i].on.name = name}
Resume ==
    /\ Running /\ question.waits
    /\ \E i \in Kind(run.at, "event") : Take(First(Awaiting(run.at, Edges(run.at)[i].on.name)))
    /\ UNCHANGED <<question, search>>

Next == Expand \/ Follow \/ Start \/ Route \/ Raise \/ Resume

Spec == Init /\ [][Next]_vars

-----------------------------------------------------------------------------
(* What `validate` finds.                                                  *)

\* Nodes reachable by any edges at all.
Successors(S) == S \cup UNION {{Edges(n)[i].to : i \in DOMAIN Edges(n)} : n \in S}
Reachable ==
    LET grow[k \in 0 .. Cardinality(Nodes)] == IF k = 0 THEN {question.start} ELSE Successors(grow[k - 1])
    IN grow[Cardinality(Nodes)]

PossibleStuck(n) ==
    LET det == Kind(n, "when") IN
    /\ det # {} /\ Kind(n, "semantic") = {}
    /\ ~\E i \in det : AlwaysTrue(Edges(n)[i].on)
    /\ ~\E i, j \in det : i < j /\ Negates(Edges(n)[i].on, Edges(n)[j].on)

\* A catch-all shadows the later `when` edges and all semantic ones, a bare
\* error edge the later error edges, an event edge the later ones of its name.
Shadowed(n, i) ==
    LET on == Edges(n)[i].on
        earlier == {j \in Kind(n, on.kind) : j < i}
    IN \/ on.kind = "when" /\ \E j \in earlier : AlwaysTrue(Edges(n)[j].on)
       \/ on.kind = "semantic" /\ \E j \in Kind(n, "when") : AlwaysTrue(Edges(n)[j].on)
       \/ on.kind = "error" /\ \E j \in earlier : Edges(n)[j].on.lits = {}
       \/ on.kind = "event" /\ \E j \in earlier : Edges(n)[j].on.name = on.name
AlwaysFalse(n, i) == Edges(n)[i].on.kind = "when" /\ Contradicts(Edges(n)[i].on)

-----------------------------------------------------------------------------
(* Properties.                                                             *)

\* Whatever a worker emits, some candidate takes the same edge.
Hit(n, ctx) == IF Matching(n, "when", ctx) = {} THEN 0 ELSE First(Matching(n, "when", ctx))
Covered(n) ==
    \A v \in 1 .. Cap(n) : \A ctx \in Allowed(Contexts(n, Values, v)) :
        \E c \in Tried(n, v) : Hit(n, c) = Hit(n, ctx)
PartitionCovers == \A n \in Nodes : Complete(n) => Covered(n)

\* "Exhaustive": so it is of Level M conditions, unless a field that is ordered
\* is also tested for truth (x < 1 and x) or compared with True or False, be it
\* by that order (x > True) or by another literal (x > 0 and x != True).
Mixed(n) ==
    LET lits == UNION ({Edges(n)[i].on.lits : i \in Kind(n, "when")} \cup {question.assume.lits}) IN
    \E l, k \in lits :
        (l.op = "is" \/ l.const.kind = "bool") /\ k.op \in Orders /\ l.field = k.field
CandidatesCover ==
    run.steps = 0 /\ run # NoRun => \A n \in Nodes : Complete(n) /\ ~Mixed(n) => Covered(n)

\* "UNREACHABLE (proven for all bounds)", or "within bound only": where the
\* candidates are exhaustive, no run of the engine enters the node, however
\* long it is, or in so many steps.
NoMeansNo ==
    run # NoRun /\ Verdict(run.at) = "no" /\ (exhausted \/ run.steps <= question.bound)
        => ~PartitionCovers

\* "Every hop proven with a concrete example outcome": the witness of a verdict
\* "reachable", run by the engine with its own counts, takes at each hop the
\* edge it names.
Back(s) ==
    LET back[k \in 0 .. Cardinality(DOMAIN best)] ==
          IF k = 0 THEN s
          ELSE LET b == back[k - 1] IN IF b \in DOMAIN parent THEN parent[b].state ELSE b
    IN back
Witness(s) ==
    LET back == Back(s)
        hops == Min({k \in DOMAIN back : back[k] \notin DOMAIN parent})
    IN [i \in 1 .. hops |-> [node |-> back[hops - i + 1].node, state |-> back[hops - i + 1],
                             edge |-> parent[back[hops - i]].edge]]
Replays(w) ==
    \A i \in DOMAIN w :
        LET v == Cardinality({j \in 1 .. i : w[j].node = w[i].node})
            seen == VisitsAt(w[i].state)
            n == w[i].node
        IN \E ctx \in Tried(n, seen) :
             LET hits == Matching(n, "when", [ctx EXCEPT ![Visits] = Num(2 * v)])
             IN hits # {} /\ First(hits) = w[i].edge
WitnessesReplay ==
    run.steps = 0 /\ run # NoRun =>
        \A s \in DOMAIN best : best[s] = "certain" => Replays(Witness(s))

\* So it is unless a `when` edge compares visits with a field: the counter then
\* saturates at a number that the candidates of the field are not held against.
PlainCounters ==
    \A n \in Nodes : \A i \in Kind(n, "when") : \A l \in Edges(n)[i].on.lits :
        l.than # NoField => Visits \notin {l.field, l.than}
YesIsWitnessed == PlainCounters => WitnessesReplay

\* A node with a `when` edge that halts as stuck was warned of, unless it holds
\* a pair like x < 5 and x >= 5, neither of which a missing field satisfies.
OrderPair(n) ==
    \E i, j \in Kind(n, "when") :
        /\ Negates(Edges(n)[i].on, Edges(n)[j].on)
        /\ \A l \in Edges(n)[i].on.lits : l.op \in Orders
StuckIsWarned ==
    run.stopped = "stuck" /\ Kind(run.at, "when") # {} => PossibleStuck(run.at) \/ OrderPair(run.at)

\* What is reported as dead is: no run enters an unreachable node or follows a
\* shadowed or always-false edge.
DeadIsDead ==
    run # NoRun =>
        /\ run.at \in Reachable
        /\ run.edge # 0 => ~Shadowed(run.from, run.edge) /\ ~AlwaysFalse(run.from, run.edge)
=============================================================================
