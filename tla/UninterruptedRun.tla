-------------------------- MODULE UninterruptedRun --------------------------
(***************************************************************************)
(* What durable execution promises: runs of a flow that lose nothing and   *)
(* repeat nothing, as if every process lived for ever.  A run walks along  *)
(* the edges of its flow, one step at a time: the engine steps as the      *)
(* node's worker lets it, a suspended run goes on by a person or an event  *)
(* only, and the node of a contract violation may be worked once more.     *)
(* There is no memory, no save and no crash here.                          *)
(***************************************************************************)
EXTENDS Integers, Sequences

CONSTANTS Runs, Nodes, StartNode, TerminalNodes, Edges, Yields

VARIABLES
    path,     \* the nodes each run has entered
    steps,    \* how it went from one to the next
    stage     \* "absent", "working", "terminal", or why it is suspended

vars == <<path, steps, stage>>

Init ==
    /\ path = [r \in Runs |-> <<>>]
    /\ steps = [r \in Runs |-> <<>>]
    /\ stage = [r \in Runs |-> "absent"]

At(r) == path[r][Len(path[r])]

\* The run enters node n, where it ends or is worked on.
Enter(r, n) ==
    /\ path' = [path EXCEPT ![r] = Append(@, n)]
    /\ stage' = [stage EXCEPT ![r] = IF n \in TerminalNodes THEN "terminal" ELSE "working"]

Begin(r) ==
    /\ stage[r] = "absent"
    /\ Enter(r, StartNode)
    /\ UNCHANGED steps

\* Who may take an edge labelled `on` out of the node a run is at.
MayTake(r, on, used) ==
    \/ used = "engine" /\ stage[r] = "working" /\ "route" \in Yields[At(r)] /\ on \in {"when", "semantic"}
    \/ used = "error" /\ stage[r] = "working" /\ "raise" \in Yields[At(r)] /\ on = "error"
    \/ used = "event" /\ on \notin {"when", "semantic", "error"}
    \/ used = "human"

Advance(r) ==
    /\ stage[r] \notin {"absent", "terminal"}
    /\ \E e \in Edges, used \in {"engine", "error", "event", "human"} :
        /\ e.from = At(r) /\ MayTake(r, e.on, used)
        /\ Enter(r, e.to)
        /\ steps' = [steps EXCEPT ![r] = Append(@, [from |-> e.from, to |-> e.to, used |-> used])]

OffersSemantic(n) == \E e \in Edges : e.from = n /\ e.on = "semantic"

\* What a worker's outcome can suspend a run for.
MaySuspend(n, why) ==
    \/ why = "waiting" /\ "wait" \in Yields[n]
    \/ why = "contract_violation" /\ "violation" \in Yields[n]
    \/ why = "needs_human" /\ "human" \in Yields[n]
    \/ why = "needs_human" /\ "route" \in Yields[n] /\ OffersSemantic(n)
    \/ why = "stuck" /\ "route" \in Yields[n] /\ ~OffersSemantic(n)

Suspend(r) ==
    /\ stage[r] = "working"
    /\ \E why \in {"waiting", "contract_violation", "needs_human", "stuck"} :
        MaySuspend(At(r), why) /\ stage' = [stage EXCEPT ![r] = why]
    /\ UNCHANGED <<path, steps>>

\* The node of a violation is worked again.
Retry(r) ==
    /\ stage[r] = "contract_violation"
    /\ stage' = [stage EXCEPT ![r] = "working"]
    /\ UNCHANGED <<path, steps>>

Next == \E r \in Runs : Begin(r) \/ Advance(r) \/ Suspend(r) \/ Retry(r)

Spec == Init /\ [][Next]_vars
=============================================================================
