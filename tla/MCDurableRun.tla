---------------------------- MODULE MCDurableRun ----------------------------
(* Small flows: a draft that may fail, a check, a review by a person, a    *)
(* publication that waits for an event, and a fallback for when it is late. *)
EXTENDS DurableRun

CONSTANTS op, timer

Edge(from, on, to) == [from |-> from, to |-> to, on |-> on]

MCNodes == {"draft", "check", "review", "publish", "late", "done"}
MCEdges == {Edge("check", "when", "review"),
            Edge("draft", "when", "check"), Edge("draft", "error", "late"),
            Edge("review", "when", "publish"), Edge("review", "when", "late"),
            Edge("publish", "ok", "done"), Edge("publish", Timeout, "late"),
            Edge("late", "semantic", "done")}
MCYields == [n \in MCNodes |->
    CASE n = "draft"   -> {"route", "violation", "raise"}
      [] n = "check"   -> {"route"}
      [] n = "review"  -> {"human"}
      [] n = "publish" -> {"wait"}
      [] n = "late"    -> {"route", "raise"}
      [] n = "done"    -> {}]

\* An answer, or a review when none comes in time.
Escalation == {Edge("draft", "ok", "done"), Edge("draft", Timeout, "review"),
               Edge("review", "when", "done")}
EscalationYields == [n \in MCNodes |->
    CASE n = "draft"  -> {"wait"}
      [] n = "review" -> {"human"}
      [] OTHER -> {}]
=============================================================================
