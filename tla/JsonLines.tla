----------------------------- MODULE JsonLines -----------------------------
(***************************************************************************)
(* Append-only files of JSON lines, as the audit log, its root statements  *)
(* and the epoch journal keep them: a line is written, flushed and fsynced,*)
(* and what a crash or an error leaves of it is one of the outcomes below. *)
(* A file is its lines and whether the last one lacks its newline; `torn`  *)
(* stands for a line that cannot be parsed.                                *)
(***************************************************************************)
EXTENDS Naturals, Sequences

\* Nothing, a part, all but the newline, or the whole line.
Outcomes == {"lost", "fragment", "bare", "whole"}

Lines(Line) == [lines : Seq(Line), open : BOOLEAN]
Empty == [lines |-> <<>>, open |-> FALSE]

\* An append that leaves `how` of a line: a line that follows one without a
\* newline is glued to it, and the two are unreadable.
Put(f, line, torn, how) ==
    IF how = "lost" THEN f
    ELSE [lines |-> IF f.open THEN [f.lines EXCEPT ![Len(f.lines)] = torn]
                    ELSE Append(f.lines, IF how = "fragment" THEN torn ELSE line),
          open |-> how # "whole"]

EndsTorn(f, torn) == f.lines # <<>> /\ f.lines[Len(f.lines)] = torn
Holed(f, torn) == \E i \in 1..(Len(f.lines) - 1) : f.lines[i] = torn
=============================================================================
