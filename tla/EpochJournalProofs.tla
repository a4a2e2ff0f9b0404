------------------------- MODULE EpochJournalProofs -------------------------
(***************************************************************************)
(* Proofs about EpochJournal, for any number of windows, epochs, crashes,  *)
(* damaged files and acknowledgements, as long as an interrupted append    *)
(* leaves nothing, a fragment or the whole line (never the line without    *)
(* its newline) and a failed one leaves nothing.                           *)
(***************************************************************************)
EXTENDS EpochJournal, TLAPS, FiniteSetTheorems

NotRefused == pc # "refused"
Up == pc \notin {"down", "refused"}
Clean(f, torn) == ~f.open /\ \A i \in 1..Len(f.lines) : f.lines[i] # torn

\* The files: only a line that a crash cut short is unreadable, and only
\* until the next start.
FilesOK ==
    /\ Clean(Trim(chain, Torn), Torn) /\ Clean(Trim(gaps, TornGap), TornGap)
    /\ Up => Clean(chain, Torn) /\ Clean(gaps, TornGap)
    /\ Linked(Trim(chain, Torn))
    /\ NotRefused

\* The chain names windows in the order they were offered.
ChainOK ==
    /\ Len(Chained) <= offered
    /\ \A i \in ChainedIds : Chained[i] \in 1..offered
    /\ \A i, j \in ChainedIds : i < j => Chained[i] < Chained[j]
    /\ Recorded \subseteq ChainedIds
    /\ pc = "seal" =>
         /\ Len(Chained) < offered
         /\ \A i \in ChainedIds : Chained[i] < offered
         /\ files[Len(Chained) + 1] # 0

\* The memory of a process that is up.
MemoryOK ==
    Up =>
      /\ epochs = Chained /\ acked = Through /\ lastSeq = acks.seq
      /\ held \subseteq Present
      /\ \A i \in held : i > acked /\ i \notin Recorded
      /\ marked \subseteq Recorded
      /\ victim # 0 => victim \in Recorded \ held /\ pc \in {"recover", "caps"}

\* The files that are to go.
ReleasedOK ==
    /\ pc = "down" => victim = 0
    /\ pc \in {"idle", "seal"} => Released = {}
    /\ pc = "caps" => Released \subseteq {victim}
    /\ pc = "ack" => \A i \in Released : i <= acked
    /\ pc = "recover" =>
         \A i \in Released : i <= acked \/ i \in Recorded \/ ~Sound(i, epochs)

\* What the ground signed, and what the edge saved of it.
GroundOK ==
    /\ IsFiniteSet(sent)
    /\ \A m \in sent :
         /\ m[2] < Cardinality(sent)
         /\ \E i \in ChainedIds : Chained[i] = m[1]
         /\ \A i \in ChainedIds : Chained[i] <= m[1] => Chained[i] \in got \/ i \in Recorded
    /\ \A m, n \in sent : m[2] <= n[2] => m[1] <= n[1]
    /\ acks = [seq |-> -1, through |-> 0] \/ <<acks.through, acks.seq>> \in sent

IInv ==
    /\ TypeOK /\ FilesOK /\ ChainOK /\ MemoryOK /\ ReleasedOK
    /\ EveryLossIsRecorded /\ GroundOK
-----------------------------------------------------------------------------
(* Files of lines.                                                         *)

\* Nothing is discarded from a clean file.
LEMMA TrimClean ==
    ASSUME NEW S, NEW torn, NEW f \in Lines(S), Clean(f, torn)
    PROVE  Trim(f, torn) = f /\ ~Holed(f, torn)
BY DEF Lines, Clean, Trim, EndsTorn, Holed

\* What is left of a file is a file.
LEMMA TrimTyped ==
    ASSUME NEW S, NEW torn, NEW f \in Lines(S)
    PROVE  Trim(f, torn) \in Lines(S)
<1>1. CASE EndsTorn(f, torn)
  <2>1. f.lines \in Seq(S) /\ Len(f.lines) \in Nat /\ f.lines # <<>>
    BY <1>1 DEF Lines, EndsTorn
  <2>2. SubSeq(f.lines, 1, Len(f.lines) - 1) \in Seq(S)
    BY <2>1
  <2> QED BY <1>1, <2>2 DEF Trim, Lines
<1>2. CASE ~EndsTorn(f, torn)
  BY <1>2 DEF Trim
<1> QED BY <1>1, <1>2

\* A file whose readable part is clean has no hole.
LEMMA WellKeptNotHoled ==
    ASSUME NEW S, NEW torn, NEW f \in Lines(S), Clean(Trim(f, torn), torn)
    PROVE  ~Holed(f, torn)
<1>1. CASE EndsTorn(f, torn)
  <2>1. f.lines \in Seq(S) /\ Len(f.lines) \in Nat /\ Len(f.lines) > 0
    BY <1>1 DEF Lines, EndsTorn
  <2>2. Trim(f, torn).lines = SubSeq(f.lines, 1, Len(f.lines) - 1)
    BY <1>1 DEF Trim
  <2>3. \A i \in 1..(Len(f.lines) - 1) : Trim(f, torn).lines[i] = f.lines[i]
    BY <2>1, <2>2
  <2>4. Len(Trim(f, torn).lines) = Len(f.lines) - 1
    BY <2>1, <2>2
  <2> QED BY <2>3, <2>4 DEF Clean, Holed
<1>2. CASE ~EndsTorn(f, torn)
  BY <1>2 DEF Trim, Clean, Holed, Lines
<1> QED BY <1>1, <1>2

\* An append to a clean file that is not left without its newline leaves the
\* readable part as it was, or with the line.
LEMMA PutClean ==
    ASSUME NEW S, NEW torn \in S, NEW f \in Lines(S), Clean(f, torn),
           NEW line \in S, line # torn, NEW how \in {"lost", "fragment", "whole"}
    PROVE  /\ Put(f, line, torn, how) \in Lines(S)
           /\ Clean(Trim(Put(f, line, torn, how), torn), torn)
           /\ \/ Trim(Put(f, line, torn, how), torn) = f
              \/ /\ how = "whole"
                 /\ Trim(Put(f, line, torn, how), torn) =
                        [lines |-> Append(f.lines, line), open |-> FALSE]
           /\ how = "whole" =>
                 /\ Put(f, line, torn, how) = [lines |-> Append(f.lines, line), open |-> FALSE]
                 /\ Clean(Put(f, line, torn, how), torn)
                 /\ Trim(Put(f, line, torn, how), torn) = Put(f, line, torn, how)
<1>1. f.lines \in Seq(S) /\ f.open = FALSE /\ f = [lines |-> f.lines, open |-> FALSE]
  BY DEF Lines, Clean
<1>2. CASE how = "lost"
  BY <1>2, TrimClean DEF Put
<1>3. CASE how = "fragment"
  <2>1. Put(f, line, torn, how) = [lines |-> Append(f.lines, torn), open |-> TRUE]
    BY <1>1, <1>3 DEF Put
  <2>2. Append(f.lines, torn) \in Seq(S) /\ Len(Append(f.lines, torn)) = Len(f.lines) + 1
    BY <1>1
  <2>3. EndsTorn(Put(f, line, torn, how), torn)
    BY <1>1, <2>1, <2>2 DEF EndsTorn
  <2>4. SubSeq(Append(f.lines, torn), 1, Len(f.lines)) = f.lines
    BY <1>1
  <2>5. Trim(Put(f, line, torn, how), torn) = f
    BY <1>1, <2>1, <2>2, <2>3, <2>4 DEF Trim
  <2>6. Put(f, line, torn, how) \in Lines(S)
    BY <2>1, <2>2 DEF Lines
  <2>7. Clean(Trim(Put(f, line, torn, how), torn), torn)
    BY <2>5
  <2> QED BY <1>3, <2>5, <2>6, <2>7
<1>4. CASE how = "whole"
  <2> DEFINE g == [lines |-> Append(f.lines, line), open |-> FALSE]
  <2>1. Put(f, line, torn, how) = g
    BY <1>1, <1>4 DEF Put
  <2>2. g.lines \in Seq(S) /\ Len(g.lines) = Len(f.lines) + 1 /\ Len(f.lines) \in Nat
    BY <1>1
  <2>3. g \in Lines(S)
    BY <2>2 DEF Lines
  <2>4. ASSUME NEW i \in 1..Len(g.lines) PROVE g.lines[i] # torn
    BY <1>1, <2>2 DEF Clean
  <2>5. Clean(g, torn)
    BY <2>4 DEF Clean
  <2>6. Trim(g, torn) = g
    BY <2>3, <2>5, TrimClean
  <2> QED BY <1>4, <2>1, <2>3, <2>5, <2>6
<1> QED BY <1>2, <1>3, <1>4

\* The windows of a chain file with one more line.
LEMMA WinsAppend ==
    ASSUME NEW S, NEW f \in Lines(S), NEW line \in S
    PROVE  LET g == [lines |-> Append(f.lines, line), open |-> FALSE]
           IN Wins(g) = Append(Wins(f), line.win)
<1> DEFINE g == [lines |-> Append(f.lines, line), open |-> FALSE]
<1>1. f.lines \in Seq(S) /\ Len(f.lines) \in Nat /\ Len(g.lines) = Len(f.lines) + 1
  BY DEF Lines
<1>2. Wins(f) \in Seq({f.lines[i].win : i \in 1..Len(f.lines)}) /\ Len(Wins(f)) = Len(f.lines)
  BY <1>1 DEF Wins
<1>3. DOMAIN Wins(g) = 1..(Len(f.lines) + 1) /\ DOMAIN Append(Wins(f), line.win) = 1..(Len(f.lines) + 1)
  BY <1>1, <1>2 DEF Wins
<1>4. ASSUME NEW i \in 1..(Len(f.lines) + 1) PROVE Wins(g)[i] = Append(Wins(f), line.win)[i]
  <2>1. CASE i = Len(f.lines) + 1
    BY <1>1, <1>2, <2>1 DEF Wins
  <2>2. CASE i \in 1..Len(f.lines)
    <3>1. Append(f.lines, line)[i] = f.lines[i]
      BY <1>1, <2>2
    <3>2. Wins(g)[i] = f.lines[i].win
      BY <1>1, <2>2, <3>1 DEF Wins
    <3>3. Append(Wins(f), line.win)[i] = Wins(f)[i]
      BY <1>2, <2>2
    <3>4. Wins(f)[i] = f.lines[i].win
      BY <2>2 DEF Wins
    <3> QED BY <3>2, <3>3, <3>4
  <2>3. Len(f.lines) \in Nat
    BY <1>1
  <2>4. i = Len(f.lines) + 1 \/ i \in 1..Len(f.lines)
    BY <2>3
  <2> QED BY <2>1, <2>2, <2>4
<1>5. Wins(g) = [i \in 1..(Len(f.lines) + 1) |-> Wins(g)[i]]
  BY <1>1 DEF Wins
<1>6. Append(Wins(f), line.win) = [i \in 1..(Len(f.lines) + 1) |-> Append(Wins(f), line.win)[i]]
  BY <1>2, <1>3
<1> QED BY <1>4, <1>5, <1>6

\* The epochs a gap file names, with one more line.
LEMMA GapSetAppend ==
    ASSUME NEW f \in Lines(0..MaxWindows), NEW i \in Windows
    PROVE  GapSet([lines |-> Append(f.lines, i), open |-> FALSE]) = GapSet(f) \cup {i}
<1> DEFINE g == [lines |-> Append(f.lines, i), open |-> FALSE]
<1>1. f.lines \in Seq(0..MaxWindows) /\ Len(f.lines) \in Nat /\ Len(g.lines) = Len(f.lines) + 1
  BY DEF Lines
<1>2. g.lines[Len(f.lines) + 1] = i /\ \A k \in 1..Len(f.lines) : g.lines[k] = f.lines[k]
  BY <1>1
<1>3. i # TornGap
  BY DEF TornGap, Windows
<1> QED BY <1>1, <1>2, <1>3 DEF GapSet

\* Discarding a torn line does not change the epochs a gap file names.
LEMMA GapSetTrim ==
    ASSUME NEW f \in Lines(0..MaxWindows)
    PROVE  GapSet(Trim(f, TornGap)) = GapSet(f)
<1>1. CASE EndsTorn(f, TornGap)
  <2>1. f.lines \in Seq(0..MaxWindows) /\ Len(f.lines) \in Nat /\ Len(f.lines) > 0
    BY <1>1 DEF Lines, EndsTorn
  <2>2. Trim(f, TornGap).lines = SubSeq(f.lines, 1, Len(f.lines) - 1)
    BY <1>1 DEF Trim
  <2>3. \A i \in 1..(Len(f.lines) - 1) : Trim(f, TornGap).lines[i] = f.lines[i]
    BY <2>1, <2>2
  <2>4. Len(Trim(f, TornGap).lines) = Len(f.lines) - 1
    BY <2>1, <2>2
  <2>5. f.lines[Len(f.lines)] = TornGap
    BY <1>1 DEF EndsTorn
  <2> QED BY <2>1, <2>3, <2>4, <2>5 DEF GapSet
<1>2. CASE ~EndsTorn(f, TornGap)
  BY <1>2 DEF Trim
<1> QED BY <1>1, <1>2

-----------------------------------------------------------------------------
(* What a step does to the two logs.                                       *)

\* The readable chain is a sequence of windows.
LEMMA ChainedTyped ==
    ASSUME TypeOK, ChainOK
    PROVE  /\ Trim(chain, Torn) \in Lines([win : 0..MaxWindows, prev : 0..MaxWindows])
           /\ Len(Chained) = Len(Trim(chain, Torn).lines) /\ Len(Chained) \in Nat
           /\ Chained \in Seq(Windows) /\ Len(Chained) <= MaxWindows
           /\ \A i \in ChainedIds : i \in Windows /\ Chained[i] \in Windows
<1>1. Trim(chain, Torn) \in Lines([win : 0..MaxWindows, prev : 0..MaxWindows])
  BY TrimTyped DEF TypeOK
<1>2. Len(Trim(chain, Torn).lines) \in Nat
  BY <1>1 DEF Lines
<1>3. Len(Chained) = Len(Trim(chain, Torn).lines) /\ Chained = [i \in ChainedIds |-> Chained[i]]
  BY <1>2 DEF Chained, Wins, ChainedIds
<1>4. \A i \in ChainedIds : Chained[i] \in Windows
  BY JournalAssumption DEF ChainOK, TypeOK, Windows
<1>5. Len(Chained) <= MaxWindows
  BY <1>2, <1>3, JournalAssumption DEF ChainOK, TypeOK
<1>6. Chained \in [1..Len(Chained) -> Windows]
  BY <1>3, <1>4 DEF ChainedIds
<1>7. Chained \in Seq(Windows)
  BY <1>2, <1>3, <1>6
<1>8. \A i \in ChainedIds : i \in Windows
  BY <1>2, <1>3, <1>5, JournalAssumption DEF ChainedIds, Windows
<1> QED BY <1>1, <1>2, <1>3, <1>4, <1>5, <1>7, <1>8

\* The epochs whose loss is recorded next are epochs.
LEMMA NextGapIsEpoch ==
    ASSUME TypeOK, NEW i \in NextGap
    PROVE  i \in Ids /\ i \in ToRecord /\ i \in Windows
<1>1. i \in ToRecord
  BY DEF NextGap, First
<1>2. ToRecord \subseteq Ids
  BY DEF ToRecord, Damaged, Released, TypeOK
<1>3. Ids \subseteq Windows
  BY JournalAssumption DEF Ids, TypeOK, Windows
<1> QED BY <1>1, <1>2, <1>3

\* The gap log after an append of the next gap that a crash may cut short.
LEMMA GapStep ==
    ASSUME TypeOK, Clean(gaps, TornGap), NEW i \in NextGap,
           NEW how \in {"lost", "fragment", "whole"}, gaps' = Put(gaps, i, TornGap, how)
    PROVE  /\ gaps' \in Lines(0..MaxWindows)
           /\ Clean(Trim(gaps, TornGap), TornGap)'
           /\ Recorded' = Recorded \/ (how = "whole" /\ Recorded' = Recorded \cup {i})
           /\ how = "whole" => Clean(gaps, TornGap)' /\ Recorded' = Recorded \cup {i}
<1>1. i \in Windows /\ i \in 0..MaxWindows /\ i # TornGap /\ TornGap \in 0..MaxWindows
  BY NextGapIsEpoch, JournalAssumption DEF Windows, TornGap
<1>2. gaps \in Lines(0..MaxWindows)
  BY DEF TypeOK
<1> DEFINE g == [lines |-> Append(gaps.lines, i), open |-> FALSE]
<1>3. /\ gaps' \in Lines(0..MaxWindows) /\ Clean(Trim(gaps', TornGap), TornGap)
      /\ Trim(gaps', TornGap) = gaps \/ (how = "whole" /\ Trim(gaps', TornGap) = g)
      /\ how = "whole" => gaps' = g /\ Clean(gaps', TornGap)
  <2> DEFINE p == Put(gaps, i, TornGap, how)
  <2>1. /\ p \in Lines(0..MaxWindows) /\ Clean(Trim(p, TornGap), TornGap)
        /\ Trim(p, TornGap) = gaps \/ (how = "whole" /\ Trim(p, TornGap) = g)
        /\ how = "whole" => p = g /\ Clean(p, TornGap) /\ Trim(p, TornGap) = p
    <3> DEFINE S == 0..MaxWindows
    <3>1. i \in S /\ TornGap \in S /\ gaps \in Lines(S) /\ i # TornGap
      BY <1>1, <1>2
    <3> HIDE DEF S
    <3>2. /\ p \in Lines(S) /\ Clean(Trim(p, TornGap), TornGap)
          /\ Trim(p, TornGap) = gaps \/ (how = "whole" /\ Trim(p, TornGap) = g)
          /\ how = "whole" => p = g /\ Clean(p, TornGap) /\ Trim(p, TornGap) = p
      BY <3>1, PutClean
    <3> HIDE DEF p, g
    <3> QED BY <3>2 DEF S
  <2>2. gaps' = p
    OBVIOUS
  <2> HIDE DEF p, g
  <2> QED BY <2>1, <2>2
<1>4. GapSet(g) = GapSet(gaps) \cup {i}
  BY <1>1, <1>2, GapSetAppend
<1>5. GapSet(Trim(gaps', TornGap)) = GapSet(gaps')
  BY <1>3, GapSetTrim
<1>6. Recorded' = GapSet(gaps') /\ Recorded = GapSet(gaps)
  BY DEF Recorded
<1> HIDE DEF g
<1>7. Recorded' = Recorded \/ (how = "whole" /\ Recorded' = Recorded \cup {i})
  BY <1>3, <1>4, <1>5, <1>6
<1>8. how = "whole" => Clean(gaps', TornGap) /\ Recorded' = Recorded \cup {i}
  BY <1>3, <1>4, <1>6
<1> QED BY <1>3, <1>7, <1>8

\* The chain after an append of the next epoch that a crash may cut short.
LEMMA ChainStep ==
    ASSUME TypeOK, FilesOK, ChainOK, MemoryOK, pc = "seal",
           NEW how \in {"lost", "fragment", "whole"}, chain' = Put(chain, ChainLine, Torn, how)
    PROVE  /\ chain' \in Lines([win : 0..MaxWindows, prev : 0..MaxWindows])
           /\ Clean(Trim(chain, Torn), Torn)' /\ Linked(Trim(chain, Torn))'
           /\ Chained' = Chained \/ (how = "whole" /\ Chained' = Append(Chained, offered))
           /\ how = "whole" => Clean(chain, Torn)' /\ Chained' = Append(Chained, offered)
<1> DEFINE S == [win : 0..MaxWindows, prev : 0..MaxWindows]
           g == [lines |-> Append(chain.lines, ChainLine), open |-> FALSE]
<1>1. chain \in Lines(S) /\ Clean(chain, Torn) /\ epochs = Chained
  BY DEF TypeOK, FilesOK, MemoryOK, Up
<1>2. Trim(chain, Torn) = chain
  BY <1>1, TrimClean
<1>3. epochs = Wins(chain) /\ Len(epochs) = Len(chain.lines) /\ Len(epochs) \in Nat
  BY <1>1, <1>2, ChainedTyped DEF Chained
<1>4. offered \in Windows
  BY <1>1, ChainedTyped, JournalAssumption DEF ChainOK, TypeOK, Windows
<1>5. ChainLine \in S /\ ChainLine # Torn /\ Torn \in S /\ ChainLine.win = offered
  <2>1. epochs # <<>> => epochs[Len(epochs)] \in Windows
    BY <1>3 DEF TypeOK
  <2> QED BY <2>1, <1>4, JournalAssumption DEF ChainLine, Torn, Windows
<1>6. /\ chain' \in Lines(S) /\ Clean(Trim(chain', Torn), Torn)
      /\ Trim(chain', Torn) = chain \/ (how = "whole" /\ Trim(chain', Torn) = g)
      /\ how = "whole" => chain' = g /\ Clean(chain', Torn) /\ Trim(chain', Torn) = chain'
  <2> DEFINE p == Put(chain, ChainLine, Torn, how)
  <2>1. /\ p \in Lines(S) /\ Clean(Trim(p, Torn), Torn)
        /\ Trim(p, Torn) = chain \/ (how = "whole" /\ Trim(p, Torn) = g)
        /\ how = "whole" => p = g /\ Clean(p, Torn) /\ Trim(p, Torn) = p
    <3> HIDE DEF S
    <3> QED BY <1>1, <1>5, PutClean
  <2>2. chain' = p
    OBVIOUS
  <2> HIDE DEF p, g, S
  <2> QED BY <2>1, <2>2
<1>7. Wins(g) = Append(Chained, offered)
  <2>1. Wins(g) = Append(Wins(chain), ChainLine.win)
    <3> HIDE DEF S
    <3> QED BY <1>1, <1>5, WinsAppend
  <2> QED BY <2>1, <1>2, <1>5 DEF Chained
<1>8. Linked(chain)
  BY <1>2 DEF FilesOK
<1>9. Linked(g)
  <2>1. chain.lines \in Seq(S) /\ Len(g.lines) = Len(chain.lines) + 1 /\ Len(chain.lines) \in Nat
    BY <1>1, <1>5 DEF Lines
  <2>2. \A i \in 1..Len(chain.lines) : g.lines[i] = chain.lines[i]
    BY <2>1
  <2>3. g.lines[Len(chain.lines) + 1] = ChainLine
    BY <2>1
  <2>4. Len(chain.lines) > 0 => epochs[Len(chain.lines)] = chain.lines[Len(chain.lines)].win
    BY <1>3, <2>1 DEF Wins
  <2>5. ChainLine.prev = IF Len(chain.lines) = 0 THEN 0 ELSE chain.lines[Len(chain.lines)].win
    <3>1. epochs \in Seq(Windows)
      BY DEF TypeOK
    <3>2. epochs = <<>> <=> Len(chain.lines) = 0
      BY <3>1, <1>3
    <3>3. ChainLine.prev = IF epochs = <<>> THEN 0 ELSE epochs[Len(epochs)]
      BY DEF ChainLine
    <3> QED BY <1>3, <2>1, <2>4, <3>2, <3>3
  <2>6. ASSUME NEW i \in 1..Len(g.lines)
        PROVE  g.lines[i].prev = IF i = 1 THEN 0 ELSE g.lines[i - 1].win
    <3>1. CASE i \in 1..Len(chain.lines)
      BY <1>8, <2>1, <2>2, <3>1 DEF Linked
    <3>2. CASE i = Len(chain.lines) + 1
      BY <2>1, <2>2, <2>3, <2>5, <3>2
    <3> QED BY <2>1, <3>1, <3>2
  <2> QED BY <2>6 DEF Linked
<1>10. Chained' = Wins(Trim(chain', Torn)) /\ Chained = Wins(chain)
  BY <1>2 DEF Chained
<1> HIDE DEF g
<1> QED BY <1>6, <1>7, <1>8, <1>9, <1>10

ChainFiles == Lines([win : 0..MaxWindows, prev : 0..MaxWindows])
GapFiles == Lines(0..MaxWindows)

\* What a crash or a failed append leaves of the lines.
LEMMA LineLeft ==
    ASSUME IInv, Up, NEW how \in {"lost", "fragment", "whole"}, LeaveLine(how)
    PROVE  /\ chain' \in ChainFiles /\ gaps' \in GapFiles
           /\ Clean(Trim(chain, Torn), Torn)' /\ Clean(Trim(gaps, TornGap), TornGap)'
           /\ Linked(Trim(chain, Torn))'
           /\ how = "lost" => chain' = chain /\ gaps' = gaps
           /\ \/ Chained' = Chained
              \/ pc = "seal" /\ Chained' = Append(Chained, offered) /\ gaps' = gaps
           /\ \/ Recorded' = Recorded
              \/ \E i \in NextGap : Recorded' = Recorded \cup {i} /\ Chained' = Chained
<1>1. /\ chain \in ChainFiles /\ gaps \in GapFiles
      /\ Clean(chain, Torn) /\ Clean(gaps, TornGap) /\ Linked(Trim(chain, Torn))
      /\ Clean(Trim(chain, Torn), Torn) /\ Clean(Trim(gaps, TornGap), TornGap)
  BY DEF IInv, FilesOK, TypeOK, ChainFiles, GapFiles
<1>2. chain' = chain => /\ chain' \in ChainFiles /\ Clean(Trim(chain, Torn), Torn)'
                        /\ Linked(Trim(chain, Torn))' /\ Chained' = Chained
  BY <1>1 DEF Chained
<1>3. gaps' = gaps => /\ gaps' \in GapFiles /\ Clean(Trim(gaps, TornGap), TornGap)'
                      /\ Recorded' = Recorded
  BY <1>1 DEF Recorded
<1>4. CASE pc = "seal"
  <2>1. NextGap = {}
    BY <1>4 DEF NextGap, First, ToRecord
  <2>2. gaps' = gaps /\ chain' = Put(chain, ChainLine, Torn, how)
    BY <1>4, <2>1 DEF LeaveLine
  <2>3. /\ chain' \in ChainFiles /\ Clean(Trim(chain, Torn), Torn)' /\ Linked(Trim(chain, Torn))'
        /\ Chained' = Chained \/ (how = "whole" /\ Chained' = Append(Chained, offered))
    BY <1>4, <2>2, ChainStep DEF IInv, ChainFiles
  <2>4. how = "lost" => chain' = chain
    BY <2>2 DEF Put
  <2> QED BY <1>3, <1>4, <2>2, <2>3, <2>4
<1>5. CASE pc # "seal" /\ NextGap = {}
  BY <1>2, <1>3, <1>5 DEF LeaveLine
<1>6. CASE pc # "seal" /\ NextGap # {}
  <2>1. PICK i \in NextGap : gaps' = Put(gaps, i, TornGap, how)
    BY <1>6 DEF LeaveLine
  <2>2. chain' = chain
    BY <1>6 DEF LeaveLine
  <2>3. /\ gaps' \in GapFiles /\ Clean(Trim(gaps, TornGap), TornGap)'
        /\ Recorded' = Recorded \/ (how = "whole" /\ Recorded' = Recorded \cup {i})
    BY <1>1, <2>1, GapStep DEF IInv, GapFiles
  <2>4. how = "lost" => gaps' = gaps
    BY <2>1 DEF Put
  <2> QED BY <1>2, <2>2, <2>3, <2>4
<1> QED BY <1>4, <1>5, <1>6

\* A step leaves the logs alone, or appends the next epoch or the next gap.
LEMMA LogStep ==
    ASSUME IInv, [Next]_vars, NoBareLine
    PROVE  /\ chain' \in ChainFiles /\ gaps' \in GapFiles /\ FilesOK'
           /\ \/ Chained' = Chained
              \/ /\ pc = "seal" /\ Chained' = Append(Chained, offered) /\ Recorded' = Recorded
                 /\ UNCHANGED <<files, rotten, acks, got, sent, offered>>
           /\ \/ Recorded' = Recorded
              \/ /\ \E i \in NextGap : Recorded' = Recorded \cup {i}
                 /\ Chained' = Chained /\ UNCHANGED <<files, rotten, acks, got, sent, offered>>
<1> DEFINE Logs ==
      /\ chain' \in ChainFiles /\ gaps' \in GapFiles /\ FilesOK'
      /\ \/ Chained' = Chained
         \/ /\ pc = "seal" /\ Chained' = Append(Chained, offered) /\ Recorded' = Recorded
            /\ UNCHANGED <<files, rotten, acks, got, sent, offered>>
      /\ \/ Recorded' = Recorded
         \/ /\ \E i \in NextGap : Recorded' = Recorded \cup {i}
            /\ Chained' = Chained /\ UNCHANGED <<files, rotten, acks, got, sent, offered>>
<1>1. /\ chain \in ChainFiles /\ gaps \in GapFiles /\ FilesOK
      /\ Clean(Trim(chain, Torn), Torn) /\ Clean(Trim(gaps, TornGap), TornGap)
      /\ Linked(Trim(chain, Torn)) /\ pc # "refused"
      /\ Up => Clean(chain, Torn) /\ Clean(gaps, TornGap)
  BY DEF IInv, FilesOK, TypeOK, ChainFiles, GapFiles, NotRefused
<1>2. ASSUME chain' = chain, gaps' = gaps, pc' # "refused", Up' => Up PROVE Logs
  <2>1. Chained' = Chained /\ Recorded' = Recorded
    BY <1>2 DEF Chained, Recorded
  <2>2. FilesOK'
    BY <1>1, <1>2 DEF FilesOK, NotRefused
  <2> QED BY <1>1, <1>2, <2>1, <2>2
<1>3. ASSUME Open PROVE Logs
  <2>1. ~Holed(chain, Torn) /\ ~Holed(gaps, TornGap)
    BY <1>1, WellKeptNotHoled DEF ChainFiles, GapFiles
  <2>2. ~Corrupt
    BY <1>1, <2>1 DEF Corrupt
  <2>3. chain' = Trim(chain, Torn) /\ gaps' = Trim(gaps, TornGap) /\ pc' = "recover"
    BY <1>3, <2>2 DEF Open
  <2>4. chain' \in ChainFiles /\ gaps' \in GapFiles
    BY <1>1, <2>3, TrimTyped DEF ChainFiles, GapFiles
  <2>5. Clean(chain', Torn) /\ Clean(gaps', TornGap)
    BY <1>1, <2>3
  <2>6. Trim(chain', Torn) = chain' /\ Trim(gaps', TornGap) = gaps'
    BY <2>4, <2>5, TrimClean DEF ChainFiles, GapFiles
  <2>7. FilesOK'
    BY <1>1, <2>3, <2>5, <2>6 DEF FilesOK, NotRefused
  <2>8. Chained' = Chained
    BY <2>3, <2>6 DEF Chained
  <2>9. Recorded' = Recorded
    BY <1>1, <2>3, GapSetTrim DEF Recorded, GapFiles
  <2> QED BY <2>4, <2>7, <2>8, <2>9
<1>4. ASSUME RecordGap PROVE Logs
  <2>1. PICK i \in NextGap : gaps' = Put(gaps, i, TornGap, "whole")
    BY <1>4 DEF RecordGap
  <2>2. Up
    BY <2>1 DEF NextGap, First, ToRecord, Damaged, Up, IInv, TypeOK, Released, Ids
  <2>3. /\ gaps' \in GapFiles /\ Clean(Trim(gaps, TornGap), TornGap)'
        /\ Clean(gaps, TornGap)' /\ Recorded' = Recorded \cup {i}
    BY <1>1, <2>1, <2>2, GapStep DEF IInv, GapFiles
  <2>4. chain' = chain /\ pc' = pc /\ Chained' = Chained
        /\ UNCHANGED <<files, rotten, acks, got, sent, offered>>
    BY <1>4 DEF RecordGap, Chained, ground
  <2>5. FilesOK'
    BY <1>1, <2>2, <2>3, <2>4 DEF FilesOK, NotRefused, Up
  <2> QED BY <1>1, <2>1, <2>3, <2>4, <2>5
<1>5. ASSUME SealChain PROVE Logs
  <2>1. /\ pc = "seal" /\ chain' = Put(chain, ChainLine, Torn, "whole") /\ gaps' = gaps /\ pc' = "caps"
        /\ UNCHANGED <<files, rotten, acks, got, sent, offered>>
    BY <1>5 DEF SealChain, ground
  <2>2. /\ chain' \in ChainFiles /\ Clean(Trim(chain, Torn), Torn)' /\ Linked(Trim(chain, Torn))'
        /\ Clean(chain, Torn)' /\ Chained' = Append(Chained, offered)
    BY <2>1, ChainStep DEF IInv, ChainFiles
  <2>3. Recorded' = Recorded
    BY <2>1 DEF Recorded
  <2>4. FilesOK'
    BY <1>1, <2>1, <2>2 DEF FilesOK, NotRefused, Up
  <2> QED BY <1>1, <2>1, <2>2, <2>3, <2>4
<1>6. ASSUME Crash PROVE Logs
  <2>1. Up /\ pc' = "down" /\ UNCHANGED <<files, rotten, acks, got, sent, offered>>
    BY <1>6 DEF Crash, Up, ground
  <2>2. PICK how \in {"lost", "fragment", "whole"} : LeaveLine(how)
    BY <1>6, JournalAssumption DEF Crash, NoBareLine, Outcomes
  <2>3. FilesOK'
    BY <2>1, <2>2, LineLeft DEF FilesOK, NotRefused, Up
  <2>4. gaps' = gaps => Recorded' = Recorded
    BY DEF Recorded
  <2> QED BY <2>1, <2>2, <2>3, <2>4, LineLeft
<1>7. ASSUME FailAppend PROVE Logs
  <2>1. Up /\ pc' # "refused"
    BY <1>7 DEF FailAppend, NextGap, First, ToRecord, Damaged, Up, IInv, TypeOK, Released, Ids
  <2>2. LeaveLine("lost")
    BY <1>7 DEF FailAppend, NoBareLine
  <2>3. chain' = chain /\ gaps' = gaps
    BY <2>1, <2>2, LineLeft
  <2> QED BY <1>2, <2>1, <2>3
<1>8. ASSUME RemoveOrphan \/ DropVictim \/ RemoveReleased \/ Done \/ Seal PROVE Logs
  BY <1>1, <1>2, <1>8 DEF RemoveOrphan, DropVictim, RemoveReleased, Done, Seal, Up, disk, MemoryOK, IInv
<1>9. ASSUME Channel PROVE Logs
  BY <1>1, <1>2, <1>9 DEF Channel, OnAck, Transmit, SignAck, Up, disk
<1>10. ASSUME UNCHANGED vars \/ Rest \/ \E i \in Windows : Rot(i) PROVE Logs
  BY <1>1, <1>2, <1>10 DEF Rest, Rot, Up, vars, disk
<1> HIDE DEF Logs
<1>11. Logs
  BY <1>3, <1>4, <1>5, <1>6, <1>7, <1>8, <1>9, <1>10 DEF Next, Edge, Recover, Work
<1> QED BY <1>11 DEF Logs

-----------------------------------------------------------------------------
(* Positions in the chain.                                                 *)

\* The position of a root is one of the chain, or 0.
LEMMA IndexRange ==
    ASSUME NEW s \in Seq(Windows), NEW w
    PROVE  IndexOf(s, w) \in 0..Len(s) /\ (IndexOf(s, w) # 0 => s[IndexOf(s, w)] = w)
<1>1. Len(s) \in Nat
  OBVIOUS
<1>2. CASE \E i \in 1..Len(s) : s[i] = w
  <2>1. IndexOf(s, w) \in 1..Len(s) /\ s[IndexOf(s, w)] = w
    BY <1>2 DEF IndexOf
  <2> QED BY <1>1, <2>1
<1>3. CASE ~\E i \in 1..Len(s) : s[i] = w
  BY <1>1, <1>3 DEF IndexOf
<1> QED BY <1>2, <1>3

\* In a chain of ascending windows it is the only position of the root.
LEMMA IndexUnique ==
    ASSUME NEW s \in Seq(Windows), NEW i \in 1..Len(s),
           \A j, k \in 1..Len(s) : j < k => s[j] < s[k]
    PROVE  IndexOf(s, s[i]) = i
<1>1. IndexOf(s, s[i]) \in 1..Len(s) /\ s[IndexOf(s, s[i])] = s[i]
  BY DEF IndexOf
<1>2. \A j \in 1..Len(s) : s[j] \in Int
  BY JournalAssumption DEF Windows
<1>3. ~(i < IndexOf(s, s[i])) /\ ~(IndexOf(s, s[i]) < i)
  BY <1>1, <1>2
<1> QED BY <1>1, <1>3

\* The readable chain is a sequence of windows, in every state of the invariant.
LEMMA ChainedSeq ==
    TypeOK /\ ChainOK =>
        Chained \in Seq(Windows) /\ Len(Chained) \in Nat /\ ChainedIds \subseteq Windows
BY ChainedTyped

\* The acknowledged position stays where it is as the chain grows.
LEMMA ThroughStays ==
    ASSUME IInv, [Next]_vars, NoBareLine, ChainOK', TypeOK', acks' = acks
    PROVE  Through' = Through
<1>a. (TypeOK /\ ChainOK => Chained \in Seq(Windows))'
  BY ChainedSeq, PTL
<1>1. Chained \in Seq(Windows) /\ (Chained \in Seq(Windows))'
  BY <1>a, ChainedTyped DEF IInv
<1>2. CASE Chained' = Chained
  BY <1>2 DEF Through
<1>3. CASE Chained' = Append(Chained, offered)
  <2>1. CASE \E i \in ChainedIds : Chained[i] = acks.through
    <3>1. PICK i \in ChainedIds : Chained[i] = acks.through
      BY <2>1
    <3>2. i \in 1..Len(Chained) /\ i \in 1..Len(Chained') /\ Chained'[i] = Chained[i]
      BY <1>1, <1>3, <3>1 DEF ChainedIds
    <3>3. IndexOf(Chained, Chained[i]) = i
      BY <1>1, <3>2, IndexUnique DEF IInv, ChainOK, ChainedIds
    <3>4. IndexOf(Chained', Chained'[i]) = i
      BY <1>1, <3>2, IndexUnique DEF ChainOK, ChainedIds
    <3> QED BY <3>1, <3>2, <3>3, <3>4 DEF Through
  <2>2. CASE acks.through = 0
    <3>1. \A w \in Windows : w # 0
      BY JournalAssumption DEF Windows
    <3>2. \A i \in 1..Len(Chained) : Chained[i] \in Windows
      BY <1>1
    <3>3. \A i \in 1..Len(Chained') : Chained'[i] \in Windows
      BY <1>1
    <3> QED BY <2>2, <3>1, <3>2, <3>3 DEF Through, IndexOf
  <2>3. acks.through = 0 \/ <<acks.through, acks.seq>> \in sent
    BY DEF IInv, GroundOK
  <2> QED BY <2>1, <2>2, <2>3 DEF IInv, GroundOK
<1> QED BY <1>2, <1>3, LogStep

-----------------------------------------------------------------------------
(* Types, and the order of the chain.                                      *)

\* Every step keeps the types.
LEMMA TypeStep ==
    ASSUME IInv, [Next]_vars, NoBareLine
    PROVE  TypeOK'
<1> DEFINE Disk ==
             /\ files' \in [Windows -> 0..MaxWindows] /\ rotten' \subseteq Windows
             /\ acks' \in [seq : Int, through : 0..MaxWindows]
           Control == pc' \in {"down", "refused", "recover", "idle", "seal", "caps", "ack"}
           Memory ==
             /\ epochs' \in Seq(Windows) /\ Len(epochs') <= MaxWindows
             /\ held' \subseteq 1..Len(epochs') /\ acked' \in 0..Len(epochs')
             /\ marked' \subseteq 1..Len(epochs')
             /\ lastSeq' \in Int /\ victim' \in 0..Len(epochs')
           Others ==
             /\ got' \subseteq Windows /\ sent' \subseteq Windows \X Nat
             /\ offered' \in 0..MaxWindows /\ failed' \in Nat /\ rots' \in Nat
<1> USE JournalAssumption
<1>1. chain' \in ChainFiles /\ gaps' \in GapFiles
  BY LogStep
<1>2. ChainOK /\ Chained \in Seq(Windows) /\ Len(Chained) <= MaxWindows /\ Len(Chained) \in Nat
  BY ChainedTyped DEF IInv
<1>3. Up => epochs = Chained
  BY DEF IInv, MemoryOK
<1>4. /\ files \in [Windows -> 0..MaxWindows] /\ rotten \subseteq Windows
      /\ acks \in [seq : Int, through : 0..MaxWindows] /\ acks.seq \in Int
      /\ pc \in {"down", "refused", "recover", "idle", "seal", "caps", "ack"}
      /\ epochs \in Seq(Windows) /\ Len(epochs) <= MaxWindows /\ Len(epochs) \in Nat
      /\ held \subseteq 1..Len(epochs) /\ acked \in 0..Len(epochs) /\ marked \subseteq 1..Len(epochs)
      /\ lastSeq \in Int /\ victim \in 0..Len(epochs)
      /\ got \subseteq Windows /\ sent \subseteq Windows \X Nat /\ offered \in 0..MaxWindows
      /\ failed \in Nat /\ rots \in Nat
  <2>1. TypeOK
    BY DEF IInv
  <2>2. acks \in [seq : Int, through : 0..MaxWindows] /\ epochs \in Seq(Windows)
    BY <2>1 DEF TypeOK
  <2>3. acks.seq \in Int /\ Len(epochs) \in Nat
    BY <2>2
  <2>4. Ids = 1..Len(epochs)
    BY DEF Ids
  <2> QED BY <2>1, <2>2, <2>3, <2>4 DEF TypeOK
<1>5. Ids = 1..Len(epochs) /\ Ids \subseteq Windows
  BY <1>4 DEF Ids, Windows
<1>6. UNCHANGED <<files, rotten, acks>> => Disk
  BY <1>4
<1>7. UNCHANGED memory => Memory
  <2> SUFFICES ASSUME UNCHANGED memory PROVE Memory
    OBVIOUS
  <2>1. /\ epochs' = epochs /\ held' = held /\ acked' = acked /\ marked' = marked
        /\ lastSeq' = lastSeq /\ victim' = victim
    BY DEF memory
  <2> QED BY <1>4, <2>1
<1>8. UNCHANGED <<ground, offered, faults>> => Others
  <2> SUFFICES ASSUME UNCHANGED <<ground, offered, faults>> PROVE Others
    OBVIOUS
  <2>1. got' = got /\ sent' = sent /\ offered' = offered /\ failed' = failed /\ rots' = rots
    BY DEF ground, faults
  <2> QED BY <1>4, <2>1
<1>9. ASSUME NEW i \in Windows, Remove(i) PROVE files' \in [Windows -> 0..MaxWindows] /\ rotten' \subseteq Windows
  BY <1>4, <1>9 DEF Remove
<1>10. Forgotten => Memory
  <2>1. Len(<<>>) = 0 /\ <<>> \in Seq(Windows)
    OBVIOUS
  <2> QED BY <2>1 DEF Forgotten
<1> DEFINE All == Disk /\ Control /\ Memory /\ Others
<1>11. ASSUME Open PROVE All
  <2>1. Others
    BY <1>8, <1>11 DEF Open
  <2>2. CASE Corrupt
    BY <1>6, <1>7, <1>11, <2>1, <2>2 DEF Open, disk
  <2>3. CASE ~Corrupt
    <3>1. IndexOf(Chained, acks.through) \in 0..Len(Chained)
      BY <1>2, IndexRange
    <3>2. /\ epochs' = Chained /\ acked' = IndexOf(Chained, acks.through) /\ lastSeq' = acks.seq
          /\ held' \subseteq 1..Len(Chained) /\ marked' \subseteq 1..Len(Chained) /\ victim' = 0
          /\ pc' = "recover" /\ UNCHANGED <<files, rotten, acks>>
      BY <1>11, <2>3 DEF Open
    <3>3. Memory
      <4> DEFINE n == Len(Chained)
      <4>1. epochs' \in Seq(Windows) /\ n <= MaxWindows /\ n \in Nat /\ Len(epochs') = n
        BY <1>2, <3>2
      <4>2. held' \subseteq 1..n /\ acked' \in 0..n /\ marked' \subseteq 1..n /\ lastSeq' \in Int /\ victim' = 0
        BY <1>4, <3>1, <3>2
      <4> HIDE DEF n
      <4> QED BY <4>1, <4>2
    <3> QED BY <1>6, <2>1, <3>2, <3>3
  <2> QED BY <2>2, <2>3
<1>12. ASSUME RecordGap PROVE All
  <2>1. PICK i \in NextGap : /\ held' = held \ {i} /\ victim' = i
                             /\ marked' = IF i > acked THEN marked \cup {i} ELSE marked
    BY <1>12 DEF RecordGap
  <2>2. i \in 1..Len(epochs)
    BY <1>5, NextGapIsEpoch DEF IInv
  <2>3. Memory
    BY <1>4, <1>12, <2>1, <2>2 DEF RecordGap
  <2> QED BY <1>4, <1>6, <1>8, <1>12, <2>3 DEF RecordGap
<1>13. ASSUME RemoveOrphan \/ RemoveReleased PROVE All
  <2>1. PICK i \in Windows : Remove(i)
    BY <1>5, <1>13 DEF RemoveOrphan, RemoveReleased, First, Orphans, Released, Present
  <2> QED BY <1>4, <1>7, <1>8, <1>9, <1>13, <2>1 DEF RemoveOrphan, RemoveReleased
<1>14. ASSUME DropVictim PROVE All
  <2>1. victim \in Windows
    <3>1. victim \in 0..Len(epochs) /\ victim # 0 /\ Len(epochs) \in Nat
      BY <1>4, <1>14 DEF DropVictim
    <3>2. victim \in 1..Len(epochs)
      BY <3>1
    <3> QED BY <1>5, <3>2
  <2>2. Memory
    BY <1>4, <1>14 DEF DropVictim
  <2> QED BY <1>4, <1>8, <1>9, <1>14, <2>1, <2>2 DEF DropVictim
<1>15. ASSUME Done PROVE All
  BY <1>6, <1>7, <1>8, <1>15 DEF Done, disk
<1>16. ASSUME Seal PROVE All
  <2>1. offered + 1 \in 0..MaxWindows
    BY <1>4, <1>16 DEF Seal
  <2>2. Disk
    BY <1>4, <1>16, <2>1 DEF Seal
  <2>3. Others
    BY <1>4, <1>16, <2>1 DEF Seal, ground, faults
  <2> QED BY <1>7, <1>16, <2>2, <2>3 DEF Seal
<1>17. ASSUME SealChain PROVE All
  <2>1. pc = "seal" /\ epochs = Chained
    BY <1>3, <1>17 DEF SealChain, Up
  <2>2. offered \in Windows /\ Len(epochs) + 1 <= MaxWindows
    BY <1>2, <1>4, <2>1 DEF ChainOK, Windows
  <2>3. epochs' = Append(epochs, offered) /\ held' = held \cup {Len(epochs) + 1}
        /\ UNCHANGED <<files, rotten, acks, acked, marked, lastSeq, victim>> /\ pc' = "caps"
        /\ UNCHANGED <<ground, offered, faults>>
    BY <1>17 DEF SealChain
  <2>4. epochs' \in Seq(Windows) /\ Len(epochs') = Len(epochs) + 1
    BY <1>4, <2>2, <2>3
  <2>5. Memory
    <3> DEFINE n == Len(epochs)
    <3>1. n \in Nat /\ Len(epochs') = n + 1 /\ n + 1 <= MaxWindows
      BY <1>4, <2>2, <2>4
    <3>2. held \subseteq 1..n /\ acked \in 0..n /\ marked \subseteq 1..n /\ victim \in 0..n /\ lastSeq \in Int
          /\ held' = held \cup {n + 1}
      BY <1>4, <2>3
    <3> HIDE DEF n
    <3>3. held' \subseteq 1..(n + 1)
      BY <3>1, <3>2
    <3> QED BY <2>3, <2>4, <3>1, <3>2, <3>3
  <2> QED BY <1>6, <1>8, <2>3, <2>5
<1>18. ASSUME NEW root \in Windows, NEW seq \in 0..(MaxAcks - 1), OnAck(root, seq) PROVE All
  <2>1. root \in 0..MaxWindows /\ seq \in Int
    BY DEF Windows
  <2>2. Disk
    BY <1>4, <1>18, <2>1 DEF OnAck
  <2>3. PICK i \in 1..Len(epochs) : acked' = (IF i > acked THEN i ELSE acked) /\ held' = held \ 1..i
    BY <1>18 DEF OnAck, Ids
  <2>4. Memory
    <3>1. epochs' = epochs /\ marked' = marked /\ victim' = victim /\ lastSeq' = seq
      BY <1>18 DEF OnAck
    <3>2. acked' \in 0..Len(epochs) /\ held' \subseteq 1..Len(epochs)
      BY <1>4, <2>3
    <3> QED BY <1>4, <2>1, <3>1, <3>2
  <2> QED BY <1>8, <1>18, <2>2, <2>4 DEF OnAck
<1>19. ASSUME NEW i \in Windows, Transmit(i) \/ SignAck(i) PROVE All
  <2>1. Disk /\ Control /\ Memory
    BY <1>4, <1>6, <1>7, <1>19 DEF Transmit, SignAck, disk
  <2>2. ASSUME Transmit(i) PROVE got' \subseteq Windows /\ UNCHANGED <<sent, offered, faults>>
    <3>1. epochs[i] \in Windows
      BY <1>4, <2>2 DEF Transmit
    <3> QED BY <1>4, <2>2, <3>1 DEF Transmit
  <2>3. ASSUME SignAck(i) PROVE sent' \subseteq Windows \X Nat /\ UNCHANGED <<got, offered, faults>>
    <3>1. epochs[i] \in Windows /\ Cardinality(sent) \in Nat
      BY <1>4, <2>3, FS_CardinalityType DEF SignAck, Ids, IInv, GroundOK
    <3> QED BY <1>4, <2>3, <3>1 DEF SignAck
  <2> QED BY <1>4, <1>19, <2>1, <2>2, <2>3 DEF faults
<1>20. ASSUME Crash PROVE All
  <2>1. Forgotten /\ UNCHANGED <<files, rotten, acks, got, sent, offered, rots>> /\ failed' = failed + 1 /\ pc' = "down"
    BY <1>20 DEF Crash, Fault, ground
  <2>2. Others
    BY <1>4, <2>1
  <2> QED BY <1>6, <1>10, <2>1, <2>2
<1>21. ASSUME FailAppend PROVE All
  <2>1. UNCHANGED <<files, rotten, acks, got, sent, offered, rots>> /\ failed' = failed + 1
    BY <1>21 DEF FailAppend, Fault, ground
  <2>2. (Forgotten /\ pc' = "down") \/ (UNCHANGED memory /\ pc' = "idle")
    BY <1>21 DEF FailAppend
  <2>3. Others
    BY <1>4, <2>1
  <2> QED BY <1>6, <1>7, <1>10, <2>1, <2>2, <2>3
<1>22. ASSUME UNCHANGED vars \/ Rest PROVE All
  <2>1. UNCHANGED <<files, rotten, acks>> /\ UNCHANGED memory /\ UNCHANGED <<ground, offered, faults>> /\ pc' = pc
    BY <1>22 DEF vars, Rest, disk
  <2> QED BY <1>4, <1>6, <1>7, <1>8, <2>1
<1>23. ASSUME NEW i \in Windows, Rot(i) PROVE All
  <2>1. rotten' = rotten \cup {i} /\ rots' = rots + 1 /\ UNCHANGED memory
        /\ UNCHANGED <<files, acks, pc, got, sent, offered, failed>>
    BY <1>23 DEF Rot, ground
  <2>2. Disk /\ Others
    BY <1>4, <2>1
  <2> QED BY <1>4, <1>7, <2>1, <2>2
<1> HIDE DEF All
<1>24. All
  BY <1>11, <1>12, <1>13, <1>14, <1>15, <1>16, <1>17, <1>18, <1>19, <1>20, <1>21, <1>22, <1>23
     DEF Next, Edge, Recover, Work, Channel
<1> QED BY <1>1, <1>24 DEF All, TypeOK, ChainFiles, GapFiles, Ids

\* The chain is where a seal left it until its line is written.
LEMMA SealPending ==
    ASSUME IInv, [Next]_vars, pc' = "seal"
    PROVE  Seal \/ (pc = "seal" /\ UNCHANGED <<chain, gaps, files, offered>>)
<1>1. pc = "seal" => victim = 0
  BY DEF IInv, MemoryOK, Up
<1>2. ToRecord # {} => pc \in {"recover", "caps"}
  BY DEF ToRecord
<1>3. ~Open /\ ~SealChain /\ ~Crash /\ ~Done /\ ~FailAppend /\ ~Channel
  BY DEF Open, SealChain, Crash, Done, FailAppend, Channel, OnAck, Transmit, SignAck, disk
<1>4. RecordGap => NextGap # {} /\ pc' = pc
  BY DEF RecordGap
<1>5. ~RecordGap
  BY <1>2, <1>4 DEF NextGap, First
<1>6. ~RemoveOrphan /\ ~RemoveReleased /\ ~DropVictim
  BY <1>1 DEF RemoveOrphan, RemoveReleased, DropVictim
<1>7. Rest \/ UNCHANGED vars \/ (\E i \in Windows : Rot(i)) =>
        pc = "seal" /\ UNCHANGED <<chain, gaps, files, offered>>
  BY DEF Rest, vars, disk, Rot
<1> QED BY <1>3, <1>5, <1>6, <1>7 DEF Next, Edge, Recover, Work

\* Every step keeps the chain in the order of the windows.
LEMMA OrderStep ==
    ASSUME IInv, [Next]_vars, NoBareLine
    PROVE  ChainOK'
<1> USE JournalAssumption
<1>1. /\ TypeOK /\ ChainOK /\ Chained \in Seq(Windows) /\ Len(Chained) \in Nat
      /\ offered \in 0..MaxWindows /\ Len(Chained) <= offered
      /\ \A i \in 1..Len(Chained) : Chained[i] \in 1..offered
      /\ \A i, j \in 1..Len(Chained) : i < j => Chained[i] < Chained[j]
      /\ Recorded \subseteq 1..Len(Chained)
  BY ChainedTyped DEF IInv, ChainOK, ChainedIds, TypeOK
<1>2. offered' \in {offered, offered + 1}
  BY DEF Next, Edge, Recover, Work, Channel, Open, RemoveOrphan, RecordGap, DropVictim,
         RemoveReleased, Done, Seal, SealChain, OnAck, Transmit, SignAck, Crash, FailAppend, Rot, Rest, vars
<1>3. /\ Len(Chained') <= offered' /\ Len(Chained') \in Nat
      /\ \A i \in 1..Len(Chained') : Chained'[i] \in 1..offered'
      /\ \A i, j \in 1..Len(Chained') : i < j => Chained'[i] < Chained'[j]
      /\ 1..Len(Chained) \subseteq 1..Len(Chained')
  <2>1. CASE Chained' = Chained
    BY <1>1, <1>2, <2>1
  <2>2. CASE pc = "seal" /\ Chained' = Append(Chained, offered) /\ offered' = offered
    <3>1. Len(Chained) < offered /\ \A i \in 1..Len(Chained) : Chained[i] < offered
      BY <2>2 DEF IInv, ChainOK, ChainedIds
    <3>2. Len(Chained') = Len(Chained) + 1 /\ Chained'[Len(Chained) + 1] = offered
          /\ \A i \in 1..Len(Chained) : Chained'[i] = Chained[i]
      BY <1>1, <2>2
    <3> QED BY <1>1, <2>2, <3>1, <3>2
  <2> QED BY <2>1, <2>2, LogStep
<1>4. Recorded' \subseteq 1..Len(Chained')
  <2>0. Recorded \subseteq 1..Len(Chained) /\ 1..Len(Chained) \subseteq 1..Len(Chained')
    <3>1. Recorded \subseteq 1..Len(Chained)
      BY DEF IInv, ChainOK, ChainedIds
    <3>2. 1..Len(Chained) \subseteq 1..Len(Chained')
      BY <1>3
    <3> QED BY <3>1, <3>2
  <2>1. CASE Recorded' = Recorded
    BY <2>0, <2>1, Zenon
  <2>2. CASE \E i \in NextGap : Recorded' = Recorded \cup {i} /\ Chained' = Chained
    <3>1. PICK i \in NextGap : Recorded' = Recorded \cup {i} /\ Chained' = Chained
      BY <2>2
    <3>2. i \in Ids /\ i \in ToRecord
      BY <1>1, NextGapIsEpoch
    <3>3. Up
      BY <3>2 DEF ToRecord, Up
    <3>4. Ids = 1..Len(Chained)
      BY <3>3 DEF IInv, MemoryOK, Ids
    <3> QED BY <2>0, <3>1, <3>2, <3>4
  <2> QED BY <2>1, <2>2, LogStep
<1>5. ASSUME pc' = "seal"
      PROVE  /\ Len(Chained') < offered' /\ \A i \in 1..Len(Chained') : Chained'[i] < offered'
             /\ files'[Len(Chained') + 1] # 0
  <2>1. CASE Seal
    <3>1. chain' = chain /\ offered' = offered + 1 /\ offered < MaxWindows
          /\ files' = [files EXCEPT ![Len(epochs) + 1] = offered + 1] /\ pc = "idle"
      BY <2>1 DEF Seal
    <3>2. Chained' = Chained /\ epochs = Chained
      BY <3>1 DEF Chained, IInv, MemoryOK, Up
    <3>3. files \in [Windows -> 0..MaxWindows]
      BY <1>1 DEF TypeOK
    <3>4. Len(Chained) + 1 \in Windows
      BY <1>1, <3>1 DEF Windows
    <3> QED BY <1>1, <3>1, <3>2, <3>3, <3>4
  <2>2. CASE pc = "seal" /\ UNCHANGED <<chain, gaps, files, offered>>
    <3>1. Chained' = Chained
      BY <2>2 DEF Chained
    <3> QED BY <2>2, <3>1 DEF IInv, ChainOK, ChainedIds
  <2> QED BY <1>5, <2>1, <2>2, SealPending
<1> QED BY <1>3, <1>4, <1>5 DEF ChainOK, ChainedIds

-----------------------------------------------------------------------------
(* The memory and the files.                                               *)

\* The invariant, spelled out for a process that is up.
LEMMA WhenUp ==
    ASSUME IInv, Up
    PROVE  /\ epochs = Chained /\ acked = Through /\ lastSeq = acks.seq
           /\ Ids = ChainedIds /\ ChainedIds = 1..Len(Chained) /\ Len(Chained) \in Nat
           /\ held \subseteq Ids \cap Present
           /\ \A i \in held : i > acked /\ i \notin Recorded
           /\ marked \subseteq Recorded /\ Recorded \subseteq Ids
           /\ victim # 0 => victim \in Recorded \ held /\ pc \in {"recover", "caps"}
           /\ files \in [Windows -> 0..MaxWindows] /\ Ids \subseteq Windows
           /\ acked \in 0..Len(Chained)
<1>1. TypeOK /\ ChainOK /\ MemoryOK
  BY DEF IInv
<1>2. epochs = Chained
  BY <1>1 DEF MemoryOK
<1>3. Ids = ChainedIds /\ ChainedIds = 1..Len(Chained) /\ Len(Chained) \in Nat
  BY <1>1, <1>2, ChainedTyped DEF Ids, ChainedIds
<1>4. held \subseteq Ids /\ acked \in 0..Len(Chained) /\ files \in [Windows -> 0..MaxWindows]
  BY <1>1, <1>2 DEF TypeOK
<1>5. Ids \subseteq Windows
  BY <1>1, <1>3, ChainedSeq
<1> QED BY <1>1, <1>2, <1>3, <1>4, <1>5 DEF MemoryOK, ChainOK

\* A new acknowledgement covers everything the last one did.
LEMMA AckAhead ==
    ASSUME IInv, pc = "idle", NEW root, NEW seq \in Nat,
           VerifyAck(root, seq), seq > lastSeq, NEW i \in Ids, epochs[i] = root
    PROVE  /\ IndexOf(Chained, root) = i /\ acked <= i
           /\ acks.through <= root /\ acks.seq <= seq
<1> USE JournalAssumption
<1>1. /\ epochs = Chained /\ acked = Through /\ lastSeq = acks.seq
      /\ Ids = 1..Len(Chained) /\ Len(Chained) \in Nat
  BY WhenUp DEF Up
<1>2. /\ TypeOK /\ ChainOK /\ GroundOK /\ Chained \in Seq(Windows)
      /\ \A j, k \in 1..Len(Chained) : j < k => Chained[j] < Chained[k]
  BY ChainedTyped DEF IInv, ChainOK, ChainedIds
<1>3. IndexOf(Chained, root) = i
  BY <1>1, <1>2, IndexUnique
<1>4. root \in Windows /\ root \in Nat /\ acks.seq \in Int /\ acks.through \in Nat
  <2>1. Chained[i] \in Windows
    BY <1>1, <1>2
  <2>2. acks \in [seq : Int, through : 0..MaxWindows]
    BY <1>2 DEF TypeOK
  <2> QED BY <2>1, <2>2, <1>1 DEF Windows
<1>5. acks.seq <= seq
  BY <1>1, <1>4
<1>6. acks.through <= root
  <2>1. CASE acks = [seq |-> -1, through |-> 0]
    BY <1>4, <2>1
  <2>2. CASE <<acks.through, acks.seq>> \in sent
    BY <1>2, <1>5, <2>2 DEF VerifyAck, GroundOK
  <2> QED BY <1>2, <2>1, <2>2 DEF GroundOK
<1>7. acked <= i
  <2>1. acked \in 0..Len(Chained) /\ (acked # 0 => Chained[acked] = acks.through)
    BY <1>1, <1>2, IndexRange DEF Through
  <2>2. ASSUME i < acked PROVE FALSE
    <3>1. acked \in 1..Len(Chained) /\ i \in 1..Len(Chained)
      BY <1>1, <2>1, <2>2
    <3>2. Chained[i] < Chained[acked]
      BY <1>2, <2>2, <3>1
    <3>3. Chained[i] = root /\ Chained[acked] = acks.through
      BY <1>1, <2>1, <3>1
    <3> QED BY <1>4, <1>6, <3>2, <3>3
  <2>3. i \in Nat /\ acked \in Nat
    BY <1>1, <2>1
  <2> QED BY <2>2, <2>3
<1> QED BY <1>3, <1>5, <1>6, <1>7

\* What an acknowledgement leaves.
LEMMA AckStep ==
    ASSUME IInv, NEW root \in Windows, NEW seq \in 0..(MaxAcks - 1), OnAck(root, seq)
    PROVE  /\ pc = "idle" /\ pc' = "ack" /\ UNCHANGED <<chain, gaps, files, rotten, epochs, marked, victim>>
           /\ UNCHANGED <<got, sent, offered>>
           /\ Chained' = Chained /\ Recorded' = Recorded
           /\ acks' = [seq |-> seq, through |-> root] /\ lastSeq' = seq
           /\ <<root, seq>> \in sent
           /\ acked' = Through' /\ acked <= acked' /\ acked' \in Ids
           /\ held' = held \ 1..acked'
           /\ acks.through <= root /\ acks.seq <= seq
<1>1. PICK i \in Ids : /\ epochs[i] = root /\ acked' = (IF i > acked THEN i ELSE acked)
                       /\ held' = held \ 1..i
  BY DEF OnAck
<1>2. pc = "idle" /\ VerifyAck(root, seq) /\ seq > lastSeq /\ seq \in Nat
  BY DEF OnAck
<1>3. /\ IndexOf(Chained, root) = i /\ acked <= i
      /\ acks.through <= root /\ acks.seq <= seq
  BY <1>1, <1>2, AckAhead
<1>4. i \in Nat /\ acked \in Nat
  BY WhenUp, <1>2 DEF Up
<1>5. acked' = i
  BY <1>1, <1>3, <1>4
<1>6. /\ pc' = "ack" /\ UNCHANGED <<chain, gaps, files, rotten, epochs, marked, victim>>
      /\ UNCHANGED <<got, sent, offered>> /\ acks' = [seq |-> seq, through |-> root] /\ lastSeq' = seq
  BY DEF OnAck, ground
<1>7. Chained' = Chained /\ Recorded' = Recorded
  BY <1>6 DEF Chained, Recorded
<1>8. Through' = i
  BY <1>3, <1>6, <1>7 DEF Through
<1> QED BY <1>1, <1>2, <1>3, <1>4, <1>5, <1>6, <1>7, <1>8 DEF VerifyAck

\* Every step keeps the memory equal to what the files say.
LEMMA MemoryStep ==
    ASSUME IInv, [Next]_vars, NoBareLine
    PROVE  MemoryOK'
<1> USE JournalAssumption
<1> DEFINE Good ==
      /\ epochs' = Chained' /\ acked' = Through' /\ lastSeq' = acks'.seq
      /\ held' \subseteq Present'
      /\ \A i \in held' : i > acked' /\ i \notin Recorded'
      /\ marked' \subseteq Recorded'
      /\ victim' # 0 => victim' \in Recorded' \ held' /\ pc' \in {"recover", "caps"}
<1>1. SUFFICES ASSUME Up' PROVE Good
  BY DEF MemoryOK
<1>2. ChainOK' /\ TypeOK'
  BY OrderStep, TypeStep
<1>3. acks' = acks => Through' = Through
  BY <1>2, ThroughStays
<1>4. ASSUME Up, UNCHANGED <<chain, gaps, files, acks, memory>>, victim = 0 \/ pc' = pc PROVE Good
  <2>1. Chained' = Chained /\ Recorded' = Recorded /\ Present' = Present
    BY <1>4 DEF Chained, Recorded, Present
  <2>2. epochs' = epochs /\ held' = held /\ acked' = acked /\ marked' = marked /\ lastSeq' = lastSeq /\ victim' = victim
    BY <1>4 DEF memory
  <2> QED BY <1>3, <1>4, <2>1, <2>2, WhenUp
<1>5. ASSUME Up, UNCHANGED <<chain, gaps, acks, pc, epochs, held, acked, marked, lastSeq>>,
             victim' \in {victim, 0}, NEW i \in Windows \ held, Remove(i)
      PROVE  Good
  <2>1. Chained' = Chained /\ Recorded' = Recorded
    BY <1>5 DEF Chained, Recorded
  <2>2. held \subseteq Present' /\ files \in [Windows -> 0..MaxWindows]
    BY <1>5, WhenUp DEF Present, Remove
  <2> QED BY <1>3, <1>5, <2>1, <2>2, WhenUp
<1>6. ASSUME Open PROVE Good
  <2>1. ~Corrupt /\ pc = "down"
    BY <1>1, <1>6 DEF Open, Up
  <2>2. Chained' = Chained /\ Recorded' = Recorded
    BY <2>1, LogStep DEF NextGap, First, ToRecord
  <2>3. /\ epochs' = Chained /\ acked' = Through /\ lastSeq' = acks.seq
        /\ held' = {i \in ChainedIds : Sound(i, Chained) /\ i > Through} \ Recorded
        /\ marked' = {i \in ChainedIds : i > Through} \cap Recorded
        /\ victim' = 0 /\ UNCHANGED <<files, acks>>
    BY <1>6, <2>1 DEF Open, Through, ChainedIds, Recorded
  <2>4. \A i \in held' : i \in Windows /\ files[i] \in Windows
    BY <2>3, ChainedTyped DEF Sound, IInv
  <2>5. held' \subseteq Present'
    BY <2>3, <2>4 DEF Present, Windows
  <2> QED BY <1>3, <2>2, <2>3, <2>5
<1>7. ASSUME RecordGap PROVE Good
  <2>1. PICK i \in NextGap :
           /\ gaps' = Put(gaps, i, TornGap, "whole") /\ held' = held \ {i} /\ victim' = i
           /\ marked' = IF i > acked THEN marked \cup {i} ELSE marked
    BY <1>7 DEF RecordGap
  <2>2. pc' = pc /\ UNCHANGED <<chain, files, acks, epochs, acked, lastSeq>>
    BY <1>7 DEF RecordGap
  <2>3. i \in ToRecord /\ Up /\ pc \in {"recover", "caps"}
    BY <2>1, NextGapIsEpoch DEF IInv, ToRecord, Up
  <2>4. Clean(gaps, TornGap)
    BY <2>3 DEF IInv, FilesOK
  <2>5. Recorded' = Recorded \cup {i}
    BY <2>1, <2>4, GapStep DEF IInv
  <2>6. Chained' = Chained /\ Present' = Present
    BY <2>2 DEF Chained, Present
  <2> QED BY <1>3, <2>1, <2>2, <2>3, <2>5, <2>6, WhenUp
<1>8. ASSUME DropVictim PROVE Good
  <2>1. Up
    BY <1>1, <1>8 DEF DropVictim, Up
  <2>2. victim \in Windows \ held
    BY <1>8, <2>1, WhenUp DEF DropVictim
  <2> QED BY <1>5, <1>8, <2>1, <2>2 DEF DropVictim
<1>9. ASSUME RemoveOrphan PROVE Good
  <2>1. Up
    BY <1>9 DEF RemoveOrphan, Up
  <2>2. PICK i \in Windows \ Ids : Remove(i)
    BY <1>9 DEF RemoveOrphan, First, Orphans, Present
  <2>3. i \notin held
    BY <2>1, <2>2, WhenUp
  <2> QED BY <1>5, <1>9, <2>1, <2>2, <2>3 DEF RemoveOrphan, memory
<1>10. ASSUME RemoveReleased PROVE Good
  <2>1. Up
    BY <1>10 DEF RemoveReleased, Up
  <2>2. PICK i \in Windows \ held : Remove(i)
    BY <1>10 DEF RemoveReleased, First, Released, Present
  <2> QED BY <1>5, <1>10, <2>1, <2>2 DEF RemoveReleased, memory
<1>11. ASSUME Done PROVE Good
  <2>1. Up /\ UNCHANGED <<chain, gaps, files, acks, memory>>
    BY <1>11 DEF Done, Up, disk
  <2>2. victim = 0
    BY <1>11, <2>1, WhenUp DEF Done
  <2> QED BY <1>4, <2>1, <2>2
<1>12. ASSUME Seal PROVE Good
  <2>1. Up /\ pc = "idle" /\ UNCHANGED <<chain, gaps, acks, memory>>
        /\ files' = [files EXCEPT ![Len(epochs) + 1] = offered + 1] /\ offered \in Nat
    BY <1>12 DEF Seal, Up, IInv, TypeOK
  <2>2. Chained' = Chained /\ Recorded' = Recorded
    BY <2>1 DEF Chained, Recorded
  <2>3. Present \subseteq Present'
    BY <2>1, WhenUp DEF Present
  <2>4. epochs' = epochs /\ held' = held /\ acked' = acked /\ marked' = marked /\ lastSeq' = lastSeq /\ victim' = victim
    BY <2>1 DEF memory
  <2>5. victim = 0
    BY <2>1, WhenUp
  <2> QED BY <1>3, <2>1, <2>2, <2>3, <2>4, <2>5, WhenUp
<1>13. ASSUME SealChain PROVE Good
  <2>1. /\ pc = "seal" /\ Up /\ chain' = Put(chain, ChainLine, Torn, "whole")
        /\ epochs' = Append(epochs, offered) /\ held' = held \cup {Len(epochs) + 1}
        /\ UNCHANGED <<gaps, files, acks, acked, marked, lastSeq, victim>>
    BY <1>13 DEF SealChain, Up
  <2>2. Chained' = Append(Chained, offered)
    BY <2>1, ChainStep DEF IInv
  <2>3. Recorded' = Recorded /\ Present' = Present
    BY <2>1 DEF Recorded, Present
  <2>4. files[Len(Chained) + 1] # 0 /\ Len(Chained) + 1 <= offered
    BY <2>1, WhenUp DEF IInv, ChainOK, TypeOK
  <2>5. Len(Chained) + 1 \in Present
    BY <2>1, <2>4, WhenUp DEF IInv, TypeOK, Present, Windows
  <2>6. Len(Chained) + 1 > acked /\ Len(Chained) + 1 \notin Recorded
    BY <2>1, WhenUp
  <2>7. victim = 0
    BY <2>1, WhenUp
  <2> QED BY <1>3, <2>1, <2>2, <2>3, <2>5, <2>6, <2>7, WhenUp
<1>14. ASSUME NEW root \in Windows, NEW seq \in 0..(MaxAcks - 1), OnAck(root, seq) PROVE Good
  <2>1. Up
    BY <1>14, AckStep DEF Up
  <2>2. Present' = Present
    BY <1>14, AckStep DEF Present
  <2>3. /\ pc = "idle" /\ epochs' = epochs /\ marked' = marked /\ victim' = victim /\ Chained' = Chained
        /\ Recorded' = Recorded /\ acks' = [seq |-> seq, through |-> root] /\ lastSeq' = seq
        /\ acked' = Through' /\ acked' \in Ids /\ held' = held \ 1..acked'
    BY <1>14, AckStep
  <2>4. acked' \in Nat /\ held \subseteq 1..Len(Chained) /\ Len(Chained) \in Nat
    BY <2>1, <2>3, WhenUp
  <2>5. \A i \in held' : i > acked'
    BY <2>3, <2>4
  <2>6. acks'.seq = seq
    BY <2>3
  <2>7. /\ epochs = Chained /\ held \subseteq Present /\ \A i \in held : i \notin Recorded
        /\ marked \subseteq Recorded /\ victim = 0
    BY <2>1, <2>3, WhenUp
  <2> QED BY <2>2, <2>3, <2>5, <2>6, <2>7
<1>15. ASSUME NEW i \in Windows, Transmit(i) \/ SignAck(i) PROVE Good
  BY <1>4, <1>15 DEF Transmit, SignAck, Up, disk
<1>16. ASSUME FailAppend PROVE Good
  <2>1. LeaveLine("lost") /\ UNCHANGED <<files, acks, memory>>
    BY <1>1, <1>16 DEF FailAppend, NoBareLine, Up
  <2>2. pc = "seal" \/ NextGap # {}
    BY <1>16 DEF FailAppend
  <2>3. Up
    BY <2>2, NextGapIsEpoch DEF ToRecord, Up, IInv
  <2>4. chain' = chain /\ gaps' = gaps
    BY <2>1, <2>3, LineLeft
  <2>5. victim = 0
    BY <2>2, <2>3, NextGapIsEpoch, WhenUp DEF ToRecord, IInv
  <2> QED BY <1>4, <2>1, <2>3, <2>4, <2>5
<1>17. ASSUME UNCHANGED vars \/ Rest \/ \E i \in Windows : Rot(i) PROVE Good
  BY <1>1, <1>4, <1>17 DEF vars, Rest, Rot, Up, disk
<1>18. ~Crash
  BY <1>1 DEF Crash, Up
<1> HIDE DEF Good
<1> QED BY <1>6, <1>7, <1>8, <1>9, <1>10, <1>11, <1>12, <1>13, <1>14, <1>15, <1>16, <1>17, <1>18
     DEF Next, Edge, Recover, Work, Channel

\* Every step keeps the files that are to go accounted for.
LEMMA ReleasedStep ==
    ASSUME IInv, [Next]_vars, NoBareLine
    PROVE  ReleasedOK'
<1> USE JournalAssumption
<1> DEFINE Good ==
      /\ pc' = "down" => victim' = 0
      /\ pc' \in {"idle", "seal"} => Released' = {}
      /\ pc' = "caps" => Released' \subseteq {victim'}
      /\ pc' = "ack" => \A i \in Released' : i <= acked'
      /\ pc' = "recover" =>
           \A i \in Released' : i <= acked' \/ i \in Recorded' \/ ~Sound(i, epochs)'
<1>1. ReleasedOK
  BY DEF IInv
<1>2. 0 \notin Released
  BY DEF Released, Ids
<1>3. ASSUME epochs' = epochs, held' = held, acked' = acked, gaps' = gaps, victim' \in {0, victim},
             NEW i, Remove(i), files \in [Windows -> 0..MaxWindows], i \in Windows
      PROVE  /\ Released' = Released \ {i} /\ Recorded' = Recorded
             /\ \A j \in Released' : Sound(j, epochs)' = Sound(j, epochs)
  <2>1. files' = [files EXCEPT ![i] = 0] /\ rotten' = rotten \ {i}
    BY <1>3 DEF Remove
  <2>2. Present' = Present \ {i}
    BY <1>3, <2>1 DEF Present
  <2>3. Released' = Released \ {i}
    BY <1>3, <2>2 DEF Released, Ids
  <2>4. \A j \in Released' : Sound(j, epochs)' = Sound(j, epochs)
    BY <1>3, <2>1, <2>3 DEF Sound
  <2>5. Recorded' = Recorded
    BY <1>3 DEF Recorded
  <2> QED BY <2>3, <2>4, <2>5
<1>4. ASSUME UNCHANGED <<files, rotten, epochs, held>>
      PROVE  Released' = Released /\ \A j : Sound(j, epochs)' = Sound(j, epochs)
  BY <1>4 DEF Released, Ids, Present, Sound
<1>5. ASSUME Open PROVE Good
  <2>1. CASE Corrupt
    BY <1>5, <2>1 DEF Open
  <2>2. CASE ~Corrupt
    <3>1. pc' = "recover" /\ epochs' = Chained /\ files' = files /\ rotten' = rotten
          /\ acked' = Through
          /\ held' = {i \in ChainedIds : Sound(i, Chained) /\ i > Through} \ Recorded
      BY <1>5, <2>2 DEF Open, Through, ChainedIds, Recorded
    <3>2. pc = "down" /\ Recorded' = Recorded
      BY <1>5, LogStep DEF Open, NextGap, First, ToRecord
    <3>3. Released' = (ChainedIds \cap Present) \ held'
      BY <3>1 DEF Released, Ids, ChainedIds, Present
    <3>4. ASSUME NEW i \in Released', i > Through, i \notin Recorded PROVE ~Sound(i, epochs)'
      BY <3>1, <3>3, <3>4 DEF Sound
    <3>5. Through \in Nat /\ \A i \in ChainedIds : i \in Nat
      BY ChainedTyped, IndexRange DEF Through, IInv, ChainedIds
    <3> QED BY <3>1, <3>2, <3>3, <3>4, <3>5
  <2> QED BY <2>1, <2>2
<1>6. ASSUME RecordGap PROVE Good
  <2>1. PICK i \in NextGap : held' = held \ {i} /\ victim' = i
                             /\ gaps' = Put(gaps, i, TornGap, "whole")
    BY <1>6 DEF RecordGap
  <2>2. UNCHANGED <<files, rotten, pc, epochs, acked>>
    BY <1>6 DEF RecordGap
  <2>3. i \in ToRecord /\ Up /\ pc \in {"recover", "caps"} /\ victim = 0
    BY <2>1, NextGapIsEpoch DEF IInv, ToRecord, Up
  <2>4. Clean(gaps, TornGap)
    BY <2>3 DEF IInv, FilesOK
  <2>5. Recorded' = Recorded \cup {i}
    BY <2>1, <2>4, GapStep DEF IInv
  <2>6. Released' \subseteq Released \cup {i}
    BY <2>1, <2>2 DEF Released, Ids, Present
  <2>7. \A j : Sound(j, epochs)' = Sound(j, epochs)
    BY <2>2 DEF Sound
  <2> QED BY <1>1, <1>2, <2>1, <2>2, <2>3, <2>5, <2>6, <2>7 DEF ReleasedOK
<1>7. ASSUME DropVictim, Up PROVE Good
  <2>1. victim # 0 /\ Remove(victim) /\ UNCHANGED <<gaps, pc, epochs, held, acked>> /\ victim' = 0
    BY <1>7 DEF DropVictim
  <2>2. victim \in Windows /\ pc \in {"recover", "caps"} /\ files \in [Windows -> 0..MaxWindows]
    BY <1>7, <2>1, WhenUp
  <2> QED BY <1>1, <1>3, <2>1, <2>2 DEF ReleasedOK
<1>8. ASSUME RemoveOrphan \/ RemoveReleased PROVE Good
  <2>1. Up /\ pc \in {"ack", "recover"} /\ UNCHANGED <<gaps, pc, epochs, held, acked, victim>>
    BY <1>8 DEF RemoveOrphan, RemoveReleased, Up, memory
  <2>2. PICK i \in Windows : Remove(i)
    BY <1>8 DEF RemoveOrphan, RemoveReleased, First, Orphans, Released, Present
  <2>3. files \in [Windows -> 0..MaxWindows]
    BY <2>1, WhenUp
  <2> QED BY <1>1, <1>3, <2>1, <2>2, <2>3 DEF ReleasedOK
<1>9. ASSUME Done PROVE Good
  <2>1. UNCHANGED <<files, rotten, epochs, held>> /\ pc' = "idle" /\ pc \in {"ack", "caps", "recover"}
    BY <1>9 DEF Done, disk, memory
  <2>2. Released = {}
    BY <1>1, <1>2, <1>9 DEF Done, ReleasedOK
  <2> QED BY <1>4, <2>1, <2>2
<1>10. ASSUME Seal PROVE Good
  <2>1. /\ pc = "idle" /\ pc' = "seal" /\ files' = [files EXCEPT ![Len(epochs) + 1] = offered + 1]
        /\ epochs' = epochs /\ held' = held
    BY <1>10 DEF Seal, memory
  <2>2. files \in [Windows -> 0..MaxWindows] /\ Len(epochs) \in Nat /\ Ids = 1..Len(epochs)
    BY <2>1, WhenUp DEF Up, Ids
  <2>3. Ids \cap Present' = Ids \cap Present
    BY <2>1, <2>2 DEF Present
  <2>4. Released' = Released
    BY <2>1, <2>3 DEF Released, Ids
  <2> QED BY <1>1, <2>1, <2>4 DEF ReleasedOK
<1>11. ASSUME SealChain PROVE Good
  <2>1. /\ pc = "seal" /\ pc' = "caps" /\ files' = files /\ epochs' = Append(epochs, offered)
        /\ held' = held \cup {Len(epochs) + 1}
    BY <1>11 DEF SealChain
  <2>2. epochs \in Seq(Windows) /\ Len(epochs) \in Nat
    BY DEF IInv, TypeOK
  <2>3. Len(epochs') = Len(epochs) + 1
    BY <2>1, <2>2
  <2>4. Ids' = Ids \cup {Len(epochs) + 1}
    BY <2>2, <2>3 DEF Ids
  <2>5. Released' \subseteq Released
    BY <2>1, <2>4 DEF Released, Present
  <2> QED BY <1>1, <2>1, <2>5 DEF ReleasedOK
<1>12. ASSUME NEW root \in Windows, NEW seq \in 0..(MaxAcks - 1), OnAck(root, seq) PROVE Good
  <2>1. /\ pc = "idle" /\ pc' = "ack" /\ files' = files /\ epochs' = epochs
        /\ acked' \in Ids /\ held' = held \ 1..acked'
    BY <1>12, AckStep
  <2>2. Released = {} /\ Ids \subseteq Nat
    BY <1>1, <2>1, WhenUp DEF ReleasedOK, Up
  <2>3. Released' \subseteq 1..acked'
    BY <2>1, <2>2 DEF Released, Ids, Present
  <2> QED BY <2>1, <2>2, <2>3
<1>13. ASSUME NEW i \in Windows, Transmit(i) \/ SignAck(i) PROVE Good
  <2>1. pc = "idle" /\ pc' = "idle" /\ UNCHANGED <<files, rotten, epochs, held>>
    BY <1>13 DEF Transmit, SignAck, disk, memory
  <2> QED BY <1>1, <1>4, <2>1 DEF ReleasedOK
<1>14. ASSUME FailAppend PROVE Good
  <2>1. pc = "seal" \/ NextGap # {}
    BY <1>14 DEF FailAppend
  <2>2. pc \in {"seal", "caps", "recover"} /\ (pc = "caps" => victim = 0)
    BY <2>1, NextGapIsEpoch DEF ToRecord, IInv
  <2>3. CASE pc = "recover"
    BY <1>14, <2>3 DEF FailAppend, Forgotten
  <2>4. CASE pc # "recover"
    <3>1. UNCHANGED <<files, rotten, epochs, held>> /\ pc' = "idle"
      BY <1>14, <2>4 DEF FailAppend, memory
    <3>2. Released = {}
      BY <1>1, <1>2, <2>2, <2>4 DEF ReleasedOK
    <3> QED BY <1>4, <3>1, <3>2
  <2> QED BY <2>3, <2>4
<1>15. ASSUME UNCHANGED vars \/ Rest PROVE Good
  <2>1. UNCHANGED <<files, rotten, epochs, held, pc, acked, victim, gaps>>
    BY <1>15 DEF vars, Rest, disk, memory
  <2>2. Recorded' = Recorded
    BY <2>1 DEF Recorded
  <2> QED BY <1>1, <1>4, <2>1, <2>2 DEF ReleasedOK
<1>16. ASSUME NEW i \in Windows, Rot(i) PROVE Good
  <2>1. UNCHANGED <<files, epochs, held, pc, acked, victim, gaps>> /\ rotten \subseteq rotten'
    BY <1>16 DEF Rot, memory
  <2>2. Recorded' = Recorded /\ Released' = Released
    BY <2>1 DEF Recorded, Released, Ids, Present
  <2>3. \A j : Sound(j, epochs)' => Sound(j, epochs)
    BY <2>1 DEF Sound
  <2> QED BY <1>1, <2>1, <2>2, <2>3 DEF ReleasedOK
<1>17. ASSUME DropVictim, ~Up PROVE FALSE
  BY <1>1, <1>17 DEF DropVictim, Up, ReleasedOK, IInv, FilesOK, NotRefused
<1>18. ASSUME Crash PROVE Good
  BY <1>18 DEF Crash, Forgotten
<1> HIDE DEF Good
<1>19. Good
  BY <1>5, <1>6, <1>7, <1>8, <1>9, <1>10, <1>11, <1>12, <1>13, <1>14, <1>15, <1>16, <1>17, <1>18
     DEF Next, Edge, Recover, Work, Channel
<1> QED BY <1>19 DEF Good, ReleasedOK

\* Every step leaves each chained epoch with its file, its acknowledgement or
\* its gap line.
LEMMA LossStep ==
    ASSUME IInv, [Next]_vars, NoBareLine
    PROVE  EveryLossIsRecorded'
<1> USE JournalAssumption
<1>1. EveryLossIsRecorded /\ ReleasedOK /\ ChainOK' /\ TypeOK'
  BY OrderStep, TypeStep DEF IInv
<1>2. /\ Chained \in Seq(Windows) /\ Len(Chained) \in Nat /\ ChainedIds = 1..Len(Chained)
      /\ Through \in 0..Len(Chained) /\ files \in [Windows -> 0..MaxWindows] /\ ChainedIds \subseteq Windows
  BY ChainedTyped, IndexRange DEF IInv, ChainedIds, Through, TypeOK
<1>3. ChainedIds' = 1..Len(Chained')
  BY DEF ChainedIds
<1>4. Recorded \subseteq Recorded'
  BY LogStep
<1>5. Through <= Through'
  <2>1. CASE acks' = acks
    BY <1>1, <1>2, <2>1, ThroughStays
  <2>2. CASE \E root \in Windows, seq \in 0..(MaxAcks - 1) : OnAck(root, seq)
    <3>1. PICK root \in Windows, seq \in 0..(MaxAcks - 1) : OnAck(root, seq)
      BY <2>2
    <3>2. acked' = Through' /\ acked <= acked' /\ pc = "idle"
      BY <3>1, AckStep
    <3> QED BY <3>2, WhenUp DEF Up
  <2> QED BY <2>1, <2>2
       DEF Next, Edge, Recover, Work, Channel, Open, RemoveOrphan, RecordGap, DropVictim, RemoveReleased,
           Done, Seal, SealChain, Transmit, SignAck, Crash, FailAppend, Rot, Rest, vars, disk
<1>6. ASSUME NEW i \in ChainedIds, i \in Present, i \notin Present'
      PROVE  i <= Through \/ i \in Recorded
  <2>1. files[i] # 0 /\ files'[i] = 0 /\ i \in Windows
    BY <1>2, <1>6 DEF Present
  <2>2. CASE DropVictim
    <3>1. i = victim /\ victim # 0
      BY <1>2, <2>1, <2>2 DEF DropVictim, Remove
    <3>2. Up
      BY <1>1, <3>1 DEF Up, ReleasedOK, IInv, FilesOK, NotRefused
    <3> QED BY <3>1, <3>2, WhenUp
  <2>3. CASE RemoveOrphan
    <3>1. i \notin Ids /\ Up
      BY <1>2, <2>1, <2>3 DEF RemoveOrphan, Remove, First, Orphans, Up
    <3> QED BY <3>1, WhenUp
  <2>4. CASE RemoveReleased
    <3>1. i \in Released /\ Up
      BY <1>2, <2>1, <2>4 DEF RemoveReleased, Remove, First, Up
    <3>2. CASE pc = "ack"
      BY <1>1, <3>1, <3>2, WhenUp DEF ReleasedOK
    <3>3. CASE pc = "recover" /\ Damaged = {}
      <4>1. Sound(i, epochs)
        BY <3>1, <3>3 DEF Damaged
      <4> QED BY <1>1, <3>1, <3>3, <4>1, WhenUp DEF ReleasedOK
    <3> QED BY <2>4, <3>2, <3>3 DEF RemoveReleased
  <2>5. CASE Seal
    <3>1. files' = [files EXCEPT ![Len(epochs) + 1] = offered + 1] /\ offered \in Nat
      BY <2>5 DEF Seal, IInv, TypeOK
    <3> QED BY <1>2, <2>1, <3>1
  <2>6. CASE files' = files
    BY <2>1, <2>6
  <2> QED BY <2>2, <2>3, <2>4, <2>5, <2>6
       DEF Next, Edge, Recover, Work, Channel, Open, RecordGap, OnAck,
           Done, SealChain, Transmit, SignAck, Crash, FailAppend, Rot, Rest, vars, disk
<1>7. ASSUME NEW i \in ChainedIds PROVE i \in Present' \/ i <= Through' \/ i \in Recorded'
  <2>1. i <= Through => i <= Through'
    <3>1. (TypeOK /\ ChainOK => Chained \in Seq(Windows))'
      BY ChainedSeq, PTL
    <3>2. Through' \in 0..Len(Chained') /\ Len(Chained') \in Nat
      BY <1>1, <3>1, IndexRange DEF Through
    <3> QED BY <1>2, <1>5, <3>2
  <2> QED BY <1>1, <1>4, <1>6, <2>1 DEF EveryLossIsRecorded
<1>8. ASSUME pc = "seal", Chained' = Append(Chained, offered), files' = files
      PROVE  Len(Chained) + 1 \in Present'
  <2>1. files[Len(Chained) + 1] # 0 /\ Len(Chained) + 1 <= offered
    BY <1>2, <1>8 DEF IInv, ChainOK, TypeOK
  <2>2. Len(Chained) + 1 \in Windows
    BY <1>2, <2>1 DEF IInv, TypeOK, Windows
  <2> QED BY <1>8, <2>1, <2>2 DEF Present
<1>9. CASE Chained' = Chained
  BY <1>7, <1>9 DEF EveryLossIsRecorded, ChainedIds
<1>10. CASE pc = "seal" /\ Chained' = Append(Chained, offered) /\ files' = files
  <2>1. Len(Chained') = Len(Chained) + 1
    BY <1>2, <1>10
  <2>2. ChainedIds' = ChainedIds \cup {Len(Chained) + 1}
    BY <1>2, <1>3, <2>1
  <2> QED BY <1>7, <1>8, <1>10, <2>2 DEF EveryLossIsRecorded
<1> QED BY <1>9, <1>10, LogStep

-----------------------------------------------------------------------------
(* The ground.                                                             *)

\* Every step keeps what the ground signed true.
LEMMA GroundStep ==
    ASSUME IInv, [Next]_vars, NoBareLine
    PROVE  GroundOK'
<1> USE JournalAssumption
<1>1. /\ GroundOK /\ Recorded \subseteq Recorded'
      /\ Chained \in Seq(Windows) /\ Len(Chained) \in Nat
      /\ ChainedIds = 1..Len(Chained) /\ ChainedIds' = 1..Len(Chained')
      /\ \A i \in ChainedIds : Chained[i] \in Int
      /\ \A i, j \in ChainedIds : i < j => Chained[i] < Chained[j]
  BY LogStep, ChainedTyped DEF IInv, ChainedIds, ChainOK, Windows
<1>2. /\ ChainedIds \subseteq ChainedIds'
      /\ \A i \in ChainedIds : Chained'[i] = Chained[i]
      /\ \A i \in ChainedIds' \ ChainedIds :
           offered \in Int /\ Chained'[i] = offered /\ \A j \in ChainedIds : Chained[j] < offered
  <2>1. CASE Chained' = Chained
    BY <1>1, <2>1
  <2>2. CASE pc = "seal" /\ Chained' = Append(Chained, offered)
    <3>1. Len(Chained') = Len(Chained) + 1 /\ Chained'[Len(Chained) + 1] = offered
          /\ \A i \in 1..Len(Chained) : Chained'[i] = Chained[i]
      BY <1>1, <2>2
    <3>2. \A j \in ChainedIds : Chained[j] < offered
      BY <2>2 DEF IInv, ChainOK
    <3>3. offered \in Int
      BY DEF IInv, TypeOK
    <3> QED BY <1>1, <3>1, <3>2, <3>3
  <2> QED BY <2>1, <2>2, LogStep
<1> DEFINE Covered(m) ==
      /\ \E i \in ChainedIds : Chained[i] = m[1]
      /\ \A i \in ChainedIds : Chained[i] <= m[1] => Chained[i] \in got \/ i \in Recorded
<1>3. ASSUME NEW m, Covered(m), got \subseteq got' PROVE Covered(m)'
  <2>1. PICK j \in ChainedIds : Chained[j] = m[1]
    BY <1>3
  <2>2. \E i \in ChainedIds' : Chained'[i] = m[1]
    BY <1>2, <2>1
  <2>3. ASSUME NEW i \in ChainedIds', Chained'[i] <= m[1] PROVE Chained'[i] \in got' \/ i \in Recorded'
    <3>1. i \in ChainedIds
      BY <1>1, <1>2, <2>1, <2>3
    <3> QED BY <1>1, <1>2, <1>3, <2>3, <3>1
  <2> QED BY <2>2, <2>3
<1>4. \A m \in sent : Covered(m)
  BY <1>1 DEF GroundOK
<1>5. GroundOK <=> /\ IsFiniteSet(sent)
                   /\ \A m \in sent : m[2] < Cardinality(sent) /\ Covered(m)
                   /\ \A m, n \in sent : m[2] <= n[2] => m[1] <= n[1]
                   /\ acks = [seq |-> -1, through |-> 0] \/ <<acks.through, acks.seq>> \in sent
  BY DEF GroundOK
<1>6. GroundOK' <=> /\ IsFiniteSet(sent')
                    /\ \A m \in sent' : m[2] < Cardinality(sent') /\ Covered(m)'
                    /\ \A m, n \in sent' : m[2] <= n[2] => m[1] <= n[1]
                    /\ acks' = [seq |-> -1, through |-> 0] \/ <<acks'.through, acks'.seq>> \in sent'
  BY DEF GroundOK
<1> HIDE DEF Covered
<1>7. ASSUME UNCHANGED <<sent, acks>>, got \subseteq got' PROVE GroundOK'
  BY <1>1, <1>3, <1>4, <1>5, <1>6, <1>7
<1>8. ASSUME NEW root \in Windows, NEW seq \in 0..(MaxAcks - 1), OnAck(root, seq) PROVE GroundOK'
  <2>1. sent' = sent /\ got' = got /\ acks' = [seq |-> seq, through |-> root] /\ <<root, seq>> \in sent
    BY <1>8, AckStep
  <2>2. <<acks'.through, acks'.seq>> \in sent'
    BY <2>1
  <2> QED BY <1>1, <1>3, <1>4, <1>5, <1>6, <2>1, <2>2
<1>9. ASSUME NEW i \in Windows, SignAck(i) PROVE GroundOK'
  <2> DEFINE n == <<epochs[i], Cardinality(sent)>>
  <2>1. /\ i \in Ids /\ pc = "idle" /\ sent' = sent \cup {n} /\ got' = got /\ acks' = acks
        /\ \A m \in sent : m[1] <= epochs[i]
        /\ \A j \in 1..i : \/ epochs[j] \in got \/ j \in marked
                           \/ \E m \in sent : epochs[j] <= m[1]
    BY <1>9 DEF SignAck, disk
  <2>2. epochs = Chained /\ Ids = ChainedIds /\ marked \subseteq Recorded
    BY <2>1, WhenUp DEF Up
  <2>3. IsFiniteSet(sent) /\ Cardinality(sent) \in Nat
    BY <1>1, FS_CardinalityType DEF GroundOK
  <2>4. n \notin sent
    BY <1>1, <2>3 DEF GroundOK
  <2>5. IsFiniteSet(sent') /\ Cardinality(sent') = Cardinality(sent) + 1
    BY <2>1, <2>3, <2>4, FS_AddElement
  <2>6. sent \subseteq Windows \X Nat
    BY DEF IInv, TypeOK
  <2>7. Covered(n)
    <3>1. \E j \in ChainedIds : Chained[j] = n[1]
      BY <2>1, <2>2
    <3>2. ASSUME NEW j \in ChainedIds, Chained[j] <= n[1] PROVE Chained[j] \in got \/ j \in Recorded
      <4>1. j \in 1..i
        <5>1. ~(i < j)
          BY <1>1, <2>1, <2>2, <3>2
        <5> QED BY <1>1, <2>1, <2>2, <5>1
      <4>2. CASE \E m \in sent : Chained[j] <= m[1]
        BY <1>4, <4>2 DEF Covered
      <4> QED BY <2>1, <2>2, <4>1, <4>2
    <3> QED BY <3>1, <3>2 DEF Covered
  <2>8. \A m \in sent' : Covered(m)'
    BY <1>3, <1>4, <2>1, <2>7
  <2>9. \A m \in sent' : m[2] < Cardinality(sent')
    BY <1>5, <1>1, <2>1, <2>3, <2>5, <2>6
  <2>10. \A m, k \in sent' : m[2] <= k[2] => m[1] <= k[1]
    <3>1. epochs[i] \in Int
      BY <1>1, <2>1, <2>2
    <3>2. n[1] = epochs[i] /\ n[2] = Cardinality(sent)
      OBVIOUS
    <3>3. \A m \in sent : ~(n[2] <= m[2])
      BY <1>1, <1>5, <2>3, <2>6, <3>2
    <3>4. \A m \in sent : m[1] <= n[1]
      BY <2>1, <3>2
    <3>5. n[1] <= n[1]
      BY <3>1, <3>2
    <3> HIDE DEF n
    <3> QED BY <1>1, <1>5, <2>1, <3>3, <3>4, <3>5
  <2>11. acks' = [seq |-> -1, through |-> 0] \/ <<acks'.through, acks'.seq>> \in sent'
    BY <1>1, <1>5, <2>1
  <2> HIDE DEF n
  <2> QED BY <1>6, <2>5, <2>8, <2>9, <2>10, <2>11
<1>10. ASSUME NEW i \in Windows, Transmit(i) PROVE GroundOK'
  BY <1>7, <1>10 DEF Transmit, disk
<1>11. CASE UNCHANGED <<sent, acks, got>>
  BY <1>7, <1>11
<1> QED BY <1>8, <1>9, <1>10, <1>11
     DEF Next, Edge, Recover, Work, Channel, Open, RemoveOrphan, RecordGap, DropVictim, RemoveReleased,
         Done, Seal, SealChain, Crash, FailAppend, Rot, Rest, vars, disk, ground

-----------------------------------------------------------------------------
(* The theorems.                                                           *)

\* The invariant holds of an empty journal.
LEMMA InitInv == Init => IInv
<1> SUFFICES ASSUME Init PROVE IInv
  OBVIOUS
<1> USE JournalAssumption
<1>1. /\ chain = Empty /\ gaps = Empty /\ rotten = {} /\ files = [i \in Windows |-> 0]
      /\ acks = [seq |-> -1, through |-> 0] /\ pc = "down" /\ epochs = <<>> /\ held = {}
      /\ acked = 0 /\ marked = {} /\ lastSeq = -1 /\ victim = 0 /\ got = {} /\ sent = {}
      /\ offered = 0 /\ failed = 0 /\ rots = 0
  BY DEF Init
<1>2. Empty.lines = <<>> /\ Empty.open = FALSE /\ Len(Empty.lines) = 0
  BY DEF Empty
<1>3. Trim(chain, Torn) = Empty /\ Trim(gaps, TornGap) = Empty
  BY <1>1, <1>2 DEF Trim, EndsTorn
<1>4. /\ Clean(Trim(chain, Torn), Torn) /\ Clean(Trim(gaps, TornGap), TornGap)
      /\ Linked(Trim(chain, Torn))
  BY <1>2, <1>3 DEF Clean, Linked
<1>5. Chained = [i \in 1..0 |-> Empty.lines[i].win]
  BY <1>2, <1>3 DEF Chained, Wins
<1>6. Len(Chained) = 0 /\ ChainedIds = {}
  BY <1>5 DEF ChainedIds
<1>7. Recorded = {}
  BY <1>1, <1>2 DEF Recorded, GapSet
<1>8. FilesOK
  BY <1>1, <1>4 DEF FilesOK, Up, NotRefused
<1>9. ChainOK
  BY <1>1, <1>6, <1>7 DEF ChainOK
<1>10. MemoryOK
  BY <1>1 DEF MemoryOK, Up
<1>11. ReleasedOK
  BY <1>1 DEF ReleasedOK
<1>12. EveryLossIsRecorded
  BY <1>6 DEF EveryLossIsRecorded
<1>13. GroundOK
  BY <1>1, FS_EmptySet DEF GroundOK
<1>14. TypeOK
  <2>1. chain \in Lines([win : 0..MaxWindows, prev : 0..MaxWindows]) /\ gaps \in Lines(0..MaxWindows)
    BY <1>1 DEF Empty, Lines
  <2>2. Len(epochs) = 0 /\ epochs \in Seq(Windows)
    BY <1>1
  <2> QED BY <1>1, <2>1, <2>2 DEF TypeOK, Ids
<1> QED BY <1>8, <1>9, <1>10, <1>11, <1>12, <1>13, <1>14 DEF IInv

\* Every step keeps the invariant.
LEMMA StepInv == NoBareLine /\ IInv /\ [Next]_vars => IInv'
<1> SUFFICES ASSUME NoBareLine, IInv, [Next]_vars PROVE IInv'
  OBVIOUS
<1>1. FilesOK'
  BY LogStep
<1> QED BY <1>1, TypeStep, OrderStep, MemoryStep, ReleasedStep, LossStep, GroundStep DEF IInv

\* The invariant holds always.
LEMMA JournalInvariant == ASSUME NoBareLine PROVE Spec => []IInv
<1>1. IInv /\ [Next]_vars => IInv'
  BY StepInv
<1> QED BY <1>1, InitInv, PTL DEF Spec

\* Every variable stays within its type, whatever the crashes, the failed
\* appends, the damaged files and the acknowledgements (epoch_journal.py, all of it).
THEOREM JournalTypeCorrect == ASSUME NoBareLine PROVE Spec => []TypeOK
<1>1. IInv => TypeOK
  BY DEF IInv
<1> QED BY <1>1, JournalInvariant, PTL

\* No loss is silent: between any two writes of a seal, an acknowledgement, a
\* drop or a recovery, each epoch of chain.jsonl has its data file, is covered
\* by acks.json, or has its line in gaps.jsonl.
THEOREM LossesAreRecorded == ASSUME NoBareLine PROVE Spec => []EveryLossIsRecorded
<1>1. IInv => EveryLossIsRecorded
  BY DEF IInv
<1> QED BY <1>1, JournalInvariant, PTL

\* Under the outcomes that OpensAgain names, what a crash or a failed append
\* leaves is never taken for corruption.
THEOREM AlwaysOpensAgain == Spec => []OpensAgain
<1>1. CASE NoBareLine
  <2>1. IInv => OpensAgain
    BY DEF IInv, FilesOK, NotRefused, OpensAgain
  <2>2. Spec => []IInv
    BY <1>1, JournalInvariant
  <2>3. QED
    BY <2>1, <2>2, PTL
<1>2. CASE ~NoBareLine
  <2>1. OpensAgain
    BY <1>2 DEF OpensAgain
  <2>2. QED
    BY <2>1, PTL
<1>3. QED
  BY <1>1, <1>2

\* What the saved acknowledgement covers is on the ground or on record as lost.
LEMMA Covers ==
    ASSUME IInv PROVE AckedIsVerified
<1> USE JournalAssumption
<1>1. /\ Chained \in Seq(Windows) /\ Len(Chained) \in Nat /\ Through \in 0..Len(Chained)
      /\ (Through # 0 => Chained[Through] = acks.through)
      /\ ChainedIds = 1..Len(Chained) /\ acks.through \in Nat
  BY ChainedTyped, IndexRange DEF IInv, Through, ChainedIds, TypeOK
<1>2. ASSUME NEW i \in 1..Through PROVE Chained[i] \in got \/ i \in Recorded
  <2>1. Through \in ChainedIds /\ i \in ChainedIds
    BY <1>1
  <2>2. Chained[Through] = acks.through /\ Chained[Through] \in Windows /\ Chained[i] \in Windows
    BY <1>1, <2>1
  <2>3. Chained[i] <= acks.through
    <3>1. i = Through \/ i < Through
      BY <1>1
    <3>2. i < Through => Chained[i] < Chained[Through]
      BY <2>1 DEF IInv, ChainOK
    <3> QED BY <2>2, <3>1, <3>2 DEF Windows
  <2>4. acks.through # 0
    BY <2>2 DEF Windows
  <2>5. <<acks.through, acks.seq>> \in sent
    BY <2>4 DEF IInv, GroundOK
  <2> QED BY <2>1, <2>3, <2>5 DEF IInv, GroundOK
<1> QED BY <1>2 DEF AckedIsVerified

LEMMA CoversAlways == IInv => AckedIsVerified
BY Covers

\* Readings never go on the word of an acknowledgement the ground did not make:
\* every epoch up to the saved root reached the ground or was reported lost.
THEOREM AcksAreVerified == ASSUME NoBareLine PROVE Spec => []AckedIsVerified
<1> QED BY Covers, JournalInvariant, PTL

\* A process at rest remembers exactly what its files say, so the next process
\* recovers the same chain, acknowledgements and readings.
THEOREM MemoryMatchesDisk == ASSUME NoBareLine PROVE Spec => []MemoryIsDisk
<1>1. ASSUME IInv PROVE MemoryIsDisk
  <2> SUFFICES ASSUME pc = "idle"
               PROVE  /\ epochs = Chained /\ acked = Through /\ lastSeq = acks.seq
                      /\ held = ChainedIds \cap Present /\ marked \subseteq Recorded
    BY DEF MemoryIsDisk
  <2>1. Released = {} /\ Up
    BY <1>1 DEF IInv, ReleasedOK, Up
  <2>2. held \subseteq Ids \cap Present /\ Ids = ChainedIds
    BY <1>1, <2>1, WhenUp
  <2>3. held = ChainedIds \cap Present
    BY <2>1, <2>2 DEF Released
  <2> QED BY <1>1, <2>1, <2>3, WhenUp
<1> QED BY <1>1, JournalInvariant, PTL

\* An acknowledgement that arrives late, twice or after a restart takes neither
\* the saved root nor the sequence number back (on_ack_bytes).
THEOREM AcksNeverRegress == ASSUME NoBareLine PROVE Spec => AckNeverRegresses
<1> DEFINE A == acks'.seq >= acks.seq /\ acks'.through >= acks.through
<1>1. ASSUME IInv, [Next]_vars PROVE [A]_acks
  <2>1. CASE acks' = acks
    BY <2>1
  <2>2. CASE \E root \in Windows, seq \in 0..(MaxAcks - 1) : OnAck(root, seq)
    <3>1. PICK root \in Windows, seq \in 0..(MaxAcks - 1) : OnAck(root, seq)
      BY <2>2
    <3>2. acks' = [seq |-> seq, through |-> root] /\ acks.through <= root /\ acks.seq <= seq
      BY <1>1, <3>1, AckStep
    <3>3. acks.seq \in Int /\ acks.through \in Int /\ root \in Int /\ seq \in Int
      BY <1>1, JournalAssumption DEF IInv, TypeOK, Windows
    <3> QED BY <3>2, <3>3
  <2> QED BY <1>1, <2>1, <2>2
       DEF Next, Edge, Recover, Work, Channel, Open, RemoveOrphan, RecordGap, DropVictim, RemoveReleased,
           Done, Seal, SealChain, Transmit, SignAck, Crash, FailAppend, Rot, Rest, vars, disk
<1> QED BY <1>1, JournalInvariant, PTL DEF AckNeverRegresses, Spec

-----------------------------------------------------------------------------
(* The journal implements Retention.                                       *)

Kept == ChainedIds \cap Present

\* What a step may do to the chain, the stored readings, the gaps and the
\* acknowledged root: one step of Retention, or nothing.
LEMMA PromiseStep ==
    ASSUME IInv, [Next]_vars, NoBareLine
    PROVE  [Promise!Next]_(Promise!vars)
<1> USE JournalAssumption
<1> DEFINE Still == UNCHANGED <<Chained, Kept, Recorded, Through, got>>
           Sealed == /\ Chained' = Append(Chained, offered) /\ Kept' = Kept \cup {Len(Chained) + 1}
                     /\ offered \in Windows /\ UNCHANGED <<Recorded, Through, got>>
           Noted(i) == i \in Kept /\ Recorded' = Recorded \cup {i}
                       /\ UNCHANGED <<Chained, Kept, Through, got>>
           Gone(i) == /\ i \in Kept /\ (i <= Through \/ i \in Recorded) /\ Kept' = Kept \ {i}
                      /\ UNCHANGED <<Chained, Recorded, Through, got>>
           Received(i) == i \in Kept /\ got' = got \cup {Chained[i]}
                          /\ UNCHANGED <<Chained, Kept, Recorded, Through>>
           Verified(i) == /\ i \in ChainedIds /\ i >= Through
                          /\ \A j \in 1..i : Chained[j] \in got \/ j \in Recorded
                          /\ Through' = i /\ UNCHANGED <<Chained, Kept, Recorded, got>>
           Step == \/ Still \/ Sealed
                   \/ \E i \in ChainedIds : Noted(i) \/ Gone(i) \/ Received(i) \/ Verified(i)
<1>1. /\ ChainOK' /\ TypeOK' /\ IInv'
      /\ ChainedIds = 1..Len(Chained) /\ Len(Chained) \in Nat /\ Chained \in Seq(Windows)
  <2>1. FilesOK'
    BY LogStep
  <2>2. IInv'
    BY <2>1, TypeStep, OrderStep, MemoryStep, ReleasedStep, LossStep, GroundStep DEF IInv
  <2> QED BY <2>2, ChainedTyped DEF IInv, ChainedIds
<1>2. acks' = acks => Through' = Through
  BY <1>1, ThroughStays
<1>3. Chained' = Chained => ChainedIds' = ChainedIds
  BY DEF ChainedIds
<1>4. ASSUME acks' = acks, files' = files, got' = got PROVE Step
  <2>1. Present' = Present /\ Through' = Through
    BY <1>2, <1>4 DEF Present
  <2>2. CASE Chained' = Chained /\ Recorded' = Recorded
    BY <1>3, <1>4, <2>1, <2>2 DEF Kept
  <2>3. CASE pc = "seal" /\ Chained' = Append(Chained, offered) /\ Recorded' = Recorded
    <3>1. files[Len(Chained) + 1] # 0 /\ Len(Chained) + 1 <= offered /\ offered \in 0..MaxWindows
      BY <1>1, <2>3 DEF IInv, ChainOK, TypeOK
    <3>2. Len(Chained) + 1 \in Windows /\ offered \in Windows
      BY <1>1, <3>1 DEF Windows
    <3>3. Len(Chained) + 1 \in Present
      BY <3>1, <3>2 DEF Present
    <3>4. ChainedIds' = ChainedIds \cup {Len(Chained) + 1}
      <4>1. Len(Chained') = Len(Chained) + 1
        BY <1>1, <2>3
      <4>2. ChainedIds' = 1..Len(Chained')
        BY DEF ChainedIds
      <4> QED BY <1>1, <4>1, <4>2
    <3>5. Kept' = Kept \cup {Len(Chained) + 1}
      BY <2>1, <3>3, <3>4 DEF Kept
    <3> QED BY <1>4, <2>1, <2>3, <3>2, <3>5
  <2>4. CASE Chained' = Chained /\ \E i \in NextGap : Recorded' = Recorded \cup {i}
    <3>1. PICK i \in NextGap : Recorded' = Recorded \cup {i}
      BY <2>4
    <3>2. i \in ToRecord
      BY NextGapIsEpoch DEF IInv
    <3>3. Up /\ (i \in Damaged \/ i \in held)
      BY <3>2 DEF ToRecord, Up
    <3>4. i \in Ids /\ i \in Present /\ Ids = ChainedIds
      BY <3>3, WhenUp DEF Damaged, Released
    <3>5. i \in Kept
      BY <3>4 DEF Kept
    <3>6. Kept' = Kept
      BY <1>3, <2>1, <2>4 DEF Kept
    <3> QED BY <1>4, <2>1, <2>4, <3>1, <3>4, <3>5, <3>6
  <2> QED BY <2>2, <2>3, <2>4, LogStep
<1>5. ASSUME NEW i \in Windows, Remove(i), UNCHANGED <<chain, gaps, acks, got>>,
             i \in ChainedIds => i <= Through \/ i \in Recorded
      PROVE  Step
  <2>1. Chained' = Chained /\ Recorded' = Recorded /\ Through' = Through /\ ChainedIds' = ChainedIds
    BY <1>2, <1>3, <1>5 DEF Chained, Recorded
  <2>2. files \in [Windows -> 0..MaxWindows]
    BY DEF IInv, TypeOK
  <2>3. Present' = Present \ {i}
    BY <1>5, <2>2 DEF Remove, Present
  <2>4. Kept' = Kept \ {i}
    BY <2>1, <2>3 DEF Kept
  <2>5. CASE i \in Kept
    BY <1>5, <2>1, <2>4, <2>5 DEF Kept
  <2>6. CASE i \notin Kept
    BY <1>5, <2>1, <2>4, <2>6
  <2> QED BY <2>5, <2>6
<1>6. ASSUME DropVictim PROVE Step
  <2>1. Up /\ victim # 0
    BY <1>6 DEF DropVictim, IInv, ReleasedOK, FilesOK, NotRefused, Up
  <2>2. victim \in Windows /\ victim \in Recorded
    BY <2>1, WhenUp
  <2> QED BY <1>5, <1>6, <2>2 DEF DropVictim, ground
<1>7. ASSUME RemoveOrphan PROVE Step
  <2>1. PICK i \in Windows \ Ids : Remove(i)
    BY <1>7 DEF RemoveOrphan, First, Orphans, Present
  <2>2. Ids = ChainedIds
    BY <1>7, WhenUp DEF RemoveOrphan, Up
  <2> QED BY <1>5, <1>7, <2>1, <2>2 DEF RemoveOrphan, ground
<1>8. ASSUME RemoveReleased PROVE Step
  <2>1. PICK i \in Released : Remove(i)
    BY <1>8 DEF RemoveReleased, First
  <2>2. Up
    BY <1>8 DEF RemoveReleased, Up
  <2>3. CASE pc = "ack"
    <3>1. i <= Through
      BY <2>1, <2>2, <2>3, WhenUp DEF IInv, ReleasedOK
    <3> QED BY <1>5, <1>8, <2>1, <3>1 DEF RemoveReleased, Released, Present, ground
  <2>4. CASE pc = "recover" /\ Damaged = {}
    <3>1. Sound(i, epochs)
      BY <2>1, <2>4 DEF Damaged
    <3>2. i <= Through \/ i \in Recorded
      BY <2>1, <2>2, <2>4, <3>1, WhenUp DEF IInv, ReleasedOK
    <3> QED BY <1>5, <1>8, <2>1, <3>2 DEF RemoveReleased, Released, Present, ground
  <2> QED BY <1>8, <2>3, <2>4 DEF RemoveReleased
<1>9. ASSUME Seal PROVE Step
  <2>1. /\ UNCHANGED <<chain, gaps, acks, got>> /\ pc = "idle"
        /\ files' = [files EXCEPT ![Len(epochs) + 1] = offered + 1]
    BY <1>9 DEF Seal, ground
  <2>2. Chained' = Chained /\ Recorded' = Recorded /\ Through' = Through /\ ChainedIds' = ChainedIds
    BY <1>2, <1>3, <2>1 DEF Chained, Recorded
  <2>3. epochs = Chained /\ files \in [Windows -> 0..MaxWindows]
    BY <2>1, WhenUp DEF Up
  <2>4. Kept' = Kept
    BY <1>1, <2>1, <2>2, <2>3 DEF Kept, Present
  <2> QED BY <2>1, <2>2, <2>4
<1>10. ASSUME NEW root \in Windows, NEW seq \in 0..(MaxAcks - 1), OnAck(root, seq) PROVE Step
  <2>1. /\ pc = "idle" /\ Chained' = Chained /\ Recorded' = Recorded /\ files' = files /\ got' = got
        /\ acked <= acked' /\ acked' = Through' /\ acked' \in Ids
    BY <1>10, AckStep
  <2>2. Ids = ChainedIds /\ acked = Through /\ ChainedIds' = ChainedIds
    BY <1>3, <2>1, WhenUp DEF Up
  <2>3. AckedIsVerified'
    <3>1. (IInv => AckedIsVerified)'
      BY CoversAlways, PTL
    <3> QED BY <1>1, <3>1
  <2>4. \A j \in 1..Through' : Chained[j] \in got \/ j \in Recorded
    BY <2>1, <2>3 DEF AckedIsVerified
  <2>5. Kept' = Kept
    BY <2>1, <2>2 DEF Kept, Present
  <2>6. Through' >= Through
    <3>1. Through \in Int /\ Through' \in Int
      BY <1>1, <2>1, <2>2, WhenUp DEF Up
    <3> QED BY <2>1, <2>2, <3>1
  <2> QED BY <2>1, <2>2, <2>4, <2>5, <2>6
<1>11. ASSUME NEW i \in Windows, Transmit(i) PROVE Step
  <2>1. /\ pc = "idle" /\ i \in held /\ got' = got \cup {epochs[i]} /\ UNCHANGED <<chain, gaps, files, acks>>
    BY <1>11 DEF Transmit, disk
  <2>2. epochs = Chained /\ i \in Kept /\ i \in ChainedIds
    BY <2>1, WhenUp DEF Up, Kept
  <2>3. Chained' = Chained /\ Recorded' = Recorded /\ Through' = Through /\ Kept' = Kept
    BY <1>2, <2>1 DEF Chained, Recorded, Kept, ChainedIds, Present
  <2> QED BY <2>1, <2>2, <2>3
<1> HIDE DEF Step
<1>12. Step
  BY <1>4, <1>6, <1>7, <1>8, <1>9, <1>10, <1>11
     DEF Next, Edge, Recover, Work, Channel, Open, RecordGap, Done, SealChain, SignAck,
         Crash, FailAppend, Rot, Rest, vars, disk, ground
<1>13. Still => UNCHANGED Promise!vars
  BY DEF Promise!vars, Kept
<1>14. Sealed => Promise!Next
  BY DEF Promise!Next, Promise!Seal, Kept
<1>15. ASSUME NEW i \in ChainedIds, Noted(i) \/ Gone(i) \/ Received(i) \/ Verified(i)
       PROVE  Promise!Next
  BY <1>15 DEF Promise!Next, Promise!Record, Promise!Forget, Promise!Transmit, Promise!Verify,
               Promise!Epochs, Kept, ChainedIds
<1> QED BY <1>12, <1>13, <1>14, <1>15 DEF Step

\* The journal implements Retention: readings go only once the ground verified
\* them or their loss is on record, whatever the crashes between the writes.
THEOREM JournalImplementsRetention == ASSUME NoBareLine PROVE Spec => KeepsPromise
<1>1. Init => Promise!Init
  <2> SUFFICES ASSUME Init PROVE Promise!Init
    OBVIOUS
  <2>1. Trim(chain, Torn) = Empty /\ Len(Empty.lines) = 0 /\ gaps = Empty /\ acks.through = 0 /\ got = {}
    BY DEF Init, Trim, EndsTorn, Empty
  <2>2. Chained = <<>>
    BY <2>1 DEF Chained, Wins
  <2>3. Recorded = {} /\ ChainedIds = {} /\ Through = 0
    BY <2>1, <2>2 DEF Recorded, GapSet, ChainedIds, Through, IndexOf
  <2> QED BY <2>1, <2>2, <2>3 DEF Promise!Init
<1>2. IInv /\ [Next]_vars => [Promise!Next]_(Promise!vars)
  BY PromiseStep
<1> QED BY <1>1, <1>2, JournalInvariant, PTL DEF KeepsPromise, Promise!Spec, Spec

\* No silent hole: the readings of every chained epoch are stored on the edge,
\* on the ground, or on record as lost (docs of epochs.py and epoch_journal.py).
THEOREM NoHoleIsSilent == ASSUME NoBareLine PROVE Spec => []Promise!NoSilentHole
<1>1. ASSUME IInv PROVE Promise!NoSilentHole
  <2>1. EveryLossIsRecorded /\ AckedIsVerified
    BY <1>1, Covers DEF IInv
  <2>2. ChainedIds \subseteq Nat /\ \A i \in ChainedIds : i >= 1
    BY <1>1, ChainedTyped DEF IInv, ChainedIds
  <2>3. Through \in Nat
    BY <1>1, ChainedTyped, IndexRange DEF IInv, Through
  <2> QED BY <2>1, <2>2, <2>3
       DEF Promise!NoSilentHole, Promise!Epochs, EveryLossIsRecorded, AckedIsVerified, ChainedIds
<1> QED BY <1>1, JournalInvariant, PTL
=============================================================================
