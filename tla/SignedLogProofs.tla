-------------------------- MODULE SignedLogProofs --------------------------
(***************************************************************************)
(* What the audit log and its root statements guarantee for any number of  *)
(* processes, events and faults: persisted events are read back or the     *)
(* loss shows, and a log nobody wrote onto blindly verifies.               *)
(***************************************************************************)
EXTENDS SignedLog, FiniteSetTheorems, WellFoundedInduction, TLAPS

-----------------------------------------------------------------------------
(* Files of lines.                                                         *)

\* The lines up to a torn last one, and a file where nothing else is torn.
Body(f, torn) == IF EndsTorn(f, torn) THEN Front(f.lines) ELSE f.lines
Tidy(f, torn) == ~Holed(f, torn) /\ (EndsTorn(f, torn) => f.open)

\* A file of lines without its last one is a sequence of the others.
LEMMA FrontOf ==
    ASSUME NEW S, NEW s \in Seq(S), s # <<>>
    PROVE  /\ Front(s) \in Seq(S) /\ Len(s) \in Nat \ {0} /\ Len(Front(s)) = Len(s) - 1
           /\ \A i \in 1..(Len(s) - 1) : Front(s)[i] = s[i]
<1>1. Len(s) \in Nat \ {0} /\ \A i \in 1..Len(s) : s[i] \in S
  OBVIOUS
<1>2. Front(s) = [i \in 1..(Len(s) - 1) |-> s[i]]
  BY <1>1 DEF Front
<1>3. Front(s) \in Seq(S) /\ Len(Front(s)) = Len(s) - 1
  BY <1>1, <1>2
<1> QED BY <1>1, <1>2, <1>3

\* The body of a file of S is a sequence over S, its lines where it has them,
\* and none of them is torn when the file is tidy.
BodyFacts(S, f, torn) ==
    /\ Body(f, torn) \in Seq(S) /\ Len(Body(f, torn)) \in Nat
    /\ Len(Body(f, torn)) <= Len(f.lines)
    /\ \A i \in 1..Len(Body(f, torn)) : Body(f, torn)[i] = f.lines[i]
    /\ Tidy(f, torn) => \A i \in 1..Len(Body(f, torn)) : f.lines[i] # torn
    /\ EndsTorn(f, torn) => Len(Body(f, torn)) = Len(f.lines) - 1
    /\ ~EndsTorn(f, torn) => Body(f, torn) = f.lines
LEMMA BodyOf ==
    ASSUME NEW S, NEW torn, NEW f \in Lines(S)
    PROVE  BodyFacts(S, f, torn)
<1>0. f.lines \in Seq(S) /\ Len(f.lines) \in Nat
  BY DEF Lines
<1>1. CASE EndsTorn(f, torn)
  <2>1. /\ Front(f.lines) \in Seq(S) /\ Len(f.lines) \in Nat \ {0}
        /\ Len(Front(f.lines)) = Len(f.lines) - 1
        /\ \A i \in 1..(Len(f.lines) - 1) : Front(f.lines)[i] = f.lines[i]
    BY <1>0, <1>1, FrontOf DEF EndsTorn
  <2> QED BY <1>1, <2>1 DEF Body, Tidy, Holed, BodyFacts
<1>2. CASE ~EndsTorn(f, torn)
  <2>1. Body(f, torn) = f.lines
    BY <1>2 DEF Body
  <2>2. ASSUME Tidy(f, torn), NEW i \in 1..Len(f.lines) PROVE f.lines[i] # torn
    BY <1>0, <1>2, <2>2 DEF Tidy, Holed, EndsTorn
  <2> QED BY <1>0, <1>2, <2>1, <2>2 DEF BodyFacts
<1> QED BY <1>1, <1>2

\* An append keeps a file a file.
LEMMA PutTyped ==
    ASSUME NEW S, NEW torn \in S, NEW f \in Lines(S), NEW line \in S, NEW how
    PROVE  Put(f, line, torn, how) \in Lines(S)
<1>1. f.lines \in Seq(S) /\ f.open \in BOOLEAN
  BY DEF Lines
<1>2. [f.lines EXCEPT ![Len(f.lines)] = torn] \in Seq(S)
  <2>1. Len(f.lines) \in Nat /\ f.lines \in [1..Len(f.lines) -> S]
    BY <1>1
  <2>2. [f.lines EXCEPT ![Len(f.lines)] = torn] \in [1..Len(f.lines) -> S]
    BY <2>1
  <2> QED BY <2>1, <2>2
<1>3. Append(f.lines, IF how = "fragment" THEN torn ELSE line) \in Seq(S)
  BY <1>1
<1> QED BY <1>1, <1>2, <1>3 DEF Put, Lines

\* Nothing, or a line that follows a complete one: a tidy file stays tidy and
\* its body grows by that line at most.
LEMMA PutTidy ==
    ASSUME NEW S, NEW torn \in S, NEW f \in Lines(S), NEW line \in S, NEW how \in Outcomes,
           Tidy(f, torn), line # torn, how = "lost" \/ ~f.open
    PROVE  /\ Tidy(Put(f, line, torn, how), torn)
           /\ \/ Body(Put(f, line, torn, how), torn) = Body(f, torn)
              \/ /\ Body(Put(f, line, torn, how), torn) = Append(Body(f, torn), line)
                 /\ Body(f, torn) = f.lines /\ ~f.open
           /\ how = "whole" =>
                 /\ Body(Put(f, line, torn, how), torn) = Append(Body(f, torn), line)
                 /\ Put(f, line, torn, how).lines = Append(f.lines, line)
                 /\ ~Put(f, line, torn, how).open
<1> DEFINE g == Put(f, line, torn, how)
<1>0. f.lines \in Seq(S) /\ Len(f.lines) \in Nat
  BY DEF Lines
<1>1. CASE how = "lost"
  BY <1>1 DEF Put
<1>2. CASE how = "fragment"
  <2>1. ~f.open /\ g = [lines |-> Append(f.lines, torn), open |-> TRUE]
    BY <1>2 DEF Put
  <2>2. ~EndsTorn(f, torn) /\ \A i \in 1..Len(f.lines) : f.lines[i] # torn
    BY <2>1, <1>0 DEF Tidy, EndsTorn, Holed
  <2>3. /\ g.lines = Append(f.lines, torn) /\ g.lines \in Seq(S) /\ g.open
        /\ Len(g.lines) = Len(f.lines) + 1
        /\ \A i \in 1..Len(f.lines) : g.lines[i] = f.lines[i]
        /\ g.lines[Len(g.lines)] = torn /\ g.lines # <<>>
    BY <2>1, <1>0
  <2>4. EndsTorn(g, torn) /\ Tidy(g, torn)
    BY <2>2, <2>3, <1>0 DEF EndsTorn, Tidy, Holed
  <2>5. Front(g.lines) = f.lines
    BY <2>3, <1>0 DEF Front
  <2> QED BY <2>2, <2>4, <2>5, <1>2 DEF Body
<1>3. CASE how \in {"bare", "whole"}
  <2>1. ~f.open /\ g = [lines |-> Append(f.lines, line), open |-> how # "whole"]
    BY <1>3 DEF Put
  <2>2. ~EndsTorn(f, torn) /\ \A i \in 1..Len(f.lines) : f.lines[i] # torn
    BY <2>1, <1>0 DEF Tidy, EndsTorn, Holed
  <2>3. /\ g.lines = Append(f.lines, line) /\ g.open = (how # "whole")
        /\ Len(g.lines) = Len(f.lines) + 1
        /\ \A i \in 1..Len(f.lines) : g.lines[i] = f.lines[i]
        /\ g.lines[Len(g.lines)] = line
    BY <2>1, <1>0
  <2>4. ~EndsTorn(g, torn) /\ Tidy(g, torn)
    BY <2>2, <2>3, <1>0 DEF EndsTorn, Tidy, Holed
  <2> QED BY <2>1, <2>2, <2>3, <2>4 DEF Body
<1> QED BY <1>1, <1>2, <1>3 DEF Outcomes

\* What a signer keeps of a file whose last line is torn is its body.
LEMMA KeptOf ==
    ASSUME NEW f \in Lines(Statements), Tidy(f, TornStatement), EndsTorn(f, TornStatement)
    PROVE  LET g == [lines |-> Kept(f), open |-> FALSE]
           IN /\ Tidy(g, TornStatement) /\ ~EndsTorn(g, TornStatement)
              /\ Body(g, TornStatement) = Body(f, TornStatement)
              /\ Kept(f) = Body(f, TornStatement)
<1> DEFINE T == TornStatement
           g == [lines |-> Kept(f), open |-> FALSE]
<1>1. f.lines \in Seq(Statements) /\ f.open
  BY DEF Lines, Tidy
<1>2. /\ Front(f.lines) \in Seq(Statements) /\ Len(f.lines) \in Nat \ {0}
      /\ Len(Front(f.lines)) = Len(f.lines) - 1
      /\ \A i \in 1..(Len(f.lines) - 1) : Front(f.lines)[i] = f.lines[i]
  BY <1>1, FrontOf DEF EndsTorn
<1>3. Kept(f) = Front(f.lines) /\ Body(f, T) = Front(f.lines)
  BY <1>1 DEF Kept, Body
<1>4. \A i \in 1..(Len(f.lines) - 1) : Front(f.lines)[i] # T
  BY <1>2 DEF Tidy, Holed
<1>5. ~EndsTorn(g, T) /\ ~Holed(g, T)
  BY <1>2, <1>3, <1>4 DEF EndsTorn, Holed
<1> QED BY <1>3, <1>5 DEF Tidy, Body

LEMMA KeptTyped ==
    ASSUME NEW f \in Lines(Statements)
    PROVE  Kept(f) \in Seq(Statements)
<1>1. f.lines \in Seq(Statements)
  BY DEF Lines
<1>2. Front(f.lines) \in Seq(Statements)
  <2>1. CASE f.lines = <<>>
    <3>1. Front(f.lines) = <<>>
      BY <2>1 DEF Front
    <3> QED BY <3>1
  <2>2. CASE f.lines # <<>>
    BY <1>1, <2>2, FrontOf
  <2> QED BY <2>1, <2>2
<1> QED BY <1>1, <1>2 DEF Kept

-----------------------------------------------------------------------------
(* The lines that can be read.                                             *)

\* A set of naturals has a least element.
LEMMA Least ==
    ASSUME NEW T, T \subseteq Nat, T # {}
    PROVE  \E x \in T : \A y \in T : x <= y
<1> DEFINE R == OpToRel(<, Nat)
<1>1. IsWellFoundedOn(R, Nat)
  BY NatLessThanWellFounded
<1>2. \A x, y \in Nat : <<x, y>> \in R <=> x < y
  BY DEF OpToRel
<1> HIDE DEF R
<1>3. PICK x \in T : \A y \in T : ~ (<<y, x>> \in R)
  BY <1>1, WFMin
<1>4. \A y \in T : ~(y < x) /\ y \in Nat /\ x \in Nat
  BY <1>2, <1>3
<1>5. \A y \in T : x <= y
  BY <1>4
<1> QED BY <1>5

\* A set has a k-th element for each k up to its size: take the least k for
\* which it has none.
LEMMA NthExists ==
    ASSUME NEW S, S \subseteq Nat, IsFiniteSet(S), NEW k \in 1..Cardinality(S)
    PROVE  /\ Nth(S, k) \in S
           /\ Cardinality({j \in S : j <= Nth(S, k)}) = k
<1> DEFINE UpTo(i) == {j \in S : j <= i}
           Has(n) == \E i \in S : Cardinality(UpTo(i)) = n
           Bad == {n \in 1..Cardinality(S) : ~Has(n)}
<1>0. Cardinality(S) \in Nat
  BY FS_CardinalityType
<1>1. \A i \in S : UpTo(i) \in SUBSET S /\ IsFiniteSet(UpTo(i)) /\ Cardinality(UpTo(i)) \in Nat
  BY FS_Subset, FS_CardinalityType
<1>2. SUFFICES Bad = {}
  <2>1. Has(k)
    BY <1>2
  <2> QED BY <2>1 DEF Nth
<1>3. SUFFICES ASSUME Bad # {} PROVE FALSE
  OBVIOUS
<1>4. PICK n \in Bad : \A m \in Bad : n <= m
  <2>1. Bad \subseteq Nat
    BY <1>0
  <2> HIDE DEF Bad
  <2> QED BY <1>3, <2>1, Least
<1>5. n \in 1..Cardinality(S) /\ ~Has(n)
  OBVIOUS
<1>6. n = 1 \/ \E i \in S : Cardinality(UpTo(i)) = n - 1
  <2>1. n = 1 \/ n - 1 \in 1..Cardinality(S)
    BY <1>0, <1>5
  <2>2. n - 1 \notin Bad
    BY <1>0, <1>4, <1>5
  <2> QED BY <2>1, <2>2
<1>7. CASE n = 1
  <2>1. S # {}
    BY <1>0, <1>5, FS_EmptySet
  <2>2. PICK s \in S : \A j \in S : s <= j
    BY <2>1, Least
  <2>3. UpTo(s) = {s}
    <3>1. \A j \in S : j <= s => j = s
      BY <2>2
    <3>2. s <= s
      OBVIOUS
    <3> QED BY <3>1, <3>2
  <2> HIDE DEF UpTo
  <2>4. Cardinality(UpTo(s)) = 1
    BY <2>3, FS_Singleton
  <2> QED BY <1>5, <1>7, <2>4
<1>8. CASE n # 1
  <2>1. PICK i \in S : Cardinality(UpTo(i)) = n - 1
    BY <1>6, <1>8
  <2>2. S \ UpTo(i) # {}
    <3> HIDE DEF UpTo
    <3>1. UpTo(i) # S
      BY <1>0, <1>5, <2>1
    <3> QED BY <3>1, <1>1
  <2>3. PICK s \in S \ UpTo(i) : \A j \in S \ UpTo(i) : s <= j
    BY <2>2, Least
  <2>4. UpTo(s) = UpTo(i) \cup {s}
    <3>1. s \in Nat /\ i \in Nat /\ ~(s <= i)
      BY <2>3
    <3>2. ASSUME NEW j \in S, j <= s PROVE j <= i \/ j = s
      <4>1. j \in Nat
        OBVIOUS
      <4>2. ~(j <= i) => s <= j
        BY <2>3
      <4> QED BY <3>1, <3>2, <4>1, <4>2
    <3>3. ASSUME NEW j \in S, j <= i PROVE j <= s
      BY <3>1, <3>3
    <3>4. \A j \in S : j <= s <=> j <= i \/ j = s
      BY <3>1, <3>2, <3>3
    <3> QED BY <2>3, <3>4
  <2>5. s \notin UpTo(i)
    BY <2>3
  <2> HIDE DEF UpTo
  <2>6. Cardinality(UpTo(s)) = n
    BY <1>0, <1>1, <1>5, <2>1, <2>4, <2>5, FS_AddElement
  <2> QED BY <1>5, <2>6
<1> QED BY <1>7, <1>8

\* The k-th element of 1..m is k.
LEMMA NthOfInterval ==
    ASSUME NEW m \in Nat, NEW k \in 1..m
    PROVE  Nth(1..m, k) = k
<1>1. \A i \in 1..m : {j \in 1..m : j <= i} = 1..i /\ Cardinality(1..i) = i
  <2> SUFFICES ASSUME NEW i \in 1..m PROVE {j \in 1..m : j <= i} = 1..i /\ Cardinality(1..i) = i
    OBVIOUS
  <2>1. {j \in 1..m : j <= i} = 1..i
    OBVIOUS
  <2>2. Cardinality(1..i) = i
    BY FS_Interval
  <2> QED BY <2>1, <2>2
<1>2. \A i \in 1..m : Cardinality({j \in 1..m : j <= i}) = k <=> i = k
  BY <1>1
<1> QED BY <1>2 DEF Nth

\* What a tidy log reads back is its body.
LEMMA ReadableIsBody ==
    ASSUME log \in Lines(EventLines), Tidy(log, Torn)
    PROVE  Readable = Body(log, Torn)
<1> DEFINE B == Body(log, Torn)
           m == Len(B)
<1>1. /\ B \in Seq(EventLines) /\ m \in Nat /\ m <= Len(log.lines)
      /\ \A i \in 1..m : B[i] = log.lines[i] /\ log.lines[i] # Torn
      /\ EndsTorn(log, Torn) => m = Len(log.lines) - 1
      /\ ~EndsTorn(log, Torn) => B = log.lines
  <2>1. BodyFacts(EventLines, log, Torn)
    BY BodyOf
  <2> QED BY <2>1 DEF BodyFacts
<1>2. Len(log.lines) \in Nat
  BY DEF Lines
<1>3. Legible = 1..m
  <2>1. CASE EndsTorn(log, Torn)
    <3>1. m = Len(log.lines) - 1 /\ log.lines[Len(log.lines)] = Torn
      BY <1>1, <2>1 DEF EndsTorn
    <3> HIDE DEF m, B
    <3> QED BY <1>1, <1>2, <3>1 DEF Legible, Unreadable
  <2>2. CASE ~EndsTorn(log, Torn)
    <3>1. m = Len(log.lines)
      BY <1>1, <2>2
    <3> HIDE DEF m, B
    <3> QED BY <1>1, <1>2, <3>1 DEF Legible, Unreadable
  <2> QED BY <2>1, <2>2
<1> HIDE DEF m
<1>4. Cardinality(1..m) = m
  BY <1>1, FS_Interval
<1>5. Readable = [k \in 1..m |-> log.lines[k]]
  BY <1>1, <1>3, <1>4, NthOfInterval DEF Readable
<1>6. B = [k \in 1..m |-> B[k]]
  BY <1>1 DEF m
<1> QED BY <1>1, <1>5, <1>6

\* What is read back are lines of the log, whatever it holds.
LEMMA ReadableTyped ==
    ASSUME log \in Lines(EventLines)
    PROVE  Readable \in Seq(EventLines)
<1>1. Len(log.lines) \in Nat /\ \A i \in 1..Len(log.lines) : log.lines[i] \in EventLines
  BY DEF Lines
<1>2. Legible \subseteq 1..Len(log.lines) /\ Legible \subseteq Nat
  BY <1>1 DEF Legible
<1>3. IsFiniteSet(Legible) /\ Cardinality(Legible) \in Nat
  <2>1. IsFiniteSet(1..Len(log.lines))
    BY <1>1, FS_Interval
  <2> QED BY <1>2, <2>1, FS_Subset, FS_CardinalityType
<1>4. \A k \in 1..Cardinality(Legible) : Nth(Legible, k) \in Legible
  BY <1>2, <1>3, NthExists
<1>5. \A k \in 1..Cardinality(Legible) : log.lines[Nth(Legible, k)] \in EventLines
  BY <1>1, <1>2, <1>4
<1> QED BY <1>3, <1>5 DEF Readable

-----------------------------------------------------------------------------
(* Types.                                                                  *)

\* What the steps write are events, statements and torn lines.
LEMMA LinesTyped ==
    ASSUME TypeOK, NEW w \in Processes
    PROVE  /\ Torn \in EventLines /\ TornStatement \in Statements
           /\ offered < MaxEvents => Event(w) \in EventLines /\ Event(w) # Torn
           /\ Statement(w) \in Statements /\ Statement(w) # TornStatement
<1> USE LogAssumption
<1>1. Torn \in EventLines /\ TornStatement \in Statements
  BY DEF Torn, TornStatement, EventLines, Statements
<1>2. events[w] \in Seq(EventLines) /\ Len(events[w]) \in Nat
  BY DEF TypeOK
<1>3. ASSUME offered < MaxEvents PROVE Event(w) \in EventLines /\ Event(w) # Torn
  BY <1>2, <1>3 DEF TypeOK, Event, EventLines, Torn
<1>4. Root(events[w]) \in Seq(0..MaxEvents)
  <2>1. \A i \in 1..Len(events[w]) : events[w][i].n \in 0..MaxEvents
    <3>1. \A i \in 1..Len(events[w]) : events[w][i] \in EventLines
      BY <1>2
    <3> QED BY <3>1 DEF EventLines
  <2> QED BY <1>2, <2>1 DEF Root
<1>5. Statement(w) \in Statements /\ Statement(w) # TornStatement
  BY <1>4 DEF TypeOK, Statement, Statements, TornStatement
<1> QED BY <1>1, <1>3, <1>5

LEMMA NotesTyped ==
    ASSUME TypeOK, NEW w, NEW how, NEW informed \in BOOLEAN, NEW spoils, Notes(w, how, informed, spoils)
    PROVE  blind' \in BOOLEAN /\ spoiled' \in BOOLEAN /\ shared' \in BOOLEAN
BY DEF Notes, TypeOK

LEMMA InitType == Init => TypeOK
<1> SUFFICES ASSUME Init PROVE TypeOK
  OBVIOUS
<1>1. \A S : <<>> \in Seq(S)
  OBVIOUS
<1>2. log \in Lines(EventLines) /\ stmts \in Lines(Statements)
  BY <1>1 DEF Init, Empty, Lines
<1>3. events \in [Processes -> Seq(EventLines)]
  BY <1>1 DEF Init
<1>4. signer \in [Processes -> [on : BOOLEAN, seq : Nat, prev : Int]]
  BY DEF Init, NoSigner
<1>6. mending \in [Processes -> [seen : Lines(Statements), kept : Seq(Statements)]]
  <2>1. NotMending \in [seen : Lines(Statements), kept : Seq(Statements)]
    BY <1>1 DEF NotMending, Empty, Lines
  <2> QED BY <2>1 DEF Init
<1>5. /\ pc \in [Processes -> {"down", "idle", "sign", "reread", "rewrite"}] /\ skipped \in [Processes -> BOOLEAN]
      /\ told \subseteq 1..MaxEvents
      /\ offered \in 0..MaxEvents /\ made \in 0..MaxStatements /\ failed \in 0..MaxFaults
      /\ blind \in BOOLEAN /\ spoiled \in BOOLEAN /\ shared \in BOOLEAN
  <2>1. pc \in [Processes -> {"down", "idle", "sign", "reread", "rewrite"}] /\ skipped \in [Processes -> BOOLEAN]
    BY DEF Init
  <2>2. told = {} /\ offered = 0 /\ made = 0 /\ failed = 0 /\ ~blind /\ ~spoiled /\ ~shared
        /\ blind \in BOOLEAN /\ spoiled \in BOOLEAN /\ shared \in BOOLEAN
    BY DEF Init
  <2> QED BY <2>1, <2>2, LogAssumption
<1> QED BY <1>2, <1>3, <1>4, <1>5, <1>6 DEF TypeOK

LEMMA NextType == TypeOK /\ [Next]_vars => TypeOK'
<1> SUFFICES ASSUME TypeOK, [Next]_vars PROVE TypeOK'
  OBVIOUS
<1> USE LogAssumption
<1>m. NotMending \in [seen : Lines(Statements), kept : Seq(Statements)]
  <2>1. <<>> \in Seq(Statements)
    OBVIOUS
  <2> QED BY <2>1 DEF NotMending, Empty, Lines
<1>1. ASSUME NEW w \in Processes, Open(w) PROVE TypeOK'
  <2>1. Readable \in Seq(EventLines) /\ (Unreadable # {}) \in BOOLEAN
    BY ReadableTyped DEF TypeOK
  <2> QED BY <1>1, <2>1 DEF Open, TypeOK, history
<1>2. ASSUME NEW w \in Processes, Close(w) PROVE TypeOK'
  BY <1>2, <1>m DEF Close, Forget, TypeOK, NoSigner, history
<1>3. ASSUME NEW w \in Processes, WriteEvent(w) PROVE TypeOK'
  <2>1. Event(w) \in EventLines /\ log' \in Lines(EventLines)
    BY <1>3, LinesTyped, PutTyped DEF WriteEvent, TypeOK
  <2>2. events' \in [Processes -> Seq(EventLines)]
    <3>1. Append(events[w], Event(w)) \in Seq(EventLines)
      BY <2>1 DEF TypeOK
    <3> QED BY <1>3, <3>1 DEF WriteEvent, TypeOK
  <2>3. blind' \in BOOLEAN /\ spoiled' \in BOOLEAN /\ shared' \in BOOLEAN
    BY <1>3, NotesTyped DEF WriteEvent, Informed
  <2> QED BY <1>3, <2>1, <2>2, <2>3 DEF WriteEvent, TypeOK, NextPc
<1>4. ASSUME NEW w \in Processes, Checkpoint(w) PROVE TypeOK'
  BY <1>4 DEF Checkpoint, TypeOK, history
<1>5. ASSUME NEW w \in Processes, OpenSigner(w) PROVE TypeOK'
  <2>1. [seen |-> stmts, kept |-> <<>>] \in [seen : Lines(Statements), kept : Seq(Statements)]
    <3>1. <<>> \in Seq(Statements)
      OBVIOUS
    <3> QED BY <3>1 DEF TypeOK
  <2>2. /\ ReadStatements(stmts) \in Seq(Statements)
        /\ Len(ReadStatements(stmts)) \in Nat /\ LastHash(ReadStatements(stmts)) \in Int
    <3>1. ReadStatements(stmts) = Body(stmts, TornStatement)
      BY DEF ReadStatements, Body
    <3>2. BodyFacts(Statements, stmts, TornStatement)
      BY BodyOf DEF TypeOK
    <3>3. ASSUME NEW s \in Seq(Statements) PROVE LastHash(s) \in Int
      <4>1. s # <<>> => Len(s) \in Nat \ {0} /\ s[Len(s)] \in Statements
        OBVIOUS
      <4> QED BY <4>1 DEF LastHash, Last, Statements
    <3> QED BY <3>1, <3>2, <3>3 DEF BodyFacts
  <2> QED BY <1>5, <2>1, <2>2 DEF OpenSigner, StartsFrom, MendIf, TypeOK, history
<1>r. ASSUME NEW w \in Processes, ReadAgain(w) PROVE TypeOK'
  <2>1. Kept(stmts) \in Seq(Statements)
    BY KeptTyped DEF TypeOK
  <2> QED BY <1>r, <2>1 DEF ReadAgain, TypeOK, history
<1>e. ASSUME NEW w \in Processes, Rewrite(w) PROVE TypeOK'
  <2>1. stmts' \in Lines(Statements)
    BY <1>e DEF Rewrite, TypeOK, Lines
  <2>2. blind' \in BOOLEAN /\ spoiled' \in BOOLEAN /\ shared' \in BOOLEAN
    BY <1>e, NotesTyped DEF Rewrite
  <2> QED BY <1>e, <1>m, <2>1, <2>2 DEF Rewrite, TypeOK
<1>6. ASSUME NEW w \in Processes, Sign(w) PROVE TypeOK'
  <2>1. stmts' \in Lines(Statements)
    BY <1>6, LinesTyped, PutTyped DEF Sign, TypeOK
  <2>3. blind' \in BOOLEAN /\ spoiled' \in BOOLEAN /\ shared' \in BOOLEAN
    BY <1>6, NotesTyped DEF Sign, InformedSigner
  <2>4. signer' \in [Processes -> [on : BOOLEAN, seq : Nat, prev : Int]]
    <3>1. [on |-> TRUE, seq |-> signer[w].seq + 1, prev |-> made + 1] \in [on : BOOLEAN, seq : Nat, prev : Int]
      BY DEF TypeOK
    <3> QED BY <1>6, <3>1 DEF Sign, TypeOK
  <2> QED BY <1>6, <2>1, <2>3, <2>4 DEF Sign, TypeOK
<1>7. ASSUME NEW w \in Processes, NEW how, NEW spoils,
             LeaveEvent(w, how, spoils) \/ LeaveStatement(w, how, spoils) \/ LeaveNothing(w)
      PROVE  /\ log' \in Lines(EventLines) /\ stmts' \in Lines(Statements)
             /\ offered' \in 0..MaxEvents /\ made' \in 0..MaxStatements
             /\ blind' \in BOOLEAN /\ spoiled' \in BOOLEAN /\ shared' \in BOOLEAN
  <2>1. CASE LeaveEvent(w, how, spoils)
    <3>1. log' \in Lines(EventLines)
      BY <2>1, LinesTyped, PutTyped DEF LeaveEvent, TypeOK
    <3>2. blind' \in BOOLEAN /\ spoiled' \in BOOLEAN /\ shared' \in BOOLEAN
      BY <2>1, NotesTyped DEF LeaveEvent, Informed
    <3> QED BY <2>1, <3>1, <3>2 DEF LeaveEvent, TypeOK
  <2>2. CASE LeaveStatement(w, how, spoils)
    <3>1. stmts' \in Lines(Statements)
      BY <2>2, LinesTyped, PutTyped DEF LeaveStatement, TypeOK
    <3>2. blind' \in BOOLEAN /\ spoiled' \in BOOLEAN /\ shared' \in BOOLEAN
      BY <2>2, NotesTyped DEF LeaveStatement, InformedSigner
    <3> QED BY <2>2, <3>1, <3>2 DEF LeaveStatement, TypeOK
  <2>3. CASE LeaveNothing(w)
    BY <2>3 DEF LeaveNothing, TypeOK, history
  <2> QED BY <1>7, <2>1, <2>2, <2>3
<1>8. ASSUME NEW w \in Processes, FailWrite(w) PROVE TypeOK'
  <2>1. PICK how, spoils :
           LeaveEvent(w, how, spoils) \/ LeaveStatement(w, how, spoils) \/ LeaveNothing(w)
    BY <1>8 DEF FailWrite
  <2>2. /\ log' \in Lines(EventLines) /\ stmts' \in Lines(Statements)
        /\ offered' \in 0..MaxEvents /\ made' \in 0..MaxStatements
        /\ blind' \in BOOLEAN /\ spoiled' \in BOOLEAN /\ shared' \in BOOLEAN
    BY <1>7, <2>1
  <2>3. /\ failed' \in 0..MaxFaults /\ pc' \in [Processes -> {"down", "idle", "sign", "reread", "rewrite"}]
        /\ signer' \in [Processes -> [on : BOOLEAN, seq : Nat, prev : Int]]
        /\ mending' \in [Processes -> [seen : Lines(Statements), kept : Seq(Statements)]]
        /\ UNCHANGED <<events, skipped, told>>
    BY <1>8, <1>m DEF FailWrite, GiveUp, Fault, TypeOK, NoSigner
  <2> QED BY <2>2, <2>3 DEF TypeOK
<1>9. ASSUME NEW w \in Processes, Crash(w) PROVE TypeOK'
  <2>1. PICK how, spoils :
           LeaveEvent(w, how, spoils) \/ LeaveStatement(w, how, spoils) \/ LeaveNothing(w)
    BY <1>9 DEF Crash
  <2>2. /\ log' \in Lines(EventLines) /\ stmts' \in Lines(Statements)
        /\ offered' \in 0..MaxEvents /\ made' \in 0..MaxStatements
        /\ blind' \in BOOLEAN /\ spoiled' \in BOOLEAN /\ shared' \in BOOLEAN
    BY <1>7, <2>1
  <2>3. mending' \in [Processes -> [seen : Lines(Statements), kept : Seq(Statements)]]
    BY <1>9, <1>m DEF Crash, Forget, TypeOK
  <2> QED BY <1>9, <2>2, <2>3 DEF Crash, Forget, Fault, TypeOK, NoSigner
<1>10. CASE UNCHANGED vars
  BY <1>10 DEF vars, memory, history, TypeOK
<1> QED BY <1>1, <1>2, <1>3, <1>4, <1>5, <1>r, <1>e, <1>6, <1>8, <1>9, <1>10 DEF Next, Rest

\* Files of events and statements, memories of events (TypeOK).
THEOREM LogTypeCorrect == Spec => []TypeOK
BY InitType, NextType, PTL DEF Spec

-----------------------------------------------------------------------------
(* As long as nobody writes blindly.                                       *)

B == Body(log, Torn)
K == Body(stmts, TornStatement)

\* c starts with b.
Grows(b, c) == Len(b) <= Len(c) /\ \A i \in 1..Len(b) : c[i] = b[i]

\* Events carry their position, memories are what the log starts with, and a
\* process that could not read a line is right about it.
LogOK ==
    /\ Tidy(log, Torn)
    /\ \A i \in 1..Len(B) : B[i].idx = i - 1
MemoryOK ==
    \A w \in Processes : Grows(events[w], B) /\ (skipped[w] => EndsTorn(log, Torn))

\* The i-th of the statements s follows the one before it, and its root is the
\* root of events that b starts with, no fewer than any statement before.
Attests(s, i, b) ==
    /\ s[i].seq = i - 1
    /\ s[i].prev = IF i = 1 THEN 0 ELSE s[i - 1].id
    /\ Len(s[i].root) <= Len(b)
    /\ \A j \in 1..Len(s[i].root) : s[i].root[j] = b[j].n
    /\ \A j \in 1..(i - 1) : Len(s[j].root) <= Len(s[i].root)
StatementsOK ==
    /\ Tidy(stmts, TornStatement)
    /\ \A i \in 1..Len(K) : Attests(K, i, B)

Honest == ~blind => LogOK /\ MemoryOK /\ StatementsOK

\* Whoever rewrites the statements found their last line torn.
Mends ==
    \A w \in Processes : pc[w] \in {"reread", "rewrite"} =>
        signer[w].on /\ EndsTorn(mending[w].seen, TornStatement)

LEMMA NextMends == TypeOK /\ Mends /\ [Next]_vars => Mends'
<1> SUFFICES ASSUME TypeOK, Mends, [Next]_vars PROVE Mends'
  OBVIOUS
<1> USE DEF Mends, TypeOK
<1>1. ASSUME NEW w \in Processes, Open(w) \/ Close(w) PROVE Mends'
  BY <1>1 DEF Open, Close, Forget
<1>2. ASSUME NEW w \in Processes, WriteEvent(w) \/ Checkpoint(w) \/ Sign(w) PROVE Mends'
  BY <1>2 DEF WriteEvent, NextPc, Checkpoint, Sign
<1>3. ASSUME NEW w \in Processes, OpenSigner(w) PROVE Mends'
  BY <1>3 DEF OpenSigner, StartsFrom, MendIf
<1>4. ASSUME NEW w \in Processes, ReadAgain(w) PROVE Mends'
  BY <1>4 DEF ReadAgain
<1>5. ASSUME NEW w \in Processes, Rewrite(w) PROVE Mends'
  BY <1>5 DEF Rewrite
<1>6. ASSUME NEW w \in Processes, FailWrite(w) PROVE Mends'
  BY <1>6 DEF FailWrite, GiveUp
<1>7. ASSUME NEW w \in Processes, Crash(w) PROVE Mends'
  BY <1>7 DEF Crash, Forget
<1>8. CASE UNCHANGED vars
  BY <1>8 DEF vars, memory
<1> QED BY <1>1, <1>2, <1>3, <1>4, <1>5, <1>6, <1>7, <1>8 DEF Next, Rest

\* A rewriting that is not blind takes nothing away.
LEMMA Rewritten ==
    ASSUME TypeOK, Mends, Honest, NEW w \in Processes, Rewrite(w), ~blind'
    PROVE  /\ ~blind /\ B' = B /\ K' = K /\ StatementsOK'
           /\ stmts'.lines = ReadStatements(stmts) /\ ~stmts'.open
           /\ ~EndsTorn(stmts', TornStatement)
<1>1. /\ ~blind /\ log' = log /\ stmts' = [lines |-> Kept(stmts), open |-> FALSE]
      /\ stmts = mending[w].seen /\ pc[w] = "rewrite"
  BY DEF Rewrite, Notes
<1>2. stmts \in Lines(Statements) /\ EndsTorn(stmts, TornStatement) /\ StatementsOK
  BY <1>1 DEF Mends, Honest, TypeOK
<1>3. /\ Tidy(stmts', TornStatement) /\ ~EndsTorn(stmts', TornStatement)
      /\ K' = K /\ Kept(stmts) = K
  BY <1>1, <1>2, KeptOf DEF StatementsOK, K
<1>4. B' = B /\ ReadStatements(stmts) = K
  BY <1>1 DEF B, K, ReadStatements, Body
<1>5. StatementsOK'
  BY <1>2, <1>3, <1>4 DEF StatementsOK
<1> QED BY <1>1, <1>3, <1>4, <1>5

\* The bodies are sequences, and the log's is what is read back.
LEMMA BodiesTyped ==
    ASSUME TypeOK
    PROVE  /\ B \in Seq(EventLines) /\ Len(B) \in Nat
           /\ K \in Seq(Statements) /\ Len(K) \in Nat
           /\ Tidy(log, Torn) => Readable = B
           /\ ReadStatements(stmts) = K
<1>1. BodyFacts(EventLines, log, Torn) /\ BodyFacts(Statements, stmts, TornStatement)
  BY BodyOf DEF TypeOK
<1>2. Tidy(log, Torn) => Readable = B
  BY ReadableIsBody DEF TypeOK, B
<1> QED BY <1>1, <1>2 DEF BodyFacts, B, K, ReadStatements, Body

LEMMA BodyLength == TypeOK => Len(B) \in Nat
BY BodiesTyped

\* What a write of an event that knows the log does to it.
EventStep(w, how) ==
    /\ w \in Processes /\ how \in Outcomes /\ offered < MaxEvents
    /\ log' = Put(log, Event(w), Torn, how)
    /\ blind' = (blind \/ (how # "lost" /\ ~Informed(w)))
LEMMA EventWritten ==
    ASSUME TypeOK, Honest, NEW w, NEW how, EventStep(w, how), ~blind'
    PROVE  /\ LogOK' /\ Grows(B, B')
           /\ EndsTorn(log, Torn) => EndsTorn(log', Torn)
           /\ how = "whole" => B' = Append(events[w], Event(w)) /\ Grows(B, events[w])
           /\ B' = B \/ B' = Append(B, Event(w))
<1>1. LogOK /\ MemoryOK /\ ~blind /\ (how = "lost" \/ Informed(w)) /\ w \in Processes
  BY DEF EventStep, Honest
<1>2. /\ B \in Seq(EventLines) /\ Len(B) \in Nat /\ Readable = B
      /\ log \in Lines(EventLines)
  BY <1>1, BodiesTyped DEF LogOK, TypeOK
<1>3. Torn \in EventLines /\ Event(w) \in EventLines /\ Event(w) # Torn
  BY <1>1, LinesTyped DEF EventStep
<1>4. /\ Tidy(log', Torn)
      /\ B' = B \/ (B' = Append(B, Event(w)) /\ B = log.lines /\ ~log.open)
      /\ how = "whole" => B' = Append(B, Event(w))
  <2>1. how = "lost" \/ ~log.open
    BY <1>1 DEF Informed
  <2>2. /\ Tidy(Put(log, Event(w), Torn, how), Torn)
        /\ \/ Body(Put(log, Event(w), Torn, how), Torn) = Body(log, Torn)
           \/ /\ Body(Put(log, Event(w), Torn, how), Torn) = Append(Body(log, Torn), Event(w))
              /\ Body(log, Torn) = log.lines /\ ~log.open
        /\ how = "whole" => Body(Put(log, Event(w), Torn, how), Torn) = Append(Body(log, Torn), Event(w))
    BY <1>1, <1>2, <1>3, <2>1, PutTidy DEF EventStep, LogOK
  <2> QED BY <2>2 DEF EventStep, B
<1>5. how # "lost" => events[w] = B
  BY <1>1, <1>2 DEF Informed
<1>6. CASE B' = B
  <2>1. how # "whole"
    <3>1. how = "whole" => B = Append(B, Event(w))
      BY <1>4, <1>6
    <3> QED BY <1>2, <1>3, <3>1
  <2>2. EndsTorn(log, Torn) => how = "lost" \/ ~log.open
    BY <1>1 DEF Informed
  <2>3. EndsTorn(log, Torn) => log' = log
    BY <1>1, <2>2 DEF LogOK, Tidy, EventStep, Put
  <2> QED BY <1>1, <1>2, <1>4, <1>6, <2>1, <2>3 DEF LogOK, Grows
<1>7. CASE B' # B
  <2>1. B' = Append(B, Event(w)) /\ how # "lost" /\ ~log.open
    BY <1>4, <1>7 DEF EventStep, Put, B
  <2>2. events[w] = B /\ Event(w).idx = Len(B)
    BY <1>5, <2>1 DEF Event
  <2>3. /\ Len(B') = Len(B) + 1 /\ B'[Len(B) + 1] = Event(w)
        /\ \A i \in 1..Len(B) : B'[i] = B[i]
    BY <1>2, <1>3, <2>1
  <2>4. ~EndsTorn(log, Torn)
    BY <1>1, <2>1 DEF LogOK, Tidy
  <2>5. \A i \in 1..Len(B') : B'[i].idx = i - 1
    BY <1>1, <1>2, <2>2, <2>3 DEF LogOK
  <2> QED BY <1>2, <1>4, <2>1, <2>2, <2>3, <2>4, <2>5 DEF LogOK, Grows
<1> QED BY <1>6, <1>7

\* What a write of a statement that knows the files does to them.
StatementStep(w, how) ==
    /\ w \in Processes /\ how \in Outcomes
    /\ stmts' = Put(stmts, Statement(w), TornStatement, how)
    /\ blind' = (blind \/ (how # "lost" /\ ~InformedSigner(w)))
    /\ log' = log
LEMMA StatementWritten ==
    ASSUME TypeOK, Honest, NEW w, NEW how, StatementStep(w, how), ~blind'
    PROVE  /\ StatementsOK' /\ Grows(K, K')
           /\ K' = K \/ (K' = Append(K, Statement(w)) /\ events[w] = B)
           /\ how = "whole" => K' = Append(K, Statement(w)) /\ events[w] = B
<1>1. LogOK /\ StatementsOK /\ ~blind /\ (how = "lost" \/ InformedSigner(w)) /\ w \in Processes
  BY DEF StatementStep, Honest
<1>2. /\ B \in Seq(EventLines) /\ Len(B) \in Nat /\ Readable = B /\ B' = B
      /\ K \in Seq(Statements) /\ Len(K) \in Nat /\ stmts \in Lines(Statements)
  BY <1>1, BodiesTyped DEF LogOK, TypeOK, StatementStep, B
<1>3. TornStatement \in Statements /\ Statement(w) \in Statements /\ Statement(w) # TornStatement
  BY <1>1, LinesTyped
<1>4. /\ Tidy(stmts', TornStatement)
      /\ K' = K \/ (K' = Append(K, Statement(w)) /\ K = stmts.lines /\ ~stmts.open)
      /\ how = "whole" => K' = Append(K, Statement(w)) /\ events[w] = B
  <2>1. how = "lost" \/ ~stmts.open
    BY <1>1 DEF InformedSigner
  <2>2. /\ Tidy(Put(stmts, Statement(w), TornStatement, how), TornStatement)
        /\ \/ Body(Put(stmts, Statement(w), TornStatement, how), TornStatement) = Body(stmts, TornStatement)
           \/ /\ Body(Put(stmts, Statement(w), TornStatement, how), TornStatement)
                   = Append(Body(stmts, TornStatement), Statement(w))
              /\ Body(stmts, TornStatement) = stmts.lines /\ ~stmts.open
        /\ how = "whole" => Body(Put(stmts, Statement(w), TornStatement, how), TornStatement)
                               = Append(Body(stmts, TornStatement), Statement(w))
    BY <1>1, <1>2, <1>3, <2>1, PutTidy DEF StatementStep, StatementsOK
  <2>3. how = "whole" => events[w] = B
    BY <1>1, <1>2 DEF InformedSigner, Informed
  <2> QED BY <2>2, <2>3 DEF StatementStep, K
<1>5. CASE K' = K
  <2>1. StatementsOK' /\ Grows(K, K')
    BY <1>1, <1>2, <1>4, <1>5 DEF StatementsOK, Grows
  <2> QED BY <1>4, <1>5, <2>1
<1>6. CASE K' # K
  <2>1. K' = Append(K, Statement(w)) /\ K = stmts.lines /\ how # "lost"
    BY <1>4, <1>6 DEF StatementStep, Put, K
  <2>2. /\ events[w] = B /\ signer[w].seq = Len(K)
        /\ signer[w].prev = IF K = <<>> THEN 0 ELSE K[Len(K)].id
    BY <1>1, <1>2, <2>1 DEF InformedSigner, Informed, LastHash, Last
  <2>3. /\ Len(K') = Len(K) + 1 /\ K'[Len(K) + 1] = Statement(w)
        /\ \A i \in 1..Len(K) : K'[i] = K[i]
    BY <1>2, <1>3, <2>1
  <2>4. ASSUME NEW i \in 1..Len(K) PROVE Attests(K', i, B)
    <3>1. Attests(K, i, B)
      BY <1>1 DEF StatementsOK
    <3>2. /\ K'[i] = K[i] /\ (i = 1 \/ K'[i - 1] = K[i - 1])
          /\ \A j \in 1..(i - 1) : K'[j] = K[j]
      BY <1>2, <2>3
    <3> HIDE DEF K
    <3> QED BY <3>1, <3>2 DEF Attests
  <2>5. Attests(K', Len(K) + 1, B)
    <3>1. /\ Statement(w).seq = Len(K) /\ Statement(w).root = [j \in 1..Len(B) |-> B[j].n]
          /\ Statement(w).prev = IF K = <<>> THEN 0 ELSE K[Len(K)].id
      BY <2>2 DEF Statement, Root
    <3>2. Len(Statement(w).root) = Len(B)
      BY <1>2, <3>1
    <3>3. \A j \in 1..Len(K) : Len(K'[j].root) <= Len(B)
      BY <1>1, <2>3 DEF StatementsOK, Attests
    <3>4. Len(K) # 0 <=> K # <<>>
      BY <1>2
    <3> QED BY <1>2, <2>3, <3>1, <3>2, <3>3, <3>4 DEF Attests
  <2>6. \A i \in 1..Len(K') : Attests(K', i, B)
    BY <1>2, <2>3, <2>4, <2>5
  <2>7. StatementsOK' /\ Grows(K, K')
    BY <1>2, <1>4, <2>3, <2>6 DEF StatementsOK, Grows
  <2> QED BY <1>4, <2>2, <2>7
<1> QED BY <1>5, <1>6

\* A memory that the log starts with, and statements over it, outlive a write.
LEMMA HeldStays ==
    ASSUME NEW a, NEW b, NEW c, Len(a) \in Nat, Len(b) \in Nat, Len(c) \in Nat,
           Grows(a, b), Grows(b, c)
    PROVE  Grows(a, c)
BY DEF Grows

LEMMA AttestsStays ==
    ASSUME NEW s \in Seq(Statements), NEW i \in 1..Len(s), NEW b, NEW c,
           Len(b) \in Nat, Len(c) \in Nat, Attests(s, i, b), Grows(b, c)
    PROVE  Attests(s, i, c)
<1>1. s[i] \in Statements
  OBVIOUS
<1>2. s[i].root \in Seq(0..MaxEvents)
  BY <1>1 DEF Statements
<1>3. Len(s[i].root) \in Nat
  BY <1>2
<1> QED BY <1>3 DEF Attests, Grows

\* The invariant survives a write of an event.
Memories(w, how) ==
    \A v \in Processes :
        \/ events'[v] = events[v] /\ skipped'[v] = skipped[v]
        \/ events'[v] = <<>> /\ skipped'[v] = FALSE
        \/ /\ how = "whole" /\ v = w /\ skipped'[v] = skipped[v]
           /\ events'[v] = Append(events[v], Event(v))
LEMMA HonestEvent ==
    ASSUME TypeOK, TypeOK', Honest, NEW w, NEW how, EventStep(w, how), UNCHANGED stmts,
           Memories(w, how)
    PROVE  Honest'
<1> SUFFICES ASSUME ~blind' PROVE LogOK' /\ MemoryOK' /\ StatementsOK'
  BY DEF Honest
<1>1. /\ LogOK' /\ Grows(B, B') /\ (EndsTorn(log, Torn) => EndsTorn(log', Torn))
      /\ how = "whole" => B' = Append(events[w], Event(w)) /\ Grows(B, events[w])
  BY EventWritten
<1>2. MemoryOK /\ StatementsOK
  BY DEF EventStep, Honest
<1>3. /\ B \in Seq(EventLines) /\ Len(B) \in Nat /\ K \in Seq(Statements) /\ Len(K) \in Nat
      /\ \A v \in Processes : Len(events[v]) \in Nat
  BY BodiesTyped DEF TypeOK
<1>4. Len(B') \in Nat
  <2>1. (TypeOK => Len(B) \in Nat)'
    BY BodyLength, PTL
  <2> QED BY <2>1
<1>5. ASSUME NEW v \in Processes PROVE Grows(events'[v], B') /\ (skipped'[v] => EndsTorn(log', Torn))
  <2>1. CASE events'[v] = events[v] /\ skipped'[v] = skipped[v]
    BY <1>1, <1>2, <1>3, <1>4, <2>1, HeldStays DEF MemoryOK
  <2>2. CASE events'[v] = <<>> /\ skipped'[v] = FALSE
    BY <1>4, <2>2 DEF Grows
  <2>3. CASE how = "whole" /\ v = w /\ skipped'[v] = skipped[v] /\ events'[v] = Append(events[v], Event(v))
    BY <1>1, <1>2, <1>4, <2>3 DEF Grows, MemoryOK
  <2> QED BY <2>1, <2>2, <2>3 DEF Memories
<1>6. StatementsOK'
  <2>1. K' = K /\ Tidy(stmts', TornStatement)
    BY <1>2 DEF K, StatementsOK
  <2>2. \A i \in 1..Len(K) : Attests(K, i, B')
    BY <1>1, <1>2, <1>3, <1>4, AttestsStays DEF StatementsOK
  <2> QED BY <2>1, <2>2 DEF StatementsOK
<1> QED BY <1>1, <1>5, <1>6 DEF MemoryOK

\* It survives a step that leaves the log alone and writes no event.
LEMMA HonestRest ==
    ASSUME TypeOK, Honest, blind => blind', UNCHANGED log, ~blind' => StatementsOK',
           \A v \in Processes :
              \/ events'[v] = events[v] /\ skipped'[v] = skipped[v]
              \/ events'[v] = <<>> /\ skipped'[v] = FALSE
              \/ events'[v] = Readable /\ skipped'[v] = (Unreadable # {})
    PROVE  Honest'
<1> SUFFICES ASSUME ~blind' PROVE LogOK' /\ MemoryOK'
  BY DEF Honest
<1>1. LogOK /\ MemoryOK /\ B' = B
  BY DEF Honest, B
<1>2. B \in Seq(EventLines) /\ Len(B) \in Nat /\ Readable = B
  BY <1>1, BodiesTyped DEF LogOK
<1>3. ASSUME Unreadable # {} PROVE EndsTorn(log, Torn)
  <2>1. BodyFacts(EventLines, log, Torn)
    BY BodyOf DEF TypeOK
  <2>2. PICK i \in 1..Len(log.lines) : log.lines[i] = Torn
    BY <1>3 DEF Unreadable
  <2> QED BY <1>1, <2>1, <2>2 DEF LogOK, BodyFacts
<1>4. LogOK'
  BY <1>1 DEF LogOK
<1>5. ASSUME NEW v \in Processes PROVE Grows(events'[v], B') /\ (skipped'[v] => EndsTorn(log', Torn))
  <2>1. CASE events'[v] = events[v] /\ skipped'[v] = skipped[v]
    BY <1>1, <2>1 DEF MemoryOK
  <2>2. CASE events'[v] = <<>> /\ skipped'[v] = FALSE
    BY <1>1, <1>2, <2>2 DEF Grows
  <2>3. CASE events'[v] = Readable /\ skipped'[v] = (Unreadable # {})
    <3>1. events'[v] = B /\ B' = B /\ Len(B) \in Nat
      BY <1>1, <1>2, <2>3
    <3>2. Grows(events'[v], B')
      BY <3>1 DEF Grows
    <3>3. skipped'[v] => EndsTorn(log', Torn)
      BY <1>3, <2>3
    <3> QED BY <3>2, <3>3
  <2> QED BY <2>1, <2>2, <2>3
<1> QED BY <1>4, <1>5 DEF MemoryOK

LEMMA InitHonest == Init => Honest
<1> SUFFICES ASSUME Init PROVE Honest
  OBVIOUS
<1>1. /\ log.lines = <<>> /\ ~EndsTorn(log, Torn) /\ ~Holed(log, Torn)
      /\ stmts.lines = <<>> /\ ~EndsTorn(stmts, TornStatement) /\ ~Holed(stmts, TornStatement)
  BY DEF Init, Empty, EndsTorn, Holed
<1>2. B = <<>> /\ K = <<>> /\ Tidy(log, Torn) /\ Tidy(stmts, TornStatement)
  BY <1>1 DEF B, K, Body, Tidy
<1>3. \A w \in Processes : events[w] = <<>> /\ ~skipped[w]
  BY DEF Init
<1> QED BY <1>2, <1>3 DEF Honest, LogOK, MemoryOK, StatementsOK, Grows

\* No step falsifies the invariant.
LEMMA NextHonest == TypeOK /\ Mends /\ Honest /\ [Next]_vars => Honest'
<1> SUFFICES ASSUME TypeOK, Mends, Honest, [Next]_vars PROVE Honest'
  OBVIOUS
<1> USE LogAssumption
<1>0. TypeOK' /\ "whole" \in Outcomes
  BY NextType DEF Outcomes
<1>s. ASSUME UNCHANGED <<log, stmts>>, blind => blind' PROVE ~blind' => StatementsOK'
  BY <1>s DEF Honest, StatementsOK, B, K
<1>1. ASSUME NEW w \in Processes, Open(w) PROVE Honest'
  <2>1. \A v \in Processes :
           \/ events'[v] = events[v] /\ skipped'[v] = skipped[v]
           \/ events'[v] = Readable /\ skipped'[v] = (Unreadable # {})
    BY <1>1 DEF Open, TypeOK
  <2> QED BY <1>1, <1>s, <2>1, HonestRest DEF Open, history
<1>2. ASSUME NEW w \in Processes, Close(w) PROVE Honest'
  <2>1. \A v \in Processes :
           \/ events'[v] = events[v] /\ skipped'[v] = skipped[v]
           \/ events'[v] = <<>> /\ skipped'[v] = FALSE
    BY <1>2 DEF Close, Forget, TypeOK
  <2> QED BY <1>2, <1>s, <2>1, HonestRest DEF Close, history
<1>3. ASSUME NEW w \in Processes, WriteEvent(w) PROVE Honest'
  <2>1. EventStep(w, "whole") /\ UNCHANGED stmts
    BY <1>0, <1>3 DEF WriteEvent, Notes, EventStep
  <2>2. Memories(w, "whole")
    BY <1>3 DEF WriteEvent, TypeOK, Memories
  <2> QED BY <1>0, <2>1, <2>2, HonestEvent
<1>4. ASSUME NEW w \in Processes, Checkpoint(w) PROVE Honest'
  BY <1>4, <1>s, HonestRest DEF Checkpoint, history
<1>5. ASSUME NEW w \in Processes, OpenSigner(w) \/ ReadAgain(w) PROVE Honest'
  <2>1. UNCHANGED <<log, stmts, events, skipped, blind>>
    BY <1>5 DEF OpenSigner, ReadAgain, history
  <2> QED BY <1>s, <2>1, HonestRest
<1>e. ASSUME NEW w \in Processes, Rewrite(w) PROVE Honest'
  <2>1. UNCHANGED <<log, events, skipped>> /\ (blind => blind')
    BY <1>e DEF Rewrite, Notes
  <2>2. ~blind' => StatementsOK'
    BY <1>e, Rewritten
  <2> QED BY <2>1, <2>2, HonestRest
<1>6. ASSUME NEW w \in Processes, Sign(w) PROVE Honest'
  <2>1. StatementStep(w, "whole") /\ UNCHANGED <<events, skipped, log>> /\ (blind => blind')
    BY <1>0, <1>6 DEF Sign, Notes, StatementStep
  <2> QED BY <2>1, StatementWritten, HonestRest
<1>7. ASSUME NEW w \in Processes, NEW how \in Outcomes, NEW spoils,
             LeaveEvent(w, how, spoils) \/ LeaveStatement(w, how, spoils) \/ LeaveNothing(w),
             \A v \in Processes :
                \/ events'[v] = events[v] /\ skipped'[v] = skipped[v]
                \/ events'[v] = <<>> /\ skipped'[v] = FALSE
      PROVE  Honest'
  <2>1. CASE LeaveEvent(w, how, spoils)
    <3>1. EventStep(w, how) /\ UNCHANGED stmts
      BY <2>1 DEF LeaveEvent, Notes, EventStep
    <3>2. Memories(w, how)
      BY <1>7 DEF Memories
    <3> QED BY <1>0, <3>1, <3>2, HonestEvent
  <2>2. CASE LeaveStatement(w, how, spoils)
    <3>1. StatementStep(w, how) /\ UNCHANGED log /\ (blind => blind')
      BY <2>2 DEF LeaveStatement, Notes, StatementStep
    <3> QED BY <1>7, <3>1, StatementWritten, HonestRest
  <2>3. CASE LeaveNothing(w)
    BY <1>7, <1>s, <2>3, HonestRest DEF LeaveNothing, history
  <2> QED BY <1>7, <2>1, <2>2, <2>3
<1>8. ASSUME NEW w \in Processes, FailWrite(w) PROVE Honest'
  <2>1. PICK how \in Outcomes, spoils \in SUBSET Outcomes :
           LeaveEvent(w, how, spoils) \/ LeaveStatement(w, how, spoils) \/ LeaveNothing(w)
    BY <1>0, <1>8 DEF FailWrite, Outcomes
  <2>2. UNCHANGED <<events, skipped>>
    BY <1>8 DEF FailWrite
  <2> QED BY <1>7, <2>1, <2>2
<1>9. ASSUME NEW w \in Processes, Crash(w) PROVE Honest'
  <2>1. PICK how \in Outcomes, spoils \in SUBSET Outcomes :
           LeaveEvent(w, how, spoils) \/ LeaveStatement(w, how, spoils) \/ LeaveNothing(w)
    BY <1>0, <1>9 DEF Crash, Outcomes
  <2>2. \A v \in Processes :
           \/ events'[v] = events[v] /\ skipped'[v] = skipped[v]
           \/ events'[v] = <<>> /\ skipped'[v] = FALSE
    BY <1>9 DEF Crash, Forget, TypeOK
  <2> QED BY <1>7, <2>1, <2>2
<1>10. CASE UNCHANGED vars
  BY <1>10, <1>s, HonestRest DEF vars, memory, history
<1> QED BY <1>1, <1>2, <1>3, <1>4, <1>5, <1>e, <1>6, <1>8, <1>9, <1>10 DEF Next, Rest

\* The first of the statements that cover an event does.
LEMMA CoveringCovers ==
    ASSUME NEW i, Covers(i) # {}, ReadStatements(stmts) = K, Len(K) \in Nat
    PROVE  \E k \in Links(K) : Covering(i) = K[k] /\ Len(K[k].root) > i
<1>1. Covers(i) \subseteq Nat /\ Covers(i) \subseteq Links(K)
      /\ \A k \in Covers(i) : Len(K[k].root) > i
  BY DEF Covers, Links
<1>2. \E k \in Covers(i) : \A j \in Covers(i) : k <= j
  BY <1>1, Least
<1> DEFINE c == CHOOSE k \in Covers(i) : \A j \in Covers(i) : k <= j
<1>3. c \in Covers(i)
  BY <1>2
<1>4. Covering(i) = K[c]
  BY DEF Covering
<1> QED BY <1>1, <1>3, <1>4

\* The leaves of the statement before are those of some earlier statement.
LEMMA LeavesBeforeIs ==
    ASSUME NEW s, NEW i \in Nat, Len(s) \in Nat, Links(s) = 1..Len(s), i - 1 <= Len(s)
    PROVE  \/ LeavesBefore(s, i) = 0
           \/ \E j \in 1..(i - 1) : LeavesBefore(s, i) = Len(s[j].root)
<1> DEFINE earlier == {j \in Links(s) : j < i}
<1>1. CASE earlier = {}
  BY <1>1 DEF LeavesBefore
<1>2. CASE earlier # {}
  <2>1. i - 1 \in earlier /\ \A k \in earlier : k <= i - 1
    BY <1>2
  <2> DEFINE c == CHOOSE j \in earlier : \A k \in earlier : k <= j
  <2>2. c \in earlier
    BY <2>1
  <2>3. c \in 1..(i - 1)
    BY <2>2
  <2>4. LeavesBefore(s, i) = Len(s[c].root)
    BY <1>2 DEF LeavesBefore
  <2> QED BY <2>3, <2>4
<1> QED BY <1>1, <1>2

\* The root of a statement is that of as many events of a memory.
LEMMA RootHeld ==
    ASSUME NEW k, NEW i, Attests(k, i, B), k[i].root \in Seq(0..MaxEvents), Len(B) \in Nat,
           NEW e \in Seq(EventLines), Grows(e, B), Len(k[i].root) <= Len(e)
    PROVE  k[i].root = Root(SubSeq(e, 1, Len(k[i].root)))
<1> DEFINE n == Len(k[i].root)
<1>1. n \in Nat /\ Len(e) \in Nat /\ \A j \in 1..n : k[i].root[j] = B[j].n
  BY DEF Attests
<1>2. \A j \in 1..n : k[i].root[j] = e[j].n
  BY <1>1 DEF Grows
<1>3. SubSeq(e, 1, n) = [j \in 1..n |-> e[j]] /\ Len(SubSeq(e, 1, n)) = n
  BY <1>1
<1>4. Root(SubSeq(e, 1, n)) = [j \in 1..n |-> e[j].n]
  BY <1>3 DEF Root
<1>5. k[i].root = [j \in 1..n |-> k[i].root[j]]
  OBVIOUS
<1> QED BY <1>2, <1>4, <1>5

LEMMA HonestVerifies == TypeOK /\ Honest => HonestLogVerifies
<1> SUFFICES ASSUME TypeOK, Honest, ~blind, Unreadable = {},
                    NEW w \in Processes, pc[w] # "down", NEW f \in Findings(w)
             PROVE  f = "log_truncated" /\ events[w] # Readable
  BY DEF HonestLogVerifies
<1> DEFINE E == events[w]
<1>1. /\ LogOK /\ StatementsOK /\ Grows(E, B) /\ (skipped[w] => EndsTorn(log, Torn))
  BY DEF Honest, MemoryOK
<1>2. /\ B \in Seq(EventLines) /\ Len(B) \in Nat /\ K \in Seq(Statements) /\ Len(K) \in Nat
      /\ Readable = B /\ ReadStatements(stmts) = K
  BY <1>1, BodiesTyped DEF LogOK
<1>3. ~skipped[w]
  <2>1. Len(log.lines) \in Nat /\ (log.lines # <<>> => Len(log.lines) # 0)
    BY DEF TypeOK, Lines
  <2> QED BY <1>1, <2>1 DEF EndsTorn, Unreadable
<1>4. Links(K) = 1..Len(K)
  <2>1. BodyFacts(Statements, stmts, TornStatement)
    BY BodyOf DEF TypeOK
  <2>2. \A i \in 1..Len(K) : K[i] = stmts.lines[i] /\ stmts.lines[i] # TornStatement
    BY <1>1, <2>1 DEF BodyFacts, StatementsOK, K
  <2> HIDE DEF K
  <2> QED BY <2>2 DEF Links
<1>5. E \in Seq(EventLines) /\ Len(E) \in Nat
  BY DEF TypeOK
<1>6. \A i \in 1..Len(K) : Attests(K, i, B) /\ K[i].root \in Seq(0..MaxEvents) /\ Len(K[i].root) \in Nat
  <2> SUFFICES ASSUME NEW i \in 1..Len(K) PROVE K[i].root \in Seq(0..MaxEvents)
    BY <1>1 DEF StatementsOK
  <2>1. K[i] \in Statements
    BY <1>2
  <2> QED BY <2>1 DEF Statements
<1> HIDE DEF K, E
<1>7. f # "bad_format"
  BY <1>2, <1>3, <1>4 DEF Findings
<1>8. f # "chain_broken"
  <2> SUFFICES ASSUME f = "chain_broken" PROVE FALSE
    OBVIOUS
  <2>1. PICK i \in Links(K) : K[i].seq # i - 1 \/ K[i].prev # HashBefore(K, i)
    BY <1>2 DEF Findings
  <2>2. i \in 1..Len(K) /\ (i # 1 => i - 1 \in 1..Len(K))
    BY <1>2, <1>4
  <2>3. HashBefore(K, i) = IF i = 1 THEN 0 ELSE K[i - 1].id
    BY <1>4, <2>2 DEF HashBefore, Links
  <2> QED BY <1>6, <2>1, <2>2, <2>3 DEF Attests
<1>9. f # "leaf_count_regressed"
  <2> SUFFICES ASSUME f = "leaf_count_regressed" PROVE FALSE
    OBVIOUS
  <2>1. PICK i \in Links(K) : Len(K[i].root) < LeavesBefore(K, i)
    BY <1>2 DEF Findings
  <2>2. i \in 1..Len(K) /\ i \in Nat /\ i - 1 <= Len(K)
    BY <1>2, <1>4
  <2>3. \/ LeavesBefore(K, i) = 0
        \/ \E j \in 1..(i - 1) : LeavesBefore(K, i) = Len(K[j].root)
    BY <1>2, <1>4, <2>2, LeavesBeforeIs
  <2>4. \A j \in 1..(i - 1) : Len(K[j].root) <= Len(K[i].root) /\ Len(K[j].root) \in Nat
    BY <1>2, <1>6, <2>2 DEF Attests
  <2> QED BY <1>6, <2>1, <2>2, <2>3, <2>4
<1>10. f # "root_mismatch"
  <2> SUFFICES ASSUME f = "root_mismatch" PROVE FALSE
    OBVIOUS
  <2>1. PICK i \in Links(K) : /\ Len(K[i].root) <= Len(E)
                             /\ K[i].root # Root(SubSeq(E, 1, Len(K[i].root)))
    BY <1>2 DEF Findings, E
  <2>2. i \in 1..Len(K)
    BY <1>4, <2>1
  <2> QED BY <1>1, <1>2, <1>5, <1>6, <2>1, <2>2, RootHeld DEF E
<1>11. ASSUME f = "log_truncated" PROVE E # Readable
  <2>1. PICK i \in Links(K) : Len(K[i].root) > Len(E)
    BY <1>2, <1>11 DEF Findings, E
  <2>2. Len(K[i].root) <= Len(B) /\ Len(K[i].root) \in Nat
    BY <1>4, <1>6, <2>1 DEF Attests
  <2> QED BY <1>2, <1>5, <2>1, <2>2
<1>12. f \in {"bad_format", "chain_broken", "leaf_count_regressed", "log_truncated", "root_mismatch"}
  BY DEF Findings
<1> QED BY <1>7, <1>8, <1>9, <1>10, <1>11, <1>12 DEF E

LEMMA HonestReceipts == TypeOK /\ Honest => ReceiptsCheck
<1> SUFFICES ASSUME TypeOK, Honest, ~blind, NEW w \in Processes,
                    NEW i \in 0..(Len(events[w]) - 1), Covers(i) # {}, Holds(w, Covering(i))
             PROVE  ReceiptChecks(w, i)
  BY DEF ReceiptsCheck
<1>1. LogOK /\ StatementsOK /\ Grows(events[w], B)
  BY DEF Honest, MemoryOK
<1>2. /\ B \in Seq(EventLines) /\ Len(B) \in Nat /\ K \in Seq(Statements) /\ Len(K) \in Nat
      /\ ReadStatements(stmts) = K /\ Len(events[w]) \in Nat
  BY BodiesTyped DEF TypeOK
<1>3. PICK k \in Links(K) : Covering(i) = K[k] /\ Len(K[k].root) > i
  BY <1>2, CoveringCovers
<1>4. k \in 1..Len(K) /\ Attests(K, k, B)
  BY <1>1, <1>3 DEF Links, StatementsOK
<1>5. events[w][i + 1] = B[i + 1] /\ i + 1 \in 1..Len(B) /\ B[i + 1].idx = i
  BY <1>1, <1>2 DEF Grows, LogOK
<1>6. K[k].root = Root(SubSeq(events[w], 1, Len(K[k].root)))
  <2>1. K[k] \in Statements /\ events[w] \in Seq(EventLines)
    BY <1>2, <1>4 DEF TypeOK
  <2>2. K[k].root \in Seq(0..MaxEvents) /\ Len(K[k].root) <= Len(events[w])
    BY <1>3, <2>1 DEF Statements, Holds
  <2> QED BY <1>1, <1>2, <1>4, <2>1, <2>2, RootHeld
<1> QED BY <1>3, <1>5, <1>6 DEF ReceiptChecks

LEMMA HonestInvariant == Spec => [](TypeOK /\ Mends /\ Honest)
<1>1. Init => TypeOK /\ Mends /\ Honest
  <2>1. Init => Mends
    BY DEF Init, Mends
  <2> QED BY <2>1, InitType, InitHonest
<1>2. (TypeOK /\ Mends /\ Honest) /\ [Next]_vars => (TypeOK /\ Mends /\ Honest)'
  BY NextType, NextMends, NextHonest
<1> QED BY <1>1, <1>2, PTL DEF Spec

\* A log that nobody wrote onto blindly is never found invalid (HonestLogVerifies).
THEOREM HonestLogsVerify == Spec => []HonestLogVerifies
BY HonestInvariant, HonestVerifies, PTL

\* Nor is a receipt of it that somebody bundles who holds every event its
\* statement signs (ReceiptsCheck).
THEOREM ReceiptsAlwaysCheck == Spec => []ReceiptsCheck
BY HonestInvariant, HonestReceipts, PTL
-----------------------------------------------------------------------------
(* Anchors.                                                                *)

LEMMA GrowsIsPrefix ==
    ASSUME NEW S, NEW b \in Seq(S), NEW c \in Seq(S), Grows(b, c)
    PROVE  IsPrefix(b, c)
<1>1. Len(b) \in Nat /\ Len(c) \in Nat /\ Len(b) <= Len(c)
  BY DEF Grows
<1>2. SubSeq(b, 1, Len(b)) = [i \in 1..Len(b) |-> b[i]]
  BY <1>1
<1>3. SubSeq(c, 1, Len(b)) = [i \in 1..Len(b) |-> c[i]]
  BY <1>1
<1> QED BY <1>1, <1>2, <1>3 DEF IsPrefix, Grows

\* Every write that is not blind leaves what the files said before in place.
Extends == Grows(B, B') /\ Grows(K, K')
LEMMA SameGrows ==
    ASSUME NEW b, Len(b) \in Nat
    PROVE  Grows(b, b)
BY DEF Grows

LEMMA NextExtends ==
    ASSUME TypeOK, Mends, Honest, [Next]_vars, ~blind'
    PROVE  Extends
<1> USE LogAssumption
<1>0. /\ "whole" \in Outcomes /\ Grows(B, B) /\ Grows(K, K)
  <2>1. Len(B) \in Nat /\ Len(K) \in Nat
    BY BodiesTyped
  <2> QED BY <2>1, SameGrows DEF Outcomes
<1>1. ASSUME UNCHANGED <<log, stmts>> PROVE Extends
  <2>1. B' = B /\ K' = K
    BY <1>1 DEF B, K
  <2> QED BY <1>0, <2>1 DEF Extends
<1>2. ASSUME NEW w, NEW how, EventStep(w, how), UNCHANGED stmts PROVE Extends
  <2>1. K' = K
    BY <1>2 DEF K
  <2>2. Grows(B, B')
    BY <1>2, EventWritten
  <2> QED BY <1>0, <2>1, <2>2 DEF Extends
<1>3. ASSUME NEW w, NEW how, StatementStep(w, how) PROVE Extends
  <2>1. B' = B
    BY <1>3 DEF B, StatementStep
  <2>2. Grows(K, K')
    BY <1>3, StatementWritten
  <2> QED BY <1>0, <2>1, <2>2 DEF Extends
<1>4. ASSUME NEW w \in Processes, WriteEvent(w) PROVE Extends
  <2>1. EventStep(w, "whole") /\ UNCHANGED stmts
    BY <1>0, <1>4 DEF WriteEvent, Notes, EventStep
  <2> QED BY <1>2, <2>1
<1>5. ASSUME NEW w \in Processes, Sign(w) PROVE Extends
  <2>1. StatementStep(w, "whole")
    BY <1>0, <1>5 DEF Sign, Notes, StatementStep
  <2> QED BY <1>3, <2>1
<1>6. ASSUME NEW w \in Processes, Rewrite(w) PROVE Extends
  <2>1. B' = B /\ K' = K
    BY <1>6, Rewritten
  <2> QED BY <1>0, <2>1 DEF Extends
<1>7. ASSUME NEW w \in Processes, NEW how \in Outcomes, NEW spoils,
             LeaveEvent(w, how, spoils) \/ LeaveStatement(w, how, spoils) \/ LeaveNothing(w)
      PROVE  Extends
  <2>1. CASE LeaveEvent(w, how, spoils)
    <3>1. EventStep(w, how) /\ UNCHANGED stmts
      BY <2>1 DEF LeaveEvent, Notes, EventStep
    <3> QED BY <1>2, <3>1
  <2>2. CASE LeaveStatement(w, how, spoils)
    <3>1. StatementStep(w, how)
      BY <2>2 DEF LeaveStatement, Notes, StatementStep
    <3> QED BY <1>3, <3>1
  <2>3. CASE LeaveNothing(w)
    BY <1>1, <2>3 DEF LeaveNothing
  <2> QED BY <1>7, <2>1, <2>2, <2>3
<1>8. ASSUME NEW w \in Processes, FailWrite(w) \/ Crash(w) PROVE Extends
  <2>1. PICK how \in Outcomes, spoils \in SUBSET Outcomes :
           LeaveEvent(w, how, spoils) \/ LeaveStatement(w, how, spoils) \/ LeaveNothing(w)
    BY <1>0, <1>8 DEF FailWrite, Crash, Outcomes
  <2> QED BY <1>7, <2>1
<1>9. ASSUME NEW w \in Processes,
             Open(w) \/ Close(w) \/ Checkpoint(w) \/ OpenSigner(w) \/ ReadAgain(w)
      PROVE  Extends
  BY <1>1, <1>9 DEF Open, Close, Checkpoint, OpenSigner, ReadAgain
<1>10. CASE UNCHANGED vars
  BY <1>1, <1>10 DEF vars
<1> QED BY <1>4, <1>5, <1>6, <1>8, <1>9, <1>10 DEF Next, Rest

LEMMA BodiesRead ==
    TypeOK /\ Tidy(log, Torn) =>
        /\ B \in Seq(EventLines) /\ K \in Seq(Statements)
        /\ Readable = B /\ ReadStatements(stmts) = K
BY BodiesTyped

LEMMA NextAnchors ==
    TypeOK /\ Mends /\ Honest /\ [Next]_vars =>
        [~blind' => /\ IsPrefix(Readable, Readable')
                    /\ IsPrefix(ReadStatements(stmts), ReadStatements(stmts)')]_<<log, stmts>>
<1> SUFFICES ASSUME TypeOK, Mends, Honest, [Next]_vars, ~blind'
             PROVE  /\ IsPrefix(Readable, Readable')
                    /\ IsPrefix(ReadStatements(stmts), ReadStatements(stmts)')
  OBVIOUS
<1>1. Extends
  BY NextExtends
<1>2. TypeOK' /\ Honest'
  BY NextType, NextHonest
<1>3. ~blind
  <2>1. ASSUME NEW w, NEW how, NEW informed, NEW spoils, Notes(w, how, informed, spoils) PROVE ~blind
    BY <2>1 DEF Notes
  <2> QED BY <2>1 DEF Next, Rest, vars, history, Open, Close, WriteEvent, Checkpoint, OpenSigner, ReadAgain, Rewrite, Sign,
                      FailWrite, Crash, LeaveEvent, LeaveStatement, LeaveNothing
<1>4. Tidy(log, Torn) /\ Tidy(log, Torn)'
  BY <1>2, <1>3 DEF Honest, LogOK
<1>5. /\ B \in Seq(EventLines) /\ K \in Seq(Statements)
      /\ Readable = B /\ ReadStatements(stmts) = K
  BY <1>4, BodiesTyped
<1>6. (TypeOK /\ Tidy(log, Torn) =>
           /\ B \in Seq(EventLines) /\ K \in Seq(Statements)
           /\ Readable = B /\ ReadStatements(stmts) = K)'
  BY BodiesRead, PTL
<1>7. /\ B' \in Seq(EventLines) /\ K' \in Seq(Statements)
      /\ Readable' = B' /\ ReadStatements(stmts)' = K'
  <2>1. EventLines' = EventLines /\ Statements' = Statements
    BY DEF EventLines, Statements
  <2> QED BY <1>2, <1>4, <1>6, <2>1
<1>8. IsPrefix(B, B') /\ IsPrefix(K, K')
  BY <1>1, <1>5, <1>7, GrowsIsPrefix DEF Extends
<1> QED BY <1>5, <1>7, <1>8

\* Anchors stand: as long as nobody wrote blindly, no write, failure, crash or
\* clean-up takes back an event or a statement that could be read.
THEOREM AnchorsAlwaysStand == Spec => AnchorsStand
BY HonestInvariant, NextAnchors, PTL DEF Spec, AnchorsStand

-----------------------------------------------------------------------------
(* Who writes alone.                                                       *)

\* As long as nothing was left behind and nobody wrote beside another: the log
\* ends with its newline, a torn statement is one without its newline, and
\* every process knows the log, and the statements once it signs or mends them.
SignerKnows(w) ==
    /\ pc[w] # "down" /\ ~stmts.open
    /\ signer[w].seq = Len(stmts.lines) /\ signer[w].prev = LastHash(stmts.lines)
MenderKnows(w) ==
    /\ stmts = mending[w].seen
    /\ signer[w].seq = Len(ReadStatements(stmts)) /\ signer[w].prev = LastHash(ReadStatements(stmts))
    /\ pc[w] = "rewrite" => mending[w].kept = Kept(stmts)
Busy == {"reread", "rewrite"}
Knows(w) == IF pc[w] \in Busy THEN MenderKnows(w) ELSE SignerKnows(w)
FilesKept == ~log.open /\ (stmts.open <=> EndsTorn(stmts, TornStatement))
MemoryKept ==
    \A w \in Processes :
        /\ pc[w] # "down" => events[w] = Readable
        /\ signer[w].on => Knows(w)
Known == ~spoiled /\ ~shared => ~blind /\ FilesKept /\ MemoryKept

LEMMA InitKnown == Init => Known
BY DEF Init, Known, FilesKept, MemoryKept, Empty, EndsTorn, NoSigner

\* The log is read back as it was, unless it is written.
LEMMA ReadableStays == UNCHANGED log => Readable' = Readable
BY DEF Readable, Legible, Unreadable, Nth

\* A line at the end of a file that ends with its newline.
LEMMA PutAtEnd ==
    ASSUME NEW S, NEW f \in Lines(S), NEW line \in S, NEW torn \in S, ~f.open, NEW how \in {"fragment", "whole"}
    PROVE  LET g == Put(f, line, torn, how)
               last == IF how = "fragment" THEN torn ELSE line
           IN /\ g.lines # <<>> /\ Len(g.lines) = Len(f.lines) + 1
              /\ g.lines[Len(g.lines)] = last /\ g.open = (how = "fragment")
<1>1. f.lines \in Seq(S) /\ Len(f.lines) \in Nat
  BY DEF Lines
<1>2. Put(f, line, torn, how) =
        [lines |-> Append(f.lines, IF how = "fragment" THEN torn ELSE line), open |-> how # "whole"]
  BY DEF Put
<1> QED BY <1>1, <1>2

\* What a process knows, it knows after an event it wrote as well.
LEMMA KnownEvent ==
    ASSUME TypeOK, TypeOK', Honest, Known, ~spoiled, ~shared, NEW w, NEW how \in {"lost", "whole"},
           EventStep(w, how), pc[w] # "down", UNCHANGED stmts
    PROVE  /\ ~blind' /\ FilesKept'
           /\ how = "whole" => Readable' = Append(events[w], Event(w))
           /\ how = "lost" => Readable' = Readable
<1>1. ~blind /\ FilesKept /\ MemoryKept /\ w \in Processes
  BY DEF Known, EventStep
<1>2. Informed(w)
  BY <1>1 DEF Informed, FilesKept, MemoryKept
<1>3. ~blind'
  BY <1>1, <1>2 DEF EventStep
<1>4. LogOK' /\ (how = "whole" => B' = Append(events[w], Event(w)))
  BY <1>3, EventWritten
<1>5. (how = "lost" => log' = log) /\ ~log'.open
  BY <1>1 DEF EventStep, Put, FilesKept
<1>6. FilesKept'
  BY <1>1, <1>5 DEF FilesKept
<1>7. CASE how = "lost"
  BY <1>3, <1>5, <1>6, <1>7, ReadableStays
<1>8. CASE how = "whole"
  <2>1. (TypeOK /\ Tidy(log, Torn) =>
           /\ B \in Seq(EventLines) /\ K \in Seq(Statements)
           /\ Readable = B /\ ReadStatements(stmts) = K)'
    BY BodiesRead, PTL
  <2>2. Readable' = B'
    BY <1>4, <2>1 DEF LogOK
  <2> QED BY <1>3, <1>4, <1>6, <1>8, <2>2
<1> QED BY <1>7, <1>8

\* And after a statement, or a part of one.
LEMMA KnownStatement ==
    ASSUME TypeOK, Honest, Known, ~spoiled, ~shared, NEW w, NEW how \in {"lost", "fragment", "whole"},
           StatementStep(w, how), signer[w].on, pc[w] = "sign"
    PROVE  /\ ~blind' /\ FilesKept' /\ Readable' = Readable
           /\ how = "lost" => stmts' = stmts
           /\ how = "whole" => /\ ~stmts'.open /\ Len(stmts'.lines) = signer[w].seq + 1
                              /\ LastHash(stmts'.lines) = made + 1
<1>1. ~blind /\ FilesKept /\ MemoryKept /\ SignerKnows(w) /\ w \in Processes
  BY DEF Known, MemoryKept, Knows, Busy, StatementStep
<1>2. InformedSigner(w)
  BY <1>1 DEF InformedSigner, Informed, FilesKept, MemoryKept, SignerKnows
<1>3. ~blind' /\ log' = log /\ Readable' = Readable
  BY <1>1, <1>2, ReadableStays DEF StatementStep
<1>4. CASE how = "lost"
  <2>1. stmts' = stmts
    BY <1>4 DEF StatementStep, Put
  <2> QED BY <1>1, <1>3, <1>4, <2>1 DEF FilesKept
<1>5. CASE how # "lost"
  <2>1. /\ stmts \in Lines(Statements) /\ Statement(w) \in Statements
        /\ TornStatement \in Statements /\ Statement(w) # TornStatement
    BY <1>1, LinesTyped DEF TypeOK
  <2>2. /\ stmts'.lines # <<>> /\ Len(stmts'.lines) = Len(stmts.lines) + 1
        /\ stmts'.lines[Len(stmts'.lines)] = IF how = "fragment" THEN TornStatement ELSE Statement(w)
        /\ stmts'.open = (how = "fragment")
    BY <1>1, <1>5, <2>1, PutAtEnd DEF StatementStep, SignerKnows
  <2>3. FilesKept'
    BY <1>1, <1>3, <2>1, <2>2 DEF FilesKept, EndsTorn
  <2>4. Statement(w).id = made + 1
    BY DEF Statement
  <2> QED BY <1>1, <1>3, <1>5, <2>2, <2>3, <2>4 DEF SignerKnows, LastHash, Last
<1> QED BY <1>4, <1>5

LEMMA NextKnown == TypeOK /\ Mends /\ Honest /\ Known /\ [Next]_vars => Known'
<1> SUFFICES ASSUME TypeOK, Mends, Honest, Known, [Next]_vars, ~spoiled', ~shared'
             PROVE  ~blind' /\ FilesKept' /\ MemoryKept'
  BY DEF Known
<1> USE LogAssumption
<1>0. TypeOK' /\ "whole" \in Outcomes
  BY NextType DEF Outcomes
<1>1. ~spoiled /\ ~shared
  <2>1. ASSUME NEW w, NEW how, NEW informed, NEW spoils, Notes(w, how, informed, spoils) PROVE ~spoiled /\ ~shared
    BY <2>1 DEF Notes
  <2> QED BY <2>1 DEF Next, Rest, vars, history, Open, Close, WriteEvent, Checkpoint, OpenSigner, ReadAgain, Rewrite, Sign,
                      FailWrite, Crash, LeaveEvent, LeaveStatement, LeaveNothing
<1>2. ~blind /\ FilesKept /\ MemoryKept
  BY <1>1 DEF Known
<1>3. /\ pc \in [Processes -> {"down", "idle", "sign", "reread", "rewrite"}]
      /\ events \in [Processes -> Seq(EventLines)]
      /\ signer \in [Processes -> [on : BOOLEAN, seq : Nat, prev : Int]]
      /\ mending \in [Processes -> [seen : Lines(Statements), kept : Seq(Statements)]]
  BY DEF TypeOK
<1>k. \A w \in Processes : signer[w].on => Knows(w) /\ pc[w] # "down"
  BY <1>2 DEF MemoryKept, Knows, Busy, SignerKnows
\* What a process does not touch, it knows as before.
<1> DEFINE Same(w) == pc'[w] = pc[w] /\ signer'[w] = signer[w] /\ mending'[w] = mending[w]
<1>4. ASSUME UNCHANGED <<log, stmts>>, ~blind',
             \A w \in Processes :
                \/ pc'[w] = "down" /\ ~signer'[w].on
                \/ events'[w] = events[w] /\ Same(w)
                \/ /\ events'[w] = events[w] /\ pc[w] # "down"
                   /\ ~signer'[w].on \/ (signer'[w] = signer[w] /\ {pc[w], pc'[w]} \subseteq {"idle", "sign"})
                \/ signer'[w] = signer[w] /\ events'[w] = Readable /\ pc[w] = "down"
      PROVE  ~blind' /\ FilesKept' /\ MemoryKept'
  <2>1. Readable' = Readable /\ FilesKept'
    BY <1>2, <1>4, ReadableStays DEF FilesKept
  <2>2. ASSUME NEW w \in Processes
        PROVE  (pc'[w] # "down" => events'[w] = Readable) /\ (signer'[w].on => Knows(w)')
    <3>1. CASE pc'[w] = "down" /\ ~signer'[w].on
      BY <3>1
    <3>2. CASE events'[w] = events[w] /\ Same(w)
      BY <1>2, <1>4, <1>k, <3>2
         DEF MemoryKept, Knows, SignerKnows, MenderKnows, ReadStatements, Busy
    <3>3. CASE /\ events'[w] = events[w] /\ pc[w] # "down"
               /\ ~signer'[w].on \/ (signer'[w] = signer[w] /\ {pc[w], pc'[w]} \subseteq {"idle", "sign"})
      BY <1>2, <1>4, <1>k, <3>3 DEF MemoryKept, Knows, SignerKnows, Busy
    <3>4. CASE signer'[w] = signer[w] /\ events'[w] = Readable /\ pc[w] = "down"
      BY <1>k, <3>4
    <3> QED BY <1>4, <3>1, <3>2, <3>3, <3>4
  <2> QED BY <1>2, <1>4, <2>1, <2>2 DEF MemoryKept
\* The others are down when w wrote: w is what is left to look at.
<1>5. ASSUME NEW w \in Processes, Alone(w), ~blind', FilesKept',
             \A v \in Processes \ {w} : pc'[v] = pc[v] /\ signer'[v] = signer[v],
             \/ pc'[w] = "down" /\ ~signer'[w].on
             \/ events'[w] = Readable' /\ (signer'[w].on => Knows(w)')
      PROVE  MemoryKept'
  <2>1. ASSUME NEW v \in Processes \ {w} PROVE pc'[v] = "down" /\ ~signer'[v].on
    BY <1>5, <1>k, <2>1 DEF Alone
  <2>2. ASSUME NEW v \in Processes
        PROVE  (pc'[v] # "down" => events'[v] = Readable') /\ (signer'[v].on => Knows(v)')
    <3>1. CASE v = w
      BY <1>5, <3>1
    <3>2. CASE v # w
      BY <2>1, <3>2
    <3> QED BY <3>1, <3>2
  <2> QED BY <2>2 DEF MemoryKept
<1>6. ASSUME NEW w \in Processes, Open(w) \/ Close(w) \/ Checkpoint(w) PROVE ~blind' /\ FilesKept' /\ MemoryKept'
  <2>1. CASE Open(w)
    BY <1>2, <1>3, <1>4, <2>1 DEF Open, history
  <2>2. CASE Close(w)
    BY <1>2, <1>3, <1>4, <2>2 DEF Close, Forget, history, NoSigner
  <2>3. CASE Checkpoint(w)
    BY <1>2, <1>3, <1>4, <2>3 DEF Checkpoint, history
  <2> QED BY <1>6, <2>1, <2>2, <2>3
<1>7. ASSUME NEW w \in Processes, WriteEvent(w) PROVE ~blind' /\ FilesKept' /\ MemoryKept'
  <2>1. EventStep(w, "whole") /\ UNCHANGED <<stmts, signer>> /\ pc[w] # "down"
    BY <1>0, <1>7 DEF WriteEvent, Notes, EventStep
  <2>2. ~blind' /\ FilesKept' /\ Readable' = Append(events[w], Event(w))
    BY <1>0, <1>1, <2>1, KnownEvent
  <2>3. Alone(w) /\ \A v \in Processes \ {w} : pc'[v] = pc[v]
    BY <1>3, <1>7 DEF WriteEvent, Notes, NextPc
  <2>4. events'[w] = Append(events[w], Event(w)) /\ pc'[w] # "down"
    BY <1>3, <1>7 DEF WriteEvent, NextPc
  <2>5. signer'[w].on => Knows(w)'
    <3>1. pc[w] = "idle" /\ pc'[w] \in {"idle", "sign"}
      BY <1>3, <1>7 DEF WriteEvent, NextPc
    <3> QED BY <1>k, <2>1, <3>1 DEF Knows, SignerKnows, Busy
  <2> QED BY <1>5, <2>1, <2>2, <2>3, <2>4, <2>5
<1>8. ASSUME NEW w \in Processes, OpenSigner(w) \/ ReadAgain(w) PROVE ~blind' /\ FilesKept' /\ MemoryKept'
  <2>1. UNCHANGED <<log, stmts, events>> /\ ~blind' /\ Readable' = Readable
    BY <1>2, <1>8, ReadableStays DEF OpenSigner, ReadAgain, history
  <2>2. FilesKept' /\ ReadStatements(stmts)' = ReadStatements(stmts)
    BY <1>2, <2>1 DEF FilesKept, ReadStatements
  <2>3. ASSUME NEW v \in Processes \ {w} PROVE Same(v)
    BY <1>3, <1>8 DEF OpenSigner, StartsFrom, MendIf, ReadAgain
  <2>4. pc[w] # "down" /\ (signer'[w].on => Knows(w)')
    <3>1. CASE OpenSigner(w) /\ EndsTorn(stmts, TornStatement)
      <4>1. /\ pc'[w] = "reread" /\ mending'[w].seen = stmts /\ pc[w] = "sign"
            /\ signer'[w].seq = Len(ReadStatements(stmts)) /\ signer'[w].prev = LastHash(ReadStatements(stmts))
        BY <1>3, <3>1 DEF OpenSigner, StartsFrom, MendIf
      <4> QED BY <2>1, <2>2, <4>1 DEF Knows, MenderKnows, Busy
    <3>2. CASE OpenSigner(w) /\ ~EndsTorn(stmts, TornStatement)
      <4>1. /\ pc'[w] = "sign" /\ pc[w] = "sign" /\ ReadStatements(stmts) = stmts.lines
            /\ signer'[w].seq = Len(ReadStatements(stmts)) /\ signer'[w].prev = LastHash(ReadStatements(stmts))
        BY <1>3, <3>2 DEF OpenSigner, StartsFrom, MendIf, ReadStatements
      <4> QED BY <1>2, <2>1, <3>2, <4>1 DEF Knows, SignerKnows, Busy, FilesKept
    <3>3. CASE ReadAgain(w)
      <4>1. /\ pc'[w] = "rewrite" /\ pc[w] = "reread" /\ signer' = signer
            /\ mending'[w].kept = Kept(stmts) /\ mending'[w].seen = mending[w].seen
        BY <1>3, <3>3 DEF ReadAgain
      <4>2. signer[w].on => MenderKnows(w)
        BY <1>k, <4>1 DEF Knows, Busy
      <4> QED BY <2>1, <2>2, <4>1, <4>2 DEF Knows, MenderKnows, Busy
    <3> QED BY <1>8, <3>1, <3>2, <3>3
  <2>5. ASSUME NEW v \in Processes
        PROVE  (pc'[v] # "down" => events'[v] = Readable') /\ (signer'[v].on => Knows(v)')
    <3>1. CASE v = w
      BY <1>2, <2>1, <2>4, <3>1 DEF MemoryKept
    <3>2. CASE v # w
      BY <1>2, <1>k, <2>1, <2>2, <2>3, <3>2 DEF MemoryKept, Knows, SignerKnows, MenderKnows
    <3> QED BY <3>1, <3>2
  <2> QED BY <2>1, <2>2, <2>5 DEF MemoryKept
<1>e. ASSUME NEW w \in Processes, Rewrite(w) PROVE ~blind' /\ FilesKept' /\ MemoryKept'
  <2>1. /\ pc[w] = "rewrite" /\ pc'[w] = "sign" /\ UNCHANGED <<log, events, signer>>
        /\ Alone(w) /\ \A v \in Processes \ {w} : pc'[v] = pc[v] /\ signer'[v] = signer[v]
    BY <1>3, <1>e DEF Rewrite, Notes
  <2>2. MenderKnows(w)
    BY <1>k, <2>1 DEF Mends, Knows, Busy
  <2>3. ~blind'
    BY <1>2, <1>e, <2>1, <2>2 DEF Rewrite, Notes, MenderKnows
  <2>4. /\ stmts'.lines = ReadStatements(stmts) /\ ~stmts'.open /\ ~EndsTorn(stmts', TornStatement)
    BY <1>e, <2>3, Rewritten
  <2>5. FilesKept' /\ Readable' = Readable
    BY <1>2, <2>1, <2>4, ReadableStays DEF FilesKept
  <2>6. events'[w] = Readable' /\ Knows(w)'
    BY <1>2, <2>1, <2>2, <2>4, <2>5 DEF MemoryKept, MenderKnows, SignerKnows, Knows, Busy
  <2> QED BY <1>5, <2>1, <2>3, <2>5, <2>6
<1>9. ASSUME NEW w \in Processes, Sign(w) PROVE ~blind' /\ FilesKept' /\ MemoryKept'
  <2>1. StatementStep(w, "whole") /\ UNCHANGED <<events, log>> /\ signer[w].on /\ pc[w] = "sign"
    BY <1>0, <1>9 DEF Sign, Notes, StatementStep
  <2>2. /\ ~blind' /\ FilesKept' /\ Readable' = Readable
        /\ ~stmts'.open /\ Len(stmts'.lines) = signer[w].seq + 1 /\ LastHash(stmts'.lines) = made + 1
    BY <1>1, <2>1, KnownStatement
  <2>3. Alone(w) /\ \A v \in Processes \ {w} : pc'[v] = pc[v] /\ signer'[v] = signer[v]
    BY <1>3, <1>9 DEF Sign, Notes
  <2>4. pc'[w] = "idle" /\ signer'[w] = [on |-> TRUE, seq |-> signer[w].seq + 1, prev |-> made + 1]
    BY <1>3, <1>9 DEF Sign
  <2>5. events'[w] = Readable' /\ Knows(w)'
    BY <1>2, <2>1, <2>2, <2>4 DEF MemoryKept, SignerKnows, Knows, Busy
  <2> QED BY <1>5, <2>2, <2>3, <2>5
<1>10. ASSUME NEW w \in Processes, FailWrite(w) PROVE ~blind' /\ FilesKept' /\ MemoryKept'
  <2>1. /\ events' = events /\ pc[w] # "down" /\ pc'[w] = "idle"
        /\ ~signer'[w].on \/ (signer'[w] = signer[w] /\ pc[w] \in {"idle", "sign"})
        /\ \A v \in Processes \ {w} : pc'[v] = pc[v] /\ signer'[v] = signer[v] /\ mending'[v] = mending[v]
    BY <1>3, <1>10 DEF FailWrite, GiveUp, NoSigner, LeaveEvent, LeaveStatement, LeaveNothing
  <2>2. UNCHANGED <<log, stmts>> /\ ~blind'
    <3>1. ASSUME NEW how \in Failures, LeaveEvent(w, how, Outcomes \ {"lost"}) PROVE UNCHANGED <<log, stmts>> /\ ~blind'
      <4>1. how = "lost"
        BY <3>1 DEF LeaveEvent, Notes
      <4> QED BY <1>2, <3>1, <4>1 DEF LeaveEvent, Notes, Put
    <3>2. ASSUME NEW how \in Failures, LeaveStatement(w, how, Outcomes \ {"lost"}) PROVE UNCHANGED <<log, stmts>> /\ ~blind'
      <4>1. how = "lost"
        BY <3>2 DEF LeaveStatement, Notes
      <4> QED BY <1>2, <3>2, <4>1 DEF LeaveStatement, Notes, Put
    <3>3. CASE LeaveNothing(w)
      BY <1>2, <3>3 DEF LeaveNothing, history
    <3> QED BY <1>10, <3>1, <3>2, <3>3 DEF FailWrite
  <2> QED BY <1>2, <1>3, <1>4, <2>1, <2>2
<1>11. ASSUME NEW w \in Processes, Crash(w) PROVE ~blind' /\ FilesKept' /\ MemoryKept'
  <2>1. /\ pc' = [pc EXCEPT ![w] = "down"] /\ events' = [events EXCEPT ![w] = <<>>]
        /\ signer' = [signer EXCEPT ![w] = NoSigner] /\ mending' = [mending EXCEPT ![w] = NotMending]
    BY <1>11 DEF Crash, Forget
  <2>2. pc'[w] = "down" /\ ~signer'[w].on
    BY <1>3, <2>1 DEF NoSigner
  <2>3. \A v \in Processes \ {w} : Same(v) /\ events'[v] = events[v]
    BY <1>3, <2>1
  <2>4. ASSUME NEW how \in Tears, LeaveEvent(w, how, {"fragment", "bare"})
        PROVE  ~blind' /\ FilesKept' /\ MemoryKept'
    <3>1. how \in {"lost", "whole"} /\ EventStep(w, how) /\ pc[w] # "down" /\ UNCHANGED stmts
      BY <2>4 DEF LeaveEvent, Notes, EventStep, Outcomes
    <3>2. CASE how = "lost"
      <4>1. UNCHANGED <<log, stmts>> /\ ~blind'
        BY <1>2, <2>4, <3>2 DEF LeaveEvent, Notes, Put
      <4> QED BY <1>4, <2>2, <2>3, <4>1
    <3>3. CASE how = "whole"
      <4>1. Alone(w)
        BY <2>4, <3>3 DEF LeaveEvent, Notes
      <4>2. ~blind' /\ FilesKept'
        BY <1>0, <1>1, <3>1, KnownEvent
      <4> QED BY <1>5, <2>2, <2>3, <4>1, <4>2
    <3> QED BY <3>1, <3>2, <3>3
  <2>5. ASSUME NEW how \in Tears, LeaveStatement(w, how, {"bare"})
        PROVE  ~blind' /\ FilesKept' /\ MemoryKept'
    <3>1. how \in {"lost", "fragment", "whole"} /\ StatementStep(w, how) /\ signer[w].on /\ pc[w] = "sign"
      BY <2>5 DEF LeaveStatement, Notes, StatementStep, Outcomes
    <3>2. CASE how = "lost"
      <4>1. UNCHANGED <<log, stmts>> /\ ~blind'
        BY <1>2, <2>5, <3>2 DEF LeaveStatement, Notes, Put
      <4> QED BY <1>4, <2>2, <2>3, <4>1
    <3>3. CASE how # "lost"
      <4>1. Alone(w)
        BY <2>5, <3>3 DEF LeaveStatement, Notes
      <4>2. ~blind' /\ FilesKept'
        BY <1>1, <3>1, KnownStatement
      <4> QED BY <1>5, <2>2, <2>3, <4>1, <4>2
    <3> QED BY <3>1, <3>2, <3>3
  <2>6. CASE LeaveNothing(w)
    BY <1>2, <1>4, <2>2, <2>3, <2>6 DEF LeaveNothing, history
  <2> QED BY <1>11, <2>4, <2>5, <2>6 DEF Crash
<1>12. CASE UNCHANGED vars
  BY <1>2, <1>4, <1>12 DEF vars, memory, history
<1> QED BY <1>6, <1>7, <1>8, <1>e, <1>9, <1>10, <1>11, <1>12 DEF Next, Rest

\* A process that writes alone, over files nothing was left behind in, knows
\* what they hold and where they end.
THEOREM WriterIsAlwaysInformed == Spec => []WriterIsInformed
<1>1. Known => WriterIsInformed
  BY DEF Known, WriterIsInformed
<1>2. Init => Known
  BY InitKnown
<1>3. TypeOK /\ Mends /\ Honest /\ Known /\ [Next]_vars => Known'
  BY NextKnown
<1> QED BY <1>1, <1>2, <1>3, HonestInvariant, PTL DEF Spec

-----------------------------------------------------------------------------
(* Losses.                                                                 *)

\* The persisted events that cannot be read, and the unreadable lines that no
\* later append can be glued to.  The line that one could be glued to holds no
\* persisted event, so a line becomes settled with at most one loss.
Lost == told \ {log.lines[i].n : i \in Legible}
Settled == {i \in Unreadable : log.open => i < Len(log.lines)}
Accounted ==
    /\ told \subseteq 1..offered
    /\ log.open => log.lines # <<>> /\ log.lines[Len(log.lines)].n \notin told
    /\ Cardinality(Lost) <= Cardinality(Settled)

LEMMA FewerOf ==
    ASSUME NEW S, IsFiniteSet(S), NEW R, R \subseteq S
    PROVE  IsFiniteSet(R) /\ Cardinality(R) \in Nat /\ Cardinality(S) \in Nat /\ Cardinality(R) <= Cardinality(S)
BY FS_Subset, FS_CardinalityType

LEMMA LossesFinite ==
    ASSUME TypeOK
    PROVE  IsFiniteSet(Lost) /\ IsFiniteSet(Unreadable) /\ IsFiniteSet(Settled) /\ Settled \subseteq Unreadable
<1>1. IsFiniteSet(1..MaxEvents) /\ IsFiniteSet(1..Len(log.lines))
  <2>1. log.lines \in Seq(EventLines) /\ MaxEvents \in Nat
    BY LogAssumption DEF TypeOK, Lines
  <2>2. 1 \in Int /\ Len(log.lines) \in Int /\ MaxEvents \in Int
    BY <2>1
  <2> QED BY <2>2, FS_Interval
<1>2. Lost \subseteq 1..MaxEvents /\ Unreadable \subseteq 1..Len(log.lines) /\ Settled \subseteq Unreadable
  BY DEF TypeOK, Lost, Unreadable, Settled
<1>3. IsFiniteSet(Lost) /\ IsFiniteSet(Unreadable)
  BY <1>1, <1>2, FS_Subset
<1> QED BY <1>2, <1>3, FS_Subset

LEMMA LossesFinitePrimed == TypeOK => IsFiniteSet(Lost) /\ IsFiniteSet(Unreadable) /\ IsFiniteSet(Settled)
BY LossesFinite

LEMMA InitAccounted == Init => Accounted
<1> SUFFICES ASSUME Init PROVE Accounted
  OBVIOUS
<1>1. told = {} /\ offered = 0 /\ log.lines = <<>> /\ log.open = FALSE
  BY DEF Init, Empty
<1>2. Lost = {} /\ Settled = {}
  BY <1>1 DEF Lost, Settled, Unreadable
<1> QED BY <1>1, <1>2, FS_EmptySet DEF Accounted

\* An event, or what is left of it; it is persisted only when its line is whole.
LEMMA EventAccounted ==
    ASSUME TypeOK, TypeOK', Accounted, NEW w \in Processes, NEW how \in Outcomes, offered < MaxEvents,
           log' = Put(log, Event(w), Torn, how), offered' = offered + 1,
           told' = told \/ (how = "whole" /\ told' = told \cup {offered + 1})
    PROVE  Accounted'
<1>1. /\ log.lines \in Seq(EventLines) /\ Len(log.lines) \in Nat /\ offered \in Nat
      /\ Event(w) # Torn /\ Event(w).n = offered + 1 /\ Torn.n = 0
      /\ \A i \in 1..Len(log.lines) : log.lines[i] \in EventLines
  <2>1. log \in Lines(EventLines) /\ offered \in 0..MaxEvents
    BY DEF TypeOK
  <2>2. log.lines \in Seq(EventLines) /\ offered \in Nat
    BY <2>1 DEF Lines
  <2>3. Event(w).n = offered + 1 /\ Torn.n = 0
    BY DEF Event, Torn
  <2>4. Event(w) # Torn
    BY <2>2, <2>3
  <2>5. Len(log.lines) \in Nat /\ \A i \in 1..Len(log.lines) : log.lines[i] \in EventLines
    BY <2>2
  <2> QED BY <2>2, <2>3, <2>4, <2>5
<1>2. told' \subseteq 1..offered'
  <2>1. told \subseteq 1..offered /\ told' \subseteq told \cup {offered + 1} /\ offered' = offered + 1
    BY DEF Accounted
  <2>2. 1..offered \subseteq 1..(offered + 1) /\ offered + 1 \in 1..(offered + 1)
    BY <1>1
  <2> QED BY <2>1, <2>2
<1>3. /\ IsFiniteSet(Lost) /\ IsFiniteSet(Settled) /\ IsFiniteSet(Lost') /\ IsFiniteSet(Settled')
      /\ Cardinality(Lost) \in Nat /\ Cardinality(Settled) \in Nat
      /\ Cardinality(Lost') \in Nat /\ Cardinality(Settled') \in Nat
  <2>1. (TypeOK => IsFiniteSet(Lost) /\ IsFiniteSet(Unreadable) /\ IsFiniteSet(Settled))'
    BY LossesFinitePrimed, PTL
  <2> QED BY <2>1, LossesFinite, FS_CardinalityType
<1>4. CASE how = "lost"
  <2>1. log' = log /\ told' = told
    BY <1>4 DEF Put
  <2>2. Lost' = Lost /\ Settled' = Settled
    BY <2>1 DEF Lost, Settled, Legible, Unreadable
  <2> QED BY <1>2, <2>1, <2>2 DEF Accounted
<1>5. CASE how # "lost" /\ ~log.open
  <2> DEFINE x == IF how = "fragment" THEN Torn ELSE Event(w)
             m == Len(log.lines)
  <2>1. log' = [lines |-> Append(log.lines, x), open |-> how # "whole"]
    BY <1>5 DEF Put
  <2> HIDE DEF x
  <2>2. /\ Len(log'.lines) = m + 1 /\ log'.lines[m + 1] = x /\ log'.open = (how # "whole")
        /\ \A i \in 1..m : log'.lines[i] = log.lines[i]
    BY <1>1, <2>1
  <2>3. \A i \in 1..(m + 1) : i \in 1..m \/ i = m + 1
    BY <1>1
  <2>4. Settled \subseteq Settled'
    BY <1>1, <1>5, <2>2 DEF Settled, Unreadable
  <2>5. Legible \subseteq Legible' /\ (how # "fragment" => m + 1 \in Legible')
    BY <1>1, <2>2 DEF Legible, Unreadable, x
  <2>6. {log.lines[i].n : i \in Legible} \subseteq {log'.lines[i].n : i \in Legible'}
    BY <2>2, <2>5 DEF Legible
  <2>7. how = "whole" => offered + 1 \in {log'.lines[i].n : i \in Legible'}
    BY <1>1, <2>2, <2>5 DEF x
  <2>8. Lost' \subseteq Lost
    BY <2>6, <2>7 DEF Lost
  <2>9. Cardinality(Lost') <= Cardinality(Settled')
    <3>1. Cardinality(Lost') <= Cardinality(Lost) /\ Cardinality(Settled) <= Cardinality(Settled')
      BY <1>3, <2>4, <2>8, FewerOf
    <3> QED BY <1>3, <3>1 DEF Accounted
  <2>10. log'.open => log'.lines # <<>> /\ log'.lines[Len(log'.lines)].n \notin told'
    <3>1. ASSUME log'.open PROVE x.n \notin told' /\ log'.lines # <<>>
      <4>1. told' = told /\ x.n \in {0, offered + 1}
        BY <1>1, <2>2, <3>1 DEF x
      <4>2. log'.lines # <<>>
        BY <1>1, <2>2
      <4> QED BY <1>1, <4>1, <4>2 DEF Accounted
    <3> QED BY <2>2, <3>1
  <2> QED BY <1>2, <2>9, <2>10 DEF Accounted
<1>6. CASE how # "lost" /\ log.open
  <2> DEFINE m == Len(log.lines)
  <2>1. log' = [lines |-> [log.lines EXCEPT ![m] = Torn], open |-> how # "whole"]
    BY <1>6 DEF Put
  <2>2. log.lines # <<>> /\ m \in Nat \ {0} /\ log.lines[m].n \notin told
    BY <1>1, <1>6 DEF Accounted
  <2>3. /\ Len(log'.lines) = m /\ log'.lines[m] = Torn /\ log'.open = (how # "whole")
        /\ \A i \in 1..m : i # m => log'.lines[i] = log.lines[i]
    BY <1>1, <2>1, <2>2
  <2>4. Settled \subseteq Settled' \ {m} /\ (how = "whole" => m \in Settled')
    <3>1. ASSUME NEW i \in Settled PROVE i \in Settled' /\ i # m
      <4>1. i \in 1..m /\ log.lines[i] = Torn /\ i < m
        BY <1>6 DEF Settled, Unreadable
      <4>2. i # m /\ log'.lines[i] = Torn
        BY <1>1, <2>3, <4>1
      <4> QED BY <2>3, <4>1, <4>2 DEF Settled, Unreadable
    <3>2. ASSUME how = "whole" PROVE m \in Settled'
      <4>1. m \in 1..m
        BY <2>2
      <4>2. ~log'.open
        <5> HIDE DEF m
        <5> QED BY <2>3, <3>2
      <4> QED BY <2>3, <4>1, <4>2 DEF Settled, Unreadable
    <3> QED BY <3>1, <3>2
  <2>5. \A i \in Legible : i = m \/ (i \in Legible' /\ log'.lines[i].n = log.lines[i].n)
    BY <1>1, <2>2, <2>3 DEF Legible, Unreadable
  <2>6. told \ {log'.lines[i].n : i \in Legible'} \subseteq Lost
    BY <2>2, <2>5 DEF Lost
  <2>7. CASE told' = told
    <3>1. Lost' \subseteq Lost /\ Settled \subseteq Settled'
      BY <2>4, <2>6, <2>7 DEF Lost
    <3>2. Cardinality(Lost') <= Cardinality(Lost) /\ Cardinality(Settled) <= Cardinality(Settled')
      BY <1>3, <3>1, FewerOf
    <3>3. log'.lines # <<>> /\ log'.lines[Len(log'.lines)].n \notin told'
      BY <1>1, <2>2, <2>3, <2>7 DEF Accounted
    <3> QED BY <1>2, <1>3, <3>2, <3>3 DEF Accounted
  <2>8. CASE how = "whole" /\ told' = told \cup {offered + 1}
    <3>1. Lost' \subseteq Lost \cup {offered + 1} /\ Settled \cup {m} \subseteq Settled' /\ m \notin Settled
      BY <2>4, <2>6, <2>8 DEF Lost
    <3>2. Cardinality(Lost') <= Cardinality(Lost) + 1
      <4>1. IsFiniteSet(Lost \cup {offered + 1}) /\ Cardinality(Lost \cup {offered + 1}) <= Cardinality(Lost) + 1
        <5>1. /\ IsFiniteSet(Lost \cup {offered + 1})
              /\ Cardinality(Lost \cup {offered + 1})
                   = IF offered + 1 \in Lost THEN Cardinality(Lost) ELSE Cardinality(Lost) + 1
          BY <1>3, FS_AddElement
        <5>2. CASE offered + 1 \in Lost
          BY <1>3, <5>1, <5>2
        <5>3. CASE offered + 1 \notin Lost
          BY <1>3, <5>1, <5>3
        <5> QED BY <5>2, <5>3
      <4>2. Cardinality(Lost') <= Cardinality(Lost \cup {offered + 1}) /\ Cardinality(Lost \cup {offered + 1}) \in Nat
        BY <3>1, <4>1, FewerOf
      <4> QED BY <1>3, <4>1, <4>2
    <3>3. Cardinality(Settled) + 1 <= Cardinality(Settled')
      <4>1. Cardinality(Settled \cup {m}) = Cardinality(Settled) + 1
        BY <1>3, <3>1, FS_AddElement
      <4>2. Cardinality(Settled \cup {m}) <= Cardinality(Settled')
        BY <1>3, <3>1, FewerOf
      <4> QED BY <4>1, <4>2
    <3>4. ~log'.open
      BY <2>3, <2>8
    <3> QED BY <1>2, <1>3, <3>2, <3>3, <3>4 DEF Accounted
  <2> QED BY <2>7, <2>8
<1> QED BY <1>4, <1>5, <1>6

LEMMA NextAccounted == TypeOK /\ Accounted /\ [Next]_vars => Accounted'
<1> SUFFICES ASSUME TypeOK, Accounted, [Next]_vars PROVE Accounted'
  OBVIOUS
<1> USE LogAssumption
<1>0. TypeOK' /\ "whole" \in Outcomes
  BY NextType DEF Outcomes
<1>1. ASSUME UNCHANGED <<log, told, offered>> PROVE Accounted'
  BY <1>1 DEF Accounted, Lost, Settled, Legible, Unreadable
<1>2. ASSUME NEW w \in Processes, WriteEvent(w) PROVE Accounted'
  BY <1>0, <1>2, EventAccounted DEF WriteEvent
<1>3. ASSUME NEW w \in Processes, FailWrite(w) \/ Crash(w) PROVE Accounted'
  <2>1. told' = told
    BY <1>3 DEF FailWrite, Crash
  <2>2. PICK how \in Outcomes, spoils \in SUBSET Outcomes :
           LeaveEvent(w, how, spoils) \/ LeaveStatement(w, how, spoils) \/ LeaveNothing(w)
    BY <1>0, <1>3 DEF FailWrite, Crash, Outcomes
  <2>3. CASE LeaveEvent(w, how, spoils)
    BY <1>0, <2>1, <2>3, EventAccounted DEF LeaveEvent
  <2>4. CASE LeaveStatement(w, how, spoils) \/ LeaveNothing(w)
    BY <1>1, <2>1, <2>4 DEF LeaveStatement, LeaveNothing
  <2> QED BY <2>2, <2>3, <2>4
<1>4. ASSUME NEW w \in Processes,
             \/ Open(w) \/ Close(w) \/ Checkpoint(w)
             \/ OpenSigner(w) \/ ReadAgain(w) \/ Rewrite(w) \/ Sign(w)
      PROVE  Accounted'
  BY <1>1, <1>4 DEF Open, Close, Checkpoint, OpenSigner, ReadAgain, Rewrite, Sign
<1>5. CASE UNCHANGED vars
  BY <1>1, <1>5 DEF vars
<1> QED BY <1>2, <1>3, <1>4, <1>5 DEF Next, Rest

\* A persisted event can be read, or a line that cannot be read stands in its
\* place, one line for one event.
THEOREM LossIsAlwaysVisible == Spec => []LossIsVisible
<1>1. TypeOK /\ Accounted => LossIsVisible
  <2> SUFFICES ASSUME TypeOK, Accounted PROVE LossIsVisible
    OBVIOUS
  <2>1. /\ Cardinality(Lost) \in Nat /\ Cardinality(Settled) \in Nat /\ Cardinality(Unreadable) \in Nat
        /\ Cardinality(Settled) <= Cardinality(Unreadable)
    BY LossesFinite, FewerOf
  <2> QED BY <2>1 DEF Accounted, LossIsVisible, Lost
<1>2. Init => Accounted
  BY InitAccounted
<1>3. TypeOK /\ Accounted /\ [Next]_vars => Accounted'
  BY NextAccounted
<1> QED BY <1>1, <1>2, <1>3, HonestInvariant, PTL DEF Spec

-----------------------------------------------------------------------------
(* The unsigned tail.                                                      *)

\* The leaves the last of the statements k covers, and the events of b after the
\* first c that were to be signed.
Signed(k) == IF k = <<>> THEN 0 ELSE Len(k[Len(k)].root)
Unsigned(b, c) == {i \in (c + 1)..Len(b) : b[i].signs}

\* Each event of the tail has someone who is signing, or a fault, to pay for it.
Paid == Cardinality(Unsigned(B, Signed(K))) <= failed + Cardinality(Signing)
Explained == IsFiniteSet(Signing) /\ (~blind => Paid)

LEMMA SignedIs ==
    ASSUME TypeOK, Honest, ~blind
    PROVE  SignedLeaves = Signed(K) /\ Readable = B
<1>1. K \in Seq(Statements) /\ Len(K) \in Nat /\ Readable = B /\ ReadStatements(stmts) = K
  BY BodiesTyped DEF Honest, LogOK
<1>2. Links(K) = 1..Len(K)
  <2>1. BodyFacts(Statements, stmts, TornStatement)
    BY BodyOf DEF TypeOK
  <2>2. \A i \in 1..Len(K) : K[i] = stmts.lines[i] /\ stmts.lines[i] # TornStatement
    BY <2>1 DEF BodyFacts, Honest, StatementsOK, K
  <2> HIDE DEF K
  <2> QED BY <2>2 DEF Links
<1>3. SignedLeaves = LeavesBefore(K, Len(K) + 1)
  BY <1>1 DEF SignedLeaves
<1> HIDE DEF K
<1> DEFINE earlier == {j \in Links(K) : j < Len(K) + 1}
<1>4. earlier = 1..Len(K)
  BY <1>1, <1>2
<1>5. CASE K = <<>>
  <2>1. earlier = {}
    BY <1>1, <1>4, <1>5
  <2> QED BY <1>1, <1>3, <1>5, <2>1 DEF LeavesBefore, Signed
<1>6. CASE K # <<>>
  <2>1. Len(K) \in earlier /\ \A k \in earlier : k <= Len(K)
    BY <1>1, <1>4, <1>6
  <2> DEFINE c == CHOOSE j \in earlier : \A k \in earlier : k <= j
  <2>2. c \in earlier /\ \A k \in earlier : k <= c
    BY <2>1
  <2>3. c = Len(K)
    BY <1>1, <1>4, <2>1, <2>2
  <2>4. LeavesBefore(K, Len(K) + 1) = Len(K[c].root)
    BY <2>1 DEF LeavesBefore
  <2> HIDE DEF c
  <2> QED BY <1>1, <1>3, <1>6, <2>3, <2>4 DEF Signed
<1> QED BY <1>1, <1>5, <1>6

LEMMA SignedTyped ==
    ASSUME NEW k \in Seq(Statements)
    PROVE  Signed(k) \in Nat
<1>1. CASE k = <<>>
  BY <1>1 DEF Signed
<1>2. CASE k # <<>>
  <2>1. Len(k) \in 1..Len(k)
    BY <1>2
  <2>2. k[Len(k)] \in Statements
    BY <2>1
  <2>3. Len(k[Len(k)].root) \in Nat
    BY <2>2 DEF Statements
  <2> QED BY <1>2, <2>3 DEF Signed
<1> QED BY <1>1, <1>2

\* Another event lengthens the tail by itself at most.
LEMMA UnsignedGrows ==
    ASSUME NEW b \in Seq(EventLines), NEW c \in Nat, NEW e \in EventLines
    PROVE  /\ IsFiniteSet(Unsigned(b, c)) /\ Cardinality(Unsigned(b, c)) \in Nat
           /\ Cardinality(Unsigned(Append(b, e), c)) <= Cardinality(Unsigned(b, c)) + (IF e.signs THEN 1 ELSE 0)
           /\ Cardinality(Unsigned(Append(b, e), c)) \in Nat
<1> DEFINE U == Unsigned(b, c)
           V == Unsigned(Append(b, e), c)
<1>1. Len(b) \in Nat /\ Len(Append(b, e)) = Len(b) + 1 /\ Append(b, e)[Len(b) + 1] = e
      /\ \A i \in 1..Len(b) : Append(b, e)[i] = b[i]
  OBVIOUS
<1>2. U \subseteq 1..Len(b) /\ IsFiniteSet(1..Len(b))
  <2>1. 1 \in Int /\ Len(b) \in Int
    BY <1>1
  <2>2. IsFiniteSet(1..Len(b))
    BY <2>1, FS_Interval
  <2>3. U \subseteq 1..Len(b)
    BY <1>1 DEF Unsigned
  <2> QED BY <2>2, <2>3
<1>3. V \subseteq IF e.signs THEN U \cup {Len(b) + 1} ELSE U
  BY <1>1 DEF Unsigned
<1>4. Len(b) + 1 \notin U
  BY <1>1, <1>2
<1> HIDE DEF U, V
<1>5. IsFiniteSet(U) /\ Cardinality(U) \in Nat
  BY <1>2, FS_Subset, FS_CardinalityType
<1>6. IsFiniteSet(U \cup {Len(b) + 1}) /\ Cardinality(U \cup {Len(b) + 1}) = Cardinality(U) + 1
  BY <1>4, <1>5, FS_AddElement
<1>7. Cardinality(V) \in Nat /\ Cardinality(V) <= Cardinality(U) + (IF e.signs THEN 1 ELSE 0)
  <2>1. CASE e.signs
    <3>1. V \subseteq U \cup {Len(b) + 1}
      BY <1>3, <2>1
    <3> QED BY <1>5, <1>6, <2>1, <3>1, FewerOf
  <2>2. CASE ~e.signs
    <3>1. V \subseteq U
      BY <1>3, <2>2
    <3> QED BY <1>5, <2>2, <3>1, FewerOf
  <2> QED BY <2>1, <2>2
<1> QED BY <1>5, <1>7 DEF U, V

\* A statement that covers all there is leaves no tail.
LEMMA UnsignedNone ==
    ASSUME NEW b \in Seq(EventLines), NEW k \in Seq(Statements), NEW w, events[w] = b, Statement(w) \in Statements
    PROVE  Unsigned(b, Signed(Append(k, Statement(w)))) = {}
<1>1. Len(Append(k, Statement(w))) = Len(k) + 1 /\ Append(k, Statement(w))[Len(k) + 1] = Statement(w)
      /\ Append(k, Statement(w)) # <<>> /\ Len(k) \in Nat
  OBVIOUS
<1>2. Statement(w).root = [i \in 1..Len(b) |-> b[i].n] /\ Len(b) \in Nat
  BY DEF Statement, Root
<1>3. Len(Statement(w).root) = Len(b)
  BY <1>2
<1>4. Signed(Append(k, Statement(w))) = Len(b)
  BY <1>1, <1>3 DEF Signed
<1> QED BY <1>2, <1>4 DEF Unsigned

LEMMA InitExplained == Init => Explained
<1> SUFFICES ASSUME Init PROVE Explained
  OBVIOUS
<1>1. Signing = {} /\ failed = 0
  BY DEF Init, Signing
<1>2. log.lines = <<>> /\ ~EndsTorn(log, Torn)
  BY DEF Init, Empty, EndsTorn
<1>3. B = <<>>
  BY <1>2 DEF B, Body
<1>4. stmts.lines = <<>> /\ ~EndsTorn(stmts, TornStatement)
  BY DEF Init, Empty, EndsTorn
<1>5. K = <<>>
  BY <1>4 DEF K, Body
<1>6. Unsigned(B, Signed(K)) = {}
  BY <1>3, <1>5 DEF Unsigned, Signed
<1> QED BY <1>1, <1>6, FS_EmptySet DEF Explained, Paid

\* Who signs and how often something failed change together.
Settles(w) == \/ Signing' = Signing \cup {w} /\ w \notin Signing /\ failed' = failed
              \/ Signing' = Signing /\ failed' = failed
              \/ Signing' = Signing /\ failed' = failed + 1
              \/ Signing' = Signing \ {w} /\ w \in Signing /\ failed' = failed + 1
              \/ Signing' = Signing \ {w} /\ failed' = failed
Budget == failed + Cardinality(Signing)

LEMMA BudgetIs ==
    ASSUME IsFiniteSet(Signing), failed \in Nat, NEW w, Settles(w)
    PROVE  /\ IsFiniteSet(Signing') /\ Budget \in Nat /\ Budget' \in Nat
           /\ Signing' = Signing \cup {w} /\ w \notin Signing /\ failed' = failed => Budget' = Budget + 1
           /\ Signing' = Signing /\ failed' = failed => Budget' = Budget
           /\ Signing' = Signing /\ failed' = failed + 1 => Budget' = Budget + 1
           /\ Signing' = Signing \ {w} /\ w \in Signing /\ failed' = failed + 1 => Budget' = Budget
<1> DEFINE S == Signing
           T == Signing'
<1>1. IsFiniteSet(S) /\ Cardinality(S) \in Nat
  BY FS_CardinalityType
<1>2. w \notin S => IsFiniteSet(S \cup {w}) /\ Cardinality(S \cup {w}) = Cardinality(S) + 1
  BY <1>1, FS_AddElement
<1>3. IsFiniteSet(S \ {w}) /\ Cardinality(S \ {w}) \in Nat
      /\ (w \in S => Cardinality(S \ {w}) = Cardinality(S) - 1)
  <2>1. IsFiniteSet(S \ {w}) /\ Cardinality(S \ {w}) = IF w \in S THEN Cardinality(S) - 1 ELSE Cardinality(S)
    BY <1>1, FS_RemoveElement
  <2>2. Cardinality(S \ {w}) \in Nat
    BY <2>1, FS_CardinalityType
  <2> QED BY <2>1, <2>2
<1> HIDE DEF S, T
<1>4. Budget = failed + Cardinality(S) /\ Budget' = failed' + Cardinality(T)
  BY DEF Budget, S, T
<1>5. \/ T = S \cup {w} /\ w \notin S /\ failed' = failed
      \/ T = S /\ failed' = failed
      \/ T = S /\ failed' = failed + 1
      \/ T = S \ {w} /\ w \in S /\ failed' = failed + 1
      \/ T = S \ {w} /\ failed' = failed
  BY DEF Settles, S, T
<1>6. /\ IsFiniteSet(T) /\ Budget \in Nat /\ Budget' \in Nat
      /\ T = S \cup {w} /\ w \notin S /\ failed' = failed => Budget' = Budget + 1
      /\ T = S /\ failed' = failed => Budget' = Budget
      /\ T = S /\ failed' = failed + 1 => Budget' = Budget + 1
      /\ T = S \ {w} /\ w \in S /\ failed' = failed + 1 => Budget' = Budget
  <2>1. CASE T = S \cup {w} /\ w \notin S /\ failed' = failed
    <3>1. Cardinality(T) = Cardinality(S) + 1 /\ IsFiniteSet(T) /\ T # S /\ T # S \ {w}
      BY <1>2, <2>1
    <3> QED BY <1>1, <1>4, <2>1, <3>1
  <2>2. CASE T = S /\ failed' \in {failed, failed + 1}
    <3>1. w \notin S => T # S \cup {w}
      BY <2>2
    <3>2. w \in S => T # S \ {w}
      BY <2>2
    <3> QED BY <1>1, <1>4, <2>2, <3>1, <3>2
  <2>3. CASE T = S \ {w} /\ w \in S /\ failed' = failed + 1
    <3>1. Cardinality(T) = Cardinality(S) - 1 /\ IsFiniteSet(T) /\ Cardinality(T) \in Nat /\ T # S
      BY <1>3, <2>3
    <3> QED BY <1>1, <1>4, <2>3, <3>1
  <2>4. CASE T = S \ {w} /\ failed' = failed
    <3>1. IsFiniteSet(T) /\ Cardinality(T) \in Nat
      BY <1>3, <2>4
    <3>2. w \notin S => T # S \cup {w}
      BY <2>4
    <3>3. T = S => Cardinality(T) = Cardinality(S)
      OBVIOUS
    <3> QED BY <1>1, <1>4, <2>4, <3>1, <3>2, <3>3
  <2> QED BY <1>5, <2>1, <2>2, <2>3, <2>4
<1> QED BY <1>6 DEF S, T

\* What a change of pc does to those who sign.
LEMMA SigningIs ==
    ASSUME TypeOK, NEW w \in Processes, NEW p, pc' = [pc EXCEPT ![w] = p]
    PROVE  Signing' = IF p \in {"sign", "reread", "rewrite"} THEN Signing \cup {w} ELSE Signing \ {w}
<1>1. \A v \in Processes : pc'[v] = IF v = w THEN p ELSE pc[v]
  BY DEF TypeOK
<1> QED BY <1>1 DEF Signing

LEMMA NextExplained == TypeOK /\ Mends /\ Honest /\ Explained /\ [Next]_vars => Explained'
<1> SUFFICES ASSUME TypeOK, Mends, Honest, Explained, [Next]_vars PROVE Explained'
  OBVIOUS
<1> USE LogAssumption
<1>0. /\ TypeOK' /\ "whole" \in Outcomes /\ failed \in Nat /\ IsFiniteSet(Signing)
      /\ B \in Seq(EventLines) /\ K \in Seq(Statements) /\ Signed(K) \in Nat
  <2>1. TypeOK' /\ "whole" \in Outcomes
    BY NextType DEF Outcomes
  <2>2. B \in Seq(EventLines) /\ K \in Seq(Statements)
    BY BodiesTyped
  <2>3. failed \in Nat
    BY DEF TypeOK
  <2> QED BY <2>1, <2>2, <2>3, SignedTyped DEF Explained
<1> DEFINE U == Unsigned(B, Signed(K))
<1>1. Cardinality(U) \in Nat /\ (Explained /\ ~blind => Cardinality(U) <= Budget)
  <2>1. Torn \in EventLines
    BY DEF Torn, EventLines
  <2>2. Cardinality(U) \in Nat
    BY <1>0, <2>1, UnsignedGrows
  <2> QED BY <2>2 DEF Explained, Paid, Budget
\* No longer tail and no smaller budget; an event and one who pays for it; a
\* statement over all there is.
<1>2. ASSUME NEW w, Settles(w), ~blind' => ~blind,
             ~blind' => \/ Unsigned(B', Signed(K')) = U /\ Budget' >= Budget
                        \/ Cardinality(Unsigned(B', Signed(K'))) <= Cardinality(U) + 1 /\ Budget' >= Budget + 1
                        \/ Unsigned(B', Signed(K')) = {},
             ~blind' => Cardinality(Unsigned(B', Signed(K'))) \in Nat
      PROVE  Explained'
  <2>1. IsFiniteSet(Signing') /\ Budget \in Nat /\ Budget' \in Nat
    BY <1>0, <1>2, BudgetIs
  <2>2. Cardinality({}) = 0
    BY FS_EmptySet
  <2>3. ~blind' => Cardinality(Unsigned(B', Signed(K'))) <= Budget'
    <3> DEFINE V == Unsigned(B', Signed(K'))
    <3>1. ~blind' => \/ V = U /\ Budget' >= Budget
                     \/ Cardinality(V) <= Cardinality(U) + 1 /\ Budget' >= Budget + 1
                     \/ V = {}
      BY <1>2
    <3> HIDE DEF U, V
    <3>2. ~blind' => Cardinality(V) <= Budget'
      BY <1>1, <1>2, <2>1, <2>2, <3>1 DEF V
    <3> QED BY <3>2 DEF V
  <2>4. Budget' = failed' + Cardinality(Signing') /\ (Unsigned(B, Signed(K)))' = Unsigned(B', Signed(K'))
    BY DEF Budget, Unsigned, Signed
  <2> QED BY <2>1, <2>3, <2>4 DEF Explained, Paid
<1> HIDE DEF U
\* The files stand.
<1>3. ASSUME NEW w, Settles(w), B' = B, K' = K, blind' = blind, ~blind => Budget' >= Budget PROVE Explained'
  BY <1>1, <1>2, <1>3 DEF U
\* An event is written, or what is left of it.
<1>4. ASSUME NEW w \in Processes, NEW how, EventStep(w, how), UNCHANGED stmts, Settles(w),
             Budget' >= Budget + 1 \/ (~Event(w).signs /\ Budget' >= Budget)
      PROVE  Explained'
  <2>1. blind => blind'
    BY <1>4 DEF EventStep
  <2>2. K' = K
    BY <1>4 DEF K
  <2>3. Event(w) \in EventLines
    BY <1>4, LinesTyped DEF EventStep
  <2>4. ASSUME ~blind'
        PROVE  /\ Cardinality(Unsigned(B', Signed(K))) \in Nat
               /\ \/ Unsigned(B', Signed(K)) = U
                  \/ Cardinality(Unsigned(B', Signed(K))) <= Cardinality(U) + (IF Event(w).signs THEN 1 ELSE 0)
    <3>1. B' = B \/ B' = Append(B, Event(w))
      BY <1>4, <2>4, EventWritten
    <3> QED BY <1>0, <1>1, <2>3, <3>1, UnsignedGrows DEF U
  <2>5. CASE Budget' >= Budget + 1
    <3>1. Budget \in Nat /\ Budget' \in Nat
      BY <1>0, <1>4, BudgetIs
    <3>2. Budget' >= Budget
      BY <2>5, <3>1
    <3>3. Cardinality(U) + (IF Event(w).signs THEN 1 ELSE 0) <= Cardinality(U) + 1
      BY <1>1
    <3>4. ~blind' => Unsigned(B', Signed(K)) = U \/ Cardinality(Unsigned(B', Signed(K))) <= Cardinality(U) + 1
      BY <1>1, <2>4, <3>3
    <3> QED BY <1>2, <1>4, <2>1, <2>2, <2>4, <2>5, <3>2, <3>4
  <2>6. CASE ~Event(w).signs /\ Budget' >= Budget
    <3>1. ~blind' => Cardinality(Unsigned(B', Signed(K))) <= Cardinality(U)
      BY <1>1, <2>4, <2>6
    <3>2. IsFiniteSet(Signing') /\ Budget \in Nat /\ Budget' \in Nat
      BY <1>0, <1>4, BudgetIs
    <3>3. ~blind' => Cardinality(Unsigned(B', Signed(K'))) <= Budget'
      BY <1>1, <2>1, <2>2, <2>4, <2>6, <3>1, <3>2
    <3>4. Budget' = failed' + Cardinality(Signing') /\ (Unsigned(B, Signed(K)))' = Unsigned(B', Signed(K'))
      BY DEF Budget, Unsigned, Signed
    <3> QED BY <3>2, <3>3, <3>4 DEF Explained, Paid
  <2> QED BY <1>4, <2>5, <2>6
\* A statement is written, or what is left of it.
<1>5. ASSUME NEW w \in Processes, NEW how, StatementStep(w, how), Settles(w), how = "whole" \/ Budget' >= Budget
      PROVE  Explained'
  <2>1. B' = B /\ (blind => blind')
    BY <1>5 DEF StatementStep, B
  <2>2. Statement(w) \in Statements
    BY <1>5, LinesTyped DEF StatementStep
  <2>3. ASSUME ~blind'
        PROVE  \/ Unsigned(B', Signed(K')) = U /\ Budget' >= Budget
               \/ Unsigned(B', Signed(K')) = {}
    <3>1. /\ K' = K \/ (K' = Append(K, Statement(w)) /\ events[w] = B)
          /\ how = "whole" => K' = Append(K, Statement(w)) /\ events[w] = B
      BY <1>5, <2>3, StatementWritten
    <3>2. CASE K' = Append(K, Statement(w)) /\ events[w] = B
      BY <1>0, <2>1, <2>2, <3>2, UnsignedNone
    <3>3. CASE K' = K /\ how # "whole"
      BY <1>5, <2>1, <3>3 DEF U
    <3> QED BY <3>1, <3>2, <3>3
  <2>4. ~blind' => Cardinality(Unsigned(B', Signed(K'))) \in Nat
    BY <1>1, <2>3, FS_EmptySet
  <2> QED BY <1>2, <1>5, <2>1, <2>3, <2>4
<1>6. CASE UNCHANGED vars
  <2>1. Signing' = Signing /\ failed' = failed /\ B' = B /\ K' = K /\ blind' = blind
    BY <1>6 DEF vars, memory, history, Signing, B, K
  <2> QED BY <2>1 DEF Explained, Paid, Unsigned, Signed
<1>7. \A w \in Processes : w \in Signing <=> pc[w] \in {"sign", "reread", "rewrite"}
  BY DEF Signing
<1>8. ASSUME NEW w \in Processes, WriteEvent(w) PROVE Explained'
  <2>1. EventStep(w, "whole") /\ UNCHANGED stmts /\ failed' = failed
    BY <1>0, <1>8 DEF WriteEvent, Notes, EventStep
  <2>2. w \notin Signing /\ Event(w).signs = (w \in SignsAppends)
    BY <1>7, <1>8 DEF WriteEvent, Event
  <2>3. Signing' = IF w \in SignsAppends THEN Signing \cup {w} ELSE Signing
    <3>1. pc' = [pc EXCEPT ![w] = IF w \in SignsAppends THEN "sign" ELSE "idle"]
      BY <1>8 DEF WriteEvent, NextPc
    <3>2. Signing' = IF (IF w \in SignsAppends THEN "sign" ELSE "idle") \in {"sign", "reread", "rewrite"}
                     THEN Signing \cup {w} ELSE Signing \ {w}
      BY <3>1, SigningIs
    <3> QED BY <2>2, <3>2
  <2>4. Settles(w)
    BY <2>1, <2>2, <2>3 DEF Settles
  <2>5. Budget \in Nat /\ Budget' = IF w \in SignsAppends THEN Budget + 1 ELSE Budget
    BY <1>0, <2>1, <2>2, <2>3, <2>4, BudgetIs
  <2>6. Budget' >= Budget + 1 \/ (~Event(w).signs /\ Budget' >= Budget)
    <3>1. CASE w \in SignsAppends
      BY <2>5, <3>1
    <3>2. CASE w \notin SignsAppends
      <4>1. ~Event(w).signs
        BY <2>2, <3>2
      <4>2. Budget' >= Budget
        BY <2>5, <3>2
      <4> QED BY <4>1, <4>2
    <3> QED BY <3>1, <3>2
  <2> QED BY <1>4, <2>1, <2>4, <2>6
<1>9. ASSUME NEW w \in Processes, Checkpoint(w) PROVE Explained'
  <2>1. Signing' = Signing \cup {w} /\ w \notin Signing
    BY <1>7, <1>9, SigningIs DEF Checkpoint
  <2>2. Settles(w) /\ B' = B /\ K' = K /\ blind' = blind /\ failed' = failed
    BY <1>9, <2>1 DEF Checkpoint, Settles, B, K, history
  <2>3. Budget \in Nat /\ Budget' = Budget + 1
    BY <1>0, <2>1, <2>2, BudgetIs
  <2>4. Budget' >= Budget
    BY <2>3
  <2> QED BY <1>3, <2>2, <2>4
<1>10. ASSUME NEW w \in Processes, Open(w) \/ Close(w) PROVE Explained'
  <2>1. Signing' = Signing
    <3>1. w \notin Signing
      BY <1>7, <1>10 DEF Open, Close
    <3>2. Signing' = Signing \ {w}
      <4>1. pc' = [pc EXCEPT ![w] = "idle"] \/ pc' = [pc EXCEPT ![w] = "down"]
        BY <1>10 DEF Open, Close, Forget
      <4> QED BY <4>1, SigningIs
    <3> QED BY <3>1, <3>2
  <2>2. Settles(w) /\ B' = B /\ K' = K /\ blind' = blind /\ failed' = failed
    BY <1>10, <2>1 DEF Open, Close, Settles, B, K, history
  <2>3. Budget \in Nat /\ Budget' = Budget
    BY <1>0, <2>1, <2>2, BudgetIs
  <2>4. Budget' >= Budget
    BY <2>3
  <2> QED BY <1>3, <2>2, <2>4
<1>11. ASSUME NEW w \in Processes, OpenSigner(w) \/ ReadAgain(w) \/ Rewrite(w) PROVE Explained'
  <2>1. failed' = failed /\ (blind => blind')
    <3>1. CASE OpenSigner(w) \/ ReadAgain(w)
      BY <3>1 DEF OpenSigner, ReadAgain, history
    <3>2. CASE Rewrite(w)
      BY <3>2 DEF Rewrite, Notes
    <3> QED BY <1>11, <3>1, <3>2
  <2>2. Signing' = Signing
    <3>1. /\ w \in Signing
          /\ \E p \in {"sign", "reread", "rewrite"} : pc' = [pc EXCEPT ![w] = p]
      BY <1>7, <1>11 DEF OpenSigner, MendIf, ReadAgain, Rewrite
    <3>2. Signing' = Signing \cup {w}
      BY <3>1, SigningIs
    <3> QED BY <3>1, <3>2
  <2>3. ~blind' => B' = B /\ K' = K
    <3>1. CASE OpenSigner(w) \/ ReadAgain(w)
      BY <3>1 DEF OpenSigner, ReadAgain, B, K
    <3>2. CASE Rewrite(w)
      BY <3>2, Rewritten
    <3> QED BY <1>11, <3>1, <3>2
  <2> QED BY <2>1, <2>2, <2>3 DEF Explained, Paid, Unsigned, Signed
<1>12. ASSUME NEW w \in Processes, Sign(w) PROVE Explained'
  <2>1. StatementStep(w, "whole") /\ failed' = failed
    BY <1>0, <1>12 DEF Sign, Notes, StatementStep
  <2>2. Signing' = Signing \ {w}
    <3>1. pc' = [pc EXCEPT ![w] = "idle"]
      BY <1>12 DEF Sign
    <3>2. Signing' = IF "idle" \in {"sign", "reread", "rewrite"} THEN Signing \cup {w} ELSE Signing \ {w}
      BY <3>1, SigningIs
    <3> QED BY <3>2
  <2>3. Settles(w)
    BY <2>1, <2>2 DEF Settles
  <2> QED BY <1>5, <2>1, <2>3
<1>13. ASSUME NEW w \in Processes, FailWrite(w) \/ Crash(w) PROVE Explained'
  <2>1. PICK how \in Outcomes, spoils \in SUBSET Outcomes :
           LeaveEvent(w, how, spoils) \/ LeaveStatement(w, how, spoils) \/ LeaveNothing(w)
    BY <1>0, <1>13 DEF FailWrite, Crash, Outcomes
  <2>2. failed' = failed + 1 /\ Signing' = Signing \ {w}
    <3>1. pc' = [pc EXCEPT ![w] = "idle"] \/ pc' = [pc EXCEPT ![w] = "down"]
      BY <1>13 DEF FailWrite, GiveUp, Crash, Forget
    <3> QED BY <1>13, <3>1, SigningIs DEF FailWrite, Crash, Fault
  <2>3. CASE LeaveEvent(w, how, spoils)
    <3>1. EventStep(w, how) /\ UNCHANGED stmts
      BY <2>3 DEF LeaveEvent, Notes, EventStep
    <3>2. Signing' = Signing
      <4>1. w \notin Signing
        BY <1>7, <2>3 DEF LeaveEvent
      <4> QED BY <2>2, <4>1
    <3>3. Settles(w)
      BY <2>2, <3>2 DEF Settles
    <3>4. Budget \in Nat /\ Budget' = Budget + 1
      BY <1>0, <2>2, <3>2, <3>3, BudgetIs
    <3>5. Budget' >= Budget + 1
      BY <3>4
    <3> QED BY <1>4, <3>1, <3>3, <3>5
  <2>4. ASSUME pc[w] \in {"sign", "reread", "rewrite"} PROVE Settles(w) /\ Budget' >= Budget
    <3>1. w \in Signing
      BY <1>7, <2>4
    <3>2. Settles(w)
      BY <2>2, <3>1 DEF Settles
    <3>3. Budget \in Nat /\ Budget' = Budget
      BY <1>0, <2>2, <3>1, <3>2, BudgetIs
    <3> QED BY <3>2, <3>3
  <2>5. CASE LeaveStatement(w, how, spoils)
    <3>1. StatementStep(w, how) /\ pc[w] = "sign"
      BY <2>5 DEF LeaveStatement, Notes, StatementStep
    <3> QED BY <1>5, <2>4, <3>1
  <2>6. CASE LeaveNothing(w)
    <3>1. B' = B /\ K' = K /\ blind' = blind /\ pc[w] \in {"sign", "reread", "rewrite"}
      BY <2>6 DEF LeaveNothing, B, K, history
    <3> QED BY <1>3, <2>4, <3>1
  <2> QED BY <2>1, <2>3, <2>5, <2>6
<1> QED BY <1>6, <1>8, <1>9, <1>10, <1>11, <1>12, <1>13 DEF Next, Rest

\* As long as nobody wrote blindly, however many processes write, fail and
\* crash: an event that should have been signed and that no statement covers is
\* being signed, or a fault pays for it.
THEOREM TailIsAlwaysExplained == Spec => []TailIsExplained
<1>1. TypeOK /\ Honest /\ Explained => TailIsExplained
  <2> SUFFICES ASSUME TypeOK, Honest, Explained, ~blind PROVE TailIsExplained
    BY DEF TailIsExplained
  <2>1. UnsignedTail = Unsigned(B, Signed(K))
    BY SignedIs DEF UnsignedTail, Unsigned
  <2> QED BY <2>1 DEF Explained, Paid, TailIsExplained, Signing
<1>2. Init => Explained
  BY InitExplained
<1>3. TypeOK /\ Mends /\ Honest /\ Explained /\ [Next]_vars => Explained'
  BY NextExplained
<1> QED BY <1>1, <1>2, <1>3, HonestInvariant, PTL DEF Spec
=============================================================================
