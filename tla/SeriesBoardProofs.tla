------------------------- MODULE SeriesBoardProofs -------------------------
(***************************************************************************)
(* Theorems about SeriesBoard, for any number of requests, terms, series,  *)
(* problems and parts, and payloads of any length.                         *)
(*                                                                         *)
(* BoardInv is not inductive.  A handler between two of its steps acts on  *)
(* what it read before (CallOK), the numbers stored between two requests   *)
(* are those of payloads (Stored: during one they are also parked below    *)
(* zero), and every problem has all the parts of some count (PartsInFull), *)
(* which is why an edit that asks for more finds out what is missing.      *)
(*                                                                         *)
(* EditDoesAsked is about a whole edit, which is three loops over rows and *)
(* payload.  Each of them is a recursive function: the *Runs lemmas turn   *)
(* one into a run, a function over 0..n with one pass of the body between  *)
(* neighbours, and NatInduct carries an invariant along a run.  (It takes  *)
(* a set for the predicate and rests on < being well-founded: the          *)
(* library's theorems of induction have an operator for a parameter.)  The *)
(* invariant of the loop over the payload is Halfway: what the first n     *)
(* specs asked for is there, and every kept problem among the rest is      *)
(* parked at its own negative number, where it is in nobody's way.         *)
(***************************************************************************)
EXTENDS SeriesBoard, SequenceTheorems, WellFoundedInduction, TLAPS
-----------------------------------------------------------------------------
(* Loops.                                                                  *)

\* Induction, with a set for the predicate.
LEMMA NatInduct ==
  ASSUME NEW S, 0 \in S, \A n \in Nat : n \in S => n + 1 \in S
  PROVE  Nat \subseteq S
  <1> DEFINE T == Nat \ S
             R == {ss \in Nat \X Nat : ss[1] < ss[2]}
  <1>1. SUFFICES ASSUME T # {} PROVE FALSE
    OBVIOUS
  <1>2. IsWellFoundedOn(R, Nat)
    BY NatLessThanWellFounded, Zenon DEF OpToRel
  <1>3. T \subseteq Nat
    OBVIOUS
  <1> HIDE DEF R, T
  <1>4. PICK x \in T : \A y \in T : ~ (<<y, x>> \in R)
    BY <1>1, <1>2, <1>3, WFMin
  <1>5. x \in Nat /\ x \notin S /\ x # 0
    BY DEF T
  <1>6. x - 1 \in Nat /\ x - 1 < x /\ (x - 1) + 1 = x
    BY <1>5
  <1>7. <<x - 1, x>> \in R
    BY <1>5, <1>6 DEF R
  <1>8. x - 1 \in S
    BY <1>4, <1>6, <1>7 DEF T
  <1>9. QED
    BY <1>5, <1>6, <1>8

\* Each of the loops over a payload is a run: it starts from the board it is
\* given, makes one step per element and returns where it ends.
LEMMA InsertLabelsRuns ==
  ASSUME NEW b, NEW p, NEW labels, NEW have, Len(labels) \in Nat
  PROVE  \E run :
           /\ DOMAIN run = 0..Len(labels) /\ run[0] = b
           /\ \A n \in 1..Len(labels) : run[n] = InsertMissing(run[n - 1], p, labels[n], have)
           /\ InsertLabels(b, p, labels, have) = run[Len(labels)]
  <1> DEFINE Runs(g, k) ==
        g = [n \in 0..k |-> IF n = 0 THEN b ELSE InsertMissing(g[n - 1], p, labels[n], have)]
      S == {k \in Nat : \E g : Runs(g, k)}
  <1>1. 0 \in S
    <2>1. Runs([n \in 0..0 |-> b], 0)
      OBVIOUS
    <2>2. QED
      BY <2>1
  <1>2. ASSUME NEW k \in Nat, k \in S PROVE k + 1 \in S
    <2>1. PICK g : Runs(g, k)
      BY <1>2
    <2> DEFINE h == [n \in 0..(k + 1) |->
                      IF n <= k THEN g[n]
                      ELSE InsertMissing(g[n - 1], p, labels[n], have)]
    <2>2. \A n \in 0..(k + 1) : n # 0 => h[n - 1] = g[n - 1]
      OBVIOUS
    <2>3. \A n \in 0..(k + 1) :
           h[n] = IF n = 0 THEN b
                  ELSE InsertMissing(h[n - 1], p, labels[n], have)
      BY <2>1, <2>2
    <2>4. Runs(h, k + 1)
      BY <2>3
    <2> HIDE DEF h, Runs
    <2>5. QED
      BY <2>4
  <1>3. \E g : Runs(g, Len(labels))
    BY <1>1, <1>2, NatInduct
  <1> DEFINE it == CHOOSE g : Runs(g, Len(labels))
  <1>4. Runs(it, Len(labels))
    BY <1>3
  <1>5. InsertLabels(b, p, labels, have) = it[Len(labels)]
    BY DEF InsertLabels
  <1> HIDE DEF it
  <1>6. QED
    BY <1>4, <1>5

\* Parking, one kept problem after the other.
LEMMA ParkedRuns ==
  ASSUME NEW b, NEW specs, Len(specs) \in Nat
  PROVE  \E run :
           /\ DOMAIN run = 0..Len(specs) /\ run[0] = b
           /\ \A n \in 1..Len(specs) : run[n] = Park(run[n - 1], specs[n])
           /\ Parked(b, specs) = run[Len(specs)]
  <1> DEFINE Runs(g, k) ==
        g = [n \in 0..k |-> IF n = 0 THEN b ELSE Park(g[n - 1], specs[n])]
      S == {k \in Nat : \E g : Runs(g, k)}
  <1>1. 0 \in S
    <2>1. Runs([n \in 0..0 |-> b], 0)
      OBVIOUS
    <2>2. QED
      BY <2>1
  <1>2. ASSUME NEW k \in Nat, k \in S PROVE k + 1 \in S
    <2>1. PICK g : Runs(g, k)
      BY <1>2
    <2> DEFINE h == [n \in 0..(k + 1) |->
                      IF n <= k THEN g[n]
                      ELSE Park(g[n - 1], specs[n])]
    <2>2. \A n \in 0..(k + 1) : n # 0 => h[n - 1] = g[n - 1]
      OBVIOUS
    <2>3. \A n \in 0..(k + 1) : h[n] = IF n = 0 THEN b ELSE Park(h[n - 1], specs[n])
      BY <2>1, <2>2
    <2>4. Runs(h, k + 1)
      BY <2>3
    <2> HIDE DEF h, Runs
    <2>5. QED
      BY <2>4
  <1>3. \E g : Runs(g, Len(specs))
    BY <1>1, <1>2, NatInduct
  <1> DEFINE it == CHOOSE g : Runs(g, Len(specs))
  <1>4. Runs(it, Len(specs))
    BY <1>3
  <1>5. Parked(b, specs) = it[Len(specs)]
    BY DEF Parked
  <1> HIDE DEF it
  <1>6. QED
    BY <1>4, <1>5

\* Final numbers and new problems, one spec after the other.
LEMMA WriteProblemsRuns ==
  ASSUME NEW b, NEW i, NEW specs, Len(specs) \in Nat
  PROVE  \E run :
           /\ DOMAIN run = 0..Len(specs) /\ run[0] = b
           /\ \A n \in 1..Len(specs) : run[n] = Settle(run[n - 1], i, specs[n])
           /\ WriteProblems(b, i, specs) = run[Len(specs)]
  <1> DEFINE Runs(g, k) ==
        g = [n \in 0..k |-> IF n = 0 THEN b ELSE Settle(g[n - 1], i, specs[n])]
      S == {k \in Nat : \E g : Runs(g, k)}
  <1>1. 0 \in S
    <2>1. Runs([n \in 0..0 |-> b], 0)
      OBVIOUS
    <2>2. QED
      BY <2>1
  <1>2. ASSUME NEW k \in Nat, k \in S PROVE k + 1 \in S
    <2>1. PICK g : Runs(g, k)
      BY <1>2
    <2> DEFINE h == [n \in 0..(k + 1) |->
                      IF n <= k THEN g[n]
                      ELSE Settle(g[n - 1], i, specs[n])]
    <2>2. \A n \in 0..(k + 1) : n # 0 => h[n - 1] = g[n - 1]
      OBVIOUS
    <2>3. \A n \in 0..(k + 1) :
           h[n] = IF n = 0 THEN b
                  ELSE Settle(h[n - 1], i, specs[n])
      BY <2>1, <2>2
    <2>4. Runs(h, k + 1)
      BY <2>3
    <2> HIDE DEF h, Runs
    <2>5. QED
      BY <2>4
  <1>3. \E g : Runs(g, Len(specs))
    BY <1>1, <1>2, NatInduct
  <1> DEFINE it == CHOOSE g : Runs(g, Len(specs))
  <1>4. Runs(it, Len(specs))
    BY <1>3
  <1>5. WriteProblems(b, i, specs) = it[Len(specs)]
    BY DEF WriteProblems
  <1> HIDE DEF it
  <1>6. QED
    BY <1>4, <1>5

\* The parts a payload asks for, added up.
LEMMA PartsAskedRuns ==
  ASSUME NEW specs, Len(specs) \in Nat
  PROVE  \E run :
           /\ DOMAIN run = 0..Len(specs) /\ run[0] = 0
           /\ \A n \in 1..Len(specs) : run[n] = run[n - 1] + Len(DesiredLabels(specs[n].count))
           /\ PartsAsked(specs) = run[Len(specs)]
  <1> DEFINE Runs(g, k) ==
        g = [n \in 0..k |-> IF n = 0 THEN 0 ELSE g[n - 1] + Len(DesiredLabels(specs[n].count))]
      S == {k \in Nat : \E g : Runs(g, k)}
  <1>1. 0 \in S
    <2>1. Runs([n \in 0..0 |-> 0], 0)
      OBVIOUS
    <2>2. QED
      BY <2>1
  <1>2. ASSUME NEW k \in Nat, k \in S PROVE k + 1 \in S
    <2>1. PICK g : Runs(g, k)
      BY <1>2
    <2> DEFINE h == [n \in 0..(k + 1) |->
                      IF n <= k THEN g[n]
                      ELSE g[n - 1] + Len(DesiredLabels(specs[n].count))]
    <2>2. \A n \in 0..(k + 1) : n # 0 => h[n - 1] = g[n - 1]
      OBVIOUS
    <2>3. \A n \in 0..(k + 1) :
           h[n] = IF n = 0 THEN 0
                  ELSE h[n - 1] + Len(DesiredLabels(specs[n].count))
      BY <2>1, <2>2
    <2>4. Runs(h, k + 1)
      BY <2>3
    <2> HIDE DEF h, Runs
    <2>5. QED
      BY <2>4
  <1>3. \E g : Runs(g, Len(specs))
    BY <1>1, <1>2, NatInduct
  <1> DEFINE it == CHOOSE g : Runs(g, Len(specs))
  <1>4. Runs(it, Len(specs))
    BY <1>3
  <1>5. PartsAsked(specs) = it[Len(specs)]
    BY DEF PartsAsked
  <1> HIDE DEF it
  <1>6. QED
    BY <1>4, <1>5, SMTT(30)

\* And the new problems.
LEMMA ProblemsAskedRuns ==
  ASSUME NEW specs, Len(specs) \in Nat
  PROVE  \E run :
           /\ DOMAIN run = 0..Len(specs) /\ run[0] = 0
           /\ \A n \in 1..Len(specs) : run[n] = run[n - 1] + NewProblem(specs[n])
           /\ ProblemsAsked(specs) = run[Len(specs)]
  <1> DEFINE Runs(g, k) ==
        g = [n \in 0..k |-> IF n = 0 THEN 0 ELSE g[n - 1] + NewProblem(specs[n])]
      S == {k \in Nat : \E g : Runs(g, k)}
  <1>1. 0 \in S
    <2>1. Runs([n \in 0..0 |-> 0], 0)
      OBVIOUS
    <2>2. QED
      BY <2>1
  <1>2. ASSUME NEW k \in Nat, k \in S PROVE k + 1 \in S
    <2>1. PICK g : Runs(g, k)
      BY <1>2
    <2> DEFINE h == [n \in 0..(k + 1) |->
                      IF n <= k THEN g[n]
                      ELSE g[n - 1] + NewProblem(specs[n])]
    <2>2. \A n \in 0..(k + 1) : n # 0 => h[n - 1] = g[n - 1]
      OBVIOUS
    <2>3. \A n \in 0..(k + 1) :
           h[n] = IF n = 0 THEN 0
                  ELSE h[n - 1] + NewProblem(specs[n])
      BY <2>1, <2>2
    <2>4. Runs(h, k + 1)
      BY <2>3
    <2> HIDE DEF h, Runs
    <2>5. QED
      BY <2>4
  <1>3. \E g : Runs(g, Len(specs))
    BY <1>1, <1>2, NatInduct
  <1> DEFINE it == CHOOSE g : Runs(g, Len(specs))
  <1>4. Runs(it, Len(specs))
    BY <1>3
  <1>5. ProblemsAsked(specs) = it[Len(specs)]
    BY DEF ProblemsAsked
  <1> HIDE DEF it
  <1>6. QED
    BY <1>4, <1>5, SMTT(30)

-----------------------------------------------------------------------------
(* The two tables.                                                         *)

\* Inside an edit a number may be negative.
Tables == [problem : [1..MaxProblem -> [series : 0..MaxSeries, number : Int]],
           sub : [1..MaxSub -> Subproblem],
           nextProblem : 1..(MaxProblem + 1), nextSub : 1..(MaxSub + 1), ok : BOOLEAN]

\* Nothing is where no id was handed out; a part hangs on a problem; the UNIQUE
\* constraints hold, and no statement has violated one.
Fresh(b) ==
  /\ \A p \in 1..MaxProblem : p >= b.nextProblem => b.problem[p].series = NoRow
  /\ \A s \in 1..MaxSub : s >= b.nextSub => b.sub[s].problem = NoRow

PartsHang(b) ==
  \A s \in 1..MaxSub :
    b.sub[s].problem # NoRow => b.problem[b.sub[s].problem].series # NoRow

UniqueLabels(b) ==
  \A s, u \in 1..MaxSub :
    b.sub[s].problem # NoRow /\ b.sub[s].problem = b.sub[u].problem
      /\ b.sub[s].label = b.sub[u].label => s = u

UniqueNumbers(b) ==
  \A p, q \in 1..MaxProblem :
    b.problem[p].series # NoRow /\ b.problem[p].series = b.problem[q].series
      /\ b.problem[p].number = b.problem[q].number => p = q

Sound(b) == /\ b \in Tables /\ b.ok = TRUE
            /\ Fresh(b) /\ PartsHang(b) /\ UniqueLabels(b) /\ UniqueNumbers(b)

\* From b to c, parts were added to problem p, and nothing else was done.
PartsAdded(b, c, p) ==
  /\ c.problem = b.problem /\ c.nextProblem = b.nextProblem
  /\ \A s \in 1..MaxSub : b.sub[s].problem # NoRow => c.sub[s] = b.sub[s]
  /\ \A s \in 1..MaxSub : c.sub[s] # b.sub[s] => c.sub[s].problem = p

\* An INSERT of a part whose label the problem does not have.
LEMMA CreateSubproblemDoes ==
  ASSUME NEW b, Sound(b), NEW p \in 1..MaxProblem, b.problem[p].series # NoRow,
         NEW l \in 0..MaxCount, l \notin Labels(b, p), b.nextSub <= MaxSub,
         NEW c, c = CreateSubproblem(b, p, l)
  PROVE  /\ Sound(c) /\ PartsAdded(b, c, p) /\ Labels(c, p) = Labels(b, p) \cup {l}
         /\ c.nextSub = b.nextSub + 1
  <1>1. /\ c.problem = b.problem /\ c.nextProblem = b.nextProblem
        /\ c.nextSub = b.nextSub + 1 /\ c.ok = TRUE
        /\ c.sub = [b.sub EXCEPT ![b.nextSub] = [problem |-> p, label |-> l]]
    BY DEF Sound, Tables, CreateSubproblem, Labels
  <1>2. b.nextSub \in 1..MaxSub /\ b.sub[b.nextSub].problem = NoRow
    BY BoardConstantsOK, SMTT(30) DEF Sound, Tables, Fresh
  <1>3. /\ b \in Tables /\ b.sub \in [1..MaxSub -> Subproblem]
        /\ b.nextSub \in 1..(MaxSub + 1) /\ b.nextProblem \in 1..(MaxProblem + 1)
    BY DEF Sound, Tables
  <1>13. [problem |-> p, label |-> l] \in Subproblem
    BY BoardConstantsOK DEF Subproblem
  <1>4. /\ \A s \in 1..MaxSub : s # b.nextSub => c.sub[s] = b.sub[s]
        /\ c.sub[b.nextSub] = [problem |-> p, label |-> l]
        /\ c.sub \in [1..MaxSub -> Subproblem]
    BY <1>1, <1>2, <1>3, <1>13
  <1>14. c.nextSub \in 1..(MaxSub + 1)
    BY <1>1, <1>2, BoardConstantsOK
  <1>16. c.ok \in BOOLEAN
    BY <1>1, Zenon
  <1>5. c \in Tables
    BY <1>3, <1>4, <1>14, <1>16 DEF Tables, CreateSubproblem
  <1>6. Fresh(c)
    BY <1>1, <1>2, <1>3, <1>4 DEF Sound, Fresh
  <1>15. PartsHang(c)
    BY <1>1, <1>2, <1>4 DEF Sound, PartsHang
  <1>7. p # NoRow
    BY DEF NoRow
  <1>8. UniqueLabels(c)
    BY <1>1, <1>2, <1>4, <1>7 DEF Sound, UniqueLabels, Labels, ListSubproblems
  <1>9. UniqueNumbers(c)
    BY <1>1 DEF Sound, UniqueNumbers
  <1>10. PartsAdded(b, c, p)
    BY <1>1, <1>2, <1>4 DEF PartsAdded
  <1>11. Labels(c, p) = Labels(b, p) \cup {l}
    <2>1. ListSubproblems(c, p) = ListSubproblems(b, p) \cup {b.nextSub}
      BY <1>2, <1>4 DEF ListSubproblems
    <2>2. b.nextSub \notin ListSubproblems(b, p)
      BY <1>2, <1>7 DEF ListSubproblems
    <2>3. \A s \in ListSubproblems(b, p) : c.sub[s] = b.sub[s]
      BY <1>4, <2>2 DEF ListSubproblems
    <2>4. QED
      BY <1>4, <2>1, <2>3 DEF Labels
  <1>12. QED
    BY <1>1, <1>5, <1>6, <1>8, <1>9, <1>10, <1>11, <1>15 DEF Sound

\* An INSERT of a problem whose number the series does not have: it has no part.
LEMMA CreateProblemDoes ==
  ASSUME NEW b, Sound(b), NEW i \in 1..MaxSeries, NEW n \in Int, ~NumberTaken(b, i, n),
         b.nextProblem <= MaxProblem,
         NEW c, c = CreateProblem(b, i, n)
  PROVE  /\ Sound(c) /\ c.sub = b.sub /\ c.nextSub = b.nextSub
         /\ c.nextProblem = b.nextProblem + 1 /\ b.nextProblem \in 1..MaxProblem
         /\ b.problem[b.nextProblem].series = NoRow
         /\ c.problem[b.nextProblem] = [series |-> i, number |-> n]
         /\ \A p \in 1..MaxProblem : p # b.nextProblem => c.problem[p] = b.problem[p]
         /\ Labels(c, b.nextProblem) = {}
  <1>1. /\ b \in Tables /\ b.problem \in [1..MaxProblem -> [series : 0..MaxSeries, number : Int]]
        /\ b.sub \in [1..MaxSub -> Subproblem]
        /\ b.nextProblem \in 1..(MaxProblem + 1)
    BY DEF Sound, Tables
  <1>2. /\ c.sub = b.sub /\ c.nextSub = b.nextSub /\ c.nextProblem = b.nextProblem + 1
        /\ c.problem = [b.problem EXCEPT ![b.nextProblem] = [series |-> i, number |-> n]]
    BY <1>1 DEF Tables, CreateProblem
  <1>3. c.ok = TRUE
    <2>1. c.ok = (b.ok /\ ~NumberTaken(b, i, n))
      BY <1>1 DEF Tables, CreateProblem
    <2>2. QED
      BY <2>1 DEF Sound
  <1>4. b.nextProblem \in 1..MaxProblem /\ b.problem[b.nextProblem].series = NoRow
    BY <1>1, BoardConstantsOK, SMTT(30) DEF Sound, Fresh
  <1>5. [series |-> i, number |-> n] \in [series : 0..MaxSeries, number : Int]
    BY BoardConstantsOK
  <1>6. /\ c.problem \in [1..MaxProblem -> [series : 0..MaxSeries, number : Int]]
        /\ c.problem[b.nextProblem] = [series |-> i, number |-> n]
        /\ \A p \in 1..MaxProblem : p # b.nextProblem => c.problem[p] = b.problem[p]
    <2> DEFINE row == [series |-> i, number |-> n]
               P == [series : 0..MaxSeries, number : Int]
    <2>1. row \in P
      BY <1>5
    <2>2. c.problem = [b.problem EXCEPT ![b.nextProblem] = row]
      BY <1>2
    <2>3. b.problem \in [1..MaxProblem -> P] /\ b.nextProblem \in 1..MaxProblem
      BY <1>1, <1>4
    <2> HIDE DEF row, P
    <2>4. /\ c.problem \in [1..MaxProblem -> P] /\ c.problem[b.nextProblem] = row
          /\ \A p \in 1..MaxProblem : p # b.nextProblem => c.problem[p] = b.problem[p]
      BY <2>1, <2>2, <2>3
    <2>5. QED
      BY <2>4 DEF row, P
  <1>7. c.nextProblem \in 1..(MaxProblem + 1)
    BY <1>2, <1>4, BoardConstantsOK
  <1>8. c.ok \in BOOLEAN
    BY <1>3, Zenon
  <1>9. c \in Tables
    BY <1>1, <1>6, <1>7, <1>8 DEF Tables, CreateProblem
  <1>10. Fresh(c)
    BY <1>1, <1>2, <1>6 DEF Sound, Fresh
  <1>11. PartsHang(c)
    BY <1>1, <1>2, <1>4, <1>6 DEF Sound, PartsHang, NoRow, Subproblem
  <1>12. UniqueLabels(c)
    BY <1>2 DEF Sound, UniqueLabels
  <1>13. UniqueNumbers(c)
    <2>1. \A p \in 1..MaxProblem : b.problem[p].series = i => b.problem[p].number # n
      BY DEF NumberTaken, ListProblemsForSeries
    <2>2. ASSUME NEW p \in 1..MaxProblem, NEW q \in 1..MaxProblem,
                 c.problem[p].series # NoRow, c.problem[p].series = c.problem[q].series,
                 c.problem[p].number = c.problem[q].number
          PROVE  p = q
      <3>1. CASE p = b.nextProblem \/ q = b.nextProblem
        BY <1>6, <2>1, <2>2, <3>1
      <3>2. CASE p # b.nextProblem /\ q # b.nextProblem
        BY <1>6, <2>2, <3>2 DEF Sound, UniqueNumbers
      <3>3. QED
        BY <3>1, <3>2
    <2>3. QED
      BY <2>2 DEF UniqueNumbers
  <1>14. \A s \in 1..MaxSub : b.sub[s].problem # b.nextProblem
    BY <1>4 DEF Sound, PartsHang, NoRow
  <1>15. Labels(c, b.nextProblem) = {}
    BY <1>2, <1>14 DEF Labels, ListSubproblems
  <1>16. QED
    BY <1>2, <1>3, <1>4, <1>6, <1>9, <1>10, <1>11, <1>12, <1>13, <1>15 DEF Sound

\* An UPDATE of a number to one that no other problem of the series has.
LEMMA SetProblemNumberDoes ==
  ASSUME NEW b, Sound(b), NEW p \in 1..MaxProblem, b.problem[p].series # NoRow, NEW n \in Int,
         \A q \in 1..MaxProblem :
           b.problem[q].series = b.problem[p].series /\ q # p => b.problem[q].number # n,
         NEW c, c = SetProblemNumber(b, p, n)
  PROVE  /\ Sound(c) /\ c.sub = b.sub
         /\ c.nextSub = b.nextSub /\ c.nextProblem = b.nextProblem
         /\ c.problem[p] = [series |-> b.problem[p].series, number |-> n]
         /\ \A q \in 1..MaxProblem : q # p => c.problem[q] = b.problem[q]
  <1>1. b \in Tables /\ b.problem \in [1..MaxProblem -> [series : 0..MaxSeries, number : Int]]
    BY DEF Sound, Tables
  <1>2. /\ c.sub = b.sub /\ c.nextSub = b.nextSub /\ c.nextProblem = b.nextProblem
        /\ c.problem = [b.problem EXCEPT ![p].number = n]
    BY <1>1 DEF Tables, SetProblemNumber
  <1>3. c.ok = TRUE
    <2>1. c.ok = (b.ok /\ \A q \in ListProblemsForSeries(b, b.problem[p].series) :
                            q # p => b.problem[q].number # n)
      BY <1>1 DEF Tables, SetProblemNumber
    <2>2. \A q \in ListProblemsForSeries(b, b.problem[p].series) :
            q # p => b.problem[q].number # n
      BY DEF ListProblemsForSeries
    <2>3. QED
      BY <2>1, <2>2 DEF Sound
  <1>4. /\ c.problem \in [1..MaxProblem -> [series : 0..MaxSeries, number : Int]]
        /\ c.problem[p] = [series |-> b.problem[p].series, number |-> n]
        /\ \A q \in 1..MaxProblem : q # p => c.problem[q] = b.problem[q]
    <2> DEFINE P == [series : 0..MaxSeries, number : Int]
               row == [series |-> b.problem[p].series, number |-> n]
    <2>1. b.problem[p] \in P
      BY <1>1
    <2>2. [b.problem[p] EXCEPT !.number = n] = row /\ row \in P
      BY <2>1
    <2>3. c.problem = [b.problem EXCEPT ![p] = row]
      BY <1>1, <1>2, <2>2
    <2>4. b.problem \in [1..MaxProblem -> P] /\ row \in P
      BY <1>1, <2>2
    <2> HIDE DEF row, P
    <2>5. /\ c.problem \in [1..MaxProblem -> P] /\ c.problem[p] = row
          /\ \A q \in 1..MaxProblem : q # p => c.problem[q] = b.problem[q]
      BY <2>3, <2>4
    <2>6. QED
      BY <2>5 DEF row, P
  <1>5. \A q \in 1..MaxProblem : c.problem[q].series = b.problem[q].series
    BY <1>4
  <1>6. c.ok \in BOOLEAN
    BY <1>3, Zenon
  <1>7. c \in Tables
    BY <1>1, <1>4, <1>6 DEF Tables, SetProblemNumber
  <1>8. Fresh(c)
    BY <1>2, <1>5 DEF Sound, Fresh
  <1>9. PartsHang(c)
    <2>1. \A s \in 1..MaxSub : b.sub[s].problem \in 0..MaxProblem
      BY <1>1 DEF Tables, Subproblem
    <2>2. QED
      BY <1>2, <1>5, <2>1 DEF Sound, PartsHang, NoRow
  <1>10. UniqueLabels(c)
    BY <1>2 DEF Sound, UniqueLabels
  <1>11. UniqueNumbers(c)
    BY <1>4, <1>5 DEF Sound, UniqueNumbers
  <1>12. QED
    BY <1>2, <1>3, <1>4, <1>7, <1>8, <1>9, <1>10, <1>11 DEF Sound

\* The numbers of payloads are above those of parked problems.
LEMMA NumbersAreNatural == \A n \in Numbers : n \in Int /\ n >= 0
  BY BoardConstantsOK

\* The number of a row that is not there is one of them too.
LEMMA NumberExists == (CHOOSE n \in Numbers : TRUE) \in Numbers
  <1>1. \E n : n \in Numbers
    BY BoardConstantsOK
  <1>2. QED
    BY <1>1

\* A DELETE of parts.
LEMMA DeleteSubproblemsDoes ==
  ASSUME NEW b, Sound(b), NEW ss \in SUBSET (1..MaxSub),
         NEW c, c = DeleteSubproblems(b, ss)
  PROVE  /\ Sound(c) /\ c.problem = b.problem
         /\ c.nextSub = b.nextSub /\ c.nextProblem = b.nextProblem
         /\ \A s \in 1..MaxSub : c.sub[s] = IF s \in ss THEN NoSubproblem ELSE b.sub[s]
  <1>1. b \in Tables /\ b.sub \in [1..MaxSub -> Subproblem] /\ b.ok = TRUE
    BY DEF Sound, Tables
  <1>2. /\ c.problem = b.problem /\ c.nextSub = b.nextSub /\ c.nextProblem = b.nextProblem
        /\ c.ok = b.ok
        /\ c.sub = [s \in 1..MaxSub |-> IF s \in ss THEN NoSubproblem ELSE b.sub[s]]
    BY <1>1 DEF Tables, DeleteSubproblems
  <1>3. NoSubproblem \in Subproblem /\ NoSubproblem.problem = NoRow
    BY BoardConstantsOK DEF NoSubproblem, Subproblem, NoRow
  <1>4. /\ c.sub \in [1..MaxSub -> Subproblem]
        /\ \A s \in 1..MaxSub : c.sub[s] = IF s \in ss THEN NoSubproblem ELSE b.sub[s]
    <2>1. \A s \in 1..MaxSub : c.sub[s] = IF s \in ss THEN NoSubproblem ELSE b.sub[s]
      BY <1>2
    <2>2. \A s \in 1..MaxSub : b.sub[s] \in Subproblem
      BY <1>1
    <2>3. \A s \in 1..MaxSub : c.sub[s] \in Subproblem
      BY <1>3, <2>1, <2>2
    <2>4. c.sub = [s \in 1..MaxSub |-> c.sub[s]]
      BY <1>2, <2>1
    <2>5. QED
      BY <2>1, <2>3, <2>4
  <1>5. c \in Tables
    BY <1>1, <1>4 DEF Tables, DeleteSubproblems
  <1>6. \A s \in 1..MaxSub : c.sub[s].problem # NoRow => c.sub[s] = b.sub[s]
    BY <1>3, <1>4
  <1>7. Fresh(c)
    BY <1>2, <1>6 DEF Sound, Fresh
  <1>8. PartsHang(c) /\ UniqueLabels(c)
    BY <1>2, <1>6 DEF Sound, PartsHang, UniqueLabels
  <1>9. UniqueNumbers(c)
    BY <1>2 DEF Sound, UniqueNumbers
  <1>10. QED
    BY <1>1, <1>2, <1>4, <1>5, <1>7, <1>8, <1>9 DEF Sound

\* A DELETE of problems, with their parts.
LEMMA DeleteProblemsDoes ==
  ASSUME NEW b, Sound(b), NEW ps \in SUBSET (1..MaxProblem),
         NEW c, c = DeleteProblems(b, ps)
  PROVE  /\ Sound(c) /\ c.nextSub = b.nextSub /\ c.nextProblem = b.nextProblem
         /\ \A p \in 1..MaxProblem : c.problem[p] = IF p \in ps THEN NoProblem ELSE b.problem[p]
         /\ \A s \in 1..MaxSub :
              c.sub[s] = IF b.sub[s].problem \in ps THEN NoSubproblem ELSE b.sub[s]
  <1>1. /\ b \in Tables /\ b.sub \in [1..MaxSub -> Subproblem] /\ b.ok = TRUE
        /\ b.problem \in [1..MaxProblem -> [series : 0..MaxSeries, number : Int]]
    BY DEF Sound, Tables
  <1>2. c.nextSub = b.nextSub /\ c.nextProblem = b.nextProblem /\ c.ok = b.ok
    BY <1>1 DEF Tables, DeleteProblems
  <1>14. c.problem = [p \in 1..MaxProblem |-> IF p \in ps THEN NoProblem ELSE b.problem[p]]
    BY <1>1 DEF Tables, DeleteProblems
  <1>15. c.sub = [s \in 1..MaxSub |->
                    IF b.sub[s].problem \in ps THEN NoSubproblem ELSE b.sub[s]]
    BY <1>1 DEF Tables, DeleteProblems
  <1>16. b.sub \in [1..MaxSub -> Subproblem]
    BY <1>1
  <1>17. b.problem \in [1..MaxProblem -> [series : 0..MaxSeries, number : Int]]
    BY <1>1
  <1>12. NoSubproblem \in Subproblem /\ NoSubproblem.problem = NoRow
    BY BoardConstantsOK DEF NoSubproblem, Subproblem, NoRow
  <1>13. NoProblem.series = NoRow /\ NoProblem \in [series : 0..MaxSeries, number : Int]
    <2>1. NoProblem.series = NoRow /\ NoProblem.number = CHOOSE n \in Numbers : TRUE
      BY DEF NoProblem
    <2>2. NoProblem.number \in Numbers
      BY <2>1, NumberExists
    <2>3. NoProblem = [series |-> NoProblem.series, number |-> NoProblem.number]
      BY DEF NoProblem
    <2>4. NoRow \in 0..MaxSeries
      BY BoardConstantsOK DEF NoRow
    <2>5. QED
      BY <2>1, <2>2, <2>3, <2>4, BoardConstantsOK
  <1>3. /\ NoSubproblem \in Subproblem /\ NoSubproblem.problem = NoRow
        /\ NoProblem.series = NoRow /\ NoProblem \in [series : 0..MaxSeries, number : Int]
    BY <1>12, <1>13
  <1>4. /\ c.sub \in [1..MaxSub -> Subproblem]
        /\ c.problem \in [1..MaxProblem -> [series : 0..MaxSeries, number : Int]]
        /\ \A p \in 1..MaxProblem : c.problem[p] = IF p \in ps THEN NoProblem ELSE b.problem[p]
        /\ \A s \in 1..MaxSub :
             c.sub[s] = IF b.sub[s].problem \in ps THEN NoSubproblem ELSE b.sub[s]
    <2> DEFINE Row == [series : 0..MaxSeries, number : Int]
    <2> HIDE DEF Row
    <2>1. c.sub \in [1..MaxSub -> Subproblem]
      BY <1>12, <1>15, <1>16
    <2>2. c.problem \in [1..MaxProblem -> Row]
      BY <1>13, <1>14, <1>17 DEF Row
    <2>3. QED
      BY <1>14, <1>15, <2>1, <2>2 DEF Row
  <1>5. c \in Tables
    BY <1>1, <1>4 DEF Tables, DeleteProblems
  <1>6. /\ \A s \in 1..MaxSub : c.sub[s].problem # NoRow =>
             c.sub[s] = b.sub[s] /\ b.sub[s].problem \notin ps
        /\ \A p \in 1..MaxProblem : c.problem[p].series # NoRow => c.problem[p] = b.problem[p]
    BY <1>3, <1>4
  <1>7. Fresh(c)
    BY <1>2, <1>6 DEF Sound, Fresh
  <1>8. PartsHang(c)
    <2>1. \A s \in 1..MaxSub : b.sub[s].problem \in 0..MaxProblem
      BY <1>1 DEF Subproblem
    <2>2. ASSUME NEW s \in 1..MaxSub, c.sub[s].problem # NoRow
          PROVE  c.problem[c.sub[s].problem].series # NoRow
      <3>1. c.sub[s] = b.sub[s] /\ b.sub[s].problem \notin ps
        BY <1>6, <2>2
      <3>2. b.sub[s].problem \in 1..MaxProblem
        BY <2>1, <2>2, <3>1, BoardConstantsOK DEF NoRow
      <3>3. b.problem[b.sub[s].problem].series # NoRow
        BY <2>2, <3>1 DEF Sound, PartsHang
      <3>4. QED
        BY <1>4, <3>1, <3>2, <3>3
    <2>3. QED
      BY <2>2 DEF PartsHang
  <1>9. UniqueLabels(c)
    BY <1>6 DEF Sound, UniqueLabels
  <1>10. UniqueNumbers(c)
    BY <1>6 DEF Sound, UniqueNumbers
  <1>11. QED
    BY <1>1, <1>2, <1>4, <1>5, <1>7, <1>8, <1>9, <1>10 DEF Sound
-----------------------------------------------------------------------------
(* The parts of a problem.                                                 *)

\* The labels a count asks for are different ones.
Asked(count) == ToSet(DesiredLabels(count))

\* DesiredSubproblemLabels: the labels of a count are different ones, in its range.
LEMMA DesiredLabelsAre ==
  ASSUME NEW count \in 0..MaxCount
  PROVE  /\ Len(DesiredLabels(count)) \in Nat
         /\ DOMAIN DesiredLabels(count) = 1..Len(DesiredLabels(count))
         /\ \A n \in 1..Len(DesiredLabels(count)) : DesiredLabels(count)[n] \in 0..MaxCount
         /\ \A m, n \in 1..Len(DesiredLabels(count)) :
              DesiredLabels(count)[m] = DesiredLabels(count)[n] => m = n
         /\ Asked(count) = {DesiredLabels(count)[n] : n \in 1..Len(DesiredLabels(count))}
         /\ Asked(count) = IF count = 0 THEN {0} ELSE 1..count
  <1> DEFINE d == DesiredLabels(count)
  <1>0. count \in Nat /\ count <= MaxCount /\ MaxCount \in Nat
    BY BoardConstantsOK
  <1>1. CASE count = 0
    <2>1. d = <<0>>
      BY <1>1 DEF DesiredLabels
    <2>2. Len(d) = 1 /\ DOMAIN d = 1..1 /\ d[1] = 0
      BY <2>1
    <2> HIDE DEF d
    <2>3. Asked(count) = {0}
      BY <2>2 DEF Asked, ToSet, d
    <2>4. QED
      BY <1>0, <1>1, <2>2, <2>3 DEF d
  <1>2. CASE count # 0
    <2>1. d = [l \in 1..count |-> l]
      BY <1>2 DEF DesiredLabels, SubproblemLabels
    <2>2. d \in Seq(1..count)
      BY <1>0, <2>1
    <2>3. DOMAIN d = 1..count
      BY <2>1
    <2>4. Len(d) = count
      BY <1>0, <2>2, <2>3, LenProperties
    <2>5. \A l \in 1..count : d[l] = l
      BY <2>1
    <2> HIDE DEF d
    <2>6. Asked(count) = 1..count
      BY <2>3, <2>5 DEF Asked, ToSet, d
    <2>7. Asked(count) = {d[n] : n \in 1..Len(d)}
      BY <2>3, <2>4 DEF Asked, ToSet, d
    <2>8. \A n \in 1..Len(d) : d[n] \in 0..MaxCount
      BY <1>0, <2>4, <2>5
    <2>9. QED
      BY <1>0, <1>2, <2>3, <2>4, <2>5, <2>6, <2>7, <2>8 DEF d
  <1>3. QED
    BY <1>1, <1>2

\* Added to what was added before, a part is still all that happened.
LEMMA PartsAddedTwice ==
  ASSUME NEW a, NEW b, NEW c, NEW p \in 1..MaxProblem, PartsAdded(a, b, p), PartsAdded(b, c, p)
  PROVE  PartsAdded(a, c, p)
  BY DEF PartsAdded, NoRow

\* The loop over the labels of a problem adds what is missing: the parts that
\* are there keep their rows, and in the end the problem has every label.
LEMMA InsertLabelsDoes ==
  ASSUME NEW b, Sound(b), NEW p \in 1..MaxProblem, b.problem[p].series # NoRow,
         NEW count \in 0..MaxCount, NEW have,
         \A l \in Asked(count) : l \in have <=> l \in Labels(b, p),
         b.nextSub + Len(DesiredLabels(count)) <= MaxSub + 1,
         NEW c, c = InsertLabels(b, p, DesiredLabels(count), have)
  PROVE  /\ Sound(c) /\ PartsAdded(b, c, p) /\ Labels(c, p) = Labels(b, p) \cup Asked(count)
         /\ c.nextSub \in b.nextSub..(b.nextSub + Len(DesiredLabels(count)))
  <1> DEFINE d == DesiredLabels(count)
  <1>1. /\ Len(d) \in Nat /\ \A n \in 1..Len(d) : d[n] \in 0..MaxCount /\ d[n] \in Asked(count)
        /\ \A m, n \in 1..Len(d) : d[m] = d[n] => m = n
        /\ Asked(count) = {d[n] : n \in 1..Len(d)}
    BY DesiredLabelsAre
  <1> HIDE DEF d
  <1>2. PICK run : /\ run[0] = b
                   /\ \A n \in 1..Len(d) : run[n] = InsertMissing(run[n - 1], p, d[n], have)
                   /\ c = run[Len(d)]
    BY <1>1, InsertLabelsRuns DEF d
  <1> DEFINE Upto(n) == {d[k] : k \in 1..n}
             Good(n) == /\ Sound(run[n]) /\ PartsAdded(b, run[n], p)
                        /\ Labels(run[n], p) = Labels(b, p) \cup Upto(n)
                        /\ run[n].nextSub \in b.nextSub..(b.nextSub + n)
             S == {n \in Nat : n <= Len(d) => Good(n)}
  <1>3. b.nextSub \in Nat
    BY DEF Sound, Tables
  <1>4. 0 \in S
    <2>1. Upto(0) = {}
      OBVIOUS
    <2>2. PartsAdded(b, b, p)
      BY DEF PartsAdded
    <2>3. Good(0)
      BY <1>2, <1>3, <2>1, <2>2
    <2>4. QED
      BY <2>3
  <1>5. ASSUME NEW n \in Nat, n \in S PROVE n + 1 \in S
    <2>1. SUFFICES ASSUME n + 1 <= Len(d) PROVE Good(n + 1)
      OBVIOUS
    <2>2. Good(n)
      BY <1>1, <1>5, <2>1
    <2>3. n + 1 \in 1..Len(d) /\ (n + 1) - 1 = n
      BY <1>1, <2>1
    <2>4. run[n + 1] = InsertMissing(run[n], p, d[n + 1], have)
      BY <1>2, <2>3
    <2>5. Upto(n + 1) = Upto(n) \cup {d[n + 1]}
      OBVIOUS
    <2>6. d[n + 1] \notin Upto(n)
      BY <1>1, <2>3
    <2>7. d[n + 1] \in have <=> d[n + 1] \in Labels(b, p)
      BY <1>1, <2>3
    <2>8. run[n].problem[p].series # NoRow
      BY <2>2 DEF PartsAdded
    <2> HIDE DEF Upto
    <2>9. CASE d[n + 1] \in have
      <3>1. run[n + 1] = run[n]
        BY <2>4, <2>9 DEF InsertMissing
      <3>2. Labels(run[n], p) = Labels(b, p) \cup Upto(n + 1)
        BY <2>2, <2>5, <2>7, <2>9
      <3>3. run[n].nextSub \in b.nextSub..(b.nextSub + (n + 1))
        BY <1>3, <2>2
      <3>4. QED
        BY <2>2, <3>1, <3>2, <3>3
    <2>10. CASE d[n + 1] \notin have
      <3>1. run[n + 1] = CreateSubproblem(run[n], p, d[n + 1])
        BY <2>4, <2>10 DEF InsertMissing
      <3>2. d[n + 1] \notin Labels(run[n], p)
        BY <2>2, <2>6, <2>7, <2>10
      <3>3. run[n].nextSub <= MaxSub
        BY <1>1, <1>3, <2>1, <2>2, BoardConstantsOK DEF d
      <3>4. d[n + 1] \in 0..MaxCount
        BY <1>1, <2>3
      <3>5. /\ Sound(run[n + 1]) /\ PartsAdded(run[n], run[n + 1], p)
            /\ Labels(run[n + 1], p) = Labels(run[n], p) \cup {d[n + 1]}
            /\ run[n + 1].nextSub = run[n].nextSub + 1
        BY <2>2, <2>8, <3>1, <3>2, <3>3, <3>4, CreateSubproblemDoes
      <3>6. PartsAdded(b, run[n + 1], p)
        BY <2>2, <3>5, PartsAddedTwice
      <3>7. Labels(run[n + 1], p) = Labels(b, p) \cup Upto(n + 1)
        BY <2>2, <2>5, <3>5
      <3>8. run[n + 1].nextSub \in b.nextSub..(b.nextSub + (n + 1))
        BY <1>3, <2>2, <3>5
      <3>9. QED
        BY <3>5, <3>6, <3>7, <3>8
    <2>11. QED
      BY <2>9, <2>10
  <1>6. Good(Len(d))
    <2> HIDE DEF Good
    <2>1. Len(d) \in S
      BY <1>1, <1>4, <1>5, NatInduct
    <2>2. QED
      BY <1>1, <2>1
  <1>7. QED
    BY <1>1, <1>2, <1>6 DEF d

\* From b to c, problem p of series i became what spec asks for, and nothing else
\* was done: the parts that it keeps are in their rows.
Settles(b, c, i, spec, p) ==
  /\ c.problem[p] = [series |-> i, number |-> spec.number]
  /\ Labels(c, p) = Asked(spec.count)
  /\ \A q \in 1..MaxProblem : q # p => c.problem[q] = b.problem[q]
  /\ \A s \in 1..MaxSub : b.sub[s].problem \notin {NoRow, p} => c.sub[s] = b.sub[s]
  /\ \A s \in 1..MaxSub : c.sub[s].problem \notin {NoRow, p} => c.sub[s] = b.sub[s]
  /\ \A s \in 1..MaxSub :
       b.sub[s].problem = p /\ b.sub[s].label \in Asked(spec.count) => c.sub[s] = b.sub[s]

\* The problem a spec is about: the kept one, or the next one.
Target(b, spec) == IF spec.id = NoRow THEN b.nextProblem ELSE spec.id

\* One turn of the last loop: a number that no other problem of the series has,
\* and the parts asked for.
LEMMA SettleDoes ==
  ASSUME NEW b, Sound(b), NEW i \in 1..MaxSeries, NEW spec \in Spec1,
         spec.id = NoRow => b.nextProblem <= MaxProblem,
         spec.id # NoRow => b.problem[spec.id].series = i,
         \A q \in 1..MaxProblem :
           b.problem[q].series = i /\ q # spec.id => b.problem[q].number # spec.number,
         b.nextSub + Len(DesiredLabels(spec.count)) <= MaxSub + 1,
         NEW c, c = Settle(b, i, spec)
  PROVE  /\ Sound(c) /\ Target(b, spec) \in 1..MaxProblem
         /\ Settles(b, c, i, spec, Target(b, spec))
         /\ spec.id = NoRow => b.problem[Target(b, spec)].series = NoRow
         /\ c.nextProblem = IF spec.id = NoRow THEN b.nextProblem + 1 ELSE b.nextProblem
         /\ c.nextSub \in b.nextSub..(b.nextSub + Len(DesiredLabels(spec.count)))
  <1>1. /\ spec.id \in 0..MaxProblem /\ spec.number \in Int /\ spec.count \in 0..MaxCount
        /\ i # NoRow
    <2>1. spec.id \in 0..MaxProblem /\ spec.number \in Numbers /\ spec.count \in 0..MaxCount
      BY DEF Spec1
    <2>2. i # NoRow
      BY DEF NoRow
    <2>3. QED
      BY <2>1, <2>2, NumbersAreNatural
  <1>2. CASE spec.id = NoRow
    <2> DEFINE p == b.nextProblem
               y == CreateProblem(b, i, spec.number)
               none == {}
    <2>1. ~NumberTaken(b, i, spec.number)
      BY <1>2 DEF NumberTaken, ListProblemsForSeries, NoRow
    <2>2. /\ Sound(y) /\ y.sub = b.sub /\ y.nextSub = b.nextSub
          /\ y.nextProblem = b.nextProblem + 1 /\ p \in 1..MaxProblem
          /\ b.problem[p].series = NoRow
          /\ y.problem[p] = [series |-> i, number |-> spec.number]
          /\ \A q \in 1..MaxProblem : q # p => y.problem[q] = b.problem[q]
          /\ Labels(y, p) = {}
      BY <1>1, <1>2, <2>1, CreateProblemDoes
    <2>3. c = InsertLabels(y, p, DesiredLabels(spec.count), none)
      BY <1>2 DEF Settle, WriteProblem, WriteSubproblems
    <2>5. \A l \in Asked(spec.count) : l \in none <=> l \in Labels(y, p)
      BY <2>2
    <2> HIDE DEF p, y, none
    <2>4. y.problem[p].series # NoRow
      BY <1>1, <2>2
    <2>11. y.nextSub + Len(DesiredLabels(spec.count)) <= MaxSub + 1
      BY <2>2
    <2>12. Sound(y) /\ p \in 1..MaxProblem /\ spec.count \in 0..MaxCount
      BY <1>1, <2>2
    <2>13. /\ y.sub = b.sub /\ y.nextSub = b.nextSub /\ y.nextProblem = b.nextProblem + 1
           /\ y.problem[p] = [series |-> i, number |-> spec.number]
           /\ \A q \in 1..MaxProblem : q # p => y.problem[q] = b.problem[q]
           /\ Labels(y, p) = {}
      BY <2>2
    <2>6. /\ Sound(c) /\ PartsAdded(y, c, p)
          /\ Labels(c, p) = Labels(y, p) \cup Asked(spec.count)
          /\ c.nextSub \in y.nextSub..(y.nextSub + Len(DesiredLabels(spec.count)))
      BY <2>3, <2>4, <2>5, <2>11, <2>12, InsertLabelsDoes
    <2>14. p # NoRow
      BY <2>12 DEF NoRow
    <2>7. Settles(b, c, i, spec, p)
      BY <2>6, <2>13, <2>14 DEF Settles, PartsAdded
    <2>8. Target(b, spec) = p
      BY <1>2 DEF Target, p
    <2>9. c.nextProblem = b.nextProblem + 1
      BY <2>6, <2>13 DEF PartsAdded
    <2>10. QED
      BY <1>2, <2>2, <2>6, <2>7, <2>8, <2>9
  <1>3. CASE spec.id # NoRow
    <2> DEFINE p == spec.id
               y == SetProblemNumber(b, p, spec.number)
               surplus == {s \in ListSubproblems(y, p) :
                             y.sub[s].label \notin ToSet(DesiredLabels(spec.count))}
               w == DeleteSubproblems(y, surplus)
    <2>1. p \in 1..MaxProblem /\ b.problem[p].series = i
      BY <1>1, <1>3, BoardConstantsOK DEF NoRow
    <2>2. /\ Sound(y) /\ y.sub = b.sub
          /\ y.nextSub = b.nextSub /\ y.nextProblem = b.nextProblem
          /\ y.problem[p] = [series |-> i, number |-> spec.number]
          /\ \A q \in 1..MaxProblem : q # p => y.problem[q] = b.problem[q]
      <3>1. /\ b.problem[p].series # NoRow
            /\ \A q \in 1..MaxProblem :
                 b.problem[q].series = b.problem[p].series /\ q # p =>
                   b.problem[q].number # spec.number
        BY <1>1, <2>1
      <3>2. spec.number \in Int /\ Sound(b)
        BY <1>1
      <3>3. y = SetProblemNumber(b, p, spec.number)
        OBVIOUS
      <3> HIDE DEF p, y, surplus, w
      <3>4. QED
        BY <2>1, <3>1, <3>2, <3>3, SetProblemNumberDoes
    <2>3. c = InsertLabels(w, p, DesiredLabels(spec.count), Labels(y, p))
      BY <1>3 DEF Settle, ReconcileSubproblems
    <2> HIDE DEF p, y
    <2>4. surplus = {s \in 1..MaxSub : y.sub[s].problem = p
                                       /\ y.sub[s].label \notin Asked(spec.count)}
      BY DEF ListSubproblems, Asked
    <2>5. surplus \in SUBSET (1..MaxSub)
      BY <2>4
    <2> HIDE DEF surplus
    <2>6. /\ Sound(w) /\ w.problem = y.problem
          /\ w.nextSub = y.nextSub /\ w.nextProblem = y.nextProblem
          /\ \A s \in 1..MaxSub : w.sub[s] = IF s \in surplus THEN NoSubproblem ELSE y.sub[s]
      BY <2>2, <2>5, DeleteSubproblemsDoes
    <2> HIDE DEF w
    <2>7. p # NoRow /\ NoSubproblem.problem = NoRow
      BY <1>3 DEF p, NoSubproblem
    <2>8. \A l : l \in Labels(w, p) <=> l \in Labels(y, p) /\ l \in Asked(spec.count)
      BY <2>4, <2>6, <2>7 DEF Labels, ListSubproblems
    <2>9. w.problem[p].series # NoRow
      BY <1>1, <2>2, <2>6
    <2>10. w.nextSub + Len(DesiredLabels(spec.count)) <= MaxSub + 1
      BY <2>2, <2>6
    <2>11. \A l \in Asked(spec.count) : l \in Labels(y, p) <=> l \in Labels(w, p)
      BY <2>8
    <2>12. /\ Sound(c) /\ PartsAdded(w, c, p)
           /\ Labels(c, p) = Labels(w, p) \cup Asked(spec.count)
           /\ c.nextSub \in w.nextSub..(w.nextSub + Len(DesiredLabels(spec.count)))
      BY <1>1, <2>1, <2>3, <2>6, <2>9, <2>10, <2>11, InsertLabelsDoes DEF p
    <2>13. Labels(c, p) = Asked(spec.count)
      BY <2>8, <2>12
    <2>14. \A s \in 1..MaxSub :
             /\ b.sub[s].problem \notin {NoRow, p} => c.sub[s] = b.sub[s]
             /\ c.sub[s].problem \notin {NoRow, p} => c.sub[s] = b.sub[s]
             /\ b.sub[s].problem = p /\ b.sub[s].label \in Asked(spec.count) =>
                  c.sub[s] = b.sub[s]
      BY <2>2, <2>4, <2>6, <2>7, <2>12 DEF PartsAdded
    <2>15. c.problem = y.problem
      BY <2>6, <2>12 DEF PartsAdded
    <2>16. Settles(b, c, i, spec, p)
      BY <2>2, <2>13, <2>14, <2>15 DEF Settles
    <2>17. Target(b, spec) = p
      BY <1>3 DEF Target, p
    <2>18. c.nextProblem = b.nextProblem
      BY <2>2, <2>6, <2>12 DEF PartsAdded
    <2>19. QED
      BY <1>3, <2>1, <2>2, <2>6, <2>12, <2>16, <2>17, <2>18 DEF p
  <1>4. QED
    BY <1>2, <1>3
-----------------------------------------------------------------------------
(* A payload.                                                              *)

\* What validateSeriesPayload and the checks on ids leave: no number and no id
\* twice.
IsPayload(specs) ==
  /\ Len(specs) \in Nat
  /\ \A k \in 1..Len(specs) : specs[k] \in Spec1
  /\ \A k, m \in 1..Len(specs) : specs[k].number = specs[m].number => k = m
  /\ \A k, m \in 1..Len(specs) :
       specs[k].id = specs[m].id /\ specs[k].id # NoRow => k = m

\* What validateSeriesPayload lets pass: a list that repeats no number and no id.
LEMMA PayloadsAre ==
  ASSUME NEW specs \in Payloads
  PROVE  /\ Len(specs) \in Nat /\ DOMAIN specs = 1..Len(specs)
         /\ \A k \in 1..Len(specs) : specs[k] \in Spec1
         /\ \A k, m \in 1..Len(specs) : specs[k].number = specs[m].number => k = m
  <1>1. PICK n \in 0..MaxSpecs : specs \in [1..n -> Spec1]
    BY DEF Payloads
  <1>2. ValidPayload(specs)
    BY DEF Payloads
  <1>3. n \in Nat
    BY <1>1, BoardConstantsOK
  <1>4. specs \in Seq(Spec1) /\ DOMAIN specs = 1..n
    BY <1>1, <1>3
  <1>5. Len(specs) = n
    BY <1>3, <1>4, LenProperties
  <1>6. QED
    BY <1>1, <1>2, <1>3, <1>4, <1>5 DEF ValidPayload

\* One problem of a payload.
LEMMA SpecIs ==
  ASSUME NEW spec \in Spec1
  PROVE  /\ spec.id \in 0..MaxProblem /\ spec.number \in Int /\ spec.number >= 0
         /\ spec.count \in 0..MaxCount
  <1>1. spec.id \in 0..MaxProblem /\ spec.number \in Numbers /\ spec.count \in 0..MaxCount
    BY DEF Spec1
  <1>2. QED
    BY <1>1, NumbersAreNatural

\* A sum that grows by natural numbers is never more than the whole.
LEMMA SumsGrow ==
  ASSUME NEW N \in Nat, NEW asked, NEW parts,
         asked[0] = 0,
         \A n \in 1..N : parts[n] \in Nat /\ asked[n] = asked[n - 1] + parts[n]
  PROVE  \A n \in 0..N : asked[n] \in Nat /\ asked[n] <= asked[N]
  <1>1. N \in Nat
    OBVIOUS
  <1>2. \A n \in 1..N : parts[n] \in Nat
    OBVIOUS
  <1>3. asked[0] = 0 /\ \A n \in 1..N : asked[n] = asked[n - 1] + parts[n]
    OBVIOUS
  <1>4. \A n \in 0..N : asked[n] \in Nat
    <2> DEFINE S == {n \in Nat : n <= N => asked[n] \in Nat}
    <2>1. 0 \in S
      BY <1>3
    <2>2. ASSUME NEW n \in Nat, n \in S PROVE n + 1 \in S
      <3>1. SUFFICES ASSUME n + 1 <= N PROVE asked[n + 1] \in Nat
        OBVIOUS
      <3>2. n + 1 \in 1..N /\ (n + 1) - 1 = n /\ n <= N
        BY <1>1, <3>1
      <3>3. asked[n + 1] = asked[n] + parts[n + 1]
        BY <1>3, <3>2
      <3>4. QED
        BY <1>2, <2>2, <3>2, <3>3
    <2>3. Nat \subseteq S
      BY <2>1, <2>2, NatInduct
    <2>4. QED
      BY <1>1, <2>3
  <1>5. \A n \in 0..N : asked[n] <= asked[N]
    <2> DEFINE S == {m \in Nat : m <= N => asked[N - m] <= asked[N]}
    <2>1. 0 \in S
      BY <1>1, <1>4
    <2>2. ASSUME NEW m \in Nat, m \in S PROVE m + 1 \in S
      <3>1. SUFFICES ASSUME m + 1 <= N PROVE asked[N - (m + 1)] <= asked[N]
        OBVIOUS
      <3>2. N - m \in 1..N /\ (N - m) - 1 = N - (m + 1) /\ N - (m + 1) \in 0..N /\ m <= N
        BY <1>1, <3>1
      <3>3. asked[N - m] = asked[N - (m + 1)] + parts[N - m]
        BY <1>3, <3>2
      <3>4. asked[N - m] <= asked[N]
        BY <2>2, <3>2
      <3>5. parts[N - m] \in Nat /\ asked[N - (m + 1)] \in Nat /\ asked[N] \in Nat
        BY <1>1, <1>2, <1>4, <3>2
      <3>6. QED
        BY <3>3, <3>4, <3>5
    <2>3. Nat \subseteq S
      BY <2>1, <2>2, NatInduct
    <2>4. ASSUME NEW n \in 0..N PROVE asked[n] <= asked[N]
      <3>1. N - n \in Nat /\ N - n <= N /\ N - (N - n) = n
        BY <1>1
      <3>2. N - n \in S
        BY <2>3, <3>1
      <3>3. QED
        BY <3>1, <3>2
    <2>5. QED
      BY <2>4
  <1>6. QED
    BY <1>4, <1>5

\* What is asked for so far is never more than the whole.
LEMMA PartsAskedGrow ==
  ASSUME NEW specs, IsPayload(specs)
  PROVE  \E asked :
           /\ asked[0] = 0 /\ PartsAsked(specs) = asked[Len(specs)]
           /\ \A n \in 1..Len(specs) : asked[n] = asked[n - 1] + Len(DesiredLabels(specs[n].count))
           /\ \A n \in 0..Len(specs) : asked[n] \in Nat /\ asked[n] <= PartsAsked(specs)
  <1> DEFINE N == Len(specs)
             parts == [n \in 1..N |-> Len(DesiredLabels(specs[n].count))]
  <1>1. N \in Nat
    BY DEF IsPayload
  <1>2. \A n \in 1..N : Len(DesiredLabels(specs[n].count)) \in Nat
    BY SpecIs, DesiredLabelsAre DEF IsPayload
  <1>3. PICK asked : /\ asked[0] = 0 /\ PartsAsked(specs) = asked[N]
                     /\ \A n \in 1..N : asked[n] = asked[n - 1] + Len(DesiredLabels(specs[n].count))
    BY <1>1, PartsAskedRuns
  <1>4. \A n \in 1..N : parts[n] \in Nat /\ asked[n] = asked[n - 1] + parts[n]
    BY <1>2, <1>3
  <1> HIDE DEF N, parts
  <1>5. \A n \in 0..N : asked[n] \in Nat /\ asked[n] <= asked[N]
    BY <1>1, <1>3, <1>4, SumsGrow
  <1>6. QED
    BY <1>3, <1>5 DEF N

\* The same of new problems.
LEMMA ProblemsAskedGrow ==
  ASSUME NEW specs, IsPayload(specs)
  PROVE  \E asked :
           /\ asked[0] = 0 /\ ProblemsAsked(specs) = asked[Len(specs)]
           /\ \A n \in 1..Len(specs) : asked[n] = asked[n - 1] + NewProblem(specs[n])
           /\ \A n \in 0..Len(specs) : asked[n] \in Nat /\ asked[n] <= ProblemsAsked(specs)
  <1> DEFINE N == Len(specs)
             parts == [n \in 1..N |-> NewProblem(specs[n])]
  <1>1. N \in Nat
    BY DEF IsPayload
  <1>2. \A n \in 1..N : NewProblem(specs[n]) \in Nat
    BY DEF NewProblem
  <1>3. PICK asked : /\ asked[0] = 0 /\ ProblemsAsked(specs) = asked[N]
                     /\ \A n \in 1..N : asked[n] = asked[n - 1] + NewProblem(specs[n])
    BY <1>1, ProblemsAskedRuns
  <1>4. \A n \in 1..N : parts[n] \in Nat /\ asked[n] = asked[n - 1] + parts[n]
    BY <1>2, <1>3
  <1> HIDE DEF N, parts
  <1>5. \A n \in 0..N : asked[n] \in Nat /\ asked[n] <= asked[N]
    BY <1>1, <1>3, <1>4, SumsGrow
  <1>6. QED
    BY <1>3, <1>5 DEF N

\* Parking moves the kept problems out of the way, each to a number of its own.
LEMMA ParkedDoes ==
  ASSUME NEW b, Sound(b), NEW i \in 1..MaxSeries, NEW specs, IsPayload(specs),
         \A k \in 1..Len(specs) : specs[k].id # NoRow => b.problem[specs[k].id].series = i,
         \A p \in 1..MaxProblem : b.problem[p].series = i => b.problem[p].number >= 0,
         NEW c, c = Parked(b, specs)
  PROVE  /\ Sound(c) /\ c.sub = b.sub
         /\ c.nextSub = b.nextSub /\ c.nextProblem = b.nextProblem
         /\ \A p \in 1..MaxProblem :
              c.problem[p] = IF \E k \in 1..Len(specs) : specs[k].id = p
                             THEN [series |-> i, number |-> -p] ELSE b.problem[p]
  <1> DEFINE N == Len(specs)
  <1>1. /\ N \in Nat
        /\ \A k \in 1..N : specs[k].id \in 0..MaxProblem
        /\ \A k, m \in 1..N : specs[k].id = specs[m].id /\ specs[k].id # NoRow => k = m
    <2>1. /\ N \in Nat /\ \A k \in 1..N : specs[k] \in Spec1
          /\ \A k, m \in 1..N : specs[k].id = specs[m].id /\ specs[k].id # NoRow => k = m
      BY DEF IsPayload
    <2> HIDE DEF N
    <2>2. ASSUME NEW k \in 1..N PROVE specs[k].id \in 0..MaxProblem
      <3>1. specs[k] \in Spec1
        BY <2>1
      <3>2. QED
        BY <3>1, SpecIs
    <2>3. QED
      BY <2>1, <2>2
  <1>2. PICK run : /\ run[0] = b /\ \A n \in 1..N : run[n] = Park(run[n - 1], specs[n])
                   /\ c = run[N]
    BY <1>1, ParkedRuns
  <1> DEFINE Among(n, p) == \E k \in 1..n : specs[k].id = p
             Good(n) == /\ Sound(run[n]) /\ run[n].sub = b.sub
                        /\ run[n].nextSub = b.nextSub /\ run[n].nextProblem = b.nextProblem
                        /\ \A p \in 1..MaxProblem :
                             run[n].problem[p] = IF Among(n, p)
                                                 THEN [series |-> i, number |-> -p]
                                                 ELSE b.problem[p]
             S == {n \in Nat : n <= N => Good(n)}
  <1> HIDE DEF N
  <1>3. 0 \in S
    BY <1>2
  <1>4. ASSUME NEW n \in Nat, n \in S PROVE n + 1 \in S
    <2>1. SUFFICES ASSUME n + 1 <= N PROVE Good(n + 1)
      OBVIOUS
    <2>2. Good(n)
      BY <1>1, <1>4, <2>1
    <2>3. n + 1 \in 1..N /\ (n + 1) - 1 = n
      BY <1>1, <2>1
    <2> DEFINE id == specs[n + 1].id
    <2>4. run[n + 1] = Park(run[n], specs[n + 1])
      BY <1>2, <2>3
    <2>5. \A p : Among(n + 1, p) <=> Among(n, p) \/ id = p
      <3>1. \A k : k \in 1..(n + 1) <=> k \in 1..n \/ k = n + 1
        OBVIOUS
      <3>2. QED
        BY <3>1
    <2>6. id \in 0..MaxProblem /\ (id # NoRow => b.problem[id].series = i /\ ~Among(n, id))
      BY <1>1, <2>3 DEF N
    <2> HIDE DEF Among
    <2>7. CASE id = NoRow
      <3>1. run[n + 1] = run[n]
        BY <2>4, <2>7 DEF Park
      <3>2. \A p \in 1..MaxProblem : id # p
        BY <2>7 DEF NoRow
      <3>3. QED
        BY <2>2, <2>5, <3>1, <3>2
    <2>8. CASE id # NoRow
      <3>1. run[n + 1] = SetProblemNumber(run[n], id, -id)
        BY <2>4, <2>8 DEF Park
      <3>2. id \in 1..MaxProblem /\ -id \in Int /\ i # NoRow
        BY <2>6, <2>8, BoardConstantsOK DEF NoRow
      <3>3. run[n].problem[id] = b.problem[id]
        BY <2>2, <2>6, <2>8, <3>2
      <3>4. run[n].problem[id].series = i
        BY <2>6, <2>8, <3>3
      <3>5. ASSUME NEW q \in 1..MaxProblem, run[n].problem[q].series = i, q # id
            PROVE  run[n].problem[q].number # -id
        <4>1. CASE Among(n, q)
          <5>5. run[n].problem[q] = [series |-> i, number |-> -q]
            BY <2>2, <4>1
          <5>1. run[n].problem[q].number = -q
            BY <5>5
          <5>2. q \in Int /\ id \in Int /\ q # id
            BY <3>2, <3>5
          <5>3. -q # -id
            BY <5>2
          <5>4. QED
            BY <5>1, <5>3
        <4>2. CASE ~Among(n, q)
          <5>1. run[n].problem[q] = b.problem[q]
            BY <2>2, <4>2
          <5>2. b.problem[q].number >= 0
            BY <3>5, <5>1
          <5>3. QED
            BY <3>2, <5>1, <5>2
        <4>3. QED
          BY <4>1, <4>2
      <3>6. /\ Sound(run[n + 1]) /\ run[n + 1].sub = run[n].sub
            /\ run[n + 1].nextSub = run[n].nextSub
            /\ run[n + 1].nextProblem = run[n].nextProblem
            /\ run[n + 1].problem[id] = [series |-> i, number |-> -id]
            /\ \A q \in 1..MaxProblem : q # id => run[n + 1].problem[q] = run[n].problem[q]
        <4> DEFINE old == run[n]
                   new == run[n + 1]
        <4>1. /\ Sound(old) /\ id \in 1..MaxProblem /\ old.problem[id].series # NoRow
              /\ -id \in Int /\ new = SetProblemNumber(old, id, -id)
          BY <2>2, <3>1, <3>2, <3>4
        <4>2. \A q \in 1..MaxProblem :
                old.problem[q].series = old.problem[id].series /\ q # id =>
                  old.problem[q].number # -id
          BY <3>4, <3>5
        <4>3. old.problem[id].series = i
          BY <3>4
        <4> HIDE DEF old, new, id
        <4>4. /\ Sound(new) /\ new.sub = old.sub
              /\ new.nextSub = old.nextSub /\ new.nextProblem = old.nextProblem
              /\ new.problem[id] = [series |-> old.problem[id].series, number |-> -id]
              /\ \A q \in 1..MaxProblem : q # id => new.problem[q] = old.problem[q]
          BY <4>1, <4>2, SetProblemNumberDoes
        <4>5. QED
          BY <4>3, <4>4 DEF old, new
      <3>7. ASSUME NEW q \in 1..MaxProblem
            PROVE  run[n + 1].problem[q] = IF Among(n + 1, q)
                                           THEN [series |-> i, number |-> -q]
                                           ELSE b.problem[q]
        <4>1. CASE q = id
          <5>1. Among(n + 1, q)
            BY <2>5, <4>1
          <5>2. run[n + 1].problem[q] = [series |-> i, number |-> -q]
            BY <3>6, <4>1
          <5>3. QED
            BY <5>1, <5>2
        <4>2. CASE q # id
          BY <2>2, <2>5, <3>6, <4>2
        <4>3. QED
          BY <4>1, <4>2
      <3>8. QED
        BY <2>2, <3>6, <3>7
    <2>9. QED
      BY <2>7, <2>8
  <1>5. Good(N)
    <2> HIDE DEF Good
    <2>1. N \in S
      BY <1>1, <1>3, <1>4, NatInduct
    <2>2. QED
      BY <1>1, <2>1
  <1>6. QED
    BY <1>2, <1>5 DEF N
-----------------------------------------------------------------------------
(* The last loop.  From a board a on which the kept problems are parked, n  *)
(* specs are done on board b.                                              *)

\* Problem p is what spec asks for.
Has(b, i, spec, p) ==
  /\ b.problem[p] = [series |-> i, number |-> spec.number]
  /\ Labels(b, p) = Asked(spec.count)
  /\ spec.id # NoRow => p = spec.id

\* A kept problem that waits for its final number: it is parked, and its parts
\* have not been touched.
Waits(a, b, i, p) ==
  /\ b.problem[p] = [series |-> i, number |-> -p]
  /\ \A s \in 1..MaxSub : a.sub[s].problem = p \/ b.sub[s].problem = p => b.sub[s] = a.sub[s]

\* The parts of a kept problem that the payload asks for again.
KeepsParts(a, b, spec) ==
  \A s \in 1..MaxSub :
    a.sub[s].problem = spec.id /\ a.sub[s].label \in Asked(spec.count) => b.sub[s] = a.sub[s]

\* The problems of other series.
OthersAlone(a, b, i) ==
  \A p \in 1..MaxProblem :
    a.problem[p].series \notin {NoRow, i} \/ b.problem[p].series \notin {NoRow, i} =>
      b.problem[p] = a.problem[p] /\ Labels(b, p) = Labels(a, p)

Halfway(a, b, i, specs, n) ==
  /\ Sound(b)
  /\ \A p \in 1..MaxProblem : b.problem[p].series = i =>
       \/ \E k \in 1..n : Has(b, i, specs[k], p)
       \/ \E k \in (n + 1)..Len(specs) : specs[k].id = p /\ Waits(a, b, i, p)
  /\ \A k \in 1..n : \E p \in 1..MaxProblem : Has(b, i, specs[k], p)
  /\ \A k \in (n + 1)..Len(specs) : specs[k].id # NoRow => Waits(a, b, i, specs[k].id)
  /\ \A k \in 1..n : specs[k].id # NoRow => KeepsParts(a, b, specs[k])
  /\ OthersAlone(a, b, i)
  /\ \A p \in 1..MaxProblem : b.problem[p].series = NoRow => b.problem[p] = a.problem[p]

\* A problem whose parts stay has the labels it had.
LEMMA SamePartsSameLabels ==
  ASSUME NEW b, NEW c, NEW p,
         \A s \in 1..MaxSub : b.sub[s].problem = p \/ c.sub[s].problem = p => c.sub[s] = b.sub[s]
  PROVE  Labels(c, p) = Labels(b, p)
  <1>1. ListSubproblems(c, p) = ListSubproblems(b, p)
    BY DEF ListSubproblems
  <1>2. \A s \in ListSubproblems(b, p) : c.sub[s] = b.sub[s]
    BY DEF ListSubproblems
  <1>3. QED
    BY <1>1, <1>2 DEF Labels

\* The turn of one problem leaves the labels of the others.
LEMMA SettleLeavesLabels ==
  ASSUME NEW b, NEW c, NEW i, NEW spec, NEW p, Settles(b, c, i, spec, p),
         NEW q \in 1..MaxProblem, q # p
  PROVE  Labels(c, q) = Labels(b, q)
  <1>1. \A s \in 1..MaxSub : b.sub[s].problem = q \/ c.sub[s].problem = q => c.sub[s] = b.sub[s]
    BY DEF Settles, NoRow
  <1>2. QED
    BY <1>1, SamePartsSameLabels

\* One more turn: what was done stays done, and who waits waits on.
LEMMA SettleKeepsHalfway ==
  ASSUME NEW a, NEW b, NEW i \in 1..MaxSeries, NEW specs, IsPayload(specs),
         NEW n \in Nat, n + 1 <= Len(specs), Halfway(a, b, i, specs, n),
         NEW p \in 1..MaxProblem, p = Target(b, specs[n + 1]),
         specs[n + 1].id = NoRow => b.problem[p].series = NoRow,
         NEW c, Sound(c), Settles(b, c, i, specs[n + 1], p)
  PROVE  Halfway(a, c, i, specs, n + 1)
  <1> DEFINE N == Len(specs)
             spec == specs[n + 1]
  <1>1. /\ N \in Nat /\ n + 1 \in 1..N /\ i # NoRow
        /\ \A k \in 1..N : specs[k].number \in Int /\ specs[k].number >= 0
        /\ \A k, m \in 1..N : specs[k].id = specs[m].id /\ specs[k].id # NoRow => k = m
        /\ \A k \in 1..N : specs[k].id \in 0..MaxProblem
    BY SpecIs DEF IsPayload, NoRow
  <1>2. /\ \A k \in 1..(n + 1) : k \in 1..n \/ k = n + 1
        /\ \A k \in 1..n : k \in 1..N /\ k # n + 1 /\ k \in 1..(n + 1)
        /\ \A k \in ((n + 1) + 1)..N : k \in (n + 1)..N /\ k \in 1..N /\ k # n + 1
        /\ \A k \in (n + 1)..N : k = n + 1 \/ k \in ((n + 1) + 1)..N
        /\ n + 1 \in (n + 1)..N /\ n + 1 \in 1..(n + 1)
    BY <1>1
  <1> HIDE DEF N
  <1>3. /\ c.problem[p] = [series |-> i, number |-> spec.number]
        /\ Labels(c, p) = Asked(spec.count)
        /\ \A q \in 1..MaxProblem : q # p => c.problem[q] = b.problem[q]
        /\ \A s \in 1..MaxSub : b.sub[s].problem \notin {NoRow, p} => c.sub[s] = b.sub[s]
        /\ \A s \in 1..MaxSub : c.sub[s].problem \notin {NoRow, p} => c.sub[s] = b.sub[s]
        /\ \A s \in 1..MaxSub :
             b.sub[s].problem = p /\ b.sub[s].label \in Asked(spec.count) =>
               c.sub[s] = b.sub[s]
    BY DEF Settles
  <1>4. spec.id # NoRow => p = spec.id
    BY DEF Target
  <1>5. Has(c, i, spec, p)
    BY <1>3, <1>4 DEF Has
  <1>6. \A q \in 1..MaxProblem : q # p => Labels(c, q) = Labels(b, q)
    BY SettleLeavesLabels
  <1>7. ASSUME NEW k \in 1..n, NEW q \in 1..MaxProblem, Has(b, i, specs[k], q)
        PROVE  Has(c, i, specs[k], q)
    <2>1. q # p
      <3>1. SUFFICES ASSUME q = p PROVE FALSE
        OBVIOUS
      <3>2. b.problem[p].series = i /\ b.problem[p].number = specs[k].number
        BY <1>7, <3>1 DEF Has
      <3>3. spec.id # NoRow
        BY <1>1, <3>2
      <3>4. b.problem[p] = [series |-> i, number |-> -p]
        BY <1>2, <1>4, <3>3 DEF Halfway, Waits, N
      <3>5. specs[k].number = -p /\ specs[k].number >= 0
        BY <1>1, <1>2, <3>2, <3>4
      <3>6. QED
        BY <3>5
    <2>2. QED
      BY <1>3, <1>6, <1>7, <2>1 DEF Has
  <1>8. ASSUME NEW k \in ((n + 1) + 1)..N, specs[k].id # NoRow
        PROVE  specs[k].id # p /\ Waits(a, c, i, specs[k].id)
    <2> DEFINE q == specs[k].id
    <2>1. q \in 1..MaxProblem /\ Waits(a, b, i, q)
      BY <1>1, <1>2, <1>8, BoardConstantsOK DEF Halfway, N, NoRow
    <2>2. q # p
      <3>1. CASE spec.id = NoRow
        BY <1>1, <2>1, <3>1 DEF Waits
      <3>2. CASE spec.id # NoRow
        BY <1>1, <1>2, <1>4, <1>8, <3>2
      <3>3. QED
        BY <3>1, <3>2
    <2> HIDE DEF q
    <2>3. c.problem[q] = [series |-> i, number |-> -q]
      BY <1>3, <2>1, <2>2 DEF Waits
    <2>4. q # NoRow
      BY <2>1 DEF NoRow
    <2>5. ASSUME NEW s \in 1..MaxSub, a.sub[s].problem = q \/ c.sub[s].problem = q
          PROVE  c.sub[s] = a.sub[s]
      <3>1. CASE a.sub[s].problem = q
        <4>1. b.sub[s] = a.sub[s]
          BY <2>1, <3>1 DEF Waits
        <4>2. c.sub[s] = b.sub[s]
          BY <1>3, <2>2, <2>4, <3>1, <4>1
        <4>3. QED
          BY <4>1, <4>2
      <3>2. CASE c.sub[s].problem = q
        <4>1. c.sub[s] = b.sub[s]
          BY <1>3, <2>2, <2>4, <3>2
        <4>2. b.sub[s] = a.sub[s]
          BY <2>1, <3>2, <4>1 DEF Waits
        <4>3. QED
          BY <4>1, <4>2
      <3>3. QED
        BY <2>5, <3>1, <3>2
    <2>6. QED
      BY <2>2, <2>3, <2>5 DEF Waits, q
  <1>9. ASSUME NEW q \in 1..MaxProblem, c.problem[q].series = i
        PROVE  \/ \E k \in 1..(n + 1) : Has(c, i, specs[k], q)
               \/ \E k \in ((n + 1) + 1)..N : specs[k].id = q /\ Waits(a, c, i, q)
    <2>1. CASE q = p
      BY <1>2, <1>5, <2>1
    <2>2. CASE q # p
      <3>1. b.problem[q].series = i
        BY <1>3, <1>9, <2>2
      <3>2. CASE \E k \in 1..n : Has(b, i, specs[k], q)
        BY <1>2, <1>7, <3>2
      <3>3. CASE \E k \in (n + 1)..N : specs[k].id = q /\ Waits(a, b, i, q)
        <4>1. PICK k \in (n + 1)..N : specs[k].id = q
          BY <3>3
        <4>2. q # NoRow
          BY DEF NoRow
        <4>3. k # n + 1
          BY <1>4, <2>2, <4>1, <4>2
        <4>4. k \in ((n + 1) + 1)..N
          BY <1>2, <4>3
        <4>5. QED
          BY <1>8, <4>1, <4>2, <4>4
      <3>4. QED
        BY <3>1, <3>2, <3>3 DEF Halfway, N
    <2>3. QED
      BY <2>1, <2>2
  <1>10. \A k \in 1..(n + 1) : \E q \in 1..MaxProblem : Has(c, i, specs[k], q)
    <2> TAKE k \in 1..(n + 1)
    <2>1. CASE k = n + 1
      BY <1>5, <2>1
    <2>2. CASE k \in 1..n
      <3>1. PICK q \in 1..MaxProblem : Has(b, i, specs[k], q)
        BY <2>2 DEF Halfway
      <3>2. Has(c, i, specs[k], q)
        BY <1>7, <2>2, <3>1
      <3>3. QED
        BY <3>2
    <2>3. QED
      BY <1>2, <2>1, <2>2
  <1>11. ASSUME NEW k \in 1..(n + 1), specs[k].id # NoRow
         PROVE  KeepsParts(a, c, specs[k])
    <2> SUFFICES ASSUME NEW s \in 1..MaxSub, a.sub[s].problem = specs[k].id,
                        a.sub[s].label \in Asked(specs[k].count)
                 PROVE  c.sub[s] = a.sub[s]
      BY DEF KeepsParts
    <2>1. CASE k = n + 1
      <3>1. Waits(a, b, i, p) /\ p = specs[k].id
        BY <1>2, <1>4, <1>11, <2>1 DEF Halfway, N
      <3>2. b.sub[s] = a.sub[s]
        BY <3>1 DEF Waits
      <3>3. QED
        BY <1>3, <2>1, <3>1, <3>2
    <2>2. CASE k \in 1..n
      <3>1. b.sub[s] = a.sub[s]
        BY <1>11, <2>2 DEF Halfway, KeepsParts
      <3>2. b.problem[specs[k].id].series # NoRow
        BY <1>11, <3>1 DEF Halfway, Sound, PartsHang
      <3>3. specs[k].id # p
        <4>1. CASE spec.id = NoRow
          BY <3>2, <4>1
        <4>2. CASE spec.id # NoRow
          BY <1>1, <1>2, <1>4, <1>11, <2>2, <4>2
        <4>3. QED
          BY <4>1, <4>2
      <3>4. QED
        BY <1>3, <1>11, <3>1, <3>3
    <2>3. QED
      BY <1>2, <2>1, <2>2
  <1>12. OthersAlone(a, c, i)
    <2> SUFFICES ASSUME NEW q \in 1..MaxProblem,
                        a.problem[q].series \notin {NoRow, i}
                          \/ c.problem[q].series \notin {NoRow, i}
                 PROVE  c.problem[q] = a.problem[q] /\ Labels(c, q) = Labels(a, q)
      BY DEF OthersAlone
    <2>1. c.problem[p].series = i
      BY <1>3
    <2>2. b.problem[p].series \in {NoRow, i}
      <3>1. CASE spec.id = NoRow
        BY <3>1
      <3>2. CASE spec.id # NoRow
        <4>1. Waits(a, b, i, p)
          BY <1>2, <1>4, <3>2 DEF Halfway, N
        <4>2. QED
          BY <4>1 DEF Waits
      <3>3. QED
        BY <3>1, <3>2
    <2>3. OthersAlone(a, b, i)
      BY DEF Halfway
    <2>4. q # p
      BY <2>1, <2>2, <2>3 DEF OthersAlone
    <2>5. c.problem[q] = b.problem[q] /\ Labels(c, q) = Labels(b, q)
      BY <1>3, <1>6, <2>4
    <2>6. QED
      BY <2>3, <2>5 DEF OthersAlone
  <1>13. ASSUME NEW q \in 1..MaxProblem, c.problem[q].series = NoRow
         PROVE  c.problem[q] = a.problem[q]
    <2>1. q # p /\ c.problem[q] = b.problem[q]
      BY <1>1, <1>3, <1>13
    <2>2. QED
      BY <1>13, <2>1 DEF Halfway
  <1>14. QED
    BY <1>8, <1>9, <1>10, <1>11, <1>12, <1>13 DEF Halfway, N

\* The whole loop.  The board it starts from has only kept problems in the
\* series, all of them parked, and ids left for what is asked.
LEMMA WriteProblemsDoes ==
  ASSUME NEW a, Sound(a), NEW i \in 1..MaxSeries, NEW specs, IsPayload(specs),
         \A p \in 1..MaxProblem : a.problem[p].series = i =>
           \E k \in 1..Len(specs) : specs[k].id = p,
         \A k \in 1..Len(specs) : specs[k].id # NoRow => Waits(a, a, i, specs[k].id),
         a.nextProblem + ProblemsAsked(specs) <= MaxProblem + 1,
         a.nextSub + PartsAsked(specs) <= MaxSub + 1,
         NEW c, c = WriteProblems(a, i, specs)
  PROVE  Halfway(a, c, i, specs, Len(specs))
  <1> DEFINE N == Len(specs)
             parts(n) == Len(DesiredLabels(specs[n].count))
  <1>1. /\ N \in Nat
        /\ \A k \in 1..N : specs[k] \in Spec1
        /\ \A k \in 1..N : specs[k].number \in Int /\ specs[k].number >= 0
        /\ \A k, m \in 1..N : specs[k].number = specs[m].number => k = m
        /\ \A k \in 1..N : specs[k].id \in 0..MaxProblem
        /\ \A k \in 1..N : parts(k) \in Nat
    BY SpecIs, DesiredLabelsAre DEF IsPayload
  <1>2. PICK asked : /\ asked[0] = 0
                     /\ \A n \in 1..N : asked[n] = asked[n - 1] + parts(n)
                     /\ \A n \in 0..N : asked[n] \in Nat /\ asked[n] <= PartsAsked(specs)
                     /\ PartsAsked(specs) = asked[N]
    BY PartsAskedGrow
  <1>9. PICK rows : /\ rows[0] = 0
                    /\ \A n \in 1..N : rows[n] = rows[n - 1] + NewProblem(specs[n])
                    /\ \A n \in 0..N : rows[n] \in Nat /\ rows[n] <= ProblemsAsked(specs)
                    /\ ProblemsAsked(specs) = rows[N]
    BY ProblemsAskedGrow
  <1>3. PICK run : /\ run[0] = a /\ \A n \in 1..N : run[n] = Settle(run[n - 1], i, specs[n])
                   /\ c = run[N]
    BY <1>1, WriteProblemsRuns
  <1>4. /\ a.nextProblem \in Nat /\ a.nextSub \in Nat
        /\ PartsAsked(specs) \in Nat /\ MaxProblem \in Nat /\ MaxSub \in Nat
        /\ ProblemsAsked(specs) \in Nat
        /\ a.nextProblem + ProblemsAsked(specs) <= MaxProblem + 1
        /\ a.nextSub + PartsAsked(specs) <= MaxSub + 1
    BY <1>1, <1>2, <1>9, BoardConstantsOK DEF Sound, Tables
  <1> HIDE DEF N, parts
  <1> DEFINE Good(n) == /\ Halfway(a, run[n], i, specs, n)
                        /\ run[n].nextProblem \in a.nextProblem..(a.nextProblem + rows[n])
                        /\ run[n].nextSub \in a.nextSub..(a.nextSub + asked[n])
             S == {n \in Nat : n <= N => Good(n)}
  <1>5. 0 \in S
    <2>1. Halfway(a, a, i, specs, 0)
      <3>1. 1..0 = {} /\ (0 + 1)..Len(specs) = 1..Len(specs)
        OBVIOUS
      <3>2. OthersAlone(a, a, i)
        BY DEF OthersAlone
      <3>3. ASSUME NEW p \in 1..MaxProblem, a.problem[p].series = i
            PROVE  \E k \in 1..Len(specs) : specs[k].id = p /\ Waits(a, a, i, p)
        BY <3>3 DEF NoRow
      <3>4. QED
        BY <3>1, <3>2, <3>3 DEF Halfway
    <2>2. a.nextProblem \in a.nextProblem..(a.nextProblem + rows[0])
      BY <1>4, <1>9
    <2>3. a.nextSub \in a.nextSub..(a.nextSub + asked[0])
      BY <1>2, <1>4
    <2>4. Good(0)
      BY <1>3, <2>1, <2>2, <2>3
    <2> HIDE DEF Good
    <2>5. QED
      BY <2>4
  <1>6. ASSUME NEW n \in Nat, n \in S PROVE n + 1 \in S
    <2>1. SUFFICES ASSUME n + 1 <= N PROVE Good(n + 1)
      OBVIOUS
    <2>2. Good(n)
      BY <1>1, <1>6, <2>1
    <2>3. /\ n + 1 \in 1..N /\ (n + 1) - 1 = n /\ n \in 0..N /\ n + 1 \in 0..N
          /\ n + 1 \in (n + 1)..N /\ n + 1 # 0
          /\ \A k \in 1..n : k \in 1..N /\ k # n + 1
      BY <1>1, <2>1
    <2> DEFINE old == run[n]
               new == run[n + 1]
               spec == specs[n + 1]
    <2>4. new = Settle(old, i, spec)
      BY <1>3, <2>3
    <2>5. /\ Sound(old) /\ Halfway(a, old, i, specs, n)
          /\ old.nextProblem \in a.nextProblem..(a.nextProblem + rows[n])
          /\ old.nextSub \in a.nextSub..(a.nextSub + asked[n])
      BY <2>2 DEF Halfway
    <2>6. /\ asked[n + 1] = asked[n] + parts(n + 1) /\ asked[n] \in Nat
          /\ asked[n + 1] \in Nat /\ asked[n + 1] <= PartsAsked(specs)
          /\ parts(n + 1) \in Nat /\ spec \in Spec1
      BY <1>1, <1>2, <2>3
    <2>19. /\ rows[n] \in Nat /\ rows[n + 1] \in Nat /\ rows[n + 1] <= ProblemsAsked(specs)
           /\ rows[n + 1] = rows[n] + (IF spec.id = NoRow THEN 1 ELSE 0)
      BY <1>9, <2>3 DEF NewProblem
    <2> HIDE DEF old, new
    <2>7. spec.id = NoRow => old.nextProblem <= MaxProblem
      <3>1. old.nextProblem \in Nat /\ old.nextProblem <= a.nextProblem + rows[n]
        BY <1>4, <2>5, <2>19
      <3>2. /\ ProblemsAsked(specs) \in Nat /\ a.nextProblem \in Nat /\ MaxProblem \in Nat
            /\ a.nextProblem + ProblemsAsked(specs) <= MaxProblem + 1
        BY <1>4
      <3>3. SUFFICES ASSUME spec.id = NoRow PROVE old.nextProblem <= MaxProblem
        OBVIOUS
      <3>4. rows[n] + 1 <= ProblemsAsked(specs)
        BY <2>19, <3>3
      <3>5. QED
        BY <2>19, <3>1, <3>2, <3>4, SMTT(30)
    <2>8. spec.id # NoRow => old.problem[spec.id].series = i
      <3>1. spec.id # NoRow => Waits(a, old, i, spec.id)
        BY <2>3, <2>5 DEF Halfway, N
      <3>2. QED
        BY <3>1 DEF Waits
    <2>9. old.nextSub + parts(n + 1) <= MaxSub + 1
      <3>1. old.nextSub \in Nat /\ old.nextSub <= a.nextSub + asked[n]
        BY <1>4, <2>5, <2>6
      <3>2. QED
        BY <1>4, <2>6, <3>1, SMTT(30)
    <2>10. ASSUME NEW q \in 1..MaxProblem, old.problem[q].series = i, q # spec.id
           PROVE  old.problem[q].number # spec.number
      <3>1. CASE \E k \in 1..n : Has(old, i, specs[k], q)
        <4>1. PICK k \in 1..n : Has(old, i, specs[k], q)
          BY <3>1
        <4>2. old.problem[q].number = specs[k].number
          BY <4>1 DEF Has
        <4>3. QED
          BY <1>1, <2>3, <4>2
      <3>2. CASE \E k \in (n + 1)..N : specs[k].id = q /\ Waits(a, old, i, q)
        <4>1. old.problem[q] = [series |-> i, number |-> -q]
          BY <3>2 DEF Waits
        <4>2. old.problem[q].number = -q
          BY <4>1
        <4>3. spec.number \in Int /\ spec.number >= 0 /\ q \in Nat /\ q > 0
          BY <1>1, <2>3
        <4>4. QED
          BY <4>2, <4>3
      <3>3. QED
        BY <2>5, <2>10, <3>1, <3>2 DEF Halfway, N
    <2>16. parts(n + 1) = Len(DesiredLabels(spec.count)) /\ spec \in Spec1
      BY <2>6 DEF parts
    <2>17. /\ \A q \in 1..MaxProblem :
                old.problem[q].series = i /\ q # spec.id => old.problem[q].number # spec.number
           /\ old.nextSub + Len(DesiredLabels(spec.count)) <= MaxSub + 1
           /\ Sound(old)
      BY <2>5, <2>9, <2>10, <2>16
    <2> HIDE DEF spec
    <2>18. /\ Sound(new) /\ Target(old, spec) \in 1..MaxProblem
           /\ Settles(old, new, i, spec, Target(old, spec))
           /\ spec.id = NoRow => old.problem[Target(old, spec)].series = NoRow
           /\ new.nextProblem = IF spec.id = NoRow THEN old.nextProblem + 1 ELSE old.nextProblem
           /\ new.nextSub \in old.nextSub..(old.nextSub + Len(DesiredLabels(spec.count)))
      BY <2>4, <2>7, <2>8, <2>16, <2>17, SettleDoes
    <2>11. /\ Sound(new) /\ Target(old, spec) \in 1..MaxProblem
           /\ Settles(old, new, i, spec, Target(old, spec))
           /\ spec.id = NoRow => old.problem[Target(old, spec)].series = NoRow
           /\ new.nextProblem = IF spec.id = NoRow THEN old.nextProblem + 1 ELSE old.nextProblem
           /\ new.nextSub \in old.nextSub..(old.nextSub + parts(n + 1))
      BY <2>16, <2>18
    <2>12. Halfway(a, new, i, specs, n + 1)
      BY <2>1, <2>5, <2>11, SettleKeepsHalfway DEF N, spec
    <2>13. new.nextProblem \in a.nextProblem..(a.nextProblem + rows[n + 1])
      <3>1. /\ old.nextProblem \in Int /\ old.nextProblem >= a.nextProblem
            /\ old.nextProblem <= a.nextProblem + rows[n]
        BY <1>4, <2>5, <2>19
      <3>2. new.nextProblem = old.nextProblem + (IF spec.id = NoRow THEN 1 ELSE 0)
        BY <2>11, <3>1
      <3>3. QED
        BY <1>4, <2>19, <3>1, <3>2, SMTT(30)
    <2>14. new.nextSub \in a.nextSub..(a.nextSub + asked[n + 1])
      <3>1. /\ old.nextSub \in Int /\ old.nextSub >= a.nextSub
            /\ old.nextSub <= a.nextSub + asked[n]
        BY <1>4, <2>5, <2>6
      <3>2. /\ new.nextSub \in Int /\ new.nextSub >= old.nextSub
            /\ new.nextSub <= old.nextSub + parts(n + 1)
        BY <2>6, <2>11, <3>1
      <3>3. /\ asked[n + 1] = asked[n] + parts(n + 1) /\ asked[n] \in Nat
            /\ parts(n + 1) \in Nat /\ a.nextSub \in Nat
        BY <1>4, <2>6
      <3>4. QED
        BY <3>1, <3>2, <3>3, SMTT(30)
    <2>15. QED
      BY <2>12, <2>13, <2>14 DEF new
  <1>7. Good(N)
    <2> HIDE DEF Good
    <2>1. N \in S
      BY <1>1, <1>5, <1>6, NatInduct
    <2>2. QED
      BY <1>1, <2>1
  <1>8. QED
    BY <1>3, <1>7 DEF N
-----------------------------------------------------------------------------
(* What a create and an edit leave behind.                                 *)

\* Between two requests the numbers are those of payloads.
Stored(b) == Sound(b) /\ b.problem \in [1..MaxProblem -> Problem]

\* Every problem offers what some subproblem_count asks for.
PartsInFull(b) ==
  \A p \in 1..MaxProblem : b.problem[p].series # NoRow =>
    \E count \in 0..MaxCount : Labels(b, p) = Asked(count)

\* The series i of c is the one that specs describe.
Describes(c, i, specs) ==
  /\ AssembleSeriesView(c, i) =
       {<<specs[k].number, Asked(specs[k].count)>> : k \in 1..Len(specs)}
  /\ \A k \in 1..Len(specs) : specs[k].id # NoRow =>
       c.problem[specs[k].id] = [series |-> i, number |-> specs[k].number]

\* What the other series of a board must be for it to be stored in the end.
OthersStand(a, i) ==
  /\ \A p \in 1..MaxProblem : a.problem[p].series # i => a.problem[p] \in Problem
  /\ \A p \in 1..MaxProblem : a.problem[p].series \notin {NoRow, i} =>
       \E count \in 0..MaxCount : Labels(a, p) = Asked(count)

\* When the last loop is through, the series is what the payload asks for and
\* the board is one to store, whatever the kept problems looked like on a.
LEMMA HalfwayIsAllTheWay ==
  ASSUME NEW a, NEW c, NEW i \in 1..MaxSeries, NEW specs, IsPayload(specs),
         Halfway(a, c, i, specs, Len(specs)), OthersStand(a, i)
  PROVE  /\ Stored(c) /\ PartsInFull(c) /\ Describes(c, i, specs)
         /\ \A p \in 1..MaxProblem :
              c.problem[p].series \in {NoRow, i} \/ c.problem[p].series = a.problem[p].series
  <1> USE DEF OthersStand
  <1> DEFINE N == Len(specs)
  <1>1. /\ N \in Nat /\ i # NoRow /\ i \in 0..MaxSeries
        /\ \A k \in 1..N : specs[k] \in Spec1
        /\ \A k \in 1..N : specs[k].number \in Numbers /\ specs[k].count \in 0..MaxCount
    BY DEF IsPayload, NoRow, Spec1
  <1>2. \A k : k \notin (N + 1)..N
    BY <1>1
  <1>3. /\ Sound(c)
        /\ \A p \in 1..MaxProblem : c.problem[p].series = i =>
             \E k \in 1..N : Has(c, i, specs[k], p)
        /\ \A k \in 1..N : \E p \in 1..MaxProblem : Has(c, i, specs[k], p)
        /\ OthersAlone(a, c, i)
        /\ \A p \in 1..MaxProblem : c.problem[p].series = NoRow => c.problem[p] = a.problem[p]
    BY <1>2 DEF Halfway
  <1> HIDE DEF N
  <1>4. ASSUME NEW p \in 1..MaxProblem, c.problem[p].series = i
        PROVE  /\ c.problem[p] \in Problem
               /\ \E count \in 0..MaxCount : Labels(c, p) = Asked(count)
    <2>1. PICK k \in 1..N : Has(c, i, specs[k], p)
      BY <1>3, <1>4
    <2>2. c.problem[p] = [series |-> i, number |-> specs[k].number]
      BY <2>1 DEF Has
    <2>3. specs[k].number \in Numbers /\ specs[k].count \in 0..MaxCount
      BY <1>1
    <2>4. QED
      BY <1>1, <2>1, <2>2, <2>3 DEF Has, Problem
  <1>5. ASSUME NEW p \in 1..MaxProblem, c.problem[p].series \notin {NoRow, i}
        PROVE  /\ c.problem[p] \in Problem /\ c.problem[p].series = a.problem[p].series
               /\ \E count \in 0..MaxCount : Labels(c, p) = Asked(count)
    <2>1. c.problem[p] = a.problem[p] /\ Labels(c, p) = Labels(a, p)
      BY <1>3, <1>5 DEF OthersAlone
    <2>2. QED
      BY <1>5, <2>1
  <1>6. ASSUME NEW p \in 1..MaxProblem, c.problem[p].series = NoRow
        PROVE  c.problem[p] \in Problem
    BY <1>1, <1>3, <1>6
  <1>7. c.problem \in [1..MaxProblem -> Problem]
    <2>1. c.problem \in [1..MaxProblem -> [series : 0..MaxSeries, number : Int]]
      BY <1>3 DEF Sound, Tables
    <2>2. \A p \in 1..MaxProblem : c.problem[p] \in Problem
      BY <1>4, <1>5, <1>6
    <2>3. QED
      BY <2>1, <2>2
  <1>8. PartsInFull(c)
    BY <1>4, <1>5 DEF PartsInFull
  <1>9. AssembleSeriesView(c, i) =
          {<<specs[k].number, Asked(specs[k].count)>> : k \in 1..N}
    <2>1. ASSUME NEW x \in AssembleSeriesView(c, i)
          PROVE  \E k \in 1..N : x = <<specs[k].number, Asked(specs[k].count)>>
      <3>1. PICK p \in 1..MaxProblem : /\ c.problem[p].series = i
                                       /\ x = <<c.problem[p].number, Labels(c, p)>>
        BY <2>1 DEF AssembleSeriesView, ListProblemsForSeries
      <3>2. PICK k \in 1..N : Has(c, i, specs[k], p)
        BY <1>3, <3>1
      <3>3. QED
        BY <3>1, <3>2 DEF Has
    <2>2. ASSUME NEW k \in 1..N
          PROVE  <<specs[k].number, Asked(specs[k].count)>> \in AssembleSeriesView(c, i)
      <3>1. PICK p \in 1..MaxProblem : Has(c, i, specs[k], p)
        BY <1>3
      <3>2. QED
        BY <3>1 DEF Has, AssembleSeriesView, ListProblemsForSeries
    <2>3. QED
      BY <2>1, <2>2
  <1>10. \A k \in 1..N : specs[k].id # NoRow =>
           c.problem[specs[k].id] = [series |-> i, number |-> specs[k].number]
    BY <1>3 DEF Has
  <1>11. QED
    BY <1>3, <1>5, <1>7, <1>8, <1>9, <1>10 DEF Stored, Describes, N

\* A create writes into a series that has no problems yet.
LEMMA CreateDoes ==
  ASSUME NEW b, Stored(b), PartsInFull(b), NEW i \in 1..MaxSeries,
         NEW specs, IsPayload(specs), \A k \in 1..Len(specs) : specs[k].id = NoRow,
         \A p \in 1..MaxProblem : b.problem[p].series # i,
         b.nextProblem + ProblemsAsked(specs) <= MaxProblem + 1,
         b.nextSub + PartsAsked(specs) <= MaxSub + 1,
         NEW c, c = WriteProblems(b, i, specs)
  PROVE  /\ Stored(c) /\ PartsInFull(c) /\ Describes(c, i, specs)
         /\ \A p \in 1..MaxProblem :
              c.problem[p].series \in {NoRow, i} \/ c.problem[p].series = b.problem[p].series
  <1>1. Sound(b) /\ \A p \in 1..MaxProblem : b.problem[p] \in Problem
    BY DEF Stored
  <1>2. Halfway(b, c, i, specs, Len(specs))
    BY <1>1, WriteProblemsDoes
  <1>3. OthersStand(b, i)
    BY <1>1 DEF PartsInFull, OthersStand
  <1>4. QED
    BY <1>2, <1>3, HalfwayIsAllTheWay

\* What a DELETE leaves of a problem and of a part.
LEMMA NoProblemIs ==
  NoProblem \in Problem /\ NoProblem.series = NoRow /\ NoSubproblem.problem = NoRow
  <1> DEFINE first == CHOOSE n \in Numbers : TRUE
  <1>1. first \in Numbers /\ NoRow \in 0..MaxSeries
    BY NumberExists, BoardConstantsOK DEF NoRow
  <1>2. NoProblem = [series |-> NoRow, number |-> first]
    BY DEF NoProblem
  <1> HIDE DEF first
  <1>3. QED
    BY <1>1, <1>2 DEF Problem, NoSubproblem

\* An edit: what is not kept goes, what is kept is parked, and then everything
\* gets its number and its parts.
LEMMA ReconcileDoes ==
  ASSUME NEW b, Stored(b), PartsInFull(b), NEW i \in 1..MaxSeries,
         NEW specs, IsPayload(specs),
         \A k \in 1..Len(specs) : specs[k].id # NoRow => b.problem[specs[k].id].series = i,
         b.nextProblem + ProblemsAsked(specs) <= MaxProblem + 1,
         b.nextSub + PartsAsked(specs) <= MaxSub + 1,
         DOMAIN specs = 1..Len(specs),
         NEW c, c = ReconcileSeriesProblems(b, i, specs)
  PROVE  /\ Stored(c) /\ PartsInFull(c) /\ Describes(c, i, specs)
         /\ \A p \in 1..MaxProblem :
              c.problem[p].series \in {NoRow, i} \/ c.problem[p].series = b.problem[p].series
         /\ \A k \in 1..Len(specs) : specs[k].id # NoRow => KeepsParts(b, c, specs[k])
  <1> DEFINE N == Len(specs)
             removed == ListProblemsForSeries(b, i) \ Kept(specs)
             left == DeleteProblems(b, removed)
             a == Parked(left, specs)
             kept(p) == \E k \in 1..N : specs[k].id = p
  <1>1. c = WriteProblems(a, i, specs)
    BY DEF ReconcileSeriesProblems
  <1>2. \A p \in 1..MaxProblem : p \in removed <=> b.problem[p].series = i /\ ~kept(p)
    BY DEF ListProblemsForSeries, Kept, NoRow
  <1>3. removed \in SUBSET (1..MaxProblem)
    BY DEF ListProblemsForSeries
  <1>4. /\ Sound(b) /\ i # NoRow
        /\ \A p \in 1..MaxProblem : b.problem[p] \in Problem
        /\ \A k \in 1..N : specs[k].id \in 0..MaxProblem
    <2>1. Sound(b) /\ \A p \in 1..MaxProblem : b.problem[p] \in Problem
      BY DEF Stored
    <2>2. \A k \in 1..N : specs[k].id \in 0..MaxProblem
      BY SpecIs DEF IsPayload
    <2>3. QED
      BY <2>1, <2>2 DEF NoRow
  <1>5. NoProblem \in Problem /\ NoProblem.series = NoRow /\ NoSubproblem.problem = NoRow
    BY NoProblemIs
  <1> HIDE DEF removed
  <1>6. /\ Sound(left) /\ left.nextSub = b.nextSub /\ left.nextProblem = b.nextProblem
        /\ \A p \in 1..MaxProblem :
             left.problem[p] = IF p \in removed THEN NoProblem ELSE b.problem[p]
        /\ \A s \in 1..MaxSub :
             left.sub[s] = IF b.sub[s].problem \in removed THEN NoSubproblem ELSE b.sub[s]
    BY <1>3, <1>4, DeleteProblemsDoes
  <1> HIDE DEF left, kept, N
  <1>7. \A p \in 1..MaxProblem : left.problem[p] \in Problem
    BY <1>4, <1>5, <1>6
  <1>8. \A k \in 1..N : specs[k].id # NoRow => left.problem[specs[k].id].series = i
    <2> SUFFICES ASSUME NEW k \in 1..N, specs[k].id # NoRow
                 PROVE  left.problem[specs[k].id].series = i
      OBVIOUS
    <2>1. specs[k].id \in 1..MaxProblem /\ kept(specs[k].id)
      BY <1>4, BoardConstantsOK DEF NoRow, kept
    <2>2. b.problem[specs[k].id].series = i
      BY DEF N
    <2>3. QED
      BY <1>2, <1>6, <2>1, <2>2
  <1>9. \A p \in 1..MaxProblem : left.problem[p].number >= 0
    BY <1>7, NumbersAreNatural DEF Problem
  <1>10. /\ Sound(a) /\ a.sub = left.sub
         /\ a.nextSub = left.nextSub /\ a.nextProblem = left.nextProblem
         /\ \A p \in 1..MaxProblem :
              a.problem[p] = IF kept(p) THEN [series |-> i, number |-> -p] ELSE left.problem[p]
    <2> HIDE DEF a
    <2>1. /\ Sound(left) /\ a = Parked(left, specs)
          /\ \A k \in 1..Len(specs) : specs[k].id # NoRow => left.problem[specs[k].id].series = i
          /\ \A p \in 1..MaxProblem : left.problem[p].series = i => left.problem[p].number >= 0
      BY <1>6, <1>8, <1>9 DEF N, a
    <2>2. /\ Sound(a) /\ a.sub = left.sub
          /\ a.nextSub = left.nextSub /\ a.nextProblem = left.nextProblem
          /\ \A p \in 1..MaxProblem :
               a.problem[p] = IF \E k \in 1..Len(specs) : specs[k].id = p
                              THEN [series |-> i, number |-> -p] ELSE left.problem[p]
      BY <2>1, ParkedDoes
    <2>3. QED
      BY <2>2 DEF N, kept
  <1> HIDE DEF a
  <1>21. \A p \in 1..MaxProblem :
           /\ kept(p) => a.problem[p].series = i
           /\ ~kept(p) /\ p \in removed => a.problem[p] = NoProblem
           /\ ~kept(p) /\ p \notin removed => a.problem[p] = b.problem[p]
    <2> TAKE p \in 1..MaxProblem
    <2>1. a.problem[p] = IF kept(p) THEN [series |-> i, number |-> -p] ELSE left.problem[p]
      BY <1>10
    <2>2. left.problem[p] = IF p \in removed THEN NoProblem ELSE b.problem[p]
      BY <1>6
    <2>3. QED
      BY <2>1, <2>2
  <1>11. \A p \in 1..MaxProblem : a.problem[p].series = i => kept(p)
    BY <1>2, <1>4, <1>5, <1>21
  <1>12. \A k \in 1..N : specs[k].id # NoRow => Waits(a, a, i, specs[k].id)
    <2> SUFFICES ASSUME NEW k \in 1..N, specs[k].id # NoRow
                 PROVE  Waits(a, a, i, specs[k].id)
      OBVIOUS
    <2>1. specs[k].id \in 1..MaxProblem /\ kept(specs[k].id)
      BY <1>4, BoardConstantsOK DEF NoRow, kept
    <2>2. QED
      BY <1>10, <2>1 DEF Waits
  <1>13. /\ a.nextProblem + ProblemsAsked(specs) <= MaxProblem + 1
         /\ a.nextSub + PartsAsked(specs) <= MaxSub + 1
    BY <1>6, <1>10
  <1>14. Halfway(a, c, i, specs, Len(specs))
    BY <1>1, <1>10, <1>11, <1>12, <1>13, WriteProblemsDoes DEF N, kept
  <1>15. \A p \in 1..MaxProblem : a.problem[p].series # i => a.problem[p] \in Problem
    BY <1>4, <1>5, <1>21
  <1>16. ASSUME NEW p \in 1..MaxProblem, a.problem[p].series \notin {NoRow, i}
         PROVE  /\ a.problem[p].series = b.problem[p].series
                /\ \E count \in 0..MaxCount : Labels(a, p) = Asked(count)
    <2>1. ~kept(p) /\ p \notin removed /\ a.problem[p] = b.problem[p]
      BY <1>5, <1>16, <1>21
    <2>2. p # NoRow
      BY DEF NoRow
    <2>3. \A s \in 1..MaxSub : a.sub[s].problem = p \/ b.sub[s].problem = p =>
            a.sub[s] = b.sub[s]
      BY <1>5, <1>6, <1>10, <2>1, <2>2
    <2>4. Labels(a, p) = Labels(b, p)
      BY <2>3, SamePartsSameLabels
    <2>5. QED
      BY <1>16, <2>1, <2>4 DEF PartsInFull
  <1>17. /\ Stored(c) /\ PartsInFull(c) /\ Describes(c, i, specs)
         /\ \A p \in 1..MaxProblem :
              c.problem[p].series \in {NoRow, i} \/ c.problem[p].series = a.problem[p].series
    <2>1. OthersStand(a, i)
      BY <1>15, <1>16 DEF OthersStand
    <2>2. QED
      BY <1>14, <2>1, HalfwayIsAllTheWay
  <1>18. \A p \in 1..MaxProblem :
           c.problem[p].series \in {NoRow, i} \/ c.problem[p].series = b.problem[p].series
    BY <1>16, <1>17
  <1>19. ASSUME NEW k \in 1..N, specs[k].id # NoRow
         PROVE  KeepsParts(b, c, specs[k])
    <2> SUFFICES ASSUME NEW s \in 1..MaxSub, b.sub[s].problem = specs[k].id,
                        b.sub[s].label \in Asked(specs[k].count)
                 PROVE  c.sub[s] = b.sub[s]
      BY DEF KeepsParts
    <2>1. specs[k].id \in 1..MaxProblem /\ kept(specs[k].id)
      BY <1>4, <1>19, BoardConstantsOK DEF NoRow, kept
    <2>2. a.sub[s] = b.sub[s]
      BY <1>2, <1>6, <1>10, <2>1
    <2>3. KeepsParts(a, c, specs[k])
      BY <1>14, <1>19 DEF Halfway, N
    <2>4. QED
      BY <2>2, <2>3 DEF KeepsParts
  <1>20. QED
    BY <1>17, <1>18, <1>19 DEF N
-----------------------------------------------------------------------------
(* The invariant.                                                          *)

\* Ids are not handed out twice, so a row that is gone stays gone.
SeriesOK ==
  /\ active \in 1..MaxTerm
  /\ series \in [SeriesIds -> Series] /\ nextSeries \in 1..(MaxSeries + 1)
  /\ blobs \subseteq SeriesIds
  /\ \A i \in SeriesIds : i >= nextSeries => ~Exists(i)
  /\ \A i \in SeriesIds : ~Exists(i) => series[i].pdf = FALSE
  /\ PDFKeyHasObject

RowsOK ==
  /\ Stored(board) /\ PartsInFull(board)
  /\ \A p \in 1..MaxProblem : board.problem[p].series = NoRow \/ Exists(board.problem[p].series)

Calls == [pc : {"idle", "creating", "deleting", "deleted", "attaching"},
          series : 0..MaxSeries, term : 0..MaxTerm, pdf : BOOLEAN]

\* What a handler read before its next statement: the series it is about has
\* been created; once deleted it is gone; and as long as one that is finalized
\* exists, its object does.
CallOK(r) ==
  /\ call[r] \in Calls
  /\ call[r].pc = "creating" => call[r].term \in 1..MaxTerm
  /\ call[r].pc \in {"deleting", "deleted", "attaching"} =>
       call[r].series \in SeriesIds /\ call[r].series < nextSeries
  /\ call[r].pc = "deleted" => ~Exists(call[r].series)
  /\ call[r].pc = "attaching" /\ Exists(call[r].series) => call[r].series \in blobs

CallsOK == DOMAIN call = Requests /\ \A r \in Requests : CallOK(r)

IInv == SeriesOK /\ RowsOK /\ CallsOK

\* The invariant gives what the run checks.
LEMMA IInvGivesBoardInv == IInv => BoardInv
  <1> SUFFICES ASSUME IInv PROVE BoardInv
    OBVIOUS
  <1>1. Sound(board) /\ board.problem \in [1..MaxProblem -> Problem]
    BY DEF IInv, RowsOK, Stored
  <1>2. board \in Board
    BY <1>1 DEF Sound, Tables, Board
  <1>3. BoardTypeOK
    BY <1>1, <1>2 DEF BoardTypeOK, IInv, SeriesOK, RowsOK, CallsOK, CallOK, Calls, Sound, PartsHang
  <1>4. EveryProblemHasParts
    <2> SUFFICES ASSUME NEW p \in 1..MaxProblem, board.problem[p].series # NoRow
                 PROVE  Labels(board, p) = {0} \/ \E n \in 1..MaxCount : Labels(board, p) = 1..n
      BY DEF EveryProblemHasParts
    <2>1. PICK count \in 0..MaxCount : Labels(board, p) = Asked(count)
      BY DEF IInv, RowsOK, PartsInFull
    <2>2. Asked(count) = IF count = 0 THEN {0} ELSE 1..count
      BY DesiredLabelsAre
    <2>3. count = 0 \/ count \in 1..MaxCount
      BY BoardConstantsOK
    <2>4. QED
      BY <2>1, <2>2, <2>3
  <1>5. PDFKeyHasObject
    BY DEF IInv, SeriesOK
  <1>6. QED
    BY <1>3, <1>4, <1>5 DEF BoardInv

\* A payload that passed the checks on numbers and on ids.
LEMMA CheckedPayload ==
  ASSUME NEW specs \in Payloads, NEW b, NEW i, KnownProblems(b, i, specs)
  PROVE  /\ IsPayload(specs) /\ DOMAIN specs = 1..Len(specs)
         /\ \A k \in 1..Len(specs) : specs[k].id # NoRow => b.problem[specs[k].id].series = i
  BY PayloadsAre DEF IsPayload, KnownProblems, Kept, ListProblemsForSeries

\* And what an edit does from any board the invariant allows.
LEMMA IInvGivesEditDoesAsked == IInv => EditDoesAsked
  <1> SUFFICES ASSUME IInv, NEW i \in SeriesIds, NEW specs \in Edits(i),
                      NEW b, b = ReconcileSeriesProblems(board, i, specs)
               PROVE
                 /\ b.ok
                 /\ AssembleSeriesView(b, i) =
                      {<<specs[k].number, ToSet(DesiredLabels(specs[k].count))>> :
                         k \in DOMAIN specs}
                 /\ \A k \in DOMAIN specs : specs[k].id # NoRow =>
                      /\ b.problem[specs[k].id] = [series |-> i, number |-> specs[k].number]
                      /\ \A s \in ListSubproblems(board, specs[k].id) :
                           board.sub[s].label \in ToSet(DesiredLabels(specs[k].count)) =>
                             b.sub[s] = board.sub[s]
    BY DEF EditDoesAsked
  <1>1. specs \in Payloads /\ KnownProblems(board, i, specs) /\ RoomFor(specs)
    BY DEF Edits
  <1>2. /\ IsPayload(specs) /\ DOMAIN specs = 1..Len(specs)
        /\ \A k \in 1..Len(specs) : specs[k].id # NoRow => board.problem[specs[k].id].series = i
    BY <1>1, CheckedPayload
  <1>3. Stored(board) /\ PartsInFull(board)
    BY DEF IInv, RowsOK
  <1>4. /\ Stored(b) /\ Describes(b, i, specs)
        /\ \A k \in 1..Len(specs) : specs[k].id # NoRow => KeepsParts(board, b, specs[k])
    BY <1>1, <1>2, <1>3, ReconcileDoes DEF RoomFor, SeriesIds
  <1>5. b.ok
    BY <1>4 DEF Stored, Sound
  <1>6. QED
    BY <1>2, <1>4, <1>5 DEF Describes, KeepsParts, ListSubproblems, Asked
-----------------------------------------------------------------------------
(* Every step keeps it.                                                    *)

\* What a DELETE leaves of a series: no term, no PDF.
LEMMA NoSeriesIs == NoSeries.term = NoRow /\ NoSeries.pdf = FALSE /\ NoSeries \in Series
  <1>1. \E n : n \in SeriesNumbers
    BY BoardConstantsOK
  <1>2. (CHOOSE n \in SeriesNumbers : TRUE) \in SeriesNumbers
    BY <1>1
  <1>3. QED
    BY <1>2, BoardConstantsOK DEF NoSeries, Series, NoRow

\* A call that does not run asks nothing of the rows.
LEMMA IdleIsACall == Idle \in Calls /\ Idle.pc = "idle"
  BY BoardConstantsOK DEF Idle, Calls, NoRow

\* No rows, no calls.
LEMMA InitIInv == Init => IInv
  <1> SUFFICES ASSUME Init PROVE IInv
    OBVIOUS
  <1>2. SeriesOK
    BY NoSeriesIs, BoardConstantsOK DEF Init, SeriesOK, PDFKeyHasObject, Exists, SeriesIds
  <1>3. RowsOK
    <2>1. NoProblem \in Problem /\ NoProblem.series = NoRow
      BY NoProblemIs
    <2>2. NoSubproblem \in Subproblem /\ NoSubproblem.problem = NoRow
      BY BoardConstantsOK DEF NoSubproblem, Subproblem, NoRow
    <2>3. Problem \subseteq [series : 0..MaxSeries, number : Int]
      BY NumbersAreNatural DEF Problem
    <2>4. /\ board.problem = [p \in 1..MaxProblem |-> NoProblem]
          /\ board.sub = [s \in 1..MaxSub |-> NoSubproblem]
          /\ board.ok = TRUE
      BY DEF Init
    <2>5. board \in Tables
      <3>1. 1 \in 1..(MaxProblem + 1) /\ 1 \in 1..(MaxSub + 1)
        BY BoardConstantsOK
      <3>2. board.problem \in [1..MaxProblem -> [series : 0..MaxSeries, number : Int]]
        BY <2>1, <2>3, <2>4
      <3>3. board.sub \in [1..MaxSub -> Subproblem]
        BY <2>2, <2>4
      <3>4. board = [problem |-> board.problem, sub |-> board.sub,
                     nextProblem |-> 1, nextSub |-> 1, ok |-> TRUE]
        BY <2>4 DEF Init
      <3>5. board.nextProblem = 1 /\ board.nextSub = 1 /\ board.ok \in BOOLEAN
        BY DEF Init
      <3>6. QED
        BY <3>1, <3>2, <3>3, <3>4, <3>5, Zenon DEF Tables
    <2>6. Sound(board)
      BY <2>1, <2>2, <2>4, <2>5 DEF Sound, Fresh, PartsHang, UniqueLabels, UniqueNumbers
    <2>7. QED
      BY <2>1, <2>4, <2>6 DEF RowsOK, Stored, PartsInFull
  <1>4. CallsOK
    BY IdleIsACall DEF Init, CallsOK, CallOK
  <1>5. QED
    BY <1>2, <1>3, <1>4 DEF IInv

\* A create takes the next id, which nothing refers to yet.
LEMMA CreateKeeps ==
  ASSUME IInv, NEW t \in 1..MaxTerm, NEW n \in SeriesNumbers, NEW specs \in Payloads,
         Create(t, n, specs)
  PROVE  /\ SeriesOK' /\ RowsOK' /\ nextSeries' = nextSeries + 1
         /\ \A i \in SeriesIds : i < nextSeries => series'[i] = series[i]
  <1>1. /\ nextSeries \in SeriesIds /\ nextSeries' = nextSeries + 1
        /\ nextSeries + 1 \in 1..(MaxSeries + 1)
    BY BoardConstantsOK DEF IInv, SeriesOK, Create, SeriesIds
  <1>2. /\ series' = [series EXCEPT ![nextSeries] = [NoSeries EXCEPT !.term = t, !.number = n]]
        /\ board' = WriteProblems(board, nextSeries, specs)
        /\ active' = active /\ blobs' = blobs /\ RoomFor(specs) /\ Kept(specs) = {}
    BY DEF Create, InsertSeries
  <1>3. /\ series \in [SeriesIds -> Series] /\ active \in 1..MaxTerm /\ blobs \subseteq SeriesIds
        /\ \A i \in SeriesIds : i >= nextSeries => ~Exists(i)
        /\ \A i \in SeriesIds : ~Exists(i) => series[i].pdf = FALSE
        /\ PDFKeyHasObject
    BY DEF IInv, SeriesOK
  <1>4. /\ series'[nextSeries].term = t /\ series'[nextSeries].pdf = FALSE
        /\ series' \in [SeriesIds -> Series]
        /\ \A i \in SeriesIds : i # nextSeries => series'[i] = series[i]
    <2> DEFINE new == [NoSeries EXCEPT !.term = t, !.number = n]
    <2>1. t \in 0..MaxTerm
      BY BoardConstantsOK
    <2>2. new \in Series
      BY <2>1, NoSeriesIs DEF Series
    <2>3. new.term = t /\ new.pdf = FALSE
      BY NoSeriesIs DEF Series
    <2> HIDE DEF new
    <2>4. series' = [series EXCEPT ![nextSeries] = new]
      BY <1>2 DEF new
    <2>5. QED
      BY <1>1, <1>3, <2>2, <2>3, <2>4
  <1>5. SeriesOK'
    <2>1. t # NoRow
      BY DEF NoRow
    <2>2. \A i \in SeriesIds : i >= nextSeries' => i # nextSeries /\ i >= nextSeries
      BY <1>1 DEF SeriesIds
    <2>3. \A i \in SeriesIds : i >= nextSeries' => ~Exists(i)'
      BY <1>3, <1>4, <2>2 DEF Exists
    <2>4. \A i \in SeriesIds : ~Exists(i)' => series'[i].pdf = FALSE
      BY <1>3, <1>4 DEF Exists
    <2>5. PDFKeyHasObject'
      BY <1>2, <1>3, <1>4 DEF PDFKeyHasObject
    <2>6. QED
      BY <1>1, <1>2, <1>3, <1>4, <2>3, <2>4, <2>5 DEF SeriesOK
  <1>6. /\ Stored(board) /\ PartsInFull(board)
        /\ \A p \in 1..MaxProblem :
             board.problem[p].series = NoRow \/ Exists(board.problem[p].series)
        /\ \A p \in 1..MaxProblem : board.problem[p].series \in 0..MaxSeries
    BY DEF IInv, RowsOK, Stored, Problem
  <1>7. \A p \in 1..MaxProblem : board.problem[p].series # nextSeries
    BY <1>1, <1>3, <1>6 DEF NoRow, SeriesIds
  <1>8. IsPayload(specs) /\ \A k \in 1..Len(specs) : specs[k].id = NoRow
    BY <1>2, PayloadsAre DEF IsPayload, Kept
  <1>9. /\ Stored(board') /\ PartsInFull(board')
        /\ \A p \in 1..MaxProblem :
             board'.problem[p].series \in {NoRow, nextSeries}
               \/ board'.problem[p].series = board.problem[p].series
    BY <1>1, <1>2, <1>6, <1>7, <1>8, CreateDoes, SMTT(30) DEF RoomFor, SeriesIds
  <1>10. \A p \in 1..MaxProblem :
           \/ board'.problem[p].series = NoRow
           \/ series'[board'.problem[p].series].term # NoRow
    <2> SUFFICES ASSUME NEW p \in 1..MaxProblem, board'.problem[p].series # NoRow
                 PROVE  series'[board'.problem[p].series].term # NoRow
      OBVIOUS
    <2>1. CASE board'.problem[p].series = nextSeries
      BY <1>4, <2>1 DEF NoRow
    <2>2. CASE board'.problem[p].series = board.problem[p].series
      <3>1. board.problem[p].series \in SeriesIds /\ board.problem[p].series # nextSeries
        BY <1>6, <1>7, <2>2, BoardConstantsOK DEF SeriesIds, NoRow
      <3>2. Exists(board.problem[p].series)
        BY <1>6, <2>2
      <3>3. QED
        BY <1>4, <2>2, <3>1, <3>2 DEF Exists
    <2>3. QED
      BY <1>9, <2>1, <2>2
  <1>11. RowsOK'
    BY <1>9, <1>10 DEF RowsOK, Exists
  <1>12. QED
    BY <1>1, <1>4, <1>5, <1>11 DEF SeriesIds

\* Deleting a series takes its problems along, and their parts.
LEMMA DeleteKeepsRows ==
  ASSUME IInv, NEW i \in SeriesIds,
         series' = [series EXCEPT ![i] = NoSeries],
         board' = DeleteProblems(board, ListProblemsForSeries(board, i))
  PROVE  RowsOK'
  <1> DEFINE gone == ListProblemsForSeries(board, i)
  <1>1. \A p \in 1..MaxProblem : p \in gone <=> board.problem[p].series = i
    BY DEF ListProblemsForSeries
  <1>2. gone \in SUBSET (1..MaxProblem) /\ board' = DeleteProblems(board, gone)
    BY DEF ListProblemsForSeries
  <1> HIDE DEF gone
  <1>3. /\ Sound(board) /\ PartsInFull(board)
        /\ \A p \in 1..MaxProblem : board.problem[p] \in Problem
        /\ \A p \in 1..MaxProblem :
             board.problem[p].series = NoRow \/ Exists(board.problem[p].series)
    BY DEF IInv, RowsOK, Stored
  <1>4. NoProblem \in Problem /\ NoProblem.series = NoRow /\ NoSubproblem.problem = NoRow
    BY NoProblemIs
  <1> DEFINE c == board'
  <1>5. /\ Sound(c)
        /\ \A p \in 1..MaxProblem : c.problem[p] = IF p \in gone THEN NoProblem
                                                                 ELSE board.problem[p]
        /\ \A s \in 1..MaxSub : c.sub[s] = IF board.sub[s].problem \in gone THEN NoSubproblem
                                                                           ELSE board.sub[s]
    BY <1>2, <1>3, DeleteProblemsDoes
  <1> HIDE DEF c
  <1>6. c.problem \in [1..MaxProblem -> Problem]
    <2>1. c.problem \in [1..MaxProblem -> [series : 0..MaxSeries, number : Int]]
      BY <1>5 DEF Sound, Tables
    <2>2. \A p \in 1..MaxProblem : c.problem[p] \in Problem
      BY <1>3, <1>4, <1>5
    <2>3. QED
      BY <2>1, <2>2
  <1>7. ASSUME NEW p \in 1..MaxProblem, c.problem[p].series # NoRow
        PROVE  /\ p \notin gone /\ c.problem[p] = board.problem[p]
               /\ Labels(c, p) = Labels(board, p)
    <2>1. p \notin gone /\ c.problem[p] = board.problem[p] /\ p # NoRow
      BY <1>4, <1>5, <1>7 DEF NoRow
    <2>2. \A s \in 1..MaxSub : board.sub[s].problem = p \/ c.sub[s].problem = p =>
            c.sub[s] = board.sub[s]
      BY <1>4, <1>5, <2>1
    <2>3. QED
      BY <2>1, <2>2, SamePartsSameLabels
  <1>8. PartsInFull(c)
    BY <1>3, <1>7 DEF PartsInFull
  <1>9. ASSUME NEW p \in 1..MaxProblem, c.problem[p].series # NoRow
        PROVE  series'[c.problem[p].series].term # NoRow
    <2>1. c.problem[p].series \in SeriesIds
      <3>1. c.problem[p].series \in 0..MaxSeries
        BY <1>3, <1>7, <1>9 DEF Problem
      <3>2. QED
        BY <1>9, <3>1, BoardConstantsOK DEF SeriesIds, NoRow
    <2>2. c.problem[p].series # i /\ Exists(c.problem[p].series)
      BY <1>1, <1>3, <1>7, <1>9
    <2>3. series \in [SeriesIds -> Series]
      BY DEF IInv, SeriesOK
    <2>4. QED
      BY <2>1, <2>2, <2>3 DEF Exists
  <1>10. QED
    BY <1>5, <1>6, <1>8, <1>9 DEF RowsOK, Stored, Exists, c

\* A step that leaves the rows of problems alone, and every series where it is.
LEMMA SeriesStayRowsStay ==
  ASSUME IInv, board' = board, \A i \in SeriesIds : Exists(i) => series'[i].term # NoRow
  PROVE  RowsOK'
  <1>1. /\ Stored(board) /\ PartsInFull(board)
        /\ \A p \in 1..MaxProblem :
             /\ board.problem[p].series = NoRow \/ Exists(board.problem[p].series)
             /\ board.problem[p].series \in 0..MaxSeries
    BY DEF IInv, RowsOK, Stored, Problem
  <1>2. \A p \in 1..MaxProblem :
          board.problem[p].series = NoRow \/ series'[board.problem[p].series].term # NoRow
    BY <1>1, BoardConstantsOK DEF SeriesIds, NoRow
  <1>3. QED
    BY <1>1, <1>2 DEF RowsOK, Exists

\* A call that does not move stays right: no series comes back, and an object
\* goes only when its series has gone.
LEMMA CallStays ==
  ASSUME IInv, nextSeries' >= nextSeries, nextSeries' \in Nat,
         \A i \in SeriesIds : i < nextSeries /\ series'[i].term # NoRow =>
           Exists(i) /\ (i \in blobs => i \in blobs'),
         NEW r \in Requests, call'[r] = call[r]
  PROVE  CallOK(r)'
  <1>1. CallOK(r) /\ nextSeries \in Nat
    BY DEF IInv, CallsOK, SeriesOK
  <1>2. QED
    BY <1>1 DEF CallOK, Exists, SeriesIds

\* A step that touches no row and no object, and hands out no id: all it can
\* spoil is the call it moves.
LEMMA CallMoves ==
  ASSUME IInv, UNCHANGED <<active, series, nextSeries, board, blobs>>,
         NEW r \in Requests, NEW new, call' = [call EXCEPT ![r] = new], CallOK(r)'
  PROVE  IInv'
  <1>1. SeriesOK'
    BY DEF IInv, SeriesOK, PDFKeyHasObject, Exists
  <1>2. RowsOK'
    BY DEF IInv, RowsOK, Exists
  <1>3. /\ DOMAIN call' = Requests
        /\ \A q \in Requests : q # r => call'[q] = call[q]
    BY DEF IInv, CallsOK
  <1>4. nextSeries \in Nat
    BY DEF IInv, SeriesOK
  <1>5. \A q \in Requests : CallOK(q)'
    BY <1>3, <1>4, CallStays DEF Exists
  <1>6. QED
    BY <1>1, <1>2, <1>3, <1>5 DEF IInv, CallsOK

\* A step that changes a series in place, but not its term, and takes no object.
LEMMA RowChanges ==
  ASSUME IInv, UNCHANGED <<active, nextSeries, call>>, blobs \subseteq blobs',
         blobs' \subseteq SeriesIds, RowsOK', series' \in [SeriesIds -> Series],
         \A i \in SeriesIds : series'[i].term = series[i].term,
         \A i \in SeriesIds : series'[i].pdf = series[i].pdf
  PROVE  IInv'
  <1>1. SeriesOK'
    BY DEF IInv, SeriesOK, PDFKeyHasObject, Exists
  <1>2. nextSeries \in Nat
    BY DEF IInv, SeriesOK
  <1>3. \A q \in Requests : CallOK(q)'
    BY <1>2, CallStays DEF Exists
  <1>4. QED
    BY <1>1, <1>3 DEF IInv, CallsOK

\* A create, in the active term or in the one that was checked before.
LEMMA CreatesKeep ==
  ASSUME IInv, NEW n \in SeriesNumbers, NEW specs \in Payloads,
         CreateSeries(n, specs) \/ \E r \in Requests : CreateInTerm(r, n, specs)
  PROVE  IInv'
  <1>1. nextSeries \in Nat /\ active \in 1..MaxTerm /\ \A r \in Requests : CallOK(r)
    BY DEF IInv, SeriesOK, CallsOK
  <1>2. ASSUME NEW t \in 1..MaxTerm, Create(t, n, specs)
        PROVE  /\ SeriesOK' /\ RowsOK' /\ nextSeries' = nextSeries + 1
               /\ \A r \in Requests : call'[r] = call[r] => CallOK(r)'
    <2>1. /\ SeriesOK' /\ RowsOK' /\ nextSeries' = nextSeries + 1
          /\ \A i \in SeriesIds : i < nextSeries => series'[i] = series[i]
      BY <1>2, CreateKeeps
    <2>2. blobs' = blobs
      BY <1>2 DEF Create
    <2>3. \A r \in Requests : call'[r] = call[r] => CallOK(r)'
      BY <1>1, <2>1, <2>2, CallStays DEF Exists
    <2>4. QED
      BY <2>1, <2>3
  <1>3. CASE CreateSeries(n, specs)
    <2>1. Create(active, n, specs) /\ call' = call
      BY <1>3 DEF CreateSeries
    <2>2. QED
      BY <1>1, <1>2, <2>1 DEF IInv, CallsOK
  <1>4. ASSUME NEW r \in Requests, CreateInTerm(r, n, specs)
        PROVE  IInv'
    <2>1. /\ call[r].pc = "creating" /\ Create(call[r].term, n, specs)
          /\ call' = [call EXCEPT ![r] = Idle]
      BY <1>4 DEF CreateInTerm
    <2>2. call[r].term \in 1..MaxTerm
      BY <1>1, <2>1 DEF CallOK
    <2>3. /\ DOMAIN call' = Requests /\ call'[r] = Idle
          /\ \A q \in Requests : q # r => call'[q] = call[q]
      BY <2>1 DEF IInv, CallsOK
    <2>4. CallOK(r)'
      BY <2>3, IdleIsACall DEF CallOK
    <2>5. QED
      BY <1>2, <2>1, <2>2, <2>3, <2>4 DEF IInv, CallsOK
  <1>5. QED
    BY <1>3, <1>4

\* An edit: the series stays where it is, and its problems hang on it.
LEMMA UpdateKeeps ==
  ASSUME IInv, NEW n \in SeriesNumbers, NEW specs \in Payloads, NEW i \in SeriesIds,
         UpdateSeries(i, n, specs)
  PROVE  IInv'
  <1>1. /\ Exists(i) /\ KnownProblems(board, i, specs) /\ RoomFor(specs)
        /\ series' = [series EXCEPT ![i].number = n]
        /\ board' = ReconcileSeriesProblems(board, i, specs)
        /\ UNCHANGED <<active, nextSeries, blobs, call>>
    BY DEF UpdateSeries, UpdateSeriesRow
  <1>2. /\ series \in [SeriesIds -> Series] /\ blobs \subseteq SeriesIds
        /\ Stored(board) /\ PartsInFull(board)
        /\ \A p \in 1..MaxProblem :
             board.problem[p].series = NoRow \/ Exists(board.problem[p].series)
    BY DEF IInv, SeriesOK, RowsOK
  <1>3. /\ series' \in [SeriesIds -> Series]
        /\ \A j \in SeriesIds : series'[j].term = series[j].term
        /\ \A j \in SeriesIds : series'[j].pdf = series[j].pdf
    BY <1>1, <1>2 DEF Series
  <1>4. /\ IsPayload(specs) /\ DOMAIN specs = 1..Len(specs)
        /\ \A k \in 1..Len(specs) : specs[k].id # NoRow => board.problem[specs[k].id].series = i
    BY <1>1, CheckedPayload
  <1> DEFINE c == board'
  <1>5. /\ Stored(c) /\ PartsInFull(c)
        /\ \A p \in 1..MaxProblem :
             c.problem[p].series \in {NoRow, i} \/ c.problem[p].series = board.problem[p].series
    BY <1>1, <1>2, <1>4, ReconcileDoes DEF RoomFor, SeriesIds
  <1> HIDE DEF c
  <1>6. ASSUME NEW p \in 1..MaxProblem, c.problem[p].series # NoRow
        PROVE  series'[c.problem[p].series].term # NoRow
    <2>1. c.problem[p].series \in SeriesIds
      <3>1. c.problem[p].series \in 0..MaxSeries
        BY <1>5 DEF Stored, Problem
      <3>2. QED
        BY <1>6, <3>1, BoardConstantsOK DEF SeriesIds, NoRow
    <2>2. Exists(c.problem[p].series)
      BY <1>1, <1>2, <1>5, <1>6
    <2>3. QED
      BY <1>3, <2>1, <2>2 DEF Exists
  <1>7. RowsOK'
    BY <1>5, <1>6 DEF RowsOK, Exists, c
  <1>8. QED
    BY <1>1, <1>2, <1>3, <1>7, RowChanges

\* The DELETE of a series, which then waits for its object to go.
LEMMA DeleteKeeps ==
  ASSUME IInv, NEW r \in Requests, DeleteSeries(r)
  PROVE  IInv'
  <1> DEFINE i == call[r].series
  <1>1. /\ call[r].pc = "deleting" /\ series' = [series EXCEPT ![i] = NoSeries]
        /\ board' = DeleteProblems(board, ListProblemsForSeries(board, i))
        /\ call' = [call EXCEPT ![r] = IF call[r].pdf THEN [call[r] EXCEPT !.pc = "deleted"]
                                                      ELSE Idle]
        /\ UNCHANGED <<active, nextSeries, blobs>>
    BY DEF DeleteSeries, DeleteSeriesRow
  <1>2. /\ i \in SeriesIds /\ i < nextSeries /\ nextSeries \in Nat
        /\ series \in [SeriesIds -> Series] /\ DOMAIN call = Requests
    BY <1>1 DEF IInv, SeriesOK, CallsOK, CallOK
  <1>3. /\ series' \in [SeriesIds -> Series] /\ series'[i].term = NoRow /\ series'[i].pdf = FALSE
        /\ \A j \in SeriesIds : j # i => series'[j] = series[j]
    BY <1>1, <1>2, NoSeriesIs
  <1>4. RowsOK'
    BY <1>1, <1>2, DeleteKeepsRows
  <1>5. SeriesOK'
    <2>1. \A j \in SeriesIds : j >= nextSeries' => ~Exists(j)'
      BY <1>1, <1>3 DEF IInv, SeriesOK, Exists
    <2>2. \A j \in SeriesIds : ~Exists(j)' => series'[j].pdf = FALSE
      BY <1>3 DEF IInv, SeriesOK, Exists
    <2>3. PDFKeyHasObject'
      BY <1>1, <1>3 DEF IInv, SeriesOK, PDFKeyHasObject
    <2>4. QED
      BY <1>1, <1>3, <2>1, <2>2, <2>3 DEF IInv, SeriesOK
  <1>6. CallOK(r)'
    <2>1. CASE call[r].pdf
      <3>1. call'[r] = [call[r] EXCEPT !.pc = "deleted"]
        BY <1>1, <1>2, <2>1
      <3>2. call'[r].series = i
        BY <3>1
      <3>5. call[r] \in Calls
        BY DEF IInv, CallsOK, CallOK
      <3>3. call'[r].pc = "deleted" /\ call'[r] \in Calls
        BY <3>1, <3>5 DEF Calls
      <3>4. QED
        BY <1>1, <1>2, <1>3, <3>2, <3>3 DEF CallOK, Exists
    <2>2. CASE ~call[r].pdf
      <3>1. call'[r] = Idle
        BY <1>1, <1>2, <2>2
      <3>2. QED
        BY <3>1, IdleIsACall DEF CallOK
    <2>3. QED
      BY <2>1, <2>2
  <1>7. \A q \in Requests : q # r => CallOK(q)'
    <2>1. \A q \in Requests : q # r => call'[q] = call[q]
      BY <1>1, <1>2
    <2>2. \A j \in SeriesIds : series'[j].term # NoRow => Exists(j)
      BY <1>3 DEF Exists
    <2>3. QED
      BY <1>1, <1>2, <2>1, <2>2, CallStays
  <1>8. QED
    BY <1>1, <1>4, <1>5, <1>6, <1>7 DEF IInv, CallsOK

\* The object goes, or stays behind: its series has gone either way.
LEMMA DeleteObjectKeeps ==
  ASSUME IInv, NEW r \in Requests, DeleteObject(r)
  PROVE  IInv'
  <1>1. /\ call[r].pc = "deleted" /\ call' = [call EXCEPT ![r] = Idle]
        /\ blobs' = blobs \/ blobs' = blobs \ {call[r].series}
        /\ UNCHANGED <<active, series, nextSeries, board>>
    BY DEF DeleteObject
  <1>2. /\ call[r].series \in SeriesIds /\ ~Exists(call[r].series)
        /\ nextSeries \in Nat /\ DOMAIN call = Requests
    BY <1>1 DEF IInv, SeriesOK, CallsOK, CallOK
  <1>3. SeriesOK'
    <2>1. PDFKeyHasObject'
      BY <1>1, <1>2 DEF IInv, SeriesOK, PDFKeyHasObject
    <2>2. QED
      BY <1>1, <2>1 DEF IInv, SeriesOK, Exists
  <1>4. RowsOK'
    BY <1>1, SeriesStayRowsStay DEF Exists
  <1>5. /\ call'[r] = Idle /\ \A q \in Requests : q # r => call'[q] = call[q]
    BY <1>1, <1>2
  <1>6. CallOK(r)'
    BY <1>5, IdleIsACall DEF CallOK
  <1>7. \A q \in Requests : q # r => CallOK(q)'
    BY <1>1, <1>2, <1>5, CallStays DEF Exists
  <1>8. QED
    BY <1>1, <1>3, <1>4, <1>6, <1>7 DEF IInv, CallsOK

\* The key is written for a series that still exists: its object does too.
LEMMA FinalizeKeeps ==
  ASSUME IInv, NEW r \in Requests, FinalizePDFPublish(r)
  PROVE  IInv'
  <1> DEFINE i == call[r].series
  <1>1. /\ call[r].pc = "attaching" /\ call' = [call EXCEPT ![r] = Idle]
        /\ IF Exists(i) THEN series' = [series EXCEPT ![i].pdf = TRUE] ELSE series' = series
        /\ UNCHANGED <<active, nextSeries, board, blobs>>
    BY DEF FinalizePDFPublish, SetSeriesPDF
  <1>2. /\ i \in SeriesIds /\ (Exists(i) => i \in blobs)
        /\ nextSeries \in Nat /\ DOMAIN call = Requests
        /\ series \in [SeriesIds -> Series]
    BY <1>1 DEF IInv, SeriesOK, CallsOK, CallOK
  <1>3. /\ series' \in [SeriesIds -> Series]
        /\ \A j \in SeriesIds : series'[j].term = series[j].term
        /\ \A j \in SeriesIds : series'[j].pdf # series[j].pdf => j = i /\ Exists(i)
    <2>1. CASE Exists(i)
      <3>1. series' = [series EXCEPT ![i].pdf = TRUE]
        BY <1>1, <2>1
      <3>2. QED
        BY <1>2, <2>1, <3>1 DEF Series
    <2>2. CASE ~Exists(i)
      BY <1>1, <1>2, <2>2
    <2>3. QED
      BY <2>1, <2>2
  <1>4. SeriesOK'
    <2>1. PDFKeyHasObject'
      BY <1>1, <1>2, <1>3 DEF IInv, SeriesOK, PDFKeyHasObject
    <2>2. \A j \in SeriesIds : ~Exists(j)' => series'[j].pdf = FALSE
      BY <1>3 DEF IInv, SeriesOK, Exists
    <2>3. QED
      BY <1>1, <1>3, <2>1, <2>2 DEF IInv, SeriesOK, Exists
  <1>5. RowsOK'
    BY <1>1, <1>3, SeriesStayRowsStay DEF Exists
  <1>6. /\ call'[r] = Idle /\ \A q \in Requests : q # r => call'[q] = call[q]
    BY <1>1, <1>2
  <1>7. CallOK(r)'
    BY <1>6, IdleIsACall DEF CallOK
  <1>8. \A q \in Requests : q # r => CallOK(q)'
    BY <1>1, <1>2, <1>3, <1>6, CallStays DEF Exists
  <1>9. QED
    BY <1>1, <1>4, <1>5, <1>7, <1>8 DEF IInv, CallsOK

\* Every step of the specification.
LEMMA NextIInv == IInv /\ [Next]_vars => IInv'
  <1> SUFFICES ASSUME IInv, [Next]_vars PROVE IInv'
    OBVIOUS
  <1>1. ASSUME NEW n \in SeriesNumbers, NEW specs \in Payloads,
               CreateSeries(n, specs) \/ \E r \in Requests : CreateInTerm(r, n, specs)
        PROVE  IInv'
    BY <1>1, CreatesKeep
  <1>2. ASSUME NEW n \in SeriesNumbers, NEW specs \in Payloads, NEW i \in SeriesIds,
               UpdateSeries(i, n, specs)
        PROVE  IInv'
    BY <1>2, UpdateKeeps
  <1>3. ASSUME NEW r \in Requests,
               DeleteSeries(r) \/ DeleteObject(r) \/ FinalizePDFPublish(r)
        PROVE  IInv'
    BY <1>3, DeleteKeeps, DeleteObjectKeeps, FinalizeKeeps
  <1>4. DOMAIN call = Requests
    BY DEF IInv, CallsOK
  <1>9. blobs \subseteq SeriesIds /\ series \in [SeriesIds -> Series]
    BY DEF IInv, SeriesOK
  <1>5. ASSUME NEW r \in Requests, NEW t \in 1..MaxTerm, CreateInTermCheck(r, t)
        PROVE  IInv'
    <2> DEFINE new == [Idle EXCEPT !.pc = "creating", !.term = t]
    <2>1. call' = [call EXCEPT ![r] = new]
      BY <1>5 DEF CreateInTermCheck
    <2>6. t \in 0..MaxTerm
      BY BoardConstantsOK
    <2>2. call'[r].pc = "creating" /\ call'[r].term = t /\ call'[r] \in Calls
      <3>1. new \in Calls /\ new.pc = "creating" /\ new.term = t
        BY <2>6, IdleIsACall DEF Calls
      <3>2. QED
        BY <1>4, <2>1, <3>1
    <2>3. CallOK(r)'
      BY <2>2 DEF CallOK
    <2>4. QED
      BY <1>5, <2>1, <2>3, CallMoves DEF CreateInTermCheck
  <1>6. \A i \in SeriesIds : Exists(i) => i < nextSeries
    BY DEF IInv, SeriesOK, SeriesIds
  <1>7. ASSUME NEW r \in Requests, NEW i \in SeriesIds, DeleteSeriesGet(r, i)
        PROVE  IInv'
    <2> DEFINE new == [Idle EXCEPT !.pc = "deleting", !.series = i, !.pdf = series[i].pdf]
    <2>1. call' = [call EXCEPT ![r] = new] /\ Exists(i) /\ UNCHANGED nextSeries
      BY <1>7 DEF DeleteSeriesGet
    <2>5. series[i].pdf \in BOOLEAN /\ i \in 0..MaxSeries
      BY <1>9 DEF Series, SeriesIds
    <2>2. call'[r].pc = "deleting" /\ call'[r].series = i /\ call'[r] \in Calls
      <3>1. new \in Calls /\ new.pc = "deleting" /\ new.series = i
        BY <2>5, IdleIsACall DEF Calls
      <3>2. QED
        BY <1>4, <2>1, <3>1
    <2>3. CallOK(r)'
      BY <1>6, <2>1, <2>2 DEF CallOK
    <2>4. QED
      BY <1>7, <2>1, <2>3, CallMoves DEF DeleteSeriesGet
  <1>8. ASSUME NEW r \in Requests, NEW i \in SeriesIds, FinalizeStat(r, i)
        PROVE  IInv'
    <2> DEFINE new == [Idle EXCEPT !.pc = "attaching", !.series = i]
    <2>1. /\ call' = [call EXCEPT ![r] = new] /\ Exists(i) /\ i \in blobs
          /\ UNCHANGED <<nextSeries, blobs>>
      BY <1>8 DEF FinalizeStat
    <2>6. i \in 0..MaxSeries
      BY DEF SeriesIds
    <2>2. call'[r].pc = "attaching" /\ call'[r].series = i /\ call'[r] \in Calls
      <3>1. new \in Calls /\ new.pc = "attaching" /\ new.series = i
        BY <2>6, IdleIsACall DEF Calls
      <3>2. QED
        BY <1>4, <2>1, <3>1
    <2>3. CallOK(r)'
      BY <1>6, <2>1, <2>2 DEF CallOK
    <2>4. QED
      BY <1>8, <2>1, <2>3, CallMoves DEF FinalizeStat
  <1>10. ASSUME NEW i \in SeriesIds, PutObject(i)
         PROVE  IInv'
    <2>1. UNCHANGED <<active, series, nextSeries, board, call>> /\ blobs' = blobs \cup {i}
      BY <1>10 DEF PutObject
    <2>2. RowsOK'
      BY <2>1, SeriesStayRowsStay DEF Exists
    <2>3. QED
      BY <1>9, <2>1, <2>2, RowChanges
  <1>11. ASSUME NEW i \in SeriesIds,
                PutSeriesTex(i) \/ DeleteSeriesTex(i) \/ PublishSeries(i)
         PROVE  IInv'
    <2>1. /\ UNCHANGED <<active, nextSeries, board, blobs, call>>
          /\ \/ series' = [series EXCEPT ![i].tex = TRUE]
             \/ series' = [series EXCEPT ![i].tex = FALSE]
             \/ series' = [series EXCEPT ![i].published = TRUE]
      BY <1>11 DEF PutSeriesTex, SetSeriesTex, DeleteSeriesTex, ClearSeriesTex,
                   PublishSeries, MarkPublished
    <2>2. /\ series' \in [SeriesIds -> Series]
          /\ \A j \in SeriesIds : series'[j].term = series[j].term
          /\ \A j \in SeriesIds : series'[j].pdf = series[j].pdf
      <3>1. CASE series' = [series EXCEPT ![i].tex = TRUE]
        BY <1>9, <3>1 DEF Series
      <3>2. CASE series' = [series EXCEPT ![i].tex = FALSE]
        BY <1>9, <3>2 DEF Series
      <3>3. CASE series' = [series EXCEPT ![i].published = TRUE]
        BY <1>9, <3>3 DEF Series
      <3>4. QED
        BY <2>1, <3>1, <3>2, <3>3
    <2>3. RowsOK'
      BY <2>1, <2>2, SeriesStayRowsStay DEF Exists
    <2>4. QED
      BY <1>9, <2>1, <2>2, <2>3, RowChanges
  <1>12. ASSUME CreateTerm PROVE IInv'
    <2>1. active + 1 \in 1..MaxTerm
      BY <1>12, BoardConstantsOK DEF CreateTerm, IInv, SeriesOK
    <2>2. QED
      BY <1>12, <2>1 DEF CreateTerm, IInv, SeriesOK, RowsOK, CallsOK, CallOK,
                         PDFKeyHasObject, Exists
  <1>13. CASE UNCHANGED vars
    BY <1>13 DEF vars, IInv, SeriesOK, RowsOK, CallsOK, CallOK, PDFKeyHasObject, Exists
  <1>14. QED
    BY <1>1, <1>2, <1>3, <1>5, <1>7, <1>8, <1>10, <1>11, <1>12, <1>13 DEF Next

\* Types and references, parts for threads to hang on, statements that are where
\* the rows say, drafts out of sight: in every state, whatever the bounds.
THEOREM BoardSound == Spec => []BoardInv
  <1>1. Spec => []IInv
    BY InitIInv, NextIInv, PTL DEF Spec
  <1>2. QED
    BY <1>1, IInvGivesBoardInv, PTL

\* However a valid payload renumbers, swaps, drops and adds problems, the edit
\* commits, the series is what it asks for, and what it keeps are the same rows.
THEOREM EditsDoAsked == Spec => []EditDoesAsked
  <1>1. Spec => []IInv
    BY InitIInv, NextIInv, PTL DEF Spec
  <1>2. QED
    BY <1>1, IInvGivesEditDoesAsked, PTL
=============================================================================
