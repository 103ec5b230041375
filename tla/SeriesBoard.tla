---------------------------- MODULE SeriesBoard ----------------------------
(***************************************************************************)
(* The problem sets of one math center: the series of its terms, the       *)
(* problems and subproblems of a series, and the statement PDF in the      *)
(* object store.  A subproblem's id is what homework threads and solutions *)
(* hang on, so an edit must keep the ids of everything it does not remove. *)
(* Single statements and transactions that hold the lock on the series row *)
(* are one step; a handler that reads, and writes later, is several.       *)
(***************************************************************************)
EXTENDS Integers, SequencesExt

CONSTANTS Requests,    \* requests that take more than one step, in flight at once
          Numbers,     \* the numbers a payload gives to problems
          SeriesNumbers,   \* and to series
          MaxCount,    \* bound: the subproblem_count of a payload
          MaxSpecs,    \* bound: the problems of a payload
          MaxTerm, MaxSeries, MaxProblem, MaxSub   \* bounds: the ids handed out

\* validateSeriesPayload lets no negative number pass.
ASSUME BoardConstantsOK ==
  /\ Numbers \subseteq Nat /\ Numbers # {} /\ SeriesNumbers # {}
  /\ MaxCount \in Nat /\ MaxSpecs \in Nat /\ MaxTerm \in Nat \ {0}
  /\ MaxSeries \in Nat /\ MaxProblem \in Nat /\ MaxSub \in Nat

NoRow == 0
SeriesIds == 1..MaxSeries

VARIABLES active,   \* the id of the active term; the smaller ones are archived
          series,   \* math_center_series, by id
          nextSeries,   \* its sequence: ids are never reused
          board,    \* math_center_problems and math_center_subproblems
          blobs,    \* series whose statement PDF is in the object store
          call      \* handlers between two of their steps

vars == <<active, series, nextSeries, board, blobs, call>>

\* term = NoRow where there is no row.
Series == [term : 0..MaxTerm, number : SeriesNumbers, pdf : BOOLEAN, tex : BOOLEAN,
           published : BOOLEAN]

NoSeries == [term |-> NoRow, number |-> CHOOSE n \in SeriesNumbers : TRUE,
             pdf |-> FALSE, tex |-> FALSE, published |-> FALSE]

\* A label is its position in the alphabet; 0 is "", the label of the only part
\* of a problem without parts.
Problem    == [series : 0..MaxSeries, number : Numbers]
Subproblem == [problem : 0..MaxProblem, label : 0..MaxCount]

NoProblem    == [series |-> NoRow, number |-> CHOOSE n \in Numbers : TRUE]
NoSubproblem == [problem |-> NoRow, label |-> 0]

\* The two tables with their sequences; ok is FALSE once a statement violated
\* UNIQUE (series_id, number) or UNIQUE (problem_id, label).
Board == [problem : [1..MaxProblem -> Problem], sub : [1..MaxSub -> Subproblem],
          nextProblem : 1..(MaxProblem + 1), nextSub : 1..(MaxSub + 1), ok : BOOLEAN]

\* problemSpec: an absent id is NoRow.
Spec1 == [id : 0..MaxProblem, number : Numbers, count : 0..MaxCount]

\* validateSeriesPayload.
ValidPayload(specs) == \A a, b \in DOMAIN specs : specs[a].number = specs[b].number => a = b

Payloads == {specs \in UNION {[1..n -> Spec1] : n \in 0..MaxSpecs} : ValidPayload(specs)}

Exists(i) == series[i].term # NoRow

TakenNumber(t, n) == \E j \in SeriesIds : series[j].term = t /\ series[j].number = n

Idle == [pc |-> "idle", series |-> NoRow, term |-> NoRow, pdf |-> FALSE]
-----------------------------------------------------------------------------
\* The queries of the two tables, as functions from a board to a board.

ListProblemsForSeries(b, i) == {p \in 1..MaxProblem : b.problem[p].series = i}

ListSubproblems(b, p) == {s \in 1..MaxSub : b.sub[s].problem = p}

Labels(b, p) == {b.sub[s].label : s \in ListSubproblems(b, p)}

NumberTaken(b, i, n) == \E p \in ListProblemsForSeries(b, i) : b.problem[p].number = n

CreateProblem(b, i, n) ==
  [b EXCEPT !.problem[b.nextProblem] = [series |-> i, number |-> n],
            !.nextProblem = @ + 1, !.ok = @ /\ ~NumberTaken(b, i, n)]

CreateSubproblem(b, p, l) ==
  [b EXCEPT !.sub[b.nextSub] = [problem |-> p, label |-> l], !.nextSub = @ + 1,
            !.ok = @ /\ \A s \in ListSubproblems(b, p) : b.sub[s].label # l]

SetProblemNumber(b, p, n) ==
  [b EXCEPT !.problem[p].number = n,
            !.ok = @ /\ \A q \in ListProblemsForSeries(b, b.problem[p].series) :
                          q # p => b.problem[q].number # n]

\* The loops that delete take their rows in an order that makes no difference.
DeleteSubproblems(b, ss) ==
  [b EXCEPT !.sub = [s \in 1..MaxSub |-> IF s \in ss THEN NoSubproblem ELSE @[s]]]

\* ON DELETE CASCADE.
DeleteProblems(b, ps) ==
  [b EXCEPT !.problem = [p \in 1..MaxProblem |-> IF p \in ps THEN NoProblem ELSE @[p]],
            !.sub = [s \in 1..MaxSub |->
                       IF @[s].problem \in ps THEN NoSubproblem ELSE @[s]]]
-----------------------------------------------------------------------------
\* The payload of a create or an edit.

SubproblemLabels(count) == [l \in 1..count |-> l]

DesiredLabels(count) == IF count = 0 THEN <<0>> ELSE SubproblemLabels(count)

InsertMissing(b, p, l, have) == IF l \in have THEN b ELSE CreateSubproblem(b, p, l)

InsertLabels(b, p, labels, have) ==
  LET inserted[n \in 0..Len(labels)] ==
        IF n = 0 THEN b ELSE InsertMissing(inserted[n - 1], p, labels[n], have)
  IN inserted[Len(labels)]

WriteSubproblems(b, p, count) == InsertLabels(b, p, DesiredLabels(count), {})

WriteProblem(b, i, spec) ==
  WriteSubproblems(CreateProblem(b, i, spec.number), b.nextProblem, spec.count)

\* Rows are matched by label: surplus ones go, missing ones are added.
ReconcileSubproblems(b, p, count) ==
  LET desired == DesiredLabels(count)
      surplus == {s \in ListSubproblems(b, p) : b.sub[s].label \notin ToSet(desired)}
  IN InsertLabels(DeleteSubproblems(b, surplus), p, desired, Labels(b, p))

\* Mutant of Parked: the kept problems go straight to their final numbers.
NotParked(b, specs) == b

\* Kept problems wait at the negative of their id, where no final number is.
Park(b, spec) ==
  IF spec.id = NoRow THEN b ELSE SetProblemNumber(b, spec.id, -spec.id)

Parked(b, specs) ==
  LET parked[n \in 0..Len(specs)] ==
        IF n = 0 THEN b ELSE Park(parked[n - 1], specs[n])
  IN parked[Len(specs)]

Settle(b, i, spec) ==
  IF spec.id = NoRow
  THEN WriteProblem(b, i, spec)
  ELSE ReconcileSubproblems(SetProblemNumber(b, spec.id, spec.number), spec.id, spec.count)

\* The last loop of an edit; that of a create is this one without ids.
WriteProblems(b, i, specs) ==
  LET written[n \in 0..Len(specs)] ==
        IF n = 0 THEN b ELSE Settle(written[n - 1], i, specs[n])
  IN written[Len(specs)]

Kept(specs) == {specs[k].id : k \in DOMAIN specs} \ {NoRow}

\* errUnknownProblem and errDuplicateProblem.
KnownProblems(b, i, specs) ==
  /\ \A k \in DOMAIN specs : specs[k].id # NoRow => b.problem[specs[k].id].series = i
  /\ \A k, m \in DOMAIN specs : specs[k].id = specs[m].id /\ specs[k].id # NoRow => k = m

ReconcileSeriesProblems(b, i, specs) ==
  LET removed == ListProblemsForSeries(b, i) \ Kept(specs)
  IN WriteProblems(Parked(DeleteProblems(b, removed), specs), i, specs)

\* The rows that a payload may ask for: new problems, and subproblems.
NewProblem(spec) == IF spec.id = NoRow THEN 1 ELSE 0

ProblemsAsked(specs) ==
  LET asked[n \in 0..Len(specs)] ==
        IF n = 0 THEN 0 ELSE asked[n - 1] + NewProblem(specs[n])
  IN asked[Len(specs)]

PartsAsked(specs) ==
  LET asked[n \in 0..Len(specs)] ==
        IF n = 0 THEN 0 ELSE asked[n - 1] + Len(DesiredLabels(specs[n].count))
  IN asked[Len(specs)]

\* The model has ids left for every row the payload may create.
RoomFor(specs) ==
  /\ board.nextProblem + ProblemsAsked(specs) <= MaxProblem + 1
  /\ board.nextSub + PartsAsked(specs) <= MaxSub + 1
-----------------------------------------------------------------------------
\* The statements on math_center_series.

\* With its (empty) razbor access rows, which CenterRoster models.
InsertSeries(i, t, n) ==
  series' = [series EXCEPT ![i] = [NoSeries EXCEPT !.term = t, !.number = n]]

UpdateSeriesRow(i, n) == series' = [series EXCEPT ![i].number = n]

DeleteSeriesRow(i) == series' = [series EXCEPT ![i] = NoSeries]

SetSeriesPDF(i) == series' = [series EXCEPT ![i].pdf = TRUE]

SetSeriesTex(i) == series' = [series EXCEPT ![i].tex = TRUE]

ClearSeriesTex(i) == series' = [series EXCEPT ![i].tex = FALSE]

\* The WHERE of PublishSeries; without a row the handler answers 409.
HasContent(i) == /\ series[i].tex \/ series[i].pdf
                 /\ ListProblemsForSeries(board, i) # {}

MarkPublished(i) == HasContent(i) /\ series' = [series EXCEPT ![i].published = TRUE]
-----------------------------------------------------------------------------
\* The handlers of a teacher.  A request for a series that is gone, or with a
\* payload that is refused, changes nothing and is left out.

\* CreateSeries from its INSERT on, in one transaction.
Create(t, n, specs) ==
  /\ nextSeries <= MaxSeries /\ RoomFor(specs)
  /\ Kept(specs) = {}
  /\ ~TakenNumber(t, n)
  /\ InsertSeries(nextSeries, t, n)
  /\ nextSeries' = nextSeries + 1
  /\ board' = WriteProblems(board, nextSeries, specs)
  /\ UNCHANGED <<active, blobs>>

\* Without term_id the INSERT itself looks up the active term.
CreateSeries(n, specs) == Create(active, n, specs) /\ UNCHANGED call

\* With term_id the term is read first, and archived ones are refused.
CreateInTermCheck(r, t) ==
  /\ call[r] = Idle /\ t = active
  /\ call' = [call EXCEPT ![r] = [Idle EXCEPT !.pc = "creating", !.term = t]]
  /\ UNCHANGED <<active, series, nextSeries, board, blobs>>

CreateInTerm(r, n, specs) ==
  /\ call[r].pc = "creating"
  /\ Create(call[r].term, n, specs)
  /\ call' = [call EXCEPT ![r] = Idle]

\* UpdateSeries: the UPDATE locks the series row, then its problems are
\* reconciled; a constraint that trips rolls everything back.
UpdateSeries(i, n, specs) ==
  LET b == ReconcileSeriesProblems(board, i, specs)
  IN /\ Exists(i) /\ RoomFor(specs) /\ KnownProblems(board, i, specs)
     /\ n = series[i].number \/ ~TakenNumber(series[i].term, n)
     /\ b.ok
     /\ UpdateSeriesRow(i, n) /\ board' = b
     /\ UNCHANGED <<active, nextSeries, blobs, call>>

\* DeleteSeries reads the row, deletes it with everything that hangs on it, and
\* then the object the row named.
DeleteSeriesGet(r, i) ==
  /\ call[r] = Idle /\ Exists(i)
  /\ call' = [call EXCEPT ![r] = [Idle EXCEPT !.pc = "deleting", !.series = i,
                                              !.pdf = series[i].pdf]]
  /\ UNCHANGED <<active, series, nextSeries, board, blobs>>

\* Mutant of DeleteSeries: the object goes first.
DeleteObjectFirst(r) ==
  /\ call[r].pc = "deleting"
  /\ call' = [call EXCEPT ![r] = Idle]
  /\ blobs' = blobs \ {call[r].series}
  /\ UNCHANGED <<active, series, nextSeries, board>>

DeleteSeries(r) ==
  /\ call[r].pc = "deleting"
  /\ DeleteSeriesRow(call[r].series)
  /\ board' = DeleteProblems(board, ListProblemsForSeries(board, call[r].series))
  /\ call' = [call EXCEPT ![r] = IF @.pdf THEN [@ EXCEPT !.pc = "deleted"] ELSE Idle]
  /\ UNCHANGED <<active, nextSeries, blobs>>

\* Best effort: the handler may die, or the store fail, and the object stays.
DeleteObject(r) ==
  /\ call[r].pc = "deleted"
  /\ call' = [call EXCEPT ![r] = Idle]
  /\ blobs' \in {blobs, blobs \ {call[r].series}}
  /\ UNCHANGED <<active, series, nextSeries, board>>

\* The client of a presigned URL.  IssuePDFUploadURL signs one for a series that
\* exists; it stays valid for a while, whatever becomes of the series.
PutObject(i) ==
  /\ i < nextSeries
  /\ blobs' = blobs \cup {i}
  /\ UNCHANGED <<active, series, nextSeries, board, call>>

\* FinalizePDFPublish: GetSeries and Stat, then the row.
FinalizeStat(r, i) ==
  /\ call[r] = Idle /\ Exists(i) /\ i \in blobs
  /\ call' = [call EXCEPT ![r] = [Idle EXCEPT !.pc = "attaching", !.series = i]]
  /\ UNCHANGED <<active, series, nextSeries, board, blobs>>

FinalizePDFPublish(r) ==
  /\ call[r].pc = "attaching"
  /\ call' = [call EXCEPT ![r] = Idle]
  /\ IF Exists(call[r].series) THEN SetSeriesPDF(call[r].series) ELSE UNCHANGED series
  /\ UNCHANGED <<active, nextSeries, board, blobs>>

PutSeriesTex(i) ==
  /\ Exists(i) /\ SetSeriesTex(i)
  /\ UNCHANGED <<active, nextSeries, board, blobs, call>>

DeleteSeriesTex(i) ==
  /\ Exists(i) /\ ClearSeriesTex(i)
  /\ UNCHANGED <<active, nextSeries, board, blobs, call>>

PublishSeries(i) ==
  /\ Exists(i) /\ MarkPublished(i)
  /\ UNCHANGED <<active, nextSeries, board, blobs, call>>

\* CreateTerm of the center archives the active term (CenterRoster).
CreateTerm ==
  /\ active < MaxTerm /\ active' = active + 1
  /\ UNCHANGED <<series, nextSeries, board, blobs, call>>
-----------------------------------------------------------------------------
\* What the view of a series shows of its problems: numbers and labels.
AssembleSeriesView(b, i) ==
  {<<b.problem[p].number, Labels(b, p)>> : p \in ListProblemsForSeries(b, i)}
-----------------------------------------------------------------------------
Init == /\ active = 1
        /\ series = [i \in SeriesIds |-> NoSeries]
        /\ nextSeries = 1
        /\ board = [problem |-> [p \in 1..MaxProblem |-> NoProblem],
                    sub |-> [s \in 1..MaxSub |-> NoSubproblem],
                    nextProblem |-> 1, nextSub |-> 1, ok |-> TRUE]
        /\ blobs = {}
        /\ call = [r \in Requests |-> Idle]

Next ==
  \/ \E n \in SeriesNumbers, specs \in Payloads :
       \/ CreateSeries(n, specs)
       \/ \E r \in Requests : CreateInTerm(r, n, specs)
       \/ \E i \in SeriesIds : UpdateSeries(i, n, specs)
  \/ \E r \in Requests :
       \/ DeleteSeries(r) \/ DeleteObject(r) \/ FinalizePDFPublish(r)
       \/ \E t \in 1..MaxTerm : CreateInTermCheck(r, t)
       \/ \E i \in SeriesIds : DeleteSeriesGet(r, i) \/ FinalizeStat(r, i)
  \/ \E i \in SeriesIds :
       \/ PutObject(i) \/ PutSeriesTex(i)
       \/ DeleteSeriesTex(i) \/ PublishSeries(i)
  \/ CreateTerm

Spec == Init /\ [][Next]_vars
-----------------------------------------------------------------------------
\* Type invariant: a negative number is seen only inside an edit, and every row
\* hangs on one that exists.
BoardTypeOK ==
  /\ active \in 1..MaxTerm
  /\ series \in [SeriesIds -> Series] /\ nextSeries \in 1..(MaxSeries + 1)
  /\ board \in Board
  /\ \A p \in 1..MaxProblem : board.problem[p].series = NoRow \/ Exists(board.problem[p].series)
  /\ \A s \in 1..MaxSub :
       board.sub[s].problem = NoRow \/ board.problem[board.sub[s].problem].series # NoRow
  /\ blobs \subseteq SeriesIds
  /\ \A r \in Requests : call[r].pc \in {"idle", "creating", "deleting", "deleted", "attaching"}

\* Every problem offers its parts or, without parts, itself: there is always a
\* subproblem for a thread to hang on, and never "" next to letters.
EveryProblemHasParts ==
  \A p \in 1..MaxProblem : board.problem[p].series # NoRow =>
    \/ Labels(board, p) = {0} \/ \E n \in 1..MaxCount : Labels(board, p) = 1..n

\* The edits a teacher may ask for next.
Edits(i) == {specs \in Payloads : Exists(i) /\ RoomFor(specs) /\ KnownProblems(board, i, specs)}

\* A payload that passed validation never trips UNIQUE (series_id, number), in
\* whatever way it renumbers, swaps, drops and adds problems; the edit leaves
\* exactly the problems asked for, and every problem and every part that the
\* payload keeps is still the same row, with its threads.
EditDoesAsked ==
  \A i \in SeriesIds : \A specs \in Edits(i) :
    LET b  == ReconcileSeriesProblems(board, i, specs)
    IN /\ b.ok
       /\ AssembleSeriesView(b, i) =
            {<<specs[k].number, ToSet(DesiredLabels(specs[k].count))>> : k \in DOMAIN specs}
       /\ \A k \in DOMAIN specs : specs[k].id # NoRow =>
            /\ b.problem[specs[k].id] = [series |-> i, number |-> specs[k].number]
            /\ \A s \in ListSubproblems(board, specs[k].id) :
                 board.sub[s].label \in ToSet(DesiredLabels(specs[k].count)) =>
                   b.sub[s] = board.sub[s]

\* A series that has a PDF key always has the object, through uploads that come
\* late, deletions that die half-way and finalizations that lose the race to a
\* deletion: a key is written only to a row that still exists, and the object goes
\* only after the row, whose id never comes back.
PDFKeyHasObject == \A i \in SeriesIds : series[i].pdf => i \in blobs

\* The main invariant: types and references; parts to hang threads on; statements
\* that are where the rows say.
BoardInv == BoardTypeOK /\ EveryProblemHasParts /\ PDFKeyHasObject

\* Violated.  Only a series that is not published may be without problems
\* (series.go:1121); nothing takes the statement or the problems of a published
\* one into account when they are removed.
PublishedHasContent == \A i \in SeriesIds : series[i].published => HasContent(i)
=============================================================================
