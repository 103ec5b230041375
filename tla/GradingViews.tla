---------------------------- MODULE GradingViews ----------------------------
(***************************************************************************)
(* What the read endpoints of the homework feature show: the graders'      *)
(* queues and counters, the spreadsheet of one series and of the whole     *)
(* center, the per-subproblem statistics, the student's own rollup and the *)
(* timeline of one thread.  Each is a query of its own over the same       *)
(* tables, so they can disagree; and three of them are several queries,    *)
(* read while other transactions commit.                                   *)
(*                                                                         *)
(* The writers are reduced to what their transactions leave behind (how    *)
(* they interleave is HomeworkThread's subject): one atomic step each.     *)
(***************************************************************************)
EXTENDS HomeworkRules, SequencesExt, FiniteSetsExt

CONSTANTS
  Students, Teachers,
  Subs,        \* the subproblems
  Series, Terms,
  SeriesOf,    \* the series of a subproblem
  TermOf,      \* the term of a series
  Coffins,     \* the subproblems marked as coffins
  Null,        \* SQL NULL in a user column
  Lease,       \* length of a claim, in clock ticks
  MaxEvents,   \* bound: events over all threads
  MaxClaims,   \* bound: threads with a claim holder at once
  MaxTime      \* bound: the last instant of the clock

ASSUME ViewConstantsOK ==
  /\ SeriesOf \in [Subs -> Series] /\ TermOf \in [Series -> Terms]
  /\ Coffins \subseteq Subs /\ Null \notin Teachers \cup Students
  /\ IsFiniteSet(Students) /\ IsFiniteSet(Subs)
  /\ Lease \in Nat \ {0} /\ {MaxEvents, MaxClaims} \subseteq Nat /\ MaxTime \in Nat \ {0}

VARIABLES
  thread,      \* homework_thread and its events, by student and subproblem
  roster,      \* math_center_students: who is in a group of which term
  active,      \* the center's active term
  now,         \* the database clock
  view         \* the one multi-query read in flight, or its answer

vars == <<thread, roster, active, now, view>>

Keys == Students \X Subs

\* log: the thread's events in id order; a graded event is named by its verdict.
EventKinds == AttemptKinds \cup Verdicts \cup OfflineKinds \cup {"retracted"}

\* No row; the LEFT JOINs read it as 'ungraded' and NULLs.
NoThread == [exists |-> FALSE, status |-> "ungraded", grader |-> Null,
             holder |-> Null, expires |-> None, log |-> <<>>]

TermOfSub(p)  == TermOf[SeriesOf[p]]
ColumnsOf(x)  == {p \in Subs : SeriesOf[p] = x}
RosterOf(t)   == {s \in Students : <<s, t>> \in roster}
Waiting(k)    == thread[k].status \in {"submitted", "appealed"}

\* IsStudentInCenter, with an active term.
IsStudentInCenter(s) == <<s, active>> \in roster
-----------------------------------------------------------------------------
(* The writers, each as its transaction commits.                           *)

EventCount == MapThenSumSet(LAMBDA k : Len(thread[k].log), Keys)

\* The event and the row's new values, together.
Write(k, kind, row) ==
  /\ EventCount < MaxEvents
  /\ thread' = [thread EXCEPT ![k] = [row EXCEPT !.log = Append(@, kind)]]
  /\ UNCHANGED <<roster, active, now, view>>

\* The attempt under review: the last event the student appended.
Attempt(l) == SelectLastInSubSeq(l, 1, Len(l), LAMBDA e : e \in AttemptKinds)
AttemptKind(l) == IF Attempt(l) = 0 THEN "none" ELSE l[Attempt(l)]

\* FindOrCreateThread and the attempt.  (A thread without an attempt reads like
\* no thread, so an upload that only creates the row is left out.)
SubmitAttempt(s, p) ==
  LET k == <<s, p>> IN
  /\ IsStudentInCenter(s)
  /\ CanTransition(thread[k].status, "submitted")
  /\ Write(k, "submitted",
           [thread[k] EXCEPT !.exists = TRUE, !.status = "submitted"])

AppealGrade(k) ==
  /\ thread[k].status = "rejected" /\ IsStudentInCenter(k[1])
  /\ Write(k, "appealed", [thread[k] EXCEPT !.status = "appealed"])

\* Null holder, an expired lease, or the caller's own.
FreeFor(k, g) ==
  \/ thread[k].holder = Null
  \/ thread[k].expires < now
  \/ thread[k].holder = g

Claim(k, g) ==
  /\ thread[k].exists /\ FreeFor(k, g)
  /\ Cardinality({j \in Keys \ {k} : thread[j].holder # Null}) < MaxClaims
  /\ thread' = [thread EXCEPT ![k].holder = g, ![k].expires = now + Lease]
  /\ UNCHANGED <<roster, active, now, view>>

Release(k, g) ==
  /\ thread[k].holder = g
  /\ thread' = [thread EXCEPT ![k].holder = Null, ![k].expires = None]
  /\ UNCHANGED <<roster, active, now, view>>

Grade(k, g, verdict) ==
  /\ CanTransition(thread[k].status, "graded")
  /\ thread[k].status = "appealed" => thread[k].grader = g
  /\ thread[k].holder = g /\ thread[k].expires > now
  /\ Write(k, verdict, [thread[k] EXCEPT !.status = verdict, !.grader = g,
                                         !.holder = Null, !.expires = None])

\* rollbackStatus.
Rollback(l) == IF AttemptKind(l) = "appealed" THEN "appealed" ELSE "submitted"

Retract(k, g) ==
  /\ thread[k].status \in Verdicts /\ thread[k].grader = g
  /\ \E v \in Verdicts : Contains(thread[k].log, v)
  /\ Write(k, "retracted", [thread[k] EXCEPT !.status = Rollback(thread[k].log)])

AcceptedOffline(k) ==
  thread[k].status = "accepted" /\ Last(thread[k].log) = "accepted_offline"

\* Nothing checks that the student belongs to the center.  credit is the
\* registered grader, or Null for a free-text name.
OfflineAccept(k, credit) ==
  /\ \/ AcceptedOffline(k)
     \/ CanTransition(thread[k].status, "accepted_offline")
  /\ Write(k, "accepted_offline",
           [thread[k] EXCEPT !.exists = TRUE, !.status = "accepted",
                             !.grader = credit,
                             !.holder = Null, !.expires = None])

\* offlineRollbackStatus.
OfflineUndo(k) ==
  /\ AcceptedOffline(k)
  /\ Write(k, "offline_retracted",
           [thread[k] EXCEPT !.status = IF AttemptKind(thread[k].log) = "none"
                                        THEN "ungraded"
                                        ELSE Rollback(thread[k].log)])

\* The head teacher moves students into and out of a term's groups.
SetEnrolled(s, t) ==
  /\ roster' = (roster \ {<<s, t>>}) \cup ({<<s, t>>} \ roster)
  /\ UNCHANGED <<thread, active, now, view>>

ActivateTerm(t) ==
  /\ active < t
  /\ active' = t
  /\ UNCHANGED <<thread, roster, now, view>>

Tick == /\ now < MaxTime
        /\ now' = now + 1
        /\ UNCHANGED <<thread, roster, active, view>>
-----------------------------------------------------------------------------
(* The queries.                                                            *)

\* Mutant of ListGraderQueueForSeries: an expired claim still hides a thread.
QueueOfUnclaimed(x, g, mine) ==
  {k \in Keys : /\ k[2] \in ColumnsOf(x) /\ Waiting(k)
                /\ thread[k].holder \in {Null, g}
                /\ mine => thread[k].grader = g}

\* The queue of one series for teacher g; with mine, only what g graded last or
\* holds now.
ListGraderQueueForSeries(x, g, mine) ==
  {k \in Keys : /\ k[2] \in ColumnsOf(x) /\ Waiting(k)
                /\ \/ thread[k].holder \in {Null, g}
                   \/ thread[k].expires < now
                /\ mine => \/ thread[k].grader = g
                           \/ thread[k].holder = g /\ thread[k].expires > now}

\* The queues of all the series of the center.
GraderQueue(g, mine) == UNION {ListGraderQueueForSeries(x, g, mine) : x \in Series}

ListCoffinQueueForCenter(g) ==
  {k \in Keys : /\ k[2] \in Coffins /\ Waiting(k)
                /\ thread[k].holder \notin {Null, g} => thread[k].expires < now}

\* Mutant of GraderStatsForCenter: a claim at its last instant is not counted.
StatsStrict(g) ==
  [ pending |-> {k \in Keys : /\ Waiting(k)
                              /\ \/ thread[k].holder = Null
                                 \/ thread[k].expires < now},
    claimed |-> {k \in Keys : /\ Waiting(k) /\ thread[k].holder = g
                              /\ thread[k].expires > now},
    appeals |-> {k \in Keys : /\ thread[k].status = "appealed"
                              /\ thread[k].grader = g} ]

\* The threads behind pending_count, my_claimed_count and my_appeals_count.
GraderStatsForCenter(g) ==
  [ pending |-> {k \in Keys : /\ Waiting(k)
                              /\ \/ thread[k].holder = Null
                                 \/ thread[k].expires < now},
    claimed |-> {k \in Keys : /\ Waiting(k) /\ thread[k].holder = g
                              /\ thread[k].expires >= now},
    appeals |-> {k \in Keys : /\ thread[k].status = "appealed"
                              /\ thread[k].grader = g} ]

GridCell(k) == [status |-> thread[k].status, grader |-> thread[k].grader,
                holder |-> thread[k].holder, expires |-> thread[k].expires]

\* The series' roster (the groups of ITS term) by the series' subproblems.
TeacherSeriesGrid(x) ==
  [k \in RosterOf(TermOf[x]) \X ColumnsOf(x) |-> GridCell(k)]

StudentSeriesRollup(s, x) ==
  [p \in ColumnsOf(x) |->
     [status |-> thread[<<s, p>>].status,
      being_graded |-> /\ thread[<<s, p>>].holder # Null
                       /\ thread[<<s, p>>].expires > now]]

With(s, x, statuses) ==
  Cardinality({p \in ColumnsOf(x) : thread[<<s, p>>].status \in statuses})

\* Mutant of StudentSeriesCounts: an appeal is neither pending nor anything else.
CountsWithoutAppeals(s, x) ==
  [ accepted |-> With(s, x, {"accepted"}),
    rejected |-> With(s, x, {"rejected"}),
    pending  |-> With(s, x, {"ungraded", "submitted"}) ]

StudentSeriesCounts(s, x) ==
  [ accepted |-> With(s, x, {"accepted"}),
    rejected |-> With(s, x, {"rejected"}),
    pending  |-> With(s, x, {"ungraded", "submitted", "appealed"}) ]

\* Mutant of StatsRoster: the roster of the active term.
ActiveRoster(x) == RosterOf(active)

StatsRoster(x) == RosterOf(TermOf[x])

\* A row per subproblem and student of the roster; an empty roster leaves a
\* placeholder row for each subproblem.
SeriesProblemStats(x) ==
  [student : IF StatsRoster(x) = {} THEN {Null} ELSE StatsRoster(x),
   sub : ColumnsOf(x)]

\* The number of students, and per subproblem how many are in each status.
AggregateProblemStats(x) ==
  LET rows == {r \in SeriesProblemStats(x) : r.student # Null} IN
    [ total |-> Cardinality({r.student : r \in rows}),
      lines |-> [p \in ColumnsOf(x) |->
                   [c \in Statuses |->
                      Cardinality({r \in rows :
                        r.sub = p /\ thread[<<r.student, p>>].status = c})]] ]
-----------------------------------------------------------------------------
(* The spreadsheet of the whole center: three queries in one REPEATABLE    *)
(* READ transaction, after the term was resolved outside it.               *)

Snapshot == [roster |-> roster,
             threads |-> {k \in Keys : thread[k].exists}]

\* Which threads fill a cell: those of a student on the roster of the term.
CellKeys(snap, t) ==
  {k \in snap.threads : TermOfSub(k[2]) = t /\ <<k[1], t>> \in snap.roster}

\* The live refresh of one series.
TeacherCenterGridCellsForSeries(x) ==
  {k \in CellKeys(Snapshot, TermOf[x]) : SeriesOf[k[2]] = x}

NoView == [pc |-> "idle"]

ResolveCenterGridTerm ==
  /\ view = NoView
  /\ view' = [pc |-> "resolved", term |-> active]
  /\ UNCHANGED <<thread, roster, active, now>>

\* The first query of the transaction also fixes its snapshot.
CenterGridRoster ==
  /\ view.pc = "resolved"
  /\ view' = [pc |-> "roster", term |-> view.term, snap |-> Snapshot,
              students |-> RosterOf(view.term)]
  /\ UNCHANGED <<thread, roster, active, now>>

\* The columns query, of the same snapshot.
CenterGridColumns(t) == {p \in Subs : TermOfSub(p) = t}

\* Mutant of CenterGridCells: READ COMMITTED, a snapshot per query.
CellsReadCommitted ==
  /\ view.pc = "roster"
  /\ view' = [pc |-> "grid", students |-> view.students,
              columns |-> CenterGridColumns(view.term),
              cells |-> CellKeys(Snapshot, view.term)]
  /\ UNCHANGED <<thread, roster, active, now>>

CenterGridCells ==
  /\ view.pc = "roster"
  /\ view' = [pc |-> "grid", students |-> view.students,
              columns |-> CenterGridColumns(view.term),
              cells |-> CellKeys(view.snap, view.term)]
  /\ UNCHANGED <<thread, roster, active, now>>
-----------------------------------------------------------------------------
(* The timeline of one thread: its row, then its events, no transaction.   *)

ThreadRow(k) ==
  /\ view = NoView /\ thread[k].exists
  /\ view' = [pc |-> "row", key |-> k, status |-> thread[k].status]
  /\ UNCHANGED <<thread, roster, active, now>>

\* Mutant of ThreadEvents: the timeline leaves the in-person events out.
EventsOnline ==
  /\ view.pc = "row"
  /\ view' = [pc |-> "thread", key |-> view.key, status |-> view.status,
              log |-> SelectSeq(thread[view.key].log,
                                LAMBDA e : e \notin OfflineKinds)]
  /\ UNCHANGED <<thread, roster, active, now>>

ThreadEvents ==
  /\ view.pc = "row"
  /\ view' = [pc |-> "thread", key |-> view.key, status |-> view.status,
              log |-> thread[view.key].log]
  /\ UNCHANGED <<thread, roster, active, now>>

-----------------------------------------------------------------------------
(* The student's page about one series: the rows, then the counters, no    *)
(* transaction.  seen is what the model remembers to tell what committed   *)
(* in between.                                                             *)

MySeriesRows(s, x) ==
  /\ view = NoView /\ IsStudentInCenter(s)
  /\ view' = [pc |-> "mine", student |-> s, series |-> x,
              rows |-> [p \in ColumnsOf(x) |-> StudentSeriesRollup(s, x)[p].status],
              seen |-> [p \in ColumnsOf(x) |-> Len(thread[<<s, p>>].log)]]
  /\ UNCHANGED <<thread, roster, active, now>>

MySeriesRollup ==
  /\ view.pc = "mine"
  /\ view' = [pc |-> "page", rows |-> view.rows,
              counts |-> StudentSeriesCounts(view.student, view.series),
              changed |-> {p \in ColumnsOf(view.series) :
                             Len(thread[<<view.student, p>>].log) # view.seen[p]}]
  /\ UNCHANGED <<thread, roster, active, now>>

Answered ==
  /\ view.pc \in {"grid", "thread", "page"}
  /\ view' = NoView
  /\ UNCHANGED <<thread, roster, active, now>>
-----------------------------------------------------------------------------
Init == /\ thread = [k \in Keys |-> NoThread]
        /\ roster \in SUBSET (Students \X Terms)
        /\ active \in Terms
        /\ now = 1
        /\ view = NoView

WriterStep ==
  \/ \E s \in Students, p \in Subs : SubmitAttempt(s, p)
  \/ \E k \in Keys : AppealGrade(k) \/ OfflineUndo(k)
  \/ \E k \in Keys, credit \in Teachers \cup {Null} : OfflineAccept(k, credit)
  \/ \E k \in Keys, g \in Teachers :
       \/ Claim(k, g) \/ Release(k, g) \/ Retract(k, g)
       \/ \E verdict \in Verdicts : Grade(k, g, verdict)

CenterStep ==
  \/ \E s \in Students, t \in Terms : SetEnrolled(s, t)
  \/ \E t \in Terms : ActivateTerm(t)
  \/ Tick

ReaderStep ==
  \/ ResolveCenterGridTerm \/ CenterGridRoster
  \/ CenterGridCells
  \/ \E k \in Keys : ThreadRow(k)
  \/ \E s \in Students, x \in Series : MySeriesRows(s, x)
  \/ ThreadEvents \/ MySeriesRollup \/ Answered

Next == WriterStep \/ CenterStep \/ ReaderStep

Spec == Init /\ [][Next]_vars
-----------------------------------------------------------------------------
(* Properties.                                                             *)

\* The type invariant: rows have their columns' types, a claim has both its
\* columns or neither, and a row with a status has events to show for it.
ViewTypeOK ==
  /\ \A k \in Keys :
       /\ thread[k].status \in Statuses
       /\ {thread[k].grader, thread[k].holder} \subseteq Teachers \cup {Null}
       /\ thread[k].holder = Null <=> thread[k].expires = None
       /\ thread[k].log # <<>> => thread[k].exists
       /\ \A i \in 1..Len(thread[k].log) : thread[k].log[i] \in EventKinds
  /\ roster \subseteq Students \X Terms
  /\ active \in Terms /\ now \in 1..MaxTime

\* Every thread that waits for a grader is in a queue: in every teacher's when
\* nobody's claim is live, in the holder's alone otherwise; and a queue lists
\* exactly the waiting threads its reader can claim (/queue against TryClaim).
QueueIsWhatIsFree ==
  \A x \in Series : \A k \in Keys :
    (k[2] \in ColumnsOf(x) /\ Waiting(k)) =>
      LET seen == {g \in Teachers : k \in ListGraderQueueForSeries(x, g, FALSE)} IN
        /\ seen = {g \in Teachers : FreeFor(k, g)}
        /\ seen = Teachers \/ seen = {thread[k].holder}

\* A student who is told that her work is being graded is told the truth: one
\* teacher, and nobody else, can take it.
BeingGradedIsExclusive ==
  \A s \in Students, x \in Series : \A p \in ColumnsOf(x) :
    StudentSeriesRollup(s, x)[p].being_graded =>
      \A g \in Teachers : FreeFor(<<s, p>>, g) <=> thread[<<s, p>>].holder = g

\* The main invariant: types, and queues and hints that agree with the claims.
ViewInv == ViewTypeOK /\ QueueIsWhatIsFree /\ BeingGradedIsExclusive

\* The dashboard's counters are the queues': over all the series of the center
\* what a teacher may take is what is pending plus what she holds, without
\* overlap (/stats against /queue and the coffin queue); and every appeal to
\* her that she may take is in her "mine" queue.
StatsMatchQueues ==
  \A g \in Teachers :
    LET stats == GraderStatsForCenter(g)
        queue == GraderQueue(g, FALSE)
    IN /\ queue = stats.pending \cup stats.claimed
       /\ stats.pending \cap stats.claimed = {}
       /\ stats.appeals \cap queue \subseteq GraderQueue(g, TRUE)
       /\ ListCoffinQueueForCenter(g) = {k \in queue : k[2] \in Coffins}

\* At any moment the teachers' spreadsheets, the statistics and the rows of the
\* student's own page tell the same: for everybody on the roster of the series'
\* term the series' grid, the center's grid (a missing cell reads 'ungraded') and
\* the rollup show one status, and the buckets of a line of the statistics are
\* the grid's column and sum to the number of students.
ViewsAgree ==
  \A x \in Series :
    LET grid  == TeacherSeriesGrid(x)
        stats == AggregateProblemStats(x)
        cells == TeacherCenterGridCellsForSeries(x)
    IN /\ \A s \in RosterOf(TermOf[x]) : \A p \in ColumnsOf(x) :
            LET mine == StudentSeriesRollup(s, x)[p] IN
              /\ mine.status = grid[<<s, p>>].status
              /\ <<s, p>> \notin cells => mine.status = "ungraded"
       /\ \A p \in ColumnsOf(x) : \A c \in Statuses :
            stats.lines[p][c] = Cardinality({s \in RosterOf(TermOf[x]) :
                                               grid[<<s, p>>].status = c})
       /\ cells \subseteq DOMAIN grid
       /\ ColumnsOf(x) # {} => stats.total = Cardinality(RosterOf(TermOf[x]))

\* How many of the statuses shown are accepted, rejected, and still open.
Tally(shown) ==
  LET Of(statuses) == Cardinality({p \in DOMAIN shown : shown[p] \in statuses})
  IN [accepted |-> Of({"accepted"}), rejected |-> Of({"rejected"}),
      pending |-> Of(Statuses \ Verdicts)]

\* The counters of the student's page count its rows, but for the subproblems on
\* which an event was committed between the two statements; there they count the
\* later status.
CountersCountRows ==
  view.pc = "page" =>
    \E later \in [DOMAIN view.rows -> Statuses] :
      /\ \A p \in DOMAIN view.rows \ view.changed : later[p] = view.rows[p]
      /\ view.counts = Tally(later)

\* The center's spreadsheet is of one moment, whatever commits while its three
\* queries run: every cell belongs to a student and to a column it lists.
GridIsOfOneMoment ==
  view.pc = "grid" => view.cells \subseteq view.students \X view.columns

\* The status a timeline leaves behind, read off its events alone.
StatusAfter(l) ==
  IF l = <<>> THEN "ungraded"
  ELSE IF Last(l) \in AttemptKinds \cup Verdicts THEN Last(l)
  ELSE IF Last(l) = "accepted_offline" THEN "accepted"
  ELSE IF Last(l) = "retracted" \/ AttemptKind(l) # "none" THEN Rollback(l)
  ELSE "ungraded"

\* The timeline of a thread explains the status shown above it, although the
\* row is read before the events: some prefix of the events shown leaves the
\* thread in that status.
TimelineExplainsStatus ==
  view.pc = "thread" =>
    \E n \in 0..Len(view.log) : view.status = StatusAfter(SubSeq(view.log, 1, n))

\* Violated: the two statements are of two moments.
PageIsOfOneMoment == view.pc = "page" => view.counts = Tally(view.rows)

\* What a teacher can take is on her spreadsheet of the series.  (A student who
\* is not in a group of the series' term has no row in it.)
QueueIsOnGrid ==
  \A x \in Series, g \in Teachers :
    ListGraderQueueForSeries(x, g, FALSE) \subseteq DOMAIN TeacherSeriesGrid(x)
=============================================================================
