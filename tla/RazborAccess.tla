---------------------------- MODULE RazborAccess ----------------------------
(***************************************************************************)
(* Which student sees the razbors of which series.  An enrolment carries a *)
(* default for each format, copied from its group; a row per student and   *)
(* series overrides it.  Rows are materialised when a series is created    *)
(* and by some of the ways to enrol a student, so that a later change of a *)
(* default is about later series only.  (can_view_razbors, which the       *)
(* queries ask last, is never reached: the defaults are NOT NULL.)  No one *)
(* becomes a teacher here.                                                 *)
(***************************************************************************)
EXTENDS CenterRoster

CONSTANTS Formats,     \* video, pdf_tex
          MaxSeries,   \* bound: the ids of series
          MaxSteps     \* bound: requests and edits, but for those that open terms
                       \* and those of the table, which are as many as can be

SeriesIds == 1..MaxSeries

VARIABLES groupDefault,    \* razbor_default_* of math_center_groups
          studentDefault,  \* and of math_center_students
          older,           \* the order of a user's enrolments by their ids: pairs of terms
          series,          \* the term of a series
          access,          \* math_center_student_series_razbor_access
          copied,          \* defaults a term that is being opened has copied
          edit             \* edits of the table between their snapshot and their COMMIT

VARIABLE steps

razbor == <<groupDefault, studentDefault, older, series, access, copied, edit>>
vars == <<rosterVars, razbor, steps>>

Row   == [Formats -> BOOLEAN]
NoRow == <<>>
Open  == [f \in Formats |-> TRUE]   \* what the migrations make of a new column

OpenRows == [u \in UserIds |-> [t \in TermIds |-> Open]]
NoCopy == [group |-> [n \in Names |-> Open], student |-> [u \in UserIds |-> Open]]

\* A row, or none, for every student and series.
Rows   == [UserIds -> [SeriesIds -> Row \cup {NoRow}]]
NoRows == [u \in UserIds |-> [s \in SeriesIds |-> NoRow]]

\* rows is what a statement is about to upsert; asked, which only the properties
\* read, is what the manager asked for when it began.
NoEdit == [rows |-> NoRows, asked |-> NoRows]

SeriesOf(t) == {s \in SeriesIds : series[s] = t /\ t # NoTerm}

COALESCE(row, default) == IF row # NoRow THEN row ELSE default
-----------------------------------------------------------------------------
(* The three queries that tell a student's access.                         *)

\* GetStudentSeriesRazborAccess and ListStudentSeriesRazborAccessForCenter: the
\* enrolment of the series' term, else the active one, else the newest.
EnrolledTerms(u) == {t \in TermIds : Enrolled(u, t)}

NewestEnrollment(u) ==
  CHOOSE t \in EnrolledTerms(u) : \A o \in EnrolledTerms(u) \ {t} : <<o, t>> \in older[u]

CurrentEnrollment(u) ==
  IF GetActiveStudentByUser(u) THEN ActiveTerm
  ELSE IF EnrolledTerms(u) = {} THEN NoTerm ELSE NewestEnrollment(u)

\* Mutant of Enrollment: the active one first.
ActiveFirst(u, s) == CurrentEnrollment(u)

Enrollment(u, s) == IF Enrolled(u, series[s]) THEN series[s] ELSE CurrentEnrollment(u)

SeesWith(rows, u, s) ==
  COALESCE(rows[u][s],
           IF Enrollment(u, s) = NoTerm THEN [f \in Formats |-> FALSE]
           ELSE studentDefault[u][Enrollment(u, s)])

StudentSees(u, s) == SeesWith(access, u, s)

\* ListRazborAccessCellsForManage and ListStudentSeriesRazborAccessForManage: a
\* student and a series of one term.
ManagerSees(u, s) == COALESCE(access[u][s], studentDefault[u][series[s]])
-----------------------------------------------------------------------------
(* What becomes of the rows when the roster changes.                       *)

\* New rows of students get the default of their user and term, new groups that of
\* their name.  No statement enrols a user in two terms.
StudentRows(default) ==
  /\ studentDefault' = [u \in UserIds |-> [t \in TermIds |->
       IF enrol'[u][t] = None THEN Open
       ELSE IF Enrolled(u, t) THEN studentDefault[u][t] ELSE default[u][t]]]
  /\ older' = [u \in UserIds |->
       LET kept == {t \in EnrolledTerms(u) : enrol'[u][t] # None}
           new  == {t \in TermIds : ~Enrolled(u, t) /\ enrol'[u][t] # None}
       IN (older[u] \cap (kept \X kept)) \cup (kept \X new)]

GroupRows(default) ==
  groupDefault' = [g \in Groups |-> IF g \notin group' THEN Open
                                    ELSE IF g \in group THEN groupDefault[g] ELSE default[g[2]]]

\* INSERT ... ON CONFLICT DO NOTHING, for the students and series that are given.
Materialise(us, ss, default) ==
  access' = [u \in UserIds |-> [s \in SeriesIds |->
               IF u \in us /\ s \in ss THEN COALESCE(access[u][s], default[u])
               ELSE access[u][s]]]

InitializeStudentRazborAccess(u, g) ==
  Materialise({u}, SeriesOf(g[1]), [v \in UserIds |-> groupDefault[g]])

InitializeSeriesRazborAccess(s) ==
  Materialise({u \in UserIds : Enrolled(u, ActiveTerm)}, {s},
              [u \in UserIds |-> studentDefault[u][ActiveTerm]])

\* AddStudentToGroup copies the group's defaults, InitializeStudentRazborAccess
\* follows in some handlers.
Enrol(r) == LET c == call[r] IN
  /\ AddStudentToGroup(r)
  /\ StudentRows([u \in UserIds |-> [t \in TermIds |->
       IF enrol'[u][t] = None THEN Open ELSE groupDefault[<<t, enrol'[u][t]>>]]])
  /\ IF c.init /\ Inserts(r) THEN InitializeStudentRazborAccess(c.user, c.group)
     ELSE UNCHANGED access
  /\ UNCHANGED <<groupDefault, series, copied, edit>>

Move(r) == MoveStudent(r) /\ UNCHANGED razbor

\* The insert of SyncStudents names no default.
Sync(u, g) ==
  /\ SyncStudent(u, g)
  /\ StudentRows(OpenRows)
  /\ UNCHANGED <<groupDefault, series, access, copied, edit>>

\* The access rows refer to the user and stay.
Removal ==
  /\ RemovalStep
  /\ StudentRows(OpenRows) /\ GroupRows(NoCopy.group)
  /\ UNCHANGED <<series, access, copied, edit>>

NewGroup(r) ==
  /\ InsertGroup(r) \/ InsertTermAndGroup(r)
  /\ GroupRows(NoCopy.group)
  /\ UNCHANGED <<studentDefault, older, series, access, copied, edit>>

\* CopyGroupsToTerm and CopyStudentsToUnassignedGroup take the defaults along.
CopyDefaults(source) ==
  copied' = [group   |-> [n \in Names |-> groupDefault[<<source, n>>]],
             student |-> [u \in UserIds |-> studentDefault[u][source]]]

Copy(r) ==
  /\ OpenTerm(r)
  /\ IF call'[r].pc = "opened" /\ call[r].term # NoTerm THEN CopyDefaults(call[r].term)
     ELSE UNCHANGED copied
  /\ UNCHANGED <<groupDefault, studentDefault, older, series, access, edit>>

\* Mutant of Commit: the students' defaults are left out of the copy.
CommitOpen(r) ==
  /\ CommitTerm(r)
  /\ StudentRows(OpenRows)
  /\ GroupRows(copied.group)
  /\ copied' = NoCopy
  /\ UNCHANGED <<series, access, edit>>

Commit(r) ==
  /\ CommitTerm(r)
  /\ StudentRows([u \in UserIds |-> [t \in TermIds |-> copied.student[u]]])
  /\ GroupRows(copied.group)
  /\ copied' = NoCopy
  /\ UNCHANGED <<series, access, edit>>

Abort(r) ==
  /\ Rollback(r)
  /\ copied' = IF call[r].pc = "opened" THEN NoCopy ELSE copied
  /\ UNCHANGED <<groupDefault, studentDefault, older, series, access, edit>>
-----------------------------------------------------------------------------
(* Series, and the edits of the managers.                                  *)

\* In the active term, with the rows of its students.
CreateSeries(s) ==
  /\ series[s] = NoTerm /\ ActiveTerm # NoTerm
  /\ series' = [series EXCEPT ![s] = ActiveTerm]
  /\ InitializeSeriesRazborAccess(s)
  /\ UNCHANGED <<rosterVars, groupDefault, studentDefault, older, copied, edit>>

\* Its rows go with it, and an edit that has not written its own fails: they
\* refer to the series.
DeleteSeries(s) ==
  /\ series[s] # NoTerm
  /\ series' = [series EXCEPT ![s] = NoTerm]
  /\ access' = [u \in UserIds |-> [access[u] EXCEPT ![s] = NoRow]]
  /\ edit' = [r \in Requests |->
       IF \E u \in UserIds : edit[r].rows[u][s] # NoRow THEN NoEdit ELSE edit[r]]
  /\ UNCHANGED <<rosterVars, groupDefault, studentDefault, older, copied>>

\* The targets of an edit: the term, a group of it, or one student.
TermTarget    == {[kind |-> "term"]}
GroupTarget   == [kind : {"group"}, group : group]
StudentTarget == [kind : {"student"}, user : UserIds]
EditTargets   == TermTarget \cup GroupTarget \cup StudentTarget

\* The students of the active term that a target names.
Students(target) ==
  {u \in UserIds : /\ GetActiveStudentByUser(u)
                   /\ CASE target.kind = "term"    -> TRUE
                        [] target.kind = "group"   -> <<ActiveTerm, enrol[u][ActiveTerm]>> = target.group
                        [] target.kind = "student" -> u = target.user}

\* For one series or (0) for all.
Scope(s) == IF s = 0 THEN SeriesOf(ActiveTerm) ELSE SeriesOf(ActiveTerm) \cap {s}

For(target, s, value) ==
  [u \in UserIds |-> [x \in SeriesIds |->
     IF u \in Students(target) /\ x \in Scope(s) THEN value[u][x] ELSE NoRow]]

\* Mutant of MatrixRows: the other format is opened.
MatrixForgets(target, s, f, allowed) ==
  For(target, s, [u \in UserIds |-> [x \in SeriesIds |-> [Open EXCEPT ![f] = allowed]]])

\* The SELECT of Set...RazborMatrixSeries: with the other format as the row, or
\* else the student's default, has it.
MatrixRows(target, s, f, allowed) ==
  For(target, s, [u \in UserIds |-> [x \in SeriesIds |->
        [COALESCE(access[u][x], studentDefault[u][ActiveTerm]) EXCEPT ![f] = allowed]]])

\* What the student sees, but for the one format.
Asked(target, s, f, allowed) ==
  For(target, s, [u \in UserIds |-> [x \in SeriesIds |->
        [StudentSees(u, x) EXCEPT ![f] = allowed]]])

\* The statement reads its snapshot.  Without a student and a series: 404.
ReadMatrix(r, target, s, f, allowed) ==
  /\ call[r] = Idle /\ edit[r] = NoEdit
  /\ Students(target) # {} /\ Scope(s) # {}
  /\ edit' = [edit EXCEPT ![r] = [rows  |-> MatrixRows(target, s, f, allowed),
                                 asked |-> Asked(target, s, f, allowed)]]
  /\ UNCHANGED <<rosterVars, groupDefault, studentDefault, older, series, access, copied>>

\* ON CONFLICT DO UPDATE sets both formats of a row, whatever it has become while
\* the statement waited for its lock.
SetMatrix(r) ==
  /\ edit[r] # NoEdit
  /\ access' = [u \in UserIds |-> [s \in SeriesIds |->
                  COALESCE(edit[r].rows[u][s], access[u][s])]]
  /\ edit' = [edit EXCEPT ![r] = NoEdit]
  /\ UNCHANGED <<rosterVars, groupDefault, studentDefault, older, series, copied>>

\* The statement fails or the connection is lost.
FailMatrix(r) ==
  /\ edit[r] # NoEdit
  /\ edit' = [edit EXCEPT ![r] = NoEdit]
  /\ UNCHANGED <<rosterVars, groupDefault, studentDefault, older, series, access, copied>>

\* Mutant of SetDefault: the rows there are follow the default.
DefaultsReachBack(target, f, allowed) ==
  /\ ActiveTerm # NoTerm
  /\ studentDefault' = [u \in UserIds |->
       IF u \in Students(target) THEN [studentDefault[u] EXCEPT ![ActiveTerm][f] = allowed]
       ELSE studentDefault[u]]
  /\ groupDefault' = [g \in Groups |->
       IF g \in group /\ g[1] = ActiveTerm
            /\ \/ target.kind = "term"
               \/ target.kind = "group" /\ target.group = g
       THEN [groupDefault[g] EXCEPT ![f] = allowed] ELSE groupDefault[g]]
  /\ access' = [u \in UserIds |-> [x \in SeriesIds |->
       IF u \in Students(target) /\ access[u][x] # NoRow THEN [access[u][x] EXCEPT ![f] = allowed]
       ELSE access[u][x]]]
  /\ UNCHANGED <<rosterVars, older, series, copied, edit>>

\* Set...RazborDefault...: of a group and its students, of a whole term, or of one
\* student; of the active term only.
SetDefault(target, f, allowed) ==
  /\ ActiveTerm # NoTerm
  /\ studentDefault' = [u \in UserIds |->
       IF u \in Students(target) THEN [studentDefault[u] EXCEPT ![ActiveTerm][f] = allowed]
       ELSE studentDefault[u]]
  /\ groupDefault' = [g \in Groups |->
       IF g \in group /\ g[1] = ActiveTerm
            /\ \/ target.kind = "term"
               \/ target.kind = "group" /\ target.group = g
       THEN [groupDefault[g] EXCEPT ![f] = allowed] ELSE groupDefault[g]]
  /\ UNCHANGED <<rosterVars, older, series, access, copied, edit>>

\* manageSetStudentSeriesRazborAccess: any enrolment of the center, a series of its
\* term, both formats.
SetStudentSeries(u, s, row) ==
  /\ series[s] # NoTerm /\ Enrolled(u, series[s])
  /\ access' = [access EXCEPT ![u][s] = row]
  /\ UNCHANGED <<rosterVars, groupDefault, studentDefault, older, series, copied, edit>>
-----------------------------------------------------------------------------
Init ==
  /\ RosterInit
  /\ users = UserIds
  /\ groupDefault = [g \in Groups |-> Open]
  /\ studentDefault = [u \in UserIds |-> [t \in TermIds |-> Open]]
  /\ older = [u \in UserIds |-> {}]
  /\ series = [s \in SeriesIds |-> NoTerm]
  /\ access = NoRows
  /\ copied = NoCopy
  /\ edit = [r \in Requests |-> NoEdit]
  /\ steps = 0

\* A request goes on, a term is opened, or rows of the table are edited.
Managed(r) ==
  \/ edit[r] = NoEdit /\ (\E stage \in 1..MaxStage : ListTerms(r, stage)) /\ UNCHANGED razbor
  \/ Enrol(r) \/ Move(r) \/ NewGroup(r) \/ Copy(r) \/ Commit(r) \/ Abort(r)
  \/ \E target \in EditTargets, s \in SeriesIds \cup {0}, f \in Formats, allowed \in BOOLEAN :
       ReadMatrix(r, target, s, f, allowed)
  \/ SetMatrix(r) \/ FailMatrix(r)

Edited ==
  \/ \E target \in EditTargets, f \in Formats, allowed \in BOOLEAN : SetDefault(target, f, allowed)
  \/ \E u \in UserIds, s \in SeriesIds, row \in Row : SetStudentSeries(u, s, row)

Begun ==
  \/ \E r \in Requests : edit[r] = NoEdit /\ RequestStep(r) /\ UNCHANGED razbor
  \/ Removal
  \/ \E u \in UserIds, g \in Groups : Sync(u, g)
  \/ \E s \in SeriesIds : CreateSeries(s) \/ DeleteSeries(s)
  \/ Edited

Next ==
  \/ steps < MaxSteps /\ steps' = steps + 1 /\ Begun
  \/ UNCHANGED steps /\ \E r \in Requests : Managed(r)

Spec == Init /\ [][Next]_vars
-----------------------------------------------------------------------------
\* older[u] orders the enrolments of u, all of them and nothing else.
OrdersEnrolments(u) ==
  LET terms == EnrolledTerms(u) IN
  /\ older[u] \subseteq terms \X terms
  /\ \A a, b \in terms : a = b \/ <<a, b>> \in older[u] \/ <<b, a>> \in older[u]
  /\ \A a, b \in terms : <<a, b>> \in older[u] => a # b /\ <<b, a>> \notin older[u]
  /\ \A a, b, c \in terms : <<a, b>> \in older[u] /\ <<b, c>> \in older[u] => <<a, c>> \in older[u]

RazborTypeOK ==
  /\ RosterTypeOK
  /\ groupDefault \in [Groups -> Row]
  /\ studentDefault \in [UserIds -> [TermIds -> Row]]
  /\ older \in [UserIds -> SUBSET (TermIds \X TermIds)]
  /\ \A u \in UserIds : OrdersEnrolments(u)
  /\ series \in [SeriesIds -> 0..MaxTerm]
  /\ access \in Rows
  /\ copied \in [group : [Names -> Row], student : [UserIds -> Row]]
  /\ edit \in [Requests -> [rows : Rows, asked : Rows]]

\* The main invariant, under requests that check and write apart: types, at most
\* one active term, enrolments in groups that exist, a group for the unassigned.
RazborInv == RazborTypeOK /\ EnrolledInRealGroup /\ UnassignedStands

\* The managers' table and the student's own pages are computed by different
\* queries from different joins, and say the same of every student and series of
\* a term.
TableIsWhatStudentsSee ==
  \A u \in UserIds, s \in SeriesIds :
    series[s] # NoTerm /\ Enrolled(u, series[s]) => ManagerSees(u, s) = StudentSees(u, s)

\* An edit of the table gives its students what it says for one format, and of the
\* other what they had when its statement began, whether rows were materialised
\* or not and wherever the students, the term and the defaults have gone since; for
\* everybody else and every other series nothing changes.
EditsDoAsked ==
  [][\A r \in Requests : SetMatrix(r) =>
       \A u \in UserIds, s \in SeriesIds :
         series[s] # NoTerm =>
           StudentSees(u, s)' = COALESCE(edit[r].asked[u][s], StudentSees(u, s))]_vars

\* Once a student's access to a series is a row, only an edit of that row changes
\* it: not the defaults, a move, a removal and a return, a spreadsheet, a rollover.
RowsAreHistory ==
  [][\A u \in UserIds, s \in SeriesIds :
       access[u][s] # NoRow /\ series'[s] = series[s] /\ StudentSees(u, s)' # StudentSees(u, s)
         => UNCHANGED <<rosterVars, series, studentDefault>>]_vars

\* The term that was listed is still the current one, and the copy of its roster is
\* still what the roster is.  (Requests that listed the legacy term together may
\* open one term after another, each a copy of the legacy one.)
StoodStill(r) ==
  LET c == call[r] IN
  /\ c.term = CurrentTerm
  /\ \A u \in UserIds :
       /\ u \in c.students <=> c.term # NoTerm /\ Enrolled(u, c.term)
       /\ u \in c.students => copied.student[u] = studentDefault[u][c.term]

\* A new term, opened over a roster that stood still while it was copied, changes
\* nobody's access to a razbor of the terms before, not even of those who were not
\* enrolled in the term of the series.
RolloverKeepsAccess ==
  [][\A r \in Requests : call[r].pc = "opened" /\ Len(term') > Len(term) /\ StoodStill(r) =>
       \A u \in UserIds, s \in SeriesIds :
         series[s] # NoTerm => StudentSees(u, s)' = StudentSees(u, s)]_vars
-----------------------------------------------------------------------------
(* What the code or its comments mean and the code does not do.            *)

\* "Changing a future-series default cannot change historical access."
DefaultsAreForLaterSeries ==
  [][<<rosterVars, series>>' = <<rosterVars, series>> =>
     \A target \in EditTargets, f \in Formats, allowed \in BOOLEAN :
       SetDefault(target, f, allowed) =>
         \A u \in UserIds, s \in SeriesIds :
           series[s] # NoTerm => StudentSees(u, s)' = StudentSees(u, s)]_vars

\* An edit of the table is of one format and leaves the other alone: no comment
\* says so, the query's CASE means it.  Of two edits in flight together, the one
\* that commits last puts the other's format back.
OtherFormatStands ==
  [][\A r \in Requests : SetMatrix(r) =>
       \A u \in UserIds, s \in SeriesIds :
         Cardinality({f \in Formats : StudentSees(u, s)'[f] # StudentSees(u, s)[f]}) <= 1]_vars
=============================================================================
