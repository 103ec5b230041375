---------------------------- MODULE CenterRoster ----------------------------
(***************************************************************************)
(* The roster of one math center: its terms, the groups of a term, the     *)
(* enrolments of students and the teachers.  PostgreSQL runs READ          *)
(* COMMITTED, so a handler that checks and then writes sees a new snapshot *)
(* at every statement; such a handler is a request with a step for the     *)
(* check and a step for the write and commit.                              *)
(*                                                                         *)
(* A group is the pair of its term and its name: a name is not used again  *)
(* in a term after its group was deleted, so that the pair is the id.      *)
(* RazborAccess and Registration extend this module.                       *)
(***************************************************************************)
EXTENDS Integers, SequencesExt

CONSTANTS Requests,    \* requests that take more than one step, in flight at once
          MaxUser,     \* bound: the ids of users
          GroupNames,  \* names of the groups a head teacher creates
          MaxTerm,     \* bound: the terms of the center
          MaxStage     \* bound: the stages of a cohort; 13 in TermStage

Unassigned == "unassigned"   \* UnassignedGroupName
None       == "none"
NoUser     == 0
NoTerm     == 0
Legacy     == 0              \* the stage of the legacy term

ASSUME RosterAssumption ==
  /\ MaxUser \in Nat /\ MaxTerm \in Nat \ {0} /\ MaxStage \in Nat
  /\ Unassigned \notin GroupNames /\ None \notin GroupNames

VARIABLES term,     \* math_center_terms, in the order of their ids
          group,    \* math_center_groups
          gone,     \* groups that were deleted
          enrol,    \* math_center_students: the group's name, by user and term
          teacher,  \* math_center_teachers
          users,    \* the ids in users
          call      \* requests between two of their steps

roster == <<term, group, gone, enrol, teacher, users>>
rosterVars == <<roster, call>>

UserIds == 1..MaxUser
TermIds == 1..MaxTerm
Names   == GroupNames \cup {Unassigned}
Groups  == TermIds \X Names
NoGroup == <<NoTerm, Unassigned>>

Term == [stage : 0..MaxStage, active : BOOLEAN]

\* init: the handler also materialises the access to the term's series.
Idle == [pc |-> "idle", user |-> NoUser, term |-> NoTerm, group |-> NoGroup, init |-> FALSE,
         head |-> FALSE, stage |-> 0, names |-> {}, students |-> {}]

Call == [pc : {"idle", "enrol", "move", "teach", "group", "listed", "opened"},
         user : 0..MaxUser, term : 0..MaxTerm, group : (0..MaxTerm) \X Names,
         init : BOOLEAN, head : BOOLEAN, stage : 0..MaxStage,
         names : SUBSET Names, students : SUBSET UserIds]
-----------------------------------------------------------------------------
(* Queries.                                                                *)

ActiveTerms == {t \in DOMAIN term : term[t].active}

ActiveTerm == IF ActiveTerms = {} THEN NoTerm ELSE CHOOSE t \in ActiveTerms : TRUE

LegacyTerm == LET legacy == {t \in DOMAIN term : term[t].stage = Legacy}
              IN IF legacy = {} THEN NoTerm ELSE CHOOSE t \in legacy : TRUE

\* The active term, before the first rollover the legacy one.
CurrentTerm == IF ActiveTerm # NoTerm THEN ActiveTerm ELSE LegacyTerm

Stages == {term[t].stage : t \in DOMAIN term}

Enrolled(u, t) == enrol[u][t] # None

GetActiveStudentByUser(u) == ActiveTerm # NoTerm /\ Enrolled(u, ActiveTerm)

IsStudentInCenter(u) ==
  \E t \in TermIds : Enrolled(u, t) /\ (t = ActiveTerm \/ ActiveTerm = NoTerm)

IsTeacherInCenter(u) == teacher[u] # None

Begin(r, c) == call[r] = Idle /\ call' = [call EXCEPT ![r] = c]
End(r)      == call' = [call EXCEPT ![r] = Idle]

\* A request that found the row of a student updates it by its id: once the row
\* is deleted, that update matches nothing.
\* Mutant of DeleteStudents: the rows stay.
ForgetGroup(rows) == UNCHANGED <<enrol, call>>

DeleteStudents(rows) ==
  /\ enrol' = [u \in UserIds |-> [t \in TermIds |->
                 IF <<u, t>> \in rows THEN None ELSE enrol[u][t]]]
  /\ call' = [r \in Requests |->
                IF call[r].pc = "move" /\ <<call[r].user, call[r].term>> \in rows
                THEN Idle ELSE call[r]]
-----------------------------------------------------------------------------
(* Students.                                                               *)

\* The target group of the manager is any group of the center; without one, the
\* unassigned group of the current term.
ManageAddStudent(r, u, g) ==
  /\ g \in group /\ ~IsTeacherInCenter(u)
  /\ Begin(r, [Idle EXCEPT !.pc = "enrol", !.user = u, !.group = g, !.init = TRUE])
  /\ UNCHANGED roster

AdminAddStudent(r, u, g) ==
  /\ g \in group /\ ~IsTeacherInCenter(u)
  /\ Begin(r, [Idle EXCEPT !.pc = "enrol", !.user = u, !.group = g])
  /\ UNCHANGED roster

\* manageSetStudentGroupByUser.
AssignStudent(r, u, g) ==
  /\ ActiveTerm # NoTerm /\ u \in users /\ g \in group /\ g[1] = ActiveTerm
  /\ ~IsTeacherInCenter(u)
  /\ enrol[u][ActiveTerm] # g[2]
  /\ Begin(r, [Idle EXCEPT !.pc = IF GetActiveStudentByUser(u) THEN "move" ELSE "enrol",
                           !.user = u, !.term = ActiveTerm, !.group = g, !.init = TRUE])
  /\ UNCHANGED roster

SetStudentGroup(r, u, t, g) ==
  /\ Enrolled(u, t) /\ g \in group
  /\ Begin(r, [Idle EXCEPT !.pc = "move", !.user = u, !.term = t, !.group = g])
  /\ UNCHANGED roster

\* The row is selected from the group; a second row of a user for a term is
\* refused, and so is one of a user who does not exist.
Inserts(r) == LET c == call[r] IN
  /\ c.pc = "enrol"
  /\ c.group \in group /\ c.user \in users /\ ~Enrolled(c.user, c.group[1])

AddStudentToGroup(r) == LET c == call[r] IN
  /\ c.pc = "enrol"
  /\ enrol' = IF Inserts(r) THEN [enrol EXCEPT ![c.user][c.group[1]] = c.group[2]] ELSE enrol
  /\ End(r)
  /\ UNCHANGED <<term, group, gone, teacher, users>>

\* Mutant of MoveStudent: nothing ties a row to a group that exists.
MoveUnchecked(r) == LET c == call[r] IN
  /\ c.pc = "move"
  /\ enrol' = [enrol EXCEPT ![c.user][c.term] = c.group[2]]
  /\ End(r)
  /\ UNCHANGED <<term, group, gone, teacher, users>>

\* The foreign key (group_id, term_id) refuses a group that is gone or of
\* another term.
MoveStudent(r) == LET c == call[r] IN
  /\ c.pc = "move"
  /\ enrol' = IF c.group \in group /\ c.group[1] = c.term
              THEN [enrol EXCEPT ![c.user][c.term] = c.group[2]] ELSE enrol
  /\ End(r)
  /\ UNCHANGED <<term, group, gone, teacher, users>>

\* SyncStudents, for one row of a sheet linked to group g whose name is u's: the
\* user is enrolled, or moved, whoever it is.
SyncStudent(u, g) ==
  /\ g \in group /\ u \in users /\ enrol[u][g[1]] # g[2]
  /\ enrol' = [enrol EXCEPT ![u][g[1]] = g[2]]
  /\ UNCHANGED <<term, group, gone, teacher, users, call>>

\* Removes an enrolment of the active term only.
ManageRemoveStudent(u) ==
  /\ GetActiveStudentByUser(u)
  /\ DeleteStudents({<<u, ActiveTerm>>})
  /\ UNCHANGED <<term, group, gone, teacher, users>>

AdminRemoveStudent(u, t) ==
  /\ Enrolled(u, t)
  /\ DeleteStudents({<<u, t>>})
  /\ UNCHANGED <<term, group, gone, teacher, users>>
-----------------------------------------------------------------------------
(* Teachers.                                                               *)

AddTeacher(r, u, head) ==
  /\ ~IsStudentInCenter(u)
  /\ Begin(r, [Idle EXCEPT !.pc = "teach", !.user = u, !.head = head])
  /\ UNCHANGED roster

AddTeacherToCenter(r) == LET c == call[r] IN
  /\ c.pc = "teach"
  /\ teacher' = IF c.user \in users /\ ~IsTeacherInCenter(c.user)
                THEN [teacher EXCEPT ![c.user] = IF c.head THEN "head" ELSE "teacher"]
                ELSE teacher
  /\ End(r)
  /\ UNCHANGED <<term, group, gone, enrol, users>>

SetTeacherHead(u, head) ==
  /\ IsTeacherInCenter(u)
  /\ teacher' = [teacher EXCEPT ![u] = IF head THEN "head" ELSE "teacher"]
  /\ UNCHANGED <<term, group, gone, enrol, users, call>>

RemoveTeacher(u) ==
  /\ IsTeacherInCenter(u)
  /\ teacher' = [teacher EXCEPT ![u] = None]
  /\ UNCHANGED <<term, group, gone, enrol, users, call>>
-----------------------------------------------------------------------------
(* Groups and terms.                                                       *)

\* The students of the group go with it.
\* Mutant of DeleteGroup: any group.
DeleteAnyGroup(g) ==
  /\ g \in group
  /\ group' = group \ {g} /\ gone' = gone \cup {g}
  /\ DeleteStudents({row \in UserIds \X TermIds : <<row[2], enrol[row[1]][row[2]]>> = g})
  /\ UNCHANGED <<term, teacher, users>>

DeleteGroup(g) ==
  /\ g \in group /\ g[2] # Unassigned
  /\ group' = group \ {g} /\ gone' = gone \cup {g}
  /\ DeleteStudents({row \in UserIds \X TermIds : <<row[2], enrol[row[1]][row[2]]>> = g})
  /\ UNCHANGED <<term, teacher, users>>

NoneAt(pc) == \A r \in Requests : call[r].pc # pc

\* CreateGroupForCurrentTerm holds the lock on the center's row.  A center
\* without a term gets the academic term of the current grade.
CreateGroup(r, n, grade) ==
  /\ n # Unassigned /\ NoneAt("group")
  /\ IF CurrentTerm # NoTerm THEN grade = 0
     ELSE Len(term) < MaxTerm /\ grade % 2 = 1
  /\ Begin(r, [Idle EXCEPT !.pc = "group", !.group = <<CurrentTerm, n>>, !.stage = grade])
  /\ UNCHANGED roster

InsertGroup(r) == LET c == call[r] IN
  /\ c.pc = "group" /\ c.group[1] # NoTerm
  /\ group' = IF c.group \in gone THEN group ELSE group \cup {c.group}
  /\ End(r)
  /\ UNCHANGED <<term, gone, enrol, teacher, users>>

\* One active term per center: while another transaction has inserted one, the
\* insert waits; once one is there, it is refused.
InsertTermAndGroup(r) ==
  LET c == call[r]
      t == Len(term) + 1
  IN /\ c.pc = "group" /\ c.group[1] = NoTerm /\ NoneAt("opened")
     /\ IF ActiveTerms = {} /\ Len(term) < MaxTerm
        THEN /\ term' = Append(term, [stage |-> c.stage, active |-> TRUE])
             /\ group' = group \cup {<<t, Unassigned>>, <<t, c.group[2]>>}
        ELSE UNCHANGED <<term, group>>
     /\ End(r)
     /\ UNCHANGED <<gone, enrol, teacher, users>>

LastStage == IF term = <<>> THEN 0 ELSE Max(Stages)

IsNextTerm(stage) == LastStage = 0 \/ stage = LastStage + 1

\* CreateTerm: the sequence is checked against the terms read first.
ListTerms(r, stage) ==
  /\ Len(term) < MaxTerm /\ stage \in 1..MaxStage /\ IsNextTerm(stage)
  /\ Begin(r, [Idle EXCEPT !.pc = "listed", !.stage = stage, !.term = CurrentTerm])
  /\ UNCHANGED roster

\* The active terms are archived, the new one inserted (UNIQUE (center, kind,
\* grade)) and the roster of the source copied, all in a transaction that is not
\* committed yet.  Another one waits for its row or for its index entry.
OpenTerm(r) == LET c == call[r] IN
  /\ c.pc = "listed" /\ NoneAt("opened")
  /\ call' = [call EXCEPT ![r] =
       IF c.stage \in Stages \/ Len(term) = MaxTerm THEN Idle
       ELSE [c EXCEPT !.pc = "opened",
               !.names = {Unassigned} \cup {n \in Names : <<c.term, n>> \in group},
               !.students = {u \in UserIds : c.term # NoTerm /\ Enrolled(u, c.term)}]]
  /\ UNCHANGED roster

CommitTerm(r) ==
  LET c == call[r]
      t == Len(term) + 1
  IN /\ c.pc = "opened"
     /\ term' = Append([i \in DOMAIN term |-> [term[i] EXCEPT !.active = FALSE]],
                       [stage |-> c.stage, active |-> TRUE])
     /\ group' = group \cup {<<t, n>> : n \in c.names}
     /\ enrol' = [u \in UserIds |->
                    IF u \in c.students THEN [enrol[u] EXCEPT ![t] = Unassigned] ELSE enrol[u]]
     /\ End(r)
     /\ UNCHANGED <<gone, teacher, users>>

\* A statement fails, or the connection is lost: the transaction is rolled back.
Rollback(r) == call[r] # Idle /\ End(r) /\ UNCHANGED roster
-----------------------------------------------------------------------------
\* A new center has its initial term; a migrated one the legacy term; one that
\* older code created has none.
RosterInit ==
  /\ \E first \in {<<>>, <<[stage |-> Legacy, active |-> FALSE]>>}
                    \cup {<<[stage |-> s, active |-> TRUE]>> : s \in 1..MaxStage} :
       /\ term = first
       /\ group = (DOMAIN first) \X {Unassigned}
  /\ gone = {}
  /\ enrol = [u \in UserIds |-> [t \in TermIds |-> None]]
  /\ teacher = [u \in UserIds |-> None]
  /\ call = [r \in Requests |-> Idle]

\* Requests that begin with a check.
RequestStep(r) ==
  \/ \E u \in UserIds, g \in Groups : ManageAddStudent(r, u, g)
  \/ \E u \in UserIds, g \in Groups : AdminAddStudent(r, u, g)
  \/ \E u \in UserIds, g \in Groups : AssignStudent(r, u, g)
  \/ \E u \in UserIds, t \in TermIds, g \in Groups : SetStudentGroup(r, u, t, g)
  \/ \E n \in GroupNames, grade \in 0..MaxStage : CreateGroup(r, n, grade)

TeacherStep ==
  \/ \E r \in Requests, u \in UserIds, head \in BOOLEAN : AddTeacher(r, u, head)
  \/ \E r \in Requests : AddTeacherToCenter(r)
  \/ \E u \in UserIds, head \in BOOLEAN : SetTeacherHead(u, head)
  \/ \E u \in UserIds : RemoveTeacher(u)

RemovalStep ==
  \/ \E u \in UserIds : ManageRemoveStudent(u)
  \/ \E u \in UserIds, t \in TermIds : AdminRemoveStudent(u, t)
  \/ \E g \in Groups : DeleteGroup(g)
-----------------------------------------------------------------------------
\* Types; one active term at most.
RosterTypeOK ==
  /\ term \in Seq(Term) /\ Len(term) <= MaxTerm
  /\ Cardinality(ActiveTerms) <= 1
  /\ group \subseteq Groups /\ gone \subseteq Groups
  /\ enrol \in [UserIds -> [TermIds -> Names \cup {None}]]
  /\ teacher \in [UserIds -> {None, "teacher", "head"}]
  /\ users \subseteq UserIds
  /\ call \in [Requests -> Call]

\* Whatever is deleted or opened between the check of a request and its write, an
\* enrolment is in a group that exists, of the enrolment's own term.
EnrolledInRealGroup ==
  \A u \in UserIds, t \in TermIds : Enrolled(u, t) => <<t, enrol[u][t]>> \in group

\* Every term has its unassigned group: those who are enrolled without a group,
\* and the next rollover, never find it missing.
UnassignedStands == \A t \in DOMAIN term : <<t, Unassigned>> \in group
-----------------------------------------------------------------------------
(* What comments of the code say and the code does not do.                 *)

\* Nobody both teaches and studies in the center.
RolesExclusive == \A u \in UserIds : ~(IsTeacherInCenter(u) /\ GetActiveStudentByUser(u))

\* Every student of the term before is a student of the term that opens.
NobodyLeftBehind ==
  [][\A u \in UserIds :
       ActiveTerm # NoTerm /\ ActiveTerm' # ActiveTerm /\ Enrolled(u, ActiveTerm)
         => enrol'[u][ActiveTerm'] # None]_rosterVars

\* The terms of a cohort follow one another.
TermsFollow ==
  \A t \in DOMAIN term : t > 1 /\ term[t - 1].stage # Legacy =>
    term[t].stage = term[t - 1].stage + 1
=============================================================================
