---------------------------- MODULE CenterProofs ----------------------------
(***************************************************************************)
(* Theorems about RazborAccess and Registration, for any number of         *)
(* requests, users, terms, groups, series and invitations, and the lemmas  *)
(* about the actions of CenterRoster that both are composed from.          *)
(*                                                                         *)
(* CenterRoster.  EnrolledInRealGroup and UnassignedStands are not         *)
(* inductive.  A term that is being opened is not committed yet: it must   *)
(* be the only one, its copy must hold the unassigned group, and there     *)
(* must be room for it when it commits, whatever the other requests do     *)
(* meanwhile.                                                              *)
(*                                                                         *)
(* RazborAccess (Spec, IInv).  What keeps access where it was when a term  *)
(* opens is that the new term is new to everything: no group, no series    *)
(* and no enrolment names a term before it exists, not even a request that *)
(* is under way; and that a center has no active term only before its      *)
(* first rollover.                                                         *)
(*                                                                         *)
(* Registration (RegistrationSpec, RegIInv).  UsesBounded is not           *)
(* inductive: a registration counts the uses when it locks the invitation  *)
(* and adds one when it commits.  What carries the count over is the lock: *)
(* whoever holds it is alone with the invitation, which is not revoked and *)
(* not used up.  That an account changes hands once needs two more facts:  *)
(* ids are handed out in order, and what was found by name keeps its name. *)
(***************************************************************************)
EXTENDS RazborAccess, Registration, FiniteSetTheorems, TLAPS

USE RosterAssumption

\* The term that is being opened.
OneOpening ==
  \A r \in Requests : call[r].pc = "opened" =>
    /\ Len(term) < MaxTerm
    /\ Unassigned \in call[r].names
    /\ \A q \in Requests : call[q].pc = "opened" => q = r

RosterInv == RosterTypeOK /\ EnrolledInRealGroup /\ UnassignedStands /\ OneOpening
-----------------------------------------------------------------------------
(* Terms.                                                                  *)

LEMMA AtMostOne ==
  ASSUME NEW S, \A x, y \in S : x = y
  PROVE  Cardinality(S) <= 1
  <1>1. CASE S = {}
    BY <1>1, FS_EmptySet
  <1>2. CASE S # {}
    <2>1. \E x : S = {x}
      BY <1>2
    <2>2. IsFiniteSet(S) /\ Cardinality(S) = 1
      BY <2>1, FS_Singleton
    <2>3. QED
      BY <2>2
  <1>3. QED
    BY <1>1, <1>2

\* The ids of terms are the positions they have in the sequence.
LEMMA TermIdsOK ==
  ASSUME term \in Seq(Term), Len(term) <= MaxTerm
  PROVE  /\ DOMAIN term = 1..Len(term) /\ Len(term) \in Nat
         /\ DOMAIN term \subseteq TermIds
         /\ ActiveTerm \in 0..MaxTerm /\ CurrentTerm \in 0..MaxTerm
         /\ ActiveTerm # NoTerm => ActiveTerm \in TermIds
  <1>1. DOMAIN term = 1..Len(term) /\ Len(term) \in Nat
    OBVIOUS
  <1>2. DOMAIN term \subseteq TermIds
    BY <1>1 DEF TermIds
  <1>3. ActiveTerms \subseteq TermIds
    BY <1>2 DEF ActiveTerms
  <1>4. ActiveTerm = NoTerm \/ ActiveTerm \in TermIds
    BY <1>3 DEF ActiveTerm
  <1>5. LegacyTerm = NoTerm \/ LegacyTerm \in TermIds
    BY <1>2 DEF LegacyTerm
  <1>6. QED
    BY <1>1, <1>2, <1>4, <1>5 DEF CurrentTerm, TermIds, NoTerm

\* The one active term of a center is the one there is.
LEMMA AppendTerm ==
  ASSUME term \in Seq(Term), NEW s \in Seq(Term), Len(s) = Len(term), Len(term) < MaxTerm,
         \A t \in DOMAIN s : ~s[t].active,
         NEW stage \in 0..MaxStage,
         term' = Append(s, [stage |-> stage, active |-> TRUE])
  PROVE  /\ term' \in Seq(Term) /\ Len(term') = Len(term) + 1 /\ Len(term') <= MaxTerm
         /\ DOMAIN term' = 1..(Len(term) + 1) /\ Len(term) + 1 \in TermIds
         /\ ActiveTerms' = {Len(term) + 1}
         /\ Cardinality(ActiveTerms') <= 1
         /\ ActiveTerm' = Len(term) + 1
  <1> DEFINE new == [stage |-> stage, active |-> TRUE]
  <1>1. new \in Term
    BY DEF Term
  <1>2. /\ term' \in Seq(Term) /\ Len(term') = Len(term) + 1
        /\ \A t \in 1..Len(term) : term'[t] = s[t]
        /\ term'[Len(term) + 1] = new
    BY <1>1
  <1>3. DOMAIN term' = 1..(Len(term) + 1)
    BY <1>2
  <1>4. ActiveTerms' = {Len(term) + 1}
    BY <1>2, <1>3 DEF ActiveTerms
  <1>5. Cardinality(ActiveTerms') <= 1
    BY <1>4, AtMostOne
  <1>6. QED
    BY <1>2, <1>3, <1>4, <1>5 DEF ActiveTerm, TermIds
-----------------------------------------------------------------------------
(* Requests.                                                               *)

LEMMA IdleOK == Idle \in Call /\ Idle.pc # "opened"
  BY DEF Idle, Call, NoUser, NoTerm, NoGroup, Names

\* A step that opens no term keeps the one that is being opened.
LEMMA CallsKeep ==
  ASSUME RosterInv, UNCHANGED term,
         \A q \in Requests : call'[q].pc = "opened" => call'[q] = call[q]
  PROVE  OneOpening'
  BY DEF RosterInv, OneOpening

LEMMA BeginInv ==
  ASSUME RosterInv, NEW r \in Requests, NEW c \in Call, c.pc # "opened",
         Begin(r, c), UNCHANGED roster
  PROVE  RosterInv'
  <1>1. call' \in [Requests -> Call]
    BY DEF Begin, RosterInv, RosterTypeOK
  <1>2. \A q \in Requests : call'[q].pc = "opened" => call'[q] = call[q]
    BY DEF Begin, RosterInv, RosterTypeOK
  <1>3. OneOpening'
    BY <1>2, CallsKeep DEF roster
  <1>4. QED
    BY <1>1, <1>3 DEF RosterInv, RosterTypeOK, EnrolledInRealGroup, UnassignedStands, roster,
                      ActiveTerms, Enrolled

LEMMA EndCalls ==
  ASSUME RosterInv, NEW r \in Requests, End(r)
  PROVE  /\ call' \in [Requests -> Call]
         /\ \A q \in Requests : call'[q].pc = "opened" => call'[q] = call[q] /\ q # r
  BY IdleOK DEF End, RosterInv, RosterTypeOK

LEMMA RangesOK ==
  /\ \A u \in UserIds : u \in 0..MaxUser
  /\ \A t \in TermIds : t \in 0..MaxTerm
  /\ \A g \in Groups : g \in (0..MaxTerm) \X Names
  BY DEF UserIds, TermIds, Groups

LEMMA RequestStepInv ==
  ASSUME RosterInv, NEW r \in Requests, RequestStep(r)
  PROVE  RosterInv'
  <1>1. \A pc \in {"enrol", "move"}, u \in UserIds, t \in 0..MaxTerm, g \in Groups, i \in BOOLEAN :
          [Idle EXCEPT !.pc = pc, !.user = u, !.term = t, !.group = g, !.init = i] \in Call
    BY RangesOK, IdleOK DEF Call
  <1>2. ASSUME NEW u \in UserIds, NEW g \in Groups, ManageAddStudent(r, u, g)
        PROVE  RosterInv'
    <2>1. [Idle EXCEPT !.pc = "enrol", !.user = u, !.group = g, !.init = TRUE] \in Call
      BY RangesOK, IdleOK DEF Call
    <2>2. QED
      BY <1>2, <2>1, BeginInv DEF ManageAddStudent, Idle
  <1>3. ASSUME NEW u \in UserIds, NEW g \in Groups, AdminAddStudent(r, u, g)
        PROVE  RosterInv'
    <2>1. [Idle EXCEPT !.pc = "enrol", !.user = u, !.group = g] \in Call
      BY RangesOK, IdleOK DEF Call
    <2>2. QED
      BY <1>3, <2>1, BeginInv DEF AdminAddStudent, Idle
  <1>4. ASSUME NEW u \in UserIds, NEW g \in Groups, AssignStudent(r, u, g)
        PROVE  RosterInv'
    <2> DEFINE c == [Idle EXCEPT !.pc = IF GetActiveStudentByUser(u) THEN "move" ELSE "enrol",
                                 !.user = u, !.term = ActiveTerm, !.group = g, !.init = TRUE]
    <2>1. ActiveTerm \in 0..MaxTerm
      BY TermIdsOK DEF RosterInv, RosterTypeOK
    <2>2. c \in Call /\ c.pc # "opened"
      BY <1>1, <2>1 DEF Idle
    <2>3. Begin(r, c) /\ UNCHANGED roster
      BY <1>4 DEF AssignStudent
    <2>4. QED
      BY <2>2, <2>3, BeginInv
  <1>5. ASSUME NEW u \in UserIds, NEW t \in TermIds, NEW g \in Groups, SetStudentGroup(r, u, t, g)
        PROVE  RosterInv'
    <2>1. [Idle EXCEPT !.pc = "move", !.user = u, !.term = t, !.group = g] \in Call
      BY RangesOK, IdleOK DEF Call
    <2>2. QED
      BY <1>5, <2>1, BeginInv DEF SetStudentGroup, Idle
  <1>6. ASSUME NEW n \in GroupNames, NEW grade \in 0..MaxStage, CreateGroup(r, n, grade)
        PROVE  RosterInv'
    <2>1. CurrentTerm \in 0..MaxTerm
      BY TermIdsOK DEF RosterInv, RosterTypeOK
    <2>2. [Idle EXCEPT !.pc = "group", !.group = <<CurrentTerm, n>>, !.stage = grade] \in Call
      BY <2>1, IdleOK DEF Call, Names
    <2>3. QED
      BY <1>6, <2>2, BeginInv DEF CreateGroup, Idle
  <1>7. QED
    BY <1>2, <1>3, <1>4, <1>5, <1>6 DEF RequestStep

LEMMA ListTermsInv ==
  ASSUME RosterInv, NEW r \in Requests, NEW stage \in 1..MaxStage, ListTerms(r, stage)
  PROVE  RosterInv'
  <1>1. CurrentTerm \in 0..MaxTerm
    BY TermIdsOK DEF RosterInv, RosterTypeOK
  <1>2. [Idle EXCEPT !.pc = "listed", !.stage = stage, !.term = CurrentTerm] \in Call
    <2>1. stage \in 0..MaxStage
      OBVIOUS
    <2>2. QED
      BY <1>1, <2>1, IdleOK DEF Call
  <1>3. QED
    BY <1>2, BeginInv DEF ListTerms, Idle
-----------------------------------------------------------------------------
(* Enrolments.                                                             *)

\* Writing one enrolment into a group that exists.
LEMMA EnrolOne ==
  ASSUME RosterInv, NEW u \in UserIds, NEW g \in group,
         enrol' = [enrol EXCEPT ![u][g[1]] = g[2]], UNCHANGED <<term, group, gone>>
  PROVE  /\ enrol' \in [UserIds -> [TermIds -> Names \cup {None}]]
         /\ EnrolledInRealGroup' /\ UnassignedStands'
         /\ enrol'[u][g[1]] = g[2]
         /\ \A v \in UserIds, t \in TermIds :
              v # u \/ t # g[1] => enrol'[v][t] = enrol[v][t]
  <1>1. g[1] \in TermIds /\ g[2] \in Names /\ g = <<g[1], g[2]>>
    BY DEF RosterInv, RosterTypeOK, Groups
  <1>2. enrol \in [UserIds -> [TermIds -> Names \cup {None}]]
    BY DEF RosterInv, RosterTypeOK
  <1>3. enrol' \in [UserIds -> [TermIds -> Names \cup {None}]]
    BY <1>1, <1>2
  <1>4. enrol'[u][g[1]] = g[2]
    BY <1>1, <1>2
  <1>5. \A v \in UserIds, t \in TermIds : v # u \/ t # g[1] => enrol'[v][t] = enrol[v][t]
    BY <1>1, <1>2
  <1>6. EnrolledInRealGroup'
    BY <1>1, <1>4, <1>5 DEF RosterInv, EnrolledInRealGroup, Enrolled
  <1>7. UnassignedStands'
    BY DEF RosterInv, UnassignedStands
  <1>8. QED
    BY <1>3, <1>4, <1>5, <1>6, <1>7

\* Rows of the roster that change: types and groups as above, nobody else's.
LEMMA EnrolInv ==
  ASSUME RosterInv, UNCHANGED <<term, group, gone, teacher>>, users' \subseteq UserIds,
         enrol' \in [UserIds -> [TermIds -> Names \cup {None}]], EnrolledInRealGroup',
         call' \in [Requests -> Call],
         \A q \in Requests : call'[q].pc = "opened" => call'[q] = call[q]
  PROVE  RosterInv'
  BY CallsKeep DEF RosterInv, RosterTypeOK, UnassignedStands, ActiveTerms

LEMMA AddStudentInv ==
  ASSUME RosterInv, NEW r \in Requests, AddStudentToGroup(r)
  PROVE  RosterInv'
  <1>1. /\ call' \in [Requests -> Call]
        /\ \A q \in Requests : call'[q].pc = "opened" => call'[q] = call[q]
    BY EndCalls DEF AddStudentToGroup
  <1>2. /\ enrol' \in [UserIds -> [TermIds -> Names \cup {None}]]
        /\ EnrolledInRealGroup'
    <2>1. CASE Inserts(r)
      <3>1. call[r].user \in UserIds /\ call[r].group \in group
        BY <2>1 DEF Inserts, RosterInv, RosterTypeOK
      <3>2. enrol' = [enrol EXCEPT ![call[r].user][call[r].group[1]] = call[r].group[2]]
        BY <2>1 DEF AddStudentToGroup
      <3>3. QED
        BY <3>1, <3>2, EnrolOne DEF AddStudentToGroup
    <2>2. CASE ~Inserts(r)
      BY <2>2 DEF AddStudentToGroup, RosterInv, RosterTypeOK, EnrolledInRealGroup, Enrolled
    <2>3. QED
      BY <2>1, <2>2
  <1>3. QED
    BY <1>1, <1>2, EnrolInv DEF AddStudentToGroup, RosterInv, RosterTypeOK

LEMMA MoveStudentInv ==
  ASSUME RosterInv, NEW r \in Requests, MoveStudent(r)
  PROVE  RosterInv'
  <1>1. /\ call' \in [Requests -> Call]
        /\ \A q \in Requests : call'[q].pc = "opened" => call'[q] = call[q]
    BY EndCalls DEF MoveStudent
  <1>2. enrol \in [UserIds -> [TermIds -> Names \cup {None}]] /\ call[r] \in Call
    BY DEF RosterInv, RosterTypeOK
  <1>3. /\ enrol' \in [UserIds -> [TermIds -> Names \cup {None}]]
        /\ EnrolledInRealGroup'
    <2>1. CASE call[r].group \in group /\ call[r].group[1] = call[r].term /\ call[r].user \in UserIds
      <3>1. enrol' = [enrol EXCEPT ![call[r].user][call[r].group[1]] = call[r].group[2]]
        BY <2>1 DEF MoveStudent
      <3>2. QED
        BY <2>1, <3>1, EnrolOne DEF MoveStudent
    <2>2. CASE ~(call[r].group \in group /\ call[r].group[1] = call[r].term)
      BY <2>2 DEF MoveStudent, RosterInv, RosterTypeOK, EnrolledInRealGroup, Enrolled
    <2>3. CASE call[r].user \notin UserIds
      <3>1. enrol' = enrol
        BY <1>2, <2>3 DEF MoveStudent
      <3>2. QED
        BY <3>1 DEF MoveStudent, RosterInv, RosterTypeOK, EnrolledInRealGroup, Enrolled
    <2>4. QED
      BY <2>1, <2>2, <2>3
  <1>4. QED
    BY <1>1, <1>3, EnrolInv DEF MoveStudent, RosterInv, RosterTypeOK

LEMMA SyncStudentInv ==
  ASSUME RosterInv, NEW u \in UserIds, NEW g, SyncStudent(u, g)
  PROVE  RosterInv'
  <1>1. /\ call' \in [Requests -> Call]
        /\ \A q \in Requests : call'[q].pc = "opened" => call'[q] = call[q]
    BY DEF SyncStudent, RosterInv, RosterTypeOK
  <1>2. /\ enrol' \in [UserIds -> [TermIds -> Names \cup {None}]]
        /\ EnrolledInRealGroup'
    BY EnrolOne DEF SyncStudent
  <1>3. QED
    BY <1>1, <1>2, EnrolInv DEF SyncStudent, RosterInv, RosterTypeOK
-----------------------------------------------------------------------------
(* Removals.                                                               *)

\* A deletion takes enrolments away and ends the moves of their rows.
LEMMA DeleteStudentsOK ==
  ASSUME RosterInv, NEW rows, DeleteStudents(rows)
  PROVE  /\ enrol' \in [UserIds -> [TermIds -> Names \cup {None}]]
         /\ \A u \in UserIds, t \in TermIds :
              enrol'[u][t] = IF <<u, t>> \in rows THEN None ELSE enrol[u][t]
         /\ call' \in [Requests -> Call]
         /\ \A q \in Requests : call'[q].pc = "opened" => call'[q] = call[q]
  <1>1. enrol \in [UserIds -> [TermIds -> Names \cup {None}]] /\ call \in [Requests -> Call]
    BY DEF RosterInv, RosterTypeOK
  <1>2. /\ enrol' \in [UserIds -> [TermIds -> Names \cup {None}]]
        /\ \A u \in UserIds, t \in TermIds :
             enrol'[u][t] = IF <<u, t>> \in rows THEN None ELSE enrol[u][t]
    BY <1>1 DEF DeleteStudents
  <1>3. /\ call' \in [Requests -> Call]
        /\ \A q \in Requests : call'[q].pc = "opened" => call'[q] = call[q]
    BY <1>1, IdleOK DEF DeleteStudents
  <1>4. QED
    BY <1>2, <1>3

\* Deleting a group deletes the enrolments in it, and never the group of those
\* who have none.
LEMMA DeleteGroupInv ==
  ASSUME RosterInv, NEW g, DeleteGroup(g)
  PROVE  RosterInv'
  <1> DEFINE rows == {row \in UserIds \X TermIds : <<row[2], enrol[row[1]][row[2]]>> = g}
  <1>1. DeleteStudents(rows)
    BY DEF DeleteGroup
  <1>2. \A u \in UserIds, t \in TermIds : <<u, t>> \in rows <=> <<t, enrol[u][t]>> = g
    OBVIOUS
  <1> HIDE DEF rows
  <1>3. /\ enrol' \in [UserIds -> [TermIds -> Names \cup {None}]]
        /\ \A u \in UserIds, t \in TermIds :
             enrol'[u][t] = IF <<u, t>> \in rows THEN None ELSE enrol[u][t]
        /\ call' \in [Requests -> Call]
        /\ \A q \in Requests : call'[q].pc = "opened" => call'[q] = call[q]
    BY <1>1, DeleteStudentsOK
  <1>4. /\ group' = group \ {g} /\ gone' = gone \cup {g} /\ g \in group /\ g[2] # Unassigned
        /\ UNCHANGED <<term, teacher, users>>
    BY DEF DeleteGroup
  <1>5. EnrolledInRealGroup'
    BY <1>2, <1>3, <1>4 DEF RosterInv, EnrolledInRealGroup, Enrolled
  <1>6. UnassignedStands'
    BY <1>4 DEF RosterInv, UnassignedStands
  <1>7. OneOpening'
    BY <1>3, <1>4, CallsKeep
  <1>8. RosterTypeOK'
    BY <1>3, <1>4 DEF RosterInv, RosterTypeOK, ActiveTerms
  <1>9. QED
    BY <1>5, <1>6, <1>7, <1>8 DEF RosterInv

LEMMA RemovalInv ==
  ASSUME RosterInv, RemovalStep
  PROVE  RosterInv'
  <1>1. ASSUME NEW rows, DeleteStudents(rows), UNCHANGED <<term, group, gone, teacher, users>>
        PROVE  RosterInv'
    <2>1. /\ enrol' \in [UserIds -> [TermIds -> Names \cup {None}]]
          /\ \A u \in UserIds, t \in TermIds :
               enrol'[u][t] = IF <<u, t>> \in rows THEN None ELSE enrol[u][t]
          /\ call' \in [Requests -> Call]
          /\ \A q \in Requests : call'[q].pc = "opened" => call'[q] = call[q]
      BY <1>1, DeleteStudentsOK
    <2>2. EnrolledInRealGroup'
      BY <1>1, <2>1 DEF RosterInv, EnrolledInRealGroup, Enrolled
    <2>3. users' \subseteq UserIds
      BY <1>1 DEF RosterInv, RosterTypeOK
    <2>4. QED
      BY <1>1, <2>1, <2>2, <2>3, EnrolInv
  <1>2. QED
    BY <1>1, DeleteGroupInv DEF RemovalStep, ManageRemoveStudent, AdminRemoveStudent
-----------------------------------------------------------------------------
(* Teachers.                                                               *)

LEMMA TeacherStepInv ==
  ASSUME RosterInv, TeacherStep
  PROVE  RosterInv'
  <1>1. ASSUME NEW r \in Requests, NEW u \in UserIds, NEW head \in BOOLEAN, AddTeacher(r, u, head)
        PROVE  RosterInv'
    <2>1. [Idle EXCEPT !.pc = "teach", !.user = u, !.head = head] \in Call
      BY RangesOK, IdleOK DEF Call
    <2>2. QED
      BY <1>1, <2>1, BeginInv DEF AddTeacher, Idle
  <1>2. ASSUME teacher' \in [UserIds -> {None, "teacher", "head"}],
               UNCHANGED <<term, group, gone, enrol, users>>,
               call' \in [Requests -> Call],
               \A q \in Requests : call'[q].pc = "opened" => call'[q] = call[q]
        PROVE  RosterInv'
    BY <1>2, CallsKeep DEF RosterInv, RosterTypeOK, EnrolledInRealGroup, UnassignedStands,
                           ActiveTerms, Enrolled
  <1>3. ASSUME NEW r \in Requests, AddTeacherToCenter(r)
        PROVE  RosterInv'
    <2>1. teacher' \in [UserIds -> {None, "teacher", "head"}]
      BY <1>3 DEF AddTeacherToCenter, RosterInv, RosterTypeOK
    <2>2. QED
      BY <1>2, <1>3, <2>1, EndCalls DEF AddTeacherToCenter
  <1>4. ASSUME NEW u \in UserIds, RemoveTeacher(u) \/ \E head \in BOOLEAN : SetTeacherHead(u, head)
        PROVE  RosterInv'
    <2>1. /\ teacher' \in [UserIds -> {None, "teacher", "head"}]
          /\ UNCHANGED <<term, group, gone, enrol, users, call>>
      BY <1>4 DEF RemoveTeacher, SetTeacherHead, RosterInv, RosterTypeOK
    <2>2. QED
      BY <1>2, <2>1 DEF RosterInv, RosterTypeOK
  <1>5. QED
    BY <1>1, <1>3, <1>4 DEF TeacherStep
-----------------------------------------------------------------------------
(* Groups and terms.                                                       *)

LEMMA InsertGroupInv ==
  ASSUME RosterInv, NEW r \in Requests, InsertGroup(r)
  PROVE  RosterInv'
  <1>1. /\ call' \in [Requests -> Call]
        /\ \A q \in Requests : call'[q].pc = "opened" => call'[q] = call[q]
    BY EndCalls DEF InsertGroup
  <1>2. call[r].group \in Groups
    BY DEF InsertGroup, RosterInv, RosterTypeOK, Call, Groups, TermIds, NoTerm
  <1>3. group \subseteq group' /\ group' \subseteq Groups
    BY <1>2 DEF InsertGroup, RosterInv, RosterTypeOK
  <1>4. OneOpening'
    BY <1>1, CallsKeep DEF InsertGroup
  <1>5. QED
    BY <1>1, <1>3, <1>4 DEF InsertGroup, RosterInv, RosterTypeOK, EnrolledInRealGroup,
                            UnassignedStands, ActiveTerms, Enrolled

\* The first term of a center comes with its groups.
LEMMA InsertTermInv ==
  ASSUME RosterInv, NEW r \in Requests, InsertTermAndGroup(r)
  PROVE  RosterInv'
  <1> DEFINE t == Len(term) + 1
             new == [stage |-> call[r].stage, active |-> TRUE]
  <1>1. /\ call' \in [Requests -> Call]
        /\ \A q \in Requests : call'[q].pc = "opened" => call'[q] = call[q] /\ q # r
    BY EndCalls DEF InsertTermAndGroup
  <1>2. \A q \in Requests : call'[q].pc # "opened"
    BY <1>1 DEF InsertTermAndGroup, NoneAt
  <1>3. UNCHANGED <<gone, enrol, teacher, users>>
    BY DEF InsertTermAndGroup
  <1>4. CASE ActiveTerms = {} /\ Len(term) < MaxTerm
    <2>1. /\ term' = Append(term, new)
          /\ group' = group \cup {<<t, Unassigned>>, <<t, call[r].group[2]>>}
      BY <1>4 DEF InsertTermAndGroup
    <2>2. call[r].stage \in 0..MaxStage /\ call[r].group[2] \in Names /\ Unassigned \in Names
      BY DEF RosterInv, RosterTypeOK, Call, Names
    <2>3. \A i \in DOMAIN term : ~term[i].active
      BY <1>4 DEF ActiveTerms
    <2>4. /\ term' \in Seq(Term) /\ Len(term') <= MaxTerm
          /\ DOMAIN term' = 1..t /\ t \in TermIds /\ Cardinality(ActiveTerms') <= 1
      BY <1>4, <2>1, <2>2, <2>3, AppendTerm DEF RosterInv, RosterTypeOK
    <2>5. DOMAIN term = 1..Len(term) /\ Len(term) \in Nat
      BY TermIdsOK DEF RosterInv, RosterTypeOK
    <2>6. group' \subseteq Groups /\ group \subseteq group'
      BY <2>1, <2>2, <2>4 DEF RosterInv, RosterTypeOK, Groups
    <2>7. UnassignedStands'
      BY <2>1, <2>4, <2>5 DEF RosterInv, UnassignedStands
    <2>8. EnrolledInRealGroup'
      BY <1>3, <2>6 DEF RosterInv, EnrolledInRealGroup, Enrolled
    <2>9. RosterTypeOK'
      BY <1>1, <1>3, <2>4, <2>6 DEF RosterInv, RosterTypeOK
    <2>10. QED
      BY <1>2, <2>7, <2>8, <2>9 DEF RosterInv, OneOpening
  <1>5. CASE ~(ActiveTerms = {} /\ Len(term) < MaxTerm)
    <2>1. UNCHANGED <<term, group>>
      BY <1>5 DEF InsertTermAndGroup
    <2>2. RosterTypeOK' /\ EnrolledInRealGroup' /\ UnassignedStands'
      BY <1>1, <1>3, <2>1 DEF RosterInv, RosterTypeOK, EnrolledInRealGroup, UnassignedStands,
                              ActiveTerms, Enrolled
    <2>3. QED
      BY <1>2, <2>2 DEF RosterInv, OneOpening
  <1>6. QED
    BY <1>4, <1>5

\* The copy of the source's groups and students is taken once nobody else opens
\* a term, and when there is room for it.
LEMMA OpenTermInv ==
  ASSUME RosterInv, NEW r \in Requests, OpenTerm(r)
  PROVE  RosterInv'
  <1> DEFINE c == call[r]
             opened == [c EXCEPT !.pc = "opened",
                          !.names = {Unassigned} \cup {n \in Names : <<c.term, n>> \in group},
                          !.students = {u \in UserIds : c.term # NoTerm /\ Enrolled(u, c.term)}]
             stays == c.stage \in Stages \/ Len(term) = MaxTerm
  <1>1. c \in Call /\ call \in [Requests -> Call]
    BY DEF RosterInv, RosterTypeOK
  <1>2. {Unassigned} \cup {n \in Names : <<c.term, n>> \in group} \in SUBSET Names
    BY DEF Names
  <1>3. {u \in UserIds : c.term # NoTerm /\ Enrolled(u, c.term)} \in SUBSET UserIds
    OBVIOUS
  <1>4. opened \in Call /\ Unassigned \in opened.names
    BY <1>1, <1>2, <1>3 DEF Call
  <1>5. call' = [call EXCEPT ![r] = IF stays THEN Idle ELSE opened]
    BY DEF OpenTerm
  <1> HIDE DEF opened
  <1>6. call' \in [Requests -> Call]
    BY <1>1, <1>4, <1>5, IdleOK
  <1>7. UNCHANGED roster
    BY DEF OpenTerm
  <1>8. OneOpening'
    <2>1. \A q \in Requests : call[q].pc # "opened"
      BY DEF OpenTerm, NoneAt
    <2>2. \A q \in Requests : call'[q].pc = "opened" => q = r /\ ~stays /\ call'[q] = opened
      BY <1>1, <1>5, <2>1, IdleOK
    <2>3. ~stays => Len(term) < MaxTerm
      <3>1. Len(term) \in Nat /\ Len(term) <= MaxTerm
        BY TermIdsOK DEF RosterInv, RosterTypeOK
      <3>2. QED
        BY <3>1
    <2>4. QED
      BY <1>4, <1>7, <2>2, <2>3 DEF OneOpening, roster
  <1>9. QED
    BY <1>6, <1>7, <1>8 DEF RosterInv, RosterTypeOK, EnrolledInRealGroup, UnassignedStands,
                            roster, ActiveTerms, Enrolled

\* What a term that opens brings: itself, its groups and its students, all of
\* them in the group of the unassigned.
LEMMA CommitTermOK ==
  ASSUME RosterInv, NEW r \in Requests, CommitTerm(r)
  PROVE  LET t == Len(term) + 1 IN
         /\ t \in TermIds /\ ActiveTerm' = t /\ Len(term') = t
         /\ DOMAIN term' = 1..t
         /\ term' \in Seq(Term) /\ Len(term') <= MaxTerm /\ Cardinality(ActiveTerms') <= 1
         /\ group' = group \cup {<<t, n>> : n \in call[r].names}
         /\ enrol' \in [UserIds -> [TermIds -> Names \cup {None}]]
         /\ \A u \in UserIds, i \in TermIds :
              enrol'[u][i] = IF u \in call[r].students /\ i = t THEN Unassigned ELSE enrol[u][i]
  <1> DEFINE t    == Len(term) + 1
             past == [i \in DOMAIN term |-> [term[i] EXCEPT !.active = FALSE]]
  <1>1. /\ term \in Seq(Term) /\ DOMAIN term = 1..Len(term) /\ Len(term) \in Nat
        /\ enrol \in [UserIds -> [TermIds -> Names \cup {None}]]
        /\ call[r].stage \in 0..MaxStage
    BY TermIdsOK DEF RosterInv, RosterTypeOK, Call
  <1>2. Len(term) < MaxTerm
    BY DEF CommitTerm, RosterInv, OneOpening
  <1>3. \A i \in 1..Len(term) : past[i] \in Term /\ ~past[i].active
    <2> SUFFICES ASSUME NEW i \in 1..Len(term)
                 PROVE  past[i] \in Term /\ ~past[i].active
      OBVIOUS
    <2>1. term[i] \in Term /\ past[i] = [term[i] EXCEPT !.active = FALSE]
      BY <1>1
    <2> HIDE DEF past
    <2>2. QED
      BY <2>1 DEF Term
  <1>4. past \in Seq(Term) /\ Len(past) = Len(term)
    BY <1>1, <1>3
  <1>5. term' = Append(past, [stage |-> call[r].stage, active |-> TRUE])
    BY DEF CommitTerm
  <1>6. \A i \in DOMAIN past : ~past[i].active
    BY <1>1, <1>3
  <1> HIDE DEF past
  <1>7. /\ t \in TermIds /\ ActiveTerm' = t /\ Len(term') = t
        /\ DOMAIN term' = 1..t
        /\ term' \in Seq(Term) /\ Len(term') <= MaxTerm /\ Cardinality(ActiveTerms') <= 1
    BY <1>1, <1>2, <1>4, <1>5, <1>6, AppendTerm
  <1>8. enrol' = [u \in UserIds |->
                    IF u \in call[r].students THEN [enrol[u] EXCEPT ![t] = Unassigned]
                                              ELSE enrol[u]]
    BY DEF CommitTerm
  <1>9. /\ enrol' \in [UserIds -> [TermIds -> Names \cup {None}]]
        /\ \A u \in UserIds, i \in TermIds :
             enrol'[u][i] = IF u \in call[r].students /\ i = t THEN Unassigned ELSE enrol[u][i]
    BY <1>1, <1>7, <1>8 DEF Names
  <1>10. group' = group \cup {<<t, n>> : n \in call[r].names}
    BY DEF CommitTerm
  <1>11. QED
    BY <1>7, <1>9, <1>10

LEMMA CommitTermInv ==
  ASSUME RosterInv, NEW r \in Requests, CommitTerm(r)
  PROVE  RosterInv'
  <1> DEFINE t == Len(term) + 1
  <1>1. /\ t \in TermIds /\ DOMAIN term' = 1..t
        /\ term' \in Seq(Term) /\ Len(term') <= MaxTerm /\ Cardinality(ActiveTerms') <= 1
        /\ group' = group \cup {<<t, n>> : n \in call[r].names}
        /\ enrol' \in [UserIds -> [TermIds -> Names \cup {None}]]
        /\ \A u \in UserIds, i \in TermIds :
             enrol'[u][i] = IF u \in call[r].students /\ i = t THEN Unassigned ELSE enrol[u][i]
    BY CommitTermOK
  <1>2. /\ call' \in [Requests -> Call]
        /\ \A q \in Requests : call'[q].pc # "opened"
    BY EndCalls DEF CommitTerm, RosterInv, OneOpening
  <1>3. Unassigned \in call[r].names /\ call[r].names \subseteq Names
    BY DEF CommitTerm, RosterInv, OneOpening, RosterTypeOK, Call
  <1>4. <<t, Unassigned>> \in group' /\ group \subseteq group' /\ group' \subseteq Groups
    BY <1>1, <1>3 DEF RosterInv, RosterTypeOK, Groups
  <1>5. DOMAIN term = 1..Len(term) /\ Len(term) \in Nat
    BY TermIdsOK DEF RosterInv, RosterTypeOK
  <1>6. UnassignedStands'
    BY <1>1, <1>4, <1>5 DEF RosterInv, UnassignedStands
  <1>7. EnrolledInRealGroup'
    BY <1>1, <1>4 DEF RosterInv, EnrolledInRealGroup, Enrolled
  <1>8. RosterTypeOK'
    BY <1>1, <1>2, <1>4 DEF RosterInv, RosterTypeOK, CommitTerm
  <1>9. QED
    BY <1>2, <1>6, <1>7, <1>8 DEF RosterInv, OneOpening

LEMMA RollbackInv ==
  ASSUME RosterInv, NEW r \in Requests, Rollback(r)
  PROVE  RosterInv'
  <1>1. /\ call' \in [Requests -> Call]
        /\ \A q \in Requests : call'[q].pc = "opened" => call'[q] = call[q]
        /\ UNCHANGED roster
    BY EndCalls DEF Rollback
  <1>2. OneOpening'
    BY <1>1, CallsKeep DEF roster
  <1>3. QED
    BY <1>1, <1>2 DEF RosterInv, RosterTypeOK, EnrolledInRealGroup, UnassignedStands, roster,
                      ActiveTerms, Enrolled

LEMMA RosterInitInv == RosterInit /\ users \subseteq UserIds => RosterInv
  <1> SUFFICES ASSUME RosterInit, users \subseteq UserIds PROVE RosterInv
    OBVIOUS
  <1>1. PICK first \in {<<>>, <<[stage |-> Legacy, active |-> FALSE]>>}
                         \cup {<<[stage |-> s, active |-> TRUE]>> : s \in 1..MaxStage} :
          term = first /\ group = (DOMAIN first) \X {Unassigned}
    BY DEF RosterInit
  <1>2. term = <<>> \/ \E e \in Term : term = <<e>>
    <2>1. [stage |-> Legacy, active |-> FALSE] \in Term
      BY DEF Term, Legacy
    <2>2. \A s \in 1..MaxStage : [stage |-> s, active |-> TRUE] \in Term
      BY DEF Term
    <2>3. QED
      BY <1>1, <2>1, <2>2
  <1>3. term \in Seq(Term) /\ Len(term) <= MaxTerm /\ DOMAIN term \subseteq {1}
    <2>1. CASE term = <<>>
      BY <2>1
    <2>2. ASSUME NEW e \in Term, term = <<e>>
          PROVE  term \in Seq(Term) /\ Len(term) <= MaxTerm /\ DOMAIN term \subseteq {1}
      BY <2>2
    <2>3. QED
      BY <1>2, <2>1, <2>2
  <1>4. Cardinality(ActiveTerms) <= 1
    BY <1>3, AtMostOne DEF ActiveTerms
  <1>5. group \subseteq Groups /\ UnassignedStands
    BY <1>1, <1>3 DEF Groups, Names, TermIds, UnassignedStands
  <1>6. /\ enrol = [u \in UserIds |-> [t \in TermIds |-> None]]
        /\ teacher = [u \in UserIds |-> None]
        /\ call = [r \in Requests |-> Idle] /\ gone = {}
    BY DEF RosterInit
  <1>7. EnrolledInRealGroup
    BY <1>6 DEF EnrolledInRealGroup, Enrolled
  <1>8. OneOpening
    BY <1>6, IdleOK DEF OneOpening
  <1>9. QED
    BY <1>3, <1>4, <1>5, <1>6, <1>7, <1>8, IdleOK DEF RosterInv, RosterTypeOK
-----------------------------------------------------------------------------
(* The access table.                                                       *)

\* Types of the part that CenterRoster does not know.
DefaultsTypeOK ==
  /\ groupDefault \in [Groups -> Row]
  /\ studentDefault \in [UserIds -> [TermIds -> Row]]
  /\ copied \in [group : [Names -> Row], student : [UserIds -> Row]]

OrderTypeOK ==
  /\ older \in [UserIds -> SUBSET (TermIds \X TermIds)]
  /\ \A u \in UserIds : OrdersEnrolments(u)

\* What the statement of an edit read is what was asked for: the default of the
\* active term is what the student sees without a row.
AccessTypeOK ==
  /\ series \in [SeriesIds -> 0..MaxTerm]
  /\ access \in [UserIds -> [SeriesIds -> Row \cup {NoRow}]]
  /\ edit \in [Requests -> [rows : Rows, asked : Rows]]
  /\ \A r \in Requests : edit[r].asked = edit[r].rows

\* Nothing names a term before it is there; without an active term there is the
\* legacy term at most.
TermsKnown ==
  /\ \A g \in group : g[1] \in DOMAIN term
  /\ \A r \in Requests : call[r].pc = "group" => call[r].group[1] \in DOMAIN term \cup {NoTerm}
  /\ \A s \in SeriesIds : series[s] \in DOMAIN term \cup {NoTerm}
  /\ ActiveTerms = {} => \A t \in DOMAIN term : t = 1 /\ term[t].stage = Legacy

\* A request that moves a student has found its row.
MovesHaveRows ==
  \A r \in Requests : call[r].pc = "move" =>
    /\ call[r].user \in UserIds /\ call[r].term \in TermIds
    /\ Enrolled(call[r].user, call[r].term)

IInv == RosterInv /\ DefaultsTypeOK /\ OrderTypeOK /\ AccessTypeOK /\ TermsKnown /\ MovesHaveRows
-----------------------------------------------------------------------------
(* Rows, defaults and the order of enrolments.                             *)

LEMMA OpenOK ==
  /\ Open \in Row
  /\ OpenRows \in [UserIds -> [TermIds -> Row]]
  /\ NoCopy \in [group : [Names -> Row], student : [UserIds -> Row]]
  BY DEF Open, Row, OpenRows, NoCopy

LEMMA NoEditOK == NoEdit \in [rows : Rows, asked : Rows] /\ NoEdit.asked = NoEdit.rows
  BY DEF NoEdit, NoRows, Rows

\* A row wins over a default.
LEMMA RowWins ==
  /\ \A row, default : row # NoRow => COALESCE(row, default) = row
  /\ \A row \in Row \cup {NoRow}, default \in Row : COALESCE(row, default) \in Row
  BY DEF COALESCE

LEMMA StudentDefaultsOK ==
  ASSUME DefaultsTypeOK, NEW default, StudentRows(default),
         \A u \in UserIds, t \in TermIds :
           ~Enrolled(u, t) /\ enrol'[u][t] # None => default[u][t] \in Row
  PROVE  studentDefault' \in [UserIds -> [TermIds -> Row]]
  <1> DEFINE new(u, t) == IF enrol'[u][t] = None THEN Open
                          ELSE IF Enrolled(u, t) THEN studentDefault[u][t] ELSE default[u][t]
  <1>1. studentDefault' = [u \in UserIds |-> [t \in TermIds |-> new(u, t)]]
    BY DEF StudentRows
  <1>2. ASSUME NEW u \in UserIds, NEW t \in TermIds PROVE new(u, t) \in Row
    <2>1. CASE enrol'[u][t] = None
      BY <2>1, OpenOK
    <2>2. CASE enrol'[u][t] # None /\ Enrolled(u, t)
      BY <2>2 DEF DefaultsTypeOK
    <2>3. CASE enrol'[u][t] # None /\ ~Enrolled(u, t)
      BY <2>3
    <2>4. QED
      BY <2>1, <2>2, <2>3
  <1> HIDE DEF new
  <1>3. QED
    BY <1>1, <1>2

LEMMA GroupDefaultsOK ==
  ASSUME DefaultsTypeOK, NEW default \in [Names -> Row], GroupRows(default)
  PROVE  groupDefault' \in [Groups -> Row]
  <1> DEFINE new(g) == IF g \notin group' THEN Open
                       ELSE IF g \in group THEN groupDefault[g] ELSE default[g[2]]
  <1>1. groupDefault' = [g \in Groups |-> new(g)]
    BY DEF GroupRows
  <1>2. ASSUME NEW g \in Groups PROVE new(g) \in Row
    <2>1. g[2] \in Names
      BY DEF Groups
    <2>2. CASE g \notin group'
      BY <2>2, OpenOK
    <2>3. CASE g \in group' /\ g \in group
      BY <2>3 DEF DefaultsTypeOK
    <2>4. CASE g \in group' /\ g \notin group
      BY <2>1, <2>4
    <2>5. QED
      BY <2>2, <2>3, <2>4
  <1> HIDE DEF new
  <1>3. QED
    BY <1>1, <1>2

\* The newest enrolment comes last, the others stay in order.
LEMMA OrderOK ==
  ASSUME OrderTypeOK, NEW default, StudentRows(default),
         \A u \in UserIds, a, b \in TermIds :
           ~Enrolled(u, a) /\ enrol'[u][a] # None /\ ~Enrolled(u, b) /\ enrol'[u][b] # None => a = b
  PROVE  OrderTypeOK'
  <1>1. ASSUME NEW u \in UserIds
        PROVE  /\ older'[u] \in SUBSET (TermIds \X TermIds)
               /\ OrdersEnrolments(u)'
    <2> DEFINE T    == EnrolledTerms(u)
               kept == {t \in T : enrol'[u][t] # None}
               new  == {t \in TermIds : ~Enrolled(u, t) /\ enrol'[u][t] # None}
    <2>1. older'[u] = (older[u] \cap (kept \X kept)) \cup (kept \X new)
      BY DEF StudentRows
    <2>2. EnrolledTerms(u)' = kept \cup new
      BY DEF EnrolledTerms, Enrolled
    <2>3. /\ kept \subseteq T /\ T \subseteq TermIds /\ new \subseteq TermIds
          /\ \A a \in kept : a \notin new
          /\ \A a, b \in new : a = b
      BY DEF EnrolledTerms
    <2>4. /\ \A a, b \in T : a = b \/ <<a, b>> \in older[u] \/ <<b, a>> \in older[u]
          /\ \A a, b \in T : <<a, b>> \in older[u] => a # b /\ <<b, a>> \notin older[u]
          /\ \A a, b, c \in T : <<a, b>> \in older[u] /\ <<b, c>> \in older[u] => <<a, c>> \in older[u]
      BY DEF OrderTypeOK, OrdersEnrolments
    <2> HIDE DEF T, kept, new
    <2>5. \A a, b : <<a, b>> \in older'[u] <=>
            \/ a \in kept /\ b \in kept /\ <<a, b>> \in older[u]
            \/ a \in kept /\ b \in new
      BY <2>1
    <2>6. older'[u] \subseteq (kept \cup new) \X (kept \cup new)
      BY <2>1
    <2>7. \A a, b \in kept \cup new : a = b \/ <<a, b>> \in older'[u] \/ <<b, a>> \in older'[u]
      BY <2>3, <2>4, <2>5
    <2>8. \A a, b \in kept \cup new : <<a, b>> \in older'[u] => a # b /\ <<b, a>> \notin older'[u]
      BY <2>3, <2>4, <2>5
    <2>9. ASSUME NEW a \in kept \cup new, NEW b \in kept \cup new, NEW c \in kept \cup new,
                 <<a, b>> \in older'[u], <<b, c>> \in older'[u]
          PROVE  <<a, c>> \in older'[u]
      <3>1. a \in kept /\ b \in kept /\ <<a, b>> \in older[u]
        BY <2>3, <2>5, <2>9
      <3>2. CASE c \in kept
        BY <2>3, <2>4, <2>5, <2>9, <3>1, <3>2
      <3>3. CASE c \in new
        BY <2>5, <3>1, <3>3
      <3>4. QED
        BY <3>2, <3>3
    <2>10. QED
      BY <2>2, <2>3, <2>6, <2>7, <2>8, <2>9 DEF OrdersEnrolments
  <1>2. older' = [u \in UserIds |-> older'[u]]
    BY DEF StudentRows
  <1>3. QED
    BY <1>1, <1>2 DEF OrderTypeOK

\* Among enrolments there is a newest: one after which the fewest come.
LEMMA NewestIsThere ==
  ASSUME OrderTypeOK, NEW u \in UserIds, EnrolledTerms(u) # {}
  PROVE  NewestEnrollment(u) \in EnrolledTerms(u)
  <1> DEFINE T == EnrolledTerms(u)
             after(x) == {y \in T : <<x, y>> \in older[u]}
             tails == {after(x) : x \in T}
  <1>1. IsFiniteSet(T)
    <2>1. IsFiniteSet(TermIds) /\ T \in SUBSET TermIds
      BY FS_Interval DEF TermIds, EnrolledTerms
    <2>2. QED
      BY <2>1, FS_Subset
  <1>2. /\ \A a, b \in T : a = b \/ <<a, b>> \in older[u] \/ <<b, a>> \in older[u]
        /\ \A a, b \in T : <<a, b>> \in older[u] => a # b /\ <<b, a>> \notin older[u]
        /\ \A a, b, c \in T : <<a, b>> \in older[u] /\ <<b, c>> \in older[u] => <<a, c>> \in older[u]
    BY DEF OrderTypeOK, OrdersEnrolments
  <1>3. tails \subseteq FiniteSubsetsOf(T) /\ tails # {}
    <2>1. \A x \in T : after(x) \in SUBSET T
      OBVIOUS
    <2> HIDE DEF after, T
    <2>2. FiniteSubsetsOf(T) = SUBSET T
      BY <1>1, FS_FiniteSubsetsOfFinite
    <2>3. T # {}
      BY DEF T
    <2>4. QED
      BY <2>1, <2>2, <2>3
  <1>4. \E x \in T : \A y \in T : <<after(y), after(x)>> \notin StrictSubsetOrdering(T)
    <2>1. IsWellFoundedOn(StrictSubsetOrdering(T), FiniteSubsetsOf(T))
      BY FS_StrictSubsetOrderingWellFounded
    <2> HIDE DEF T
    <2>2. \E a \in tails : \A b \in tails : <<b, a>> \notin StrictSubsetOrdering(T)
      <3> HIDE DEF tails
      <3>1. QED
        BY <1>3, <2>1, WFMin
    <2>3. QED
      BY <2>2
  <1>5. PICK x \in T : \A y \in T : <<after(y), after(x)>> \notin StrictSubsetOrdering(T)
    BY <1>4
  <1>6. \A y \in T \ {x} : <<y, x>> \in older[u]
    <2>1. SUFFICES ASSUME NEW y \in T, y # x, <<x, y>> \in older[u] PROVE FALSE
      BY <1>2
    <2>2. \A z \in after(y) : z \in after(x)
      BY <1>2, <2>1
    <2>3. y \in after(x) /\ y \notin after(y)
      BY <1>2, <2>1
    <2>4. after(x) \in SUBSET T /\ after(y) \in SUBSET T
      OBVIOUS
    <2> HIDE DEF after, T
    <2>5. <<after(y), after(x)>> \in StrictSubsetOrdering(T)
      BY <2>2, <2>3, <2>4 DEF StrictSubsetOrdering
    <2>6. QED
      BY <1>5, <2>1, <2>5
  <1>7. QED
    BY <1>6 DEF NewestEnrollment

\* Materialising rows leaves the rows that are there.
LEMMA MaterialiseOK ==
  ASSUME AccessTypeOK, NEW us, NEW ss, NEW default, \A u \in us : default[u] \in Row,
         Materialise(us, ss, default)
  PROVE  /\ access' \in [UserIds -> [SeriesIds -> Row \cup {NoRow}]]
         /\ \A u \in UserIds, s \in SeriesIds : access[u][s] # NoRow => access'[u][s] = access[u][s]
  <1> DEFINE new(u, s) == IF u \in us /\ s \in ss THEN COALESCE(access[u][s], default[u])
                          ELSE access[u][s]
  <1>1. access' = [u \in UserIds |-> [s \in SeriesIds |-> new(u, s)]]
    BY DEF Materialise
  <1>2. ASSUME NEW u \in UserIds, NEW s \in SeriesIds
        PROVE  new(u, s) \in Row \cup {NoRow} /\ (access[u][s] # NoRow => new(u, s) = access[u][s])
    <2>1. access[u][s] \in Row \cup {NoRow}
      BY DEF AccessTypeOK
    <2>2. QED
      BY <2>1, RowWins
  <1> HIDE DEF new
  <1>3. QED
    BY <1>1, <1>2
-----------------------------------------------------------------------------
(* Terms and requests.                                                     *)

\* A request that waits for its group or to move a student does not change while
\* it waits.
CallsSettle ==
  \A q \in Requests : call'[q].pc \in {"group", "move"} => call'[q] = call[q]

LEMMA EndSettles ==
  ASSUME RosterInv, NEW r \in Requests, End(r)
  PROVE  CallsSettle
  BY IdleOK DEF End, RosterInv, RosterTypeOK, CallsSettle, Idle

LEMMA TermsStay ==
  ASSUME IInv, UNCHANGED term, group' \subseteq group, CallsSettle,
         \A s \in SeriesIds : series'[s] \in DOMAIN term \cup {NoTerm}
  PROVE  TermsKnown'
  BY DEF IInv, TermsKnown, CallsSettle, ActiveTerms

LEMMA MovesStay ==
  ASSUME IInv, CallsSettle, \A u \in UserIds, t \in TermIds : Enrolled(u, t) => enrol'[u][t] # None
  PROVE  MovesHaveRows'
  BY DEF IInv, MovesHaveRows, CallsSettle, Enrolled

LEMMA CurrentTermOK ==
  ASSUME IInv
  PROVE  /\ CurrentTerm \in DOMAIN term \cup {NoTerm}
         /\ ActiveTerm # NoTerm => ActiveTerm \in DOMAIN term /\ ActiveTerm \in TermIds
  <1>1. ActiveTerm = NoTerm \/ ActiveTerm \in DOMAIN term
    BY DEF ActiveTerm, ActiveTerms
  <1>2. LegacyTerm = NoTerm \/ LegacyTerm \in DOMAIN term
    BY DEF LegacyTerm
  <1>3. DOMAIN term \subseteq TermIds
    BY TermIdsOK DEF IInv, RosterInv, RosterTypeOK
  <1>4. QED
    BY <1>1, <1>2, <1>3 DEF CurrentTerm
-----------------------------------------------------------------------------
(* One lemma for each action.                                              *)

\* Students are enrolled in one term by a step, those that stay keep their row.
LEMMA EnrolmentsOK ==
  ASSUME IInv, NEW default, StudentRows(default),
         NEW u \in UserIds, NEW x \in TermIds,
         \A v \in UserIds, t \in TermIds : v # u \/ t # x => enrol'[v][t] = enrol[v][t],
         enrol'[u][x] # None, default[u][x] \in Row
  PROVE  /\ studentDefault' \in [UserIds -> [TermIds -> Row]] /\ OrderTypeOK'
         /\ \A v \in UserIds, t \in TermIds : Enrolled(v, t) => enrol'[v][t] # None
  <1>1. \A v \in UserIds, t \in TermIds : Enrolled(v, t) => enrol'[v][t] # None
    BY DEF Enrolled
  <1>2. \A v \in UserIds, t \in TermIds :
          ~Enrolled(v, t) /\ enrol'[v][t] # None => v = u /\ t = x /\ default[v][t] \in Row
    BY DEF Enrolled
  <1>3. QED
    BY <1>1, <1>2, StudentDefaultsOK, OrderOK DEF IInv

\* A step that leaves the roster alone.
LEMMA RosterStays ==
  ASSUME IInv, UNCHANGED <<rosterVars, older>>
  PROVE  /\ RosterInv' /\ OrderTypeOK' /\ MovesHaveRows'
         /\ (\A s \in SeriesIds : series'[s] \in DOMAIN term \cup {NoTerm}) => TermsKnown'
  <1>1. UNCHANGED <<term, group, gone, enrol, teacher, users, call, older>>
    BY DEF rosterVars, roster
  <1>2. RosterInv' /\ MovesHaveRows'
    BY <1>1 DEF IInv, RosterInv, RosterTypeOK, EnrolledInRealGroup, UnassignedStands, OneOpening,
       ActiveTerms, Enrolled, MovesHaveRows
  <1>3. OrderTypeOK'
    BY <1>1 DEF IInv, OrderTypeOK, OrdersEnrolments, EnrolledTerms, Enrolled
  <1>4. (\A s \in SeriesIds : series'[s] \in DOMAIN term \cup {NoTerm}) => TermsKnown'
    BY <1>1, TermsStay DEF CallsSettle
  <1>5. QED
    BY <1>2, <1>3, <1>4

LEMMA RequestOK ==
  ASSUME IInv, NEW r \in Requests, UNCHANGED razbor,
         RequestStep(r) \/ \E stage \in 1..MaxStage : ListTerms(r, stage)
  PROVE  IInv'
  <1>1. RosterInv'
    BY RequestStepInv, ListTermsInv DEF IInv
  <1>2. UNCHANGED roster
    BY DEF RequestStep, ManageAddStudent, AdminAddStudent, AssignStudent, SetStudentGroup, CreateGroup,
       ListTerms
  <1>3. UNCHANGED <<term, group, enrol, groupDefault, studentDefault, older, series, access, copied, edit>>
    BY <1>2 DEF roster, razbor
  <1>4. call \in [Requests -> Call]
    BY DEF IInv, RosterInv, RosterTypeOK
  <1>5. \A q \in Requests : q # r => call'[q] = call[q]
    BY <1>4 DEF RequestStep, ManageAddStudent, AdminAddStudent, AssignStudent, SetStudentGroup,
       CreateGroup, ListTerms, Begin
  <1>6. /\ call'[r].pc = "group" => call'[r].group[1] \in DOMAIN term \cup {NoTerm}
        /\ call'[r].pc = "move"  => /\ call'[r].user \in UserIds /\ call'[r].term \in TermIds
                                    /\ Enrolled(call'[r].user, call'[r].term)
    <2>1. ASSUME NEW n, NEW grade, CreateGroup(r, n, grade)
          PROVE  call'[r].pc = "group" /\ call'[r].group = <<CurrentTerm, n>>
      BY <1>4, <2>1 DEF CreateGroup, Begin, Idle
    <2>2. ASSUME NEW stage, ListTerms(r, stage) PROVE call'[r].pc = "listed"
      BY <1>4, <2>2 DEF ListTerms, Begin, Idle
    <2>3. ASSUME NEW u, NEW g, ManageAddStudent(r, u, g) PROVE call'[r].pc = "enrol"
      BY <1>4, <2>3 DEF ManageAddStudent, Begin, Idle
    <2>4. ASSUME NEW u, NEW g, AdminAddStudent(r, u, g) PROVE call'[r].pc = "enrol"
      BY <1>4, <2>4 DEF AdminAddStudent, Begin, Idle
    <2>5. ASSUME NEW u \in UserIds, NEW g, AssignStudent(r, u, g)
          PROVE  /\ call'[r].user = u /\ call'[r].term = ActiveTerm /\ ActiveTerm # NoTerm
                 /\ call'[r].pc = IF Enrolled(u, ActiveTerm) THEN "move" ELSE "enrol"
      BY <1>4, <2>5 DEF AssignStudent, Begin, Idle, GetActiveStudentByUser
    <2>6. ASSUME NEW u \in UserIds, NEW t \in TermIds, NEW g, SetStudentGroup(r, u, t, g)
          PROVE  /\ call'[r].pc = "move" /\ call'[r].user = u /\ call'[r].term = t
                 /\ Enrolled(u, t)
      BY <1>4, <2>6 DEF SetStudentGroup, Begin, Idle
    <2>7. CASE \E stage \in 1..MaxStage : ListTerms(r, stage)
      BY <2>2, <2>7
    <2>8. CASE RequestStep(r)
      BY <2>1, <2>3, <2>4, <2>5, <2>6, <2>8, CurrentTermOK DEF RequestStep
    <2>9. QED
      BY <2>7, <2>8
  <1>7. TermsKnown'
    BY <1>3, <1>5, <1>6 DEF IInv, TermsKnown, ActiveTerms
  <1>8. MovesHaveRows'
    BY <1>3, <1>5, <1>6 DEF IInv, MovesHaveRows, Enrolled
  <1>9. QED
    BY <1>1, <1>3, <1>7, <1>8 DEF IInv, DefaultsTypeOK, OrderTypeOK, OrdersEnrolments, EnrolledTerms,
       Enrolled, AccessTypeOK

\* A row that is there stays, unless it goes with its series.
KeepsRows ==
  \A u \in UserIds, s \in SeriesIds :
    access[u][s] # NoRow /\ series'[s] = series[s] => access'[u][s] = access[u][s]

LEMMA EnrolOK ==
  ASSUME IInv, NEW r \in Requests, Enrol(r)
  PROVE  IInv' /\ KeepsRows
  <1> DEFINE c == call[r]
             default == [u \in UserIds |-> [t \in TermIds |->
                           IF enrol'[u][t] = None THEN Open ELSE groupDefault[<<t, enrol'[u][t]>>]]]
  <1>1. /\ AddStudentToGroup(r) /\ StudentRows(default)
        /\ UNCHANGED <<groupDefault, series, copied, edit>>
        /\ IF c.init /\ Inserts(r) THEN InitializeStudentRazborAccess(c.user, c.group)
           ELSE UNCHANGED access
    BY DEF Enrol
  <1>2. RosterInv'
    BY <1>1, AddStudentInv DEF IInv
  <1>3. /\ UNCHANGED <<term, group>> /\ CallsSettle
        /\ enrol' = IF Inserts(r) THEN [enrol EXCEPT ![c.user][c.group[1]] = c.group[2]] ELSE enrol
    BY <1>1, EndSettles DEF AddStudentToGroup, IInv
  <1>4. \A u \in UserIds, t \in TermIds : default[u][t] \in Row
    <2>1. ASSUME NEW u \in UserIds, NEW t \in TermIds, enrol'[u][t] # None
          PROVE  <<t, enrol'[u][t]>> \in Groups
      BY <1>2, <2>1 DEF RosterInv, RosterTypeOK, Groups
    <2>2. QED
      BY <2>1, OpenOK DEF IInv, DefaultsTypeOK
  <1> HIDE DEF default
  <1>5. /\ studentDefault' \in [UserIds -> [TermIds -> Row]] /\ OrderTypeOK'
        /\ \A u \in UserIds, t \in TermIds : Enrolled(u, t) => enrol'[u][t] # None
    <2>1. CASE Inserts(r)
      <3>1. c.user \in UserIds /\ c.group \in group /\ c.group[1] \in TermIds /\ c.group[2] \in Names
        BY <2>1 DEF Inserts, IInv, RosterInv, RosterTypeOK, Groups
      <3>2. /\ enrol'[c.user][c.group[1]] = c.group[2]
            /\ \A u \in UserIds, t \in TermIds :
                 u # c.user \/ t # c.group[1] => enrol'[u][t] = enrol[u][t]
        BY <1>1, <1>3, <2>1, <3>1, EnrolOne DEF IInv, AddStudentToGroup
      <3>3. enrol'[c.user][c.group[1]] # None
        BY <3>1, <3>2 DEF Names, Unassigned, None
      <3>4. QED
        BY <1>1, <1>4, <3>1, <3>2, <3>3, EnrolmentsOK
    <2>2. CASE ~Inserts(r)
      BY <1>1, <1>3, <2>2, StudentDefaultsOK, OrderOK DEF IInv, Enrolled
    <2>3. QED
      BY <2>1, <2>2
  <1>6. AccessTypeOK' /\ KeepsRows
    <2>1. CASE c.init /\ Inserts(r)
      <3> DEFINE rows == [v \in UserIds |-> groupDefault[c.group]]
      <3>1. Materialise({c.user}, SeriesOf(c.group[1]), rows)
        BY <1>1, <2>1 DEF InitializeStudentRazborAccess
      <3>2. c.user \in UserIds /\ c.group \in Groups
        BY <2>1 DEF Inserts, IInv, RosterInv, RosterTypeOK
      <3>3. \A u \in {c.user} : rows[u] \in Row
        BY <3>2 DEF IInv, DefaultsTypeOK
      <3> HIDE DEF rows
      <3>4. /\ access' \in [UserIds -> [SeriesIds -> Row \cup {NoRow}]]
            /\ \A u \in UserIds, s \in SeriesIds :
                 access[u][s] # NoRow => access'[u][s] = access[u][s]
        BY <3>1, <3>3, MaterialiseOK DEF IInv
      <3>5. QED
        BY <1>1, <3>4 DEF IInv, AccessTypeOK, KeepsRows
    <2>2. CASE ~(c.init /\ Inserts(r))
      BY <1>1, <2>2 DEF IInv, AccessTypeOK, KeepsRows
    <2>3. QED
      BY <2>1, <2>2
  <1>7. TermsKnown' /\ MovesHaveRows'
    BY <1>1, <1>3, <1>5, TermsStay, MovesStay DEF IInv, TermsKnown
  <1>8. QED
    BY <1>1, <1>2, <1>5, <1>6, <1>7 DEF IInv, DefaultsTypeOK

\* The order of enrolments does not change with a group.
LEMMA MoveOK ==
  ASSUME IInv, NEW r \in Requests, Move(r)
  PROVE  IInv' /\ KeepsRows
  <1> DEFINE c == call[r]
  <1>1. MoveStudent(r) /\ UNCHANGED <<groupDefault, studentDefault, older, series, access, copied, edit>>
    BY DEF Move, razbor
  <1>2. RosterInv'
    BY <1>1, MoveStudentInv DEF IInv
  <1>3. UNCHANGED <<term, group>> /\ CallsSettle
    BY <1>1, EndSettles DEF MoveStudent, IInv
  <1>4. c.user \in UserIds /\ c.term \in TermIds /\ Enrolled(c.user, c.term)
    BY <1>1 DEF MoveStudent, IInv, MovesHaveRows
  <1>5. \A u \in UserIds, t \in TermIds : enrol'[u][t] # None <=> Enrolled(u, t)
    <2>1. CASE c.group \in group /\ c.group[1] = c.term
      <3>1. c.group[2] # None
        BY <2>1 DEF IInv, RosterInv, RosterTypeOK, Groups, Names, Unassigned, None
      <3>2. enrol' = [enrol EXCEPT ![c.user][c.term] = c.group[2]]
        BY <1>1, <2>1 DEF MoveStudent
      <3>3. QED
        BY <1>4, <3>1, <3>2 DEF IInv, RosterInv, RosterTypeOK, Enrolled
    <2>2. CASE ~(c.group \in group /\ c.group[1] = c.term)
      BY <1>1, <2>2 DEF MoveStudent, Enrolled
    <2>3. QED
      BY <2>1, <2>2
  <1>6. \A u \in UserIds : EnrolledTerms(u)' = EnrolledTerms(u)
    BY <1>5 DEF EnrolledTerms, Enrolled
  <1>7. OrderTypeOK'
    BY <1>1, <1>6 DEF IInv, OrderTypeOK, OrdersEnrolments
  <1>8. TermsKnown' /\ MovesHaveRows'
    BY <1>1, <1>3, <1>5, TermsStay, MovesStay DEF IInv, TermsKnown
  <1>9. QED
    BY <1>1, <1>2, <1>7, <1>8 DEF IInv, DefaultsTypeOK, AccessTypeOK, KeepsRows

LEMMA SyncOK ==
  ASSUME IInv, NEW u \in UserIds, NEW g \in Groups, Sync(u, g)
  PROVE  IInv' /\ KeepsRows
  <1>1. /\ SyncStudent(u, g) /\ StudentRows(OpenRows)
        /\ UNCHANGED <<groupDefault, series, access, copied, edit>>
    BY DEF Sync
  <1>2. RosterInv'
    BY <1>1, SyncStudentInv DEF IInv
  <1>3. UNCHANGED <<term, group>> /\ CallsSettle
    BY <1>1 DEF SyncStudent, CallsSettle
  <1>4. g[1] \in TermIds /\ g[2] \in Names /\ g[2] # None
    BY DEF Groups, Names, Unassigned, None
  <1>5. /\ enrol'[u][g[1]] = g[2]
        /\ \A v \in UserIds, t \in TermIds : v # u \/ t # g[1] => enrol'[v][t] = enrol[v][t]
    BY <1>1, EnrolOne DEF SyncStudent, IInv
  <1>6. OpenRows[u][g[1]] \in Row
    BY <1>4, OpenOK
  <1>7. /\ studentDefault' \in [UserIds -> [TermIds -> Row]] /\ OrderTypeOK'
        /\ \A v \in UserIds, t \in TermIds : Enrolled(v, t) => enrol'[v][t] # None
    BY <1>1, <1>4, <1>5, <1>6, EnrolmentsOK
  <1>8. TermsKnown' /\ MovesHaveRows'
    BY <1>1, <1>3, <1>7, TermsStay, MovesStay DEF IInv, TermsKnown
  <1>9. QED
    BY <1>1, <1>2, <1>7, <1>8 DEF IInv, DefaultsTypeOK, AccessTypeOK, KeepsRows

\* Whoever is removed takes the requests along that would move them.
LEMMA RemovalOK ==
  ASSUME IInv, Removal
  PROVE  IInv' /\ KeepsRows
  <1>1. /\ RemovalStep /\ StudentRows(OpenRows) /\ GroupRows(NoCopy.group)
        /\ UNCHANGED <<series, access, copied, edit>>
    BY DEF Removal
  <1>2. RosterInv'
    BY <1>1, RemovalInv DEF IInv
  <1>3. UNCHANGED term /\ group' \subseteq group /\ \E rows : DeleteStudents(rows)
    BY <1>1 DEF RemovalStep, ManageRemoveStudent, AdminRemoveStudent, DeleteGroup
  <1>4. PICK rows : DeleteStudents(rows)
    BY <1>3
  <1>5. \A u \in UserIds, t \in TermIds :
          enrol'[u][t] = IF <<u, t>> \in rows THEN None ELSE enrol[u][t]
    BY <1>4, DeleteStudentsOK DEF IInv
  <1>6. /\ CallsSettle
        /\ \A q \in Requests : call'[q].pc = "move" => <<call[q].user, call[q].term>> \notin rows
    BY <1>4 DEF DeleteStudents, CallsSettle, Idle
  <1>7. studentDefault' \in [UserIds -> [TermIds -> Row]] /\ OrderTypeOK'
    BY <1>1, <1>5, StudentDefaultsOK, OrderOK DEF IInv, Enrolled
  <1>8. groupDefault' \in [Groups -> Row]
    <2>1. NoCopy.group \in [Names -> Row]
      BY OpenOK
    <2>2. QED
      BY <1>1, <2>1, GroupDefaultsOK DEF IInv
  <1>9. TermsKnown'
    BY <1>1, <1>3, <1>6, TermsStay DEF IInv, TermsKnown
  <1>10. MovesHaveRows'
    <2>1. ASSUME NEW q \in Requests, call'[q].pc = "move"
          PROVE  /\ call'[q].user \in UserIds /\ call'[q].term \in TermIds
                 /\ enrol'[call'[q].user][call'[q].term] # None
      <3>1. call'[q] = call[q] /\ <<call[q].user, call[q].term>> \notin rows
        BY <1>6, <2>1 DEF CallsSettle
      <3>2. /\ call[q].user \in UserIds /\ call[q].term \in TermIds
            /\ enrol[call[q].user][call[q].term] # None
        BY <2>1, <3>1 DEF IInv, MovesHaveRows, Enrolled
      <3>3. QED
        BY <1>5, <3>1, <3>2
    <2>2. QED
      BY <2>1 DEF MovesHaveRows, Enrolled
  <1>11. QED
    BY <1>1, <1>2, <1>7, <1>8, <1>9, <1>10 DEF IInv, DefaultsTypeOK, AccessTypeOK, KeepsRows

\* Terms and groups are added; a term that was added is active.
LEMMA TermsGrow ==
  ASSUME IInv, DOMAIN term \subseteq DOMAIN term', UNCHANGED series, CallsSettle,
         \A g \in group' : g \in group \/ g[1] \in DOMAIN term',
         ActiveTerms' = {} => UNCHANGED term
  PROVE  TermsKnown'
  BY DEF IInv, TermsKnown, CallsSettle, ActiveTerms

LEMMA NewGroupOK ==
  ASSUME IInv, NEW r \in Requests, NewGroup(r)
  PROVE  IInv' /\ KeepsRows
  <1>1. /\ InsertGroup(r) \/ InsertTermAndGroup(r)
        /\ GroupRows(NoCopy.group)
        /\ UNCHANGED <<studentDefault, older, series, access, copied, edit>>
    BY DEF NewGroup
  <1>2. RosterInv'
    BY <1>1, InsertGroupInv, InsertTermInv DEF IInv
  <1>3. UNCHANGED enrol /\ CallsSettle
    BY <1>1, EndSettles DEF InsertGroup, InsertTermAndGroup, IInv
  <1>4. groupDefault' \in [Groups -> Row]
    <2>1. NoCopy.group \in [Names -> Row]
      BY OpenOK
    <2>2. QED
      BY <1>1, <2>1, GroupDefaultsOK DEF IInv
  <1>5. TermsKnown'
    <2>1. CASE InsertGroup(r)
      <3>1. call[r].group[1] \in DOMAIN term
        BY <2>1 DEF InsertGroup, IInv, TermsKnown
      <3>2. QED
        BY <1>1, <1>3, <2>1, <3>1, TermsGrow DEF InsertGroup
    <2>2. CASE InsertTermAndGroup(r)
      <3> DEFINE t == Len(term) + 1
                 new == [stage |-> call[r].stage, active |-> TRUE]
      <3>1. CASE UNCHANGED <<term, group>>
        BY <1>1, <1>3, <3>1, TermsGrow
      <3>2. CASE /\ term' = Append(term, new)
                 /\ group' = group \cup {<<t, Unassigned>>, <<t, call[r].group[2]>>}
        <4>1. /\ term \in Seq(Term) /\ DOMAIN term = 1..Len(term) /\ Len(term) \in Nat
              /\ new \in Term /\ new.active = TRUE
          <5>1. call[r].stage \in 0..MaxStage
            BY DEF IInv, RosterInv, RosterTypeOK, Call
          <5>2. QED
            BY <5>1, TermIdsOK DEF IInv, RosterInv, RosterTypeOK, Term
        <4> HIDE DEF new
        <4>2. DOMAIN term' = 1..t /\ term'[t] = new
          BY <3>2, <4>1
        <4>3. t \in ActiveTerms' /\ DOMAIN term \subseteq DOMAIN term' /\ t \in DOMAIN term'
          BY <4>1, <4>2 DEF ActiveTerms
        <4> HIDE DEF t
        <4>4. \A g \in group' : g \in group \/ g[1] \in DOMAIN term'
          BY <3>2, <4>3
        <4>5. QED
          BY <1>1, <1>3, <4>3, <4>4, TermsGrow
      <3>3. QED
        BY <2>2, <3>1, <3>2 DEF InsertTermAndGroup
    <2>3. QED
      BY <1>1, <2>1, <2>2
  <1>6. OrderTypeOK' /\ MovesHaveRows'
    BY <1>1, <1>3, MovesStay DEF IInv, OrderTypeOK, OrdersEnrolments, EnrolledTerms, Enrolled
  <1>7. QED
    BY <1>1, <1>2, <1>4, <1>5, <1>6 DEF IInv, DefaultsTypeOK, AccessTypeOK, KeepsRows

\* A term that is being opened, and one that is given up: only the copy changes.
LEMMA CopyOK ==
  ASSUME IInv, NEW r \in Requests, Copy(r) \/ Abort(r)
  PROVE  IInv' /\ KeepsRows
  <1>1. /\ OpenTerm(r) \/ Rollback(r)
        /\ UNCHANGED <<groupDefault, studentDefault, older, series, access, edit>>
    BY DEF Copy, Abort
  <1>2. RosterInv'
    BY <1>1, OpenTermInv, RollbackInv DEF IInv
  <1>3. UNCHANGED <<term, group, enrol>>
    BY <1>1 DEF OpenTerm, Rollback, roster
  <1>4. CallsSettle
    <2>1. CASE Rollback(r)
      BY <2>1, EndSettles DEF Rollback, IInv
    <2>2. CASE OpenTerm(r)
      <3>1. call \in [Requests -> Call]
        BY DEF IInv, RosterInv, RosterTypeOK
      <3>2. \A q \in Requests : q # r => call'[q] = call[q]
        BY <2>2, <3>1 DEF OpenTerm
      <3>3. call'[r].pc \in {"idle", "opened"}
        BY <2>2, <3>1 DEF OpenTerm, Call, Idle
      <3>4. QED
        BY <3>2, <3>3 DEF CallsSettle
    <2>3. QED
      BY <1>1, <2>1, <2>2
  <1>5. copied' \in [group : [Names -> Row], student : [UserIds -> Row]]
    <2>1. CASE copied' = copied \/ copied' = NoCopy
      BY <2>1, OpenOK DEF IInv, DefaultsTypeOK
    <2>2. CASE call[r].term # NoTerm /\ CopyDefaults(call[r].term)
      <3>1. call[r].term \in TermIds
        BY <2>2 DEF IInv, RosterInv, RosterTypeOK, Call, TermIds, NoTerm
      <3>2. /\ [n \in Names |-> groupDefault[<<call[r].term, n>>]] \in [Names -> Row]
            /\ [u \in UserIds |-> studentDefault[u][call[r].term]] \in [UserIds -> Row]
        BY <3>1 DEF IInv, DefaultsTypeOK, Groups
      <3>3. QED
        BY <2>2, <3>2 DEF CopyDefaults
    <2>3. QED
      BY <2>1, <2>2 DEF Copy, Abort
  <1>6. OrderTypeOK' /\ MovesHaveRows'
    BY <1>1, <1>3, <1>4, MovesStay DEF IInv, OrderTypeOK, OrdersEnrolments, EnrolledTerms, Enrolled
  <1>7. TermsKnown'
    BY <1>1, <1>3, <1>4, TermsStay DEF IInv, TermsKnown
  <1>8. QED
    BY <1>1, <1>2, <1>5, <1>6, <1>7 DEF IInv, DefaultsTypeOK, AccessTypeOK, KeepsRows

\* The roster is copied into a term that nobody was enrolled in.
LEMMA CommitOK ==
  ASSUME IInv, NEW r \in Requests, Commit(r)
  PROVE  IInv' /\ KeepsRows
  <1> DEFINE t == Len(term) + 1
             default == [u \in UserIds |-> [x \in TermIds |-> copied.student[u]]]
  <1>1. /\ CommitTerm(r) /\ StudentRows(default) /\ GroupRows(copied.group)
        /\ copied' = NoCopy /\ UNCHANGED <<series, access, edit>>
    BY DEF Commit
  <1>2. /\ t \in TermIds /\ ActiveTerm' = t /\ DOMAIN term' = 1..t
        /\ group' = group \cup {<<t, n>> : n \in call[r].names}
        /\ \A u \in UserIds, i \in TermIds :
             enrol'[u][i] = IF u \in call[r].students /\ i = t THEN Unassigned ELSE enrol[u][i]
    BY <1>1, CommitTermOK DEF IInv
  <1>3. RosterInv' /\ CallsSettle
    BY <1>1, CommitTermInv, EndSettles DEF CommitTerm, IInv
  <1>4. copied.group \in [Names -> Row] /\ \A u \in UserIds : copied.student[u] \in Row
    BY DEF IInv, DefaultsTypeOK
  <1>5. \A u \in UserIds, x \in TermIds : default[u][x] \in Row
    BY <1>4
  <1> HIDE DEF default
  <1>6. \A u \in UserIds, x \in TermIds : enrol'[u][x] = enrol[u][x] \/ (x = t /\ enrol'[u][x] # None)
    BY <1>2 DEF Unassigned, None
  <1>7. /\ \A u \in UserIds, x \in TermIds : ~Enrolled(u, x) /\ enrol'[u][x] # None => x = t
        /\ \A u \in UserIds, x \in TermIds : Enrolled(u, x) => enrol'[u][x] # None
    BY <1>6 DEF Enrolled
  <1>8. studentDefault' \in [UserIds -> [TermIds -> Row]]
    BY <1>1, <1>5, StudentDefaultsOK DEF IInv
  <1>9. OrderTypeOK'
    <2> HIDE DEF t
    <2>1. \A u \in UserIds, a, b \in TermIds :
            ~Enrolled(u, a) /\ enrol'[u][a] # None /\ ~Enrolled(u, b) /\ enrol'[u][b] # None => a = b
      BY <1>7
    <2>2. QED
      BY <1>1, <2>1, OrderOK DEF IInv
  <1>10. groupDefault' \in [Groups -> Row]
    BY <1>1, <1>4, GroupDefaultsOK DEF IInv
  <1>11. TermsKnown'
    <2>1. DOMAIN term \subseteq DOMAIN term' /\ t \in DOMAIN term' /\ t # NoTerm
      BY <1>2, TermIdsOK DEF IInv, RosterInv, RosterTypeOK, TermIds, NoTerm
    <2>2. ActiveTerms' # {}
      BY <1>2, <2>1 DEF ActiveTerm
    <2> HIDE DEF t
    <2>3. \A g \in group' : g \in group \/ g[1] \in DOMAIN term'
      BY <1>2, <2>1
    <2>4. QED
      BY <1>1, <1>3, <2>1, <2>2, <2>3, TermsGrow
  <1>12. MovesHaveRows'
    BY <1>3, <1>7, MovesStay
  <1>13. QED
    BY <1>1, <1>3, <1>8, <1>9, <1>10, <1>11, <1>12, OpenOK DEF IInv, DefaultsTypeOK, AccessTypeOK,
       KeepsRows
-----------------------------------------------------------------------------
(* Series and edits.                                                       *)

LEMMA CreateSeriesOK ==
  ASSUME IInv, NEW s \in SeriesIds, CreateSeries(s)
  PROVE  IInv' /\ KeepsRows
  <1> DEFINE rows == [u \in UserIds |-> studentDefault[u][ActiveTerm]]
             us == {u \in UserIds : Enrolled(u, ActiveTerm)}
  <1>1. /\ ActiveTerm # NoTerm /\ series' = [series EXCEPT ![s] = ActiveTerm]
        /\ Materialise(us, {s}, rows)
        /\ UNCHANGED <<rosterVars, groupDefault, studentDefault, older, copied, edit>>
    BY DEF CreateSeries, InitializeSeriesRazborAccess
  <1>2. ActiveTerm \in DOMAIN term /\ ActiveTerm \in TermIds /\ ActiveTerm \in 0..MaxTerm
    BY <1>1, CurrentTermOK DEF TermIds
  <1>3. \A u \in us : rows[u] \in Row
    BY <1>2 DEF IInv, DefaultsTypeOK
  <1> HIDE DEF rows, us
  <1>4. /\ access' \in [UserIds -> [SeriesIds -> Row \cup {NoRow}]]
        /\ \A u \in UserIds, x \in SeriesIds : access[u][x] # NoRow => access'[u][x] = access[u][x]
    BY <1>1, <1>3, MaterialiseOK DEF IInv
  <1>5. /\ series' \in [SeriesIds -> 0..MaxTerm]
        /\ \A x \in SeriesIds : series'[x] \in DOMAIN term \cup {NoTerm}
    BY <1>1, <1>2 DEF IInv, AccessTypeOK, TermsKnown
  <1>6. RosterInv' /\ OrderTypeOK' /\ MovesHaveRows' /\ TermsKnown'
    BY <1>1, <1>5, RosterStays
  <1>7. QED
    BY <1>1, <1>4, <1>5, <1>6 DEF IInv, DefaultsTypeOK, AccessTypeOK, KeepsRows

LEMMA DeleteSeriesOK ==
  ASSUME IInv, NEW s \in SeriesIds, DeleteSeries(s)
  PROVE  IInv' /\ KeepsRows
  <1>1. /\ series[s] # NoTerm /\ series' = [series EXCEPT ![s] = NoTerm]
        /\ access' = [u \in UserIds |-> [access[u] EXCEPT ![s] = NoRow]]
        /\ \E dropped \in SUBSET Requests :
             edit' = [r \in Requests |-> IF r \in dropped THEN NoEdit ELSE edit[r]]
        /\ UNCHANGED <<rosterVars, groupDefault, studentDefault, older, copied>>
    <2> DEFINE dropped == {r \in Requests : \E u \in UserIds : edit[r].rows[u][s] # NoRow}
    <2>1. edit' = [r \in Requests |-> IF r \in dropped THEN NoEdit ELSE edit[r]]
      BY DEF DeleteSeries
    <2>2. QED
      BY <2>1 DEF DeleteSeries
  <1>2. /\ access' \in [UserIds -> [SeriesIds -> Row \cup {NoRow}]]
        /\ \A u \in UserIds, x \in SeriesIds : x # s => access'[u][x] = access[u][x]
    BY <1>1 DEF IInv, AccessTypeOK
  <1>3. /\ series' \in [SeriesIds -> 0..MaxTerm] /\ series'[s] # series[s]
        /\ \A x \in SeriesIds : series'[x] \in DOMAIN term \cup {NoTerm}
    BY <1>1 DEF IInv, AccessTypeOK, TermsKnown, NoTerm
  <1>4. RosterInv' /\ OrderTypeOK' /\ MovesHaveRows' /\ TermsKnown'
    BY <1>1, <1>3, RosterStays
  <1>5. /\ edit' \in [Requests -> [rows : Rows, asked : Rows]]
        /\ \A r \in Requests : edit'[r].asked = edit'[r].rows
    BY <1>1, NoEditOK DEF IInv, AccessTypeOK
  <1>6. QED
    BY <1>1, <1>2, <1>3, <1>4, <1>5 DEF IInv, DefaultsTypeOK, AccessTypeOK, KeepsRows

\* The students of a target are students of the active term.
LEMMA StudentsOK ==
  ASSUME NEW target, NEW u \in Students(target)
  PROVE  /\ u \in UserIds /\ ActiveTerm # NoTerm /\ Enrolled(u, ActiveTerm)
         /\ GetActiveStudentByUser(u)
  BY DEF Students, GetActiveStudentByUser

\* What the SELECT of an edit yields is what was asked for.
LEMMA MatrixRowsOK ==
  ASSUME IInv, NEW target, NEW s, NEW f \in Formats, NEW allowed \in BOOLEAN
  PROVE  /\ MatrixRows(target, s, f, allowed) \in Rows
         /\ Asked(target, s, f, allowed) = MatrixRows(target, s, f, allowed)
  <1> DEFINE had(u, x) == COALESCE(access[u][x], studentDefault[u][ActiveTerm])
             rows == MatrixRows(target, s, f, allowed)
             named(u, x) == u \in Students(target) /\ x \in Scope(s)
  <1>1. ASSUME NEW u \in UserIds, NEW x \in SeriesIds, named(u, x)
        PROVE  [had(u, x) EXCEPT ![f] = allowed] \in Row /\ StudentSees(u, x) = had(u, x)
    <2>1. series[x] = ActiveTerm /\ ActiveTerm \in TermIds /\ Enrolled(u, ActiveTerm)
          /\ ActiveTerm # NoTerm
      BY <1>1, StudentsOK, CurrentTermOK DEF Scope, SeriesOf
    <2>2. access[u][x] \in Row \cup {NoRow} /\ studentDefault[u][ActiveTerm] \in Row
      BY <2>1 DEF IInv, AccessTypeOK, DefaultsTypeOK
    <2>3. had(u, x) \in Row
      BY <2>2, RowWins
    <2>4. \A row \in Row : [row EXCEPT ![f] = allowed] \in Row
      BY DEF Row
    <2>5. StudentSees(u, x) = had(u, x)
      BY <2>1 DEF StudentSees, SeesWith, Enrollment
    <2> HIDE DEF had
    <2>6. QED
      BY <2>3, <2>4, <2>5
  <1>2. rows = [u \in UserIds |-> [x \in SeriesIds |->
                  IF named(u, x) THEN [had(u, x) EXCEPT ![f] = allowed] ELSE NoRow]]
    BY DEF MatrixRows, For
  <1>3. Asked(target, s, f, allowed) =
          [u \in UserIds |-> [x \in SeriesIds |->
             IF named(u, x) THEN [StudentSees(u, x) EXCEPT ![f] = allowed] ELSE NoRow]]
    BY DEF Asked, For
  <1> HIDE DEF had, named, rows
  <1>4. rows \in [UserIds -> [SeriesIds -> Row \cup {NoRow}]]
    BY <1>1, <1>2
  <1>5. Asked(target, s, f, allowed) = rows
    BY <1>1, <1>2, <1>3
  <1>6. QED
    BY <1>4, <1>5 DEF rows, Rows

\* An edit writes only rows, and over every row it read.
LEMMA SetMatrixOK ==
  ASSUME IInv, NEW r \in Requests, SetMatrix(r)
  PROVE  /\ IInv' /\ UNCHANGED <<rosterVars, series, studentDefault>>
         /\ \A u \in UserIds, s \in SeriesIds :
              access'[u][s] = COALESCE(edit[r].asked[u][s], access[u][s])
  <1>1. /\ access' = [u \in UserIds |-> [s \in SeriesIds |->
                        COALESCE(edit[r].rows[u][s], access[u][s])]]
        /\ edit' = [edit EXCEPT ![r] = NoEdit]
        /\ UNCHANGED <<rosterVars, groupDefault, studentDefault, older, series, copied>>
    BY DEF SetMatrix
  <1>2. RosterInv' /\ OrderTypeOK' /\ MovesHaveRows' /\ TermsKnown'
    BY <1>1, RosterStays DEF IInv, TermsKnown
  <1>3. edit[r].rows \in [UserIds -> [SeriesIds -> Row \cup {NoRow}]]
    BY DEF IInv, AccessTypeOK, Rows
  <1>4. \A row, other \in Row \cup {NoRow} : COALESCE(row, other) \in Row \cup {NoRow}
    BY DEF COALESCE
  <1>5. access' \in [UserIds -> [SeriesIds -> Row \cup {NoRow}]]
    BY <1>1, <1>3, <1>4 DEF IInv, AccessTypeOK
  <1>6. /\ edit' \in [Requests -> [rows : Rows, asked : Rows]]
        /\ \A q \in Requests : edit'[q].asked = edit'[q].rows
    BY <1>1, NoEditOK DEF IInv, AccessTypeOK
  <1>7. \A u \in UserIds, s \in SeriesIds :
          access'[u][s] = COALESCE(edit[r].asked[u][s], access[u][s])
    BY <1>1 DEF IInv, AccessTypeOK
  <1>8. QED
    BY <1>1, <1>2, <1>5, <1>6, <1>7 DEF IInv, DefaultsTypeOK, AccessTypeOK

LEMMA FailMatrixOK ==
  ASSUME IInv, NEW r \in Requests, FailMatrix(r)
  PROVE  IInv' /\ KeepsRows
  <1>1. /\ edit' = [edit EXCEPT ![r] = NoEdit]
        /\ UNCHANGED <<rosterVars, groupDefault, studentDefault, older, series, access, copied>>
    BY DEF FailMatrix
  <1>2. RosterInv' /\ OrderTypeOK' /\ MovesHaveRows' /\ TermsKnown'
    BY <1>1, RosterStays DEF IInv, TermsKnown
  <1>3. QED
    BY <1>1, <1>2, NoEditOK DEF IInv, DefaultsTypeOK, AccessTypeOK, KeepsRows

LEMMA ReadMatrixOK ==
  ASSUME IInv, NEW r \in Requests, NEW target, NEW s, NEW f \in Formats, NEW allowed \in BOOLEAN,
         ReadMatrix(r, target, s, f, allowed)
  PROVE  IInv' /\ KeepsRows
  <1> DEFINE new == [rows  |-> MatrixRows(target, s, f, allowed),
                     asked |-> Asked(target, s, f, allowed)]
  <1>1. /\ edit' = [edit EXCEPT ![r] = new]
        /\ UNCHANGED <<rosterVars, groupDefault, studentDefault, older, series, access, copied>>
    BY DEF ReadMatrix
  <1>2. RosterInv' /\ OrderTypeOK' /\ MovesHaveRows' /\ TermsKnown'
    BY <1>1, RosterStays DEF IInv, TermsKnown
  <1>3. new \in [rows : Rows, asked : Rows] /\ new.asked = new.rows
    BY MatrixRowsOK
  <1> HIDE DEF new
  <1>4. QED
    BY <1>1, <1>2, <1>3 DEF IInv, DefaultsTypeOK, AccessTypeOK, KeepsRows

LEMMA EditOK ==
  ASSUME IInv, Edited
  PROVE  IInv' /\ (KeepsRows \/ UNCHANGED <<rosterVars, series, studentDefault>>)
  <1>1. ASSUME NEW u \in UserIds, NEW s \in SeriesIds, NEW row \in Row, SetStudentSeries(u, s, row)
        PROVE  IInv' /\ UNCHANGED <<rosterVars, series, studentDefault>>
    <2>1. /\ access' = [access EXCEPT ![u][s] = row]
          /\ UNCHANGED <<rosterVars, groupDefault, studentDefault, older, series, copied, edit>>
      BY <1>1 DEF SetStudentSeries
    <2>2. RosterInv' /\ OrderTypeOK' /\ MovesHaveRows' /\ TermsKnown'
      BY <2>1, RosterStays DEF IInv, TermsKnown
    <2>3. QED
      BY <2>1, <2>2 DEF IInv, DefaultsTypeOK, AccessTypeOK
  <1>2. ASSUME NEW target, NEW f \in Formats, NEW allowed \in BOOLEAN, SetDefault(target, f, allowed)
        PROVE  IInv' /\ KeepsRows
    <2>1. /\ ActiveTerm # NoTerm
          /\ studentDefault' = [u \in UserIds |->
               IF u \in Students(target) THEN [studentDefault[u] EXCEPT ![ActiveTerm][f] = allowed]
               ELSE studentDefault[u]]
          /\ UNCHANGED <<rosterVars, older, series, access, copied, edit>>
      BY <1>2 DEF SetDefault
    <2>2. ActiveTerm \in TermIds
      BY <2>1, CurrentTermOK
    <2>3. \A row \in Row : [row EXCEPT ![f] = allowed] \in Row
      BY DEF Row
    <2>4. studentDefault' \in [UserIds -> [TermIds -> Row]]
      <3>1. ASSUME NEW u \in UserIds
            PROVE  [studentDefault[u] EXCEPT ![ActiveTerm][f] = allowed] \in [TermIds -> Row]
        BY <2>2, <2>3 DEF IInv, DefaultsTypeOK
      <3>2. QED
        BY <2>1, <3>1 DEF IInv, DefaultsTypeOK
    <2>5. groupDefault' \in [Groups -> Row]
      <3> DEFINE named(g) == /\ g \in group /\ g[1] = ActiveTerm
                             /\ \/ target.kind = "term"
                                \/ target.kind = "group" /\ target.group = g
                 new(g) == IF named(g) THEN [groupDefault[g] EXCEPT ![f] = allowed]
                           ELSE groupDefault[g]
      <3>1. groupDefault' = [g \in Groups |-> new(g)]
        BY <1>2 DEF SetDefault
      <3> HIDE DEF named
      <3>2. \A g \in Groups : new(g) \in Row
        BY <2>3 DEF IInv, DefaultsTypeOK
      <3> HIDE DEF new
      <3>3. QED
        BY <3>1, <3>2
    <2>6. RosterInv' /\ OrderTypeOK' /\ MovesHaveRows' /\ TermsKnown'
      BY <2>1, RosterStays DEF IInv, TermsKnown
    <2>7. QED
      BY <2>1, <2>4, <2>5, <2>6 DEF IInv, DefaultsTypeOK, AccessTypeOK, KeepsRows
  <1>3. QED
    BY <1>1, <1>2 DEF Edited
-----------------------------------------------------------------------------
(* The inductive invariant.                                                *)

LEMMA InitIInv == Init => IInv
  <1> SUFFICES ASSUME Init PROVE IInv
    OBVIOUS
  <1>1. RosterInv
    BY RosterInitInv DEF Init
  <1>2. PICK first \in {<<>>, <<[stage |-> Legacy, active |-> FALSE]>>}
                         \cup {<<[stage |-> s, active |-> TRUE]>> : s \in 1..MaxStage} :
          term = first /\ group = (DOMAIN first) \X {Unassigned}
    BY DEF Init, RosterInit
  <1>3. term = <<>> \/ \E e : term = <<e>> /\ (e.active \/ e.stage = Legacy)
    BY <1>2
  <1>4. ActiveTerms = {} => \A t \in DOMAIN term : t = 1 /\ term[t].stage = Legacy
    BY <1>3 DEF ActiveTerms
  <1>5. TermsKnown
    BY <1>2, <1>4 DEF Init, RosterInit, TermsKnown, Idle
  <1>6. \A u \in UserIds : EnrolledTerms(u) = {}
    BY DEF Init, RosterInit, EnrolledTerms, Enrolled
  <1>7. OrderTypeOK
    BY <1>6 DEF Init, OrderTypeOK, OrdersEnrolments
  <1>8. DefaultsTypeOK /\ AccessTypeOK /\ MovesHaveRows
    BY OpenOK, NoEditOK DEF Init, RosterInit, DefaultsTypeOK, AccessTypeOK, NoRows, MovesHaveRows,
       Idle, NoTerm
  <1>9. QED
    BY <1>1, <1>5, <1>7, <1>8 DEF IInv

LEMMA NextIInv ==
  ASSUME IInv, [Next]_vars
  PROVE  IInv' /\ (KeepsRows \/ UNCHANGED <<rosterVars, series, studentDefault>>)
  <1>1. CASE UNCHANGED vars
    <2>1. UNCHANGED <<rosterVars, groupDefault, studentDefault, older, series, access, copied, edit>>
      BY <1>1 DEF vars, razbor
    <2>2. RosterInv' /\ OrderTypeOK' /\ MovesHaveRows' /\ TermsKnown'
      BY <2>1, RosterStays DEF IInv, TermsKnown
    <2>3. QED
      BY <2>1, <2>2 DEF IInv, DefaultsTypeOK, AccessTypeOK
  <1>2. ASSUME NEW r \in Requests, UNCHANGED razbor,
               RequestStep(r) \/ \E stage \in 1..MaxStage : ListTerms(r, stage)
        PROVE  IInv' /\ KeepsRows
    BY <1>2, RequestOK DEF razbor, KeepsRows
  <1>3. CASE Begun
    BY <1>2, <1>3, RemovalOK, SyncOK, CreateSeriesOK, DeleteSeriesOK, EditOK DEF Begun
  <1>4. ASSUME NEW r \in Requests, Managed(r)
        PROVE  IInv' /\ (KeepsRows \/ UNCHANGED <<rosterVars, series, studentDefault>>)
    BY <1>2, <1>4, EnrolOK, MoveOK, NewGroupOK, CopyOK, CommitOK, ReadMatrixOK, SetMatrixOK,
       FailMatrixOK DEF Managed
  <1>5. QED
    BY <1>1, <1>3, <1>4 DEF Next
-----------------------------------------------------------------------------
(* Theorems.                                                               *)

LEMMA IInvHolds == Spec => []IInv
  <1>1. IInv /\ [Next]_vars => IInv'
    BY NextIInv
  <1>2. QED
    BY InitIInv, <1>1, PTL DEF Spec

\* Requests check and write apart, groups are deleted and terms opened in between:
\* every enrolment is in a group that exists, of its own term, and every term has
\* its unassigned group (the foreign keys and transactions of 000009 and
\* CreateTerm).
THEOREM RosterIsSound == Spec => []RazborInv
  <1>1. IInv => RazborInv
    BY DEF IInv, RosterInv, DefaultsTypeOK, OrderTypeOK, AccessTypeOK, RazborInv, RazborTypeOK,
       Rows
  <1>2. QED
    BY <1>1, IInvHolds, PTL

\* The query of the managers' table and those of the student's pages say the same
\* (ListRazborAccessCellsForManage, GetStudentSeriesRazborAccess).
THEOREM TableIsTrue == Spec => []TableIsWhatStudentsSee
  <1>1. TableIsWhatStudentsSee
    BY DEF TableIsWhatStudentsSee, ManagerSees, StudentSees, SeesWith, Enrollment, COALESCE
  <1>2. QED
    BY <1>1, PTL

\* An edit of the table changes the access of the students and series it named to
\* what it asked for when its statement began, and nobody else's (the upserts of
\* Set...RazborMatrixSeries, whatever commits while they wait for their rows).
THEOREM EditsAreExact == Spec => EditsDoAsked
  <1> DEFINE Step == \A r \in Requests : SetMatrix(r) =>
               \A u \in UserIds, s \in SeriesIds :
                 series[s] # NoTerm =>
                   StudentSees(u, s)' = COALESCE(edit[r].asked[u][s], StudentSees(u, s))
  <1>1. ASSUME IInv PROVE Step
    <2>1. SUFFICES ASSUME NEW r \in Requests, SetMatrix(r), NEW u \in UserIds, NEW s \in SeriesIds
                   PROVE  StudentSees(u, s)' = COALESCE(edit[r].asked[u][s], StudentSees(u, s))
      OBVIOUS
    <2> DEFINE default == IF Enrollment(u, s) = NoTerm THEN [f \in Formats |-> FALSE]
                          ELSE studentDefault[u][Enrollment(u, s)]
    <2>2. /\ UNCHANGED <<rosterVars, series, studentDefault, older>>
          /\ access'[u][s] = COALESCE(edit[r].asked[u][s], access[u][s])
      BY <1>1, <2>1, SetMatrixOK DEF SetMatrix
    <2>3. default' = default
      BY <2>2 DEF Enrollment, CurrentEnrollment, NewestEnrollment, EnrolledTerms, Enrolled,
         GetActiveStudentByUser, ActiveTerm, ActiveTerms, rosterVars, roster
    <2>4. /\ StudentSees(u, s) = COALESCE(access[u][s], default)
          /\ StudentSees(u, s)' = COALESCE(access'[u][s], default')
      BY DEF StudentSees, SeesWith
    <2> HIDE DEF default
    <2>5. QED
      BY <2>2, <2>3, <2>4 DEF COALESCE
  <1>2. IInv /\ [Next]_vars => [Step]_vars
    BY <1>1
  <1>3. QED
    BY <1>2, IInvHolds, PTL DEF Spec, EditsDoAsked

\* Once a student's access to a series is a row, nothing but an edit of that row
\* changes what the student sees of it.
THEOREM RowsStay == Spec => RowsAreHistory
  <1> DEFINE Step == \A u \in UserIds, s \in SeriesIds :
               access[u][s] # NoRow /\ series'[s] = series[s] /\ StudentSees(u, s)' # StudentSees(u, s)
                 => UNCHANGED <<rosterVars, series, studentDefault>>
  <1>1. ASSUME IInv, [Next]_vars PROVE Step
    <2>1. CASE KeepsRows
      <3>1. ASSUME NEW u \in UserIds, NEW s \in SeriesIds,
                   access[u][s] # NoRow, series'[s] = series[s]
            PROVE  StudentSees(u, s)' = StudentSees(u, s)
        <4>1. access'[u][s] = access[u][s]
          BY <2>1, <3>1 DEF KeepsRows
        <4>2. StudentSees(u, s) = access[u][s] /\ StudentSees(u, s)' = access'[u][s]
          BY <3>1, <4>1 DEF StudentSees, SeesWith, COALESCE
        <4>3. QED
          BY <4>1, <4>2
      <3>2. QED
        BY <3>1
    <2>2. CASE UNCHANGED <<rosterVars, series, studentDefault>>
      BY <2>2
    <2>3. QED
      BY <1>1, <2>1, <2>2, NextIInv
  <1>2. IInv /\ [Next]_vars => [Step]_vars
    BY <1>1
  <1>3. QED
    BY <1>2, IInvHolds, PTL DEF Spec, RowsAreHistory

\* A term that opens over a roster that stood still: in it are the students of the
\* term before, with the defaults they had there.
LEMMA RolloverOK ==
  ASSUME IInv, NEW r \in Requests, call[r].pc = "opened", Commit(r), StoodStill(r),
         NEW u \in UserIds, NEW s \in SeriesIds, series[s] # NoTerm
  PROVE  StudentSees(u, s)' = StudentSees(u, s)
  <1> DEFINE t == Len(term) + 1
             default == [v \in UserIds |-> [x \in TermIds |-> copied.student[v]]]
             c == call[r]
  <1>1. /\ CommitTerm(r) /\ StudentRows(default) /\ UNCHANGED <<series, access>>
    BY DEF Commit
  <1>2. /\ t \in TermIds /\ ActiveTerm' = t /\ t # NoTerm
        /\ \A x \in TermIds : enrol'[u][x] = IF u \in c.students /\ x = t THEN Unassigned ELSE enrol[u][x]
    BY <1>1, CommitTermOK DEF IInv, TermIds, NoTerm
  <1>3. DOMAIN term = 1..Len(term) /\ Len(term) \in Nat /\ DOMAIN term \subseteq TermIds
    BY TermIdsOK DEF IInv, RosterInv, RosterTypeOK
  <1>4. series[s] \in DOMAIN term /\ series[s] \in TermIds /\ series[s] # t
    BY <1>3 DEF IInv, TermsKnown
  <1>5. ~Enrolled(u, t)
    <2>1. <<t, enrol[u][t]>> \notin group
      BY <1>3 DEF IInv, TermsKnown
    <2>2. QED
      BY <1>2, <2>1 DEF IInv, RosterInv, EnrolledInRealGroup
  <1>6. c.term = CurrentTerm /\ (u \in c.students <=> c.term # NoTerm /\ Enrolled(u, c.term))
        /\ (u \in c.students => copied.student[u] = studentDefault[u][c.term])
    BY DEF StoodStill
  <1>7. \A x \in TermIds : Enrolled(u, x) =>
          enrol'[u][x] = enrol[u][x] /\ studentDefault'[u][x] = studentDefault[u][x]
    BY <1>1, <1>2, <1>5 DEF StudentRows, Enrolled, Unassigned, None
  <1>8. u \in c.students => enrol'[u][t] # None /\ studentDefault'[u][t] = copied.student[u]
    BY <1>1, <1>2, <1>5 DEF StudentRows, Unassigned, None
  <1> HIDE DEF t, default
  <1>9. access'[u][s] = access[u][s] /\ series'[s] = series[s]
    BY <1>1
  \* It is enough that the default which stands in for a row is the same.
  <1> DEFINE fallback(e) == IF e = NoTerm THEN [f \in Formats |-> FALSE] ELSE studentDefault[u][e]
  <1>10. /\ StudentSees(u, s) = COALESCE(access[u][s], fallback(Enrollment(u, s)))
         /\ StudentSees(u, s)' = COALESCE(access'[u][s], fallback(Enrollment(u, s))')
    BY DEF StudentSees, SeesWith
  <1>11. CASE Enrolled(u, series[s])
    <2>1. Enrollment(u, s) = series[s] /\ Enrollment(u, s)' = series[s]
      BY <1>4, <1>7, <1>9, <1>11 DEF Enrollment, Enrolled
    <2>2. fallback(Enrollment(u, s))' = fallback(Enrollment(u, s))
      BY <1>4, <1>7, <1>11, <2>1
    <2>3. QED
      BY <1>9, <1>10, <2>2
  <1>12. CASE ~Enrolled(u, series[s])
    <2>1. Enrollment(u, s) = CurrentEnrollment(u) /\ Enrollment(u, s)' = CurrentEnrollment(u)'
      BY <1>2, <1>4, <1>9, <1>12 DEF Enrollment, Enrolled
    <2>2. fallback(CurrentEnrollment(u))' = fallback(CurrentEnrollment(u))
      <3>1. CASE u \in c.students
        <4>1. CurrentEnrollment(u)' = t
          BY <1>2, <1>8, <3>1 DEF CurrentEnrollment, GetActiveStudentByUser, Enrolled
        <4>2. CurrentEnrollment(u) = c.term /\ c.term # NoTerm
          <5>1. CASE ActiveTerm # NoTerm
            BY <1>6, <3>1, <5>1 DEF CurrentTerm, CurrentEnrollment, GetActiveStudentByUser
          <5>2. CASE ActiveTerm = NoTerm
            <6>1. ActiveTerms = {}
              BY <1>3, <5>2 DEF ActiveTerm, ActiveTerms, NoTerm
            <6>2. \A x \in DOMAIN term : x = 1
              BY <6>1 DEF IInv, TermsKnown
            <6>3. \A x \in TermIds : Enrolled(u, x) => x = 1
              BY <6>2 DEF IInv, RosterInv, EnrolledInRealGroup, TermsKnown
            <6>4. c.term \in TermIds /\ Enrolled(u, c.term) /\ c.term # NoTerm
              BY <1>3, <1>6, <3>1, CurrentTermOK
            <6>5. EnrolledTerms(u) = {c.term}
              BY <6>3, <6>4 DEF EnrolledTerms
            <6>6. NewestEnrollment(u) = c.term
              BY <6>5 DEF NewestEnrollment
            <6>7. QED
              BY <5>2, <6>4, <6>5, <6>6 DEF CurrentEnrollment, GetActiveStudentByUser
          <5>3. QED
            BY <5>1, <5>2
        <4>3. QED
          BY <1>2, <1>6, <1>8, <3>1, <4>1, <4>2
      <3>2. CASE u \notin c.students
        <4>1. ~GetActiveStudentByUser(u)
          BY <1>6, <3>2 DEF GetActiveStudentByUser, CurrentTerm
        <4>2. ~GetActiveStudentByUser(u)'
          BY <1>2, <1>5, <3>2 DEF GetActiveStudentByUser, Enrolled
        <4>3. \A x \in TermIds : enrol'[u][x] = enrol[u][x]
          BY <1>2, <3>2
        <4>4. EnrolledTerms(u)' = EnrolledTerms(u)
          BY <4>3 DEF EnrolledTerms, Enrolled
        <4>5. older'[u] = older[u]
          <5>1. older[u] \subseteq EnrolledTerms(u) \X EnrolledTerms(u)
            BY DEF IInv, OrderTypeOK, OrdersEnrolments
          <5>2. {x \in EnrolledTerms(u) : enrol'[u][x] # None} = EnrolledTerms(u)
            BY <4>3 DEF EnrolledTerms, Enrolled
          <5>3. {x \in TermIds : ~Enrolled(u, x) /\ enrol'[u][x] # None} = {}
            BY <4>3 DEF Enrolled
          <5>4. older'[u] = (older[u] \cap (EnrolledTerms(u) \X EnrolledTerms(u)))
                              \cup (EnrolledTerms(u) \X {})
            BY <1>1, <5>2, <5>3 DEF StudentRows
          <5>5. QED
            BY <5>1, <5>4
        <4> DEFINE newest(T, o) == CHOOSE x \in T : \A y \in T \ {x} : <<y, x>> \in o
        <4>6. /\ NewestEnrollment(u) = newest(EnrolledTerms(u), older[u])
              /\ NewestEnrollment(u)' = newest(EnrolledTerms(u)', older'[u])
          BY DEF NewestEnrollment
        <4> HIDE DEF newest
        <4>7. NewestEnrollment(u)' = NewestEnrollment(u)
          BY <4>4, <4>5, <4>6
        <4>8. CurrentEnrollment(u)' = CurrentEnrollment(u)
          BY <4>1, <4>2, <4>4, <4>7 DEF CurrentEnrollment
        <4>9. CurrentEnrollment(u) = NoTerm \/ CurrentEnrollment(u) \in EnrolledTerms(u)
          <5>1. CASE EnrolledTerms(u) = {}
            BY <4>1, <5>1 DEF CurrentEnrollment
          <5>2. CASE EnrolledTerms(u) # {}
            BY <4>1, <5>2, NewestIsThere DEF CurrentEnrollment, IInv
          <5>3. QED
            BY <5>1, <5>2
        <4>10. QED
          BY <1>7, <4>8, <4>9 DEF EnrolledTerms
      <3>3. QED
        BY <3>1, <3>2
    <2>3. QED
      BY <1>9, <1>10, <2>1, <2>2
  <1>13. QED
    BY <1>11, <1>12

\* A new term changes nobody's access to a razbor of the terms before, if the
\* roster stood still while it was copied (CreateTerm, CopyStudentsToUnassignedGroup).
THEOREM RolloverIsSeamless == Spec => RolloverKeepsAccess
  <1> DEFINE Step == \A r \in Requests :
               call[r].pc = "opened" /\ Len(term') > Len(term) /\ StoodStill(r) =>
                 \A u \in UserIds, s \in SeriesIds :
                   series[s] # NoTerm => StudentSees(u, s)' = StudentSees(u, s)
  <1>1. ASSUME IInv, [Next]_vars PROVE Step
    <2>1. SUFFICES ASSUME NEW r \in Requests, call[r].pc = "opened", Len(term') > Len(term),
                          StoodStill(r)
                   PROVE  \A u \in UserIds, s \in SeriesIds :
                            series[s] # NoTerm => StudentSees(u, s)' = StudentSees(u, s)
      OBVIOUS
    <2>2. term' # term
      <3>1. Len(term) \in Nat
        BY <1>1, TermIdsOK DEF IInv, RosterInv, RosterTypeOK
      <3>2. QED
        BY <2>1, <3>1
    <2>3. Commit(r)
      <3>1. ~NoneAt("opened")
        BY <2>1 DEF NoneAt
      <3>2. \A q \in Requests : Commit(q) => q = r
        BY <1>1, <2>1 DEF Commit, CommitTerm, IInv, RosterInv, OneOpening
      <3>3. ASSUME NEW q \in Requests, Managed(q) PROVE Commit(q)
        BY <2>2, <3>1, <3>3 DEF Managed, ListTerms, Enrol, AddStudentToGroup, Move, MoveStudent, NewGroup,
           InsertGroup, InsertTermAndGroup, Copy, OpenTerm, Abort, Rollback,
           ReadMatrix, SetMatrix, FailMatrix, rosterVars, roster
      <3>4. ~Begun
        <4>1. Begun => UNCHANGED term
          <5>1. ASSUME NEW q, RequestStep(q) PROVE UNCHANGED term
            BY <5>1 DEF RequestStep, ManageAddStudent, AdminAddStudent, AssignStudent, SetStudentGroup,
               CreateGroup, roster
          <5>2. Removal => UNCHANGED term
            BY DEF Removal, RemovalStep, ManageRemoveStudent, AdminRemoveStudent, DeleteGroup
          <5>3. Edited => UNCHANGED term
            BY DEF Edited, SetDefault, SetStudentSeries, rosterVars, roster
          <5>4. QED
            BY <5>1, <5>2, <5>3 DEF Begun, Sync, SyncStudent, CreateSeries, DeleteSeries, rosterVars,
               roster
        <4>2. QED
          BY <2>2, <4>1
      <3>5. ~UNCHANGED vars
        BY <2>2 DEF vars, rosterVars, roster
      <3>6. QED
        BY <1>1, <3>2, <3>3, <3>4, <3>5 DEF Next
    <2>4. QED
      BY <1>1, <2>1, <2>3, RolloverOK
  <1>2. IInv /\ [Next]_vars => [Step]_vars
    BY <1>1
  <1>3. QED
    BY <1>2, IInvHolds, PTL DEF Spec, RolloverKeepsAccess
-----------------------------------------------------------------------------
(* Registrations, and the invitations they use.  RegistrationAssumption is *)
(* used from here on only.                                                 *)

USE RegistrationAssumption

\* Types of the part that CenterRoster does not know.
AccountTypeOK ==
  /\ users = {u \in UserIds : account[u] # None}
  /\ account \in [UserIds -> Invitations \cup {None, "sheets", "center"}]
  /\ person \in [UserIds -> People \cup {None}]
  /\ invite \in [Invitations -> Invite]
  /\ reg \in [Registrants -> Reg]
  /\ \A g \in Registrants : reg[g].pc = "idle" => reg[g] = IdleReg

\* The sequence behind users.id.
UsersInOrder == \E n \in 0..MaxUser : users = 1..n

\* An invitation that was used exists; it grants one group per term, or it is for
\* one account.
InvitesOK ==
  /\ \A i \in Invitations, u \in UserIds : account[u] = i => invite[i] # NoInvite
  /\ \A i \in Invitations : \A g, h \in invite[i].groups : g[1] = h[1] => g = h
  /\ \A i \in Invitations : invite[i].kind = "claim" => invite[i].user \in UserIds

\* The one account that a registration has claimed is still free for all others.
ClaimStands(g) ==
  /\ invite[reg[g].inv].kind \in {"claim", "group", "groups"}
  /\ \E u \in UserIds :
       /\ reg[g].found = {u} /\ account[u] = "sheets"
       /\ invite[reg[g].inv].kind = "claim" => u = invite[reg[g].inv].user

\* What a registration that holds the row of its invitation can rely on.
HoldsInvitation(g) ==
  /\ reg[g].inv \in Invitations
  /\ invite[reg[g].inv] # NoInvite
  /\ invite[reg[g].inv].status # "revoked"
  /\ Uses(reg[g].inv) < invite[reg[g].inv].max
  /\ reg[g].person \in People
  /\ reg[g].pc = "found" => invite[reg[g].inv].kind \in {"group", "groups"}
  /\ \A u \in reg[g].found :
       u \in users /\ (invite[reg[g].inv].kind # "claim" => person[u] = reg[g].person)
  /\ reg[g].pc = "claimed" => ClaimStands(g)

RegsOK ==
  /\ \A g \in Registrants : reg[g].pc # "idle" => HoldsInvitation(g)
  /\ \A g, h \in Registrants : reg[g].pc # "idle" /\ reg[g].inv = reg[h].inv => g = h
  /\ \A g, h \in Registrants :
       reg[g].pc = "claimed" /\ reg[h].pc = "claimed" /\ reg[g].found \cap reg[h].found # {} => g = h

\* Accounts, invitations and registrations: nothing of it is about the roster.
AccountsInv ==
  /\ AccountTypeOK /\ UsersInOrder
  /\ InvitesOK /\ RegsOK
  /\ UsesBounded /\ PersonalLinkIsPersonal

RegIInv == RosterInv /\ AccountsInv
-----------------------------------------------------------------------------
(* Counting.                                                               *)

LEMMA UsersFinite ==
  ASSUME NEW S, S \subseteq UserIds
  PROVE  IsFiniteSet(S) /\ Cardinality(S) \in Nat
  <1>1. IsFiniteSet(UserIds)
    BY FS_Interval DEF UserIds
  <1>2. IsFiniteSet(S)
    BY <1>1, FS_Subset
  <1>3. QED
    BY <1>2, FS_CardinalityType

\* One account that belonged to no invitation gets an owner: that invitation has
\* one use more at most, the others have what they had.
LEMMA OneMoreUse ==
  ASSUME account \in [UserIds -> Invitations \cup {None, "sheets", "center"}],
         NEW u \in UserIds, NEW how, account[u] \notin Invitations,
         account' = [account EXCEPT ![u] = how]
  PROVE  \A i \in Invitations :
           /\ Uses(i) \in Nat /\ Uses(i)' \in Nat
           /\ Uses(i)' <= Uses(i) + 1
           /\ i # how => Uses(i)' = Uses(i)
  <1> SUFFICES ASSUME NEW i \in Invitations
               PROVE  /\ Uses(i) \in Nat /\ Uses(i)' \in Nat
                      /\ Uses(i)' <= Uses(i) + 1
                      /\ i # how => Uses(i)' = Uses(i)
    OBVIOUS
  <1> DEFINE S == {v \in UserIds : account[v] = i}
             T == {v \in UserIds : account'[v] = i}
  <1>1. Uses(i) = Cardinality(S) /\ Uses(i)' = Cardinality(T)
    BY DEF Uses
  <1>2. S \subseteq UserIds /\ T \subseteq UserIds
    OBVIOUS
  <1>3. i # how => S = T
    OBVIOUS
  <1>4. i = how => T = S \cup {u} /\ u \notin S
    OBVIOUS
  <1> HIDE DEF S, T
  <1>5. IsFiniteSet(S) /\ Cardinality(S) \in Nat /\ Cardinality(T) \in Nat
    BY <1>2, UsersFinite
  <1>6. i = how => Cardinality(T) = Cardinality(S) + 1
    BY <1>4, <1>5, FS_AddElement
  <1>7. QED
    BY <1>1, <1>3, <1>5, <1>6

\* The next id is fresh.
LEMMA NextUserFresh ==
  ASSUME AccountTypeOK, UsersInOrder, NextUser \in UserIds
  PROVE  /\ NextUser \notin users /\ account[NextUser] = None
         /\ \E n \in 0..MaxUser : users \cup {NextUser} = 1..n
  <1>1. PICK n \in 0..MaxUser : users = 1..n
    BY DEF UsersInOrder
  <1>2. Cardinality(users) = n
    <2>1. Cardinality(1..n) = IF 1 > n THEN 0 ELSE n - 1 + 1
      BY FS_Interval
    <2>2. QED
      BY <1>1, <2>1
  <1>3. NextUser = n + 1 /\ n + 1 \in 0..MaxUser
    BY <1>2 DEF NextUser, UserIds
  <1>4. users \cup {NextUser} = 1..(n + 1) /\ NextUser \notin users
    BY <1>1, <1>3
  <1>5. account[NextUser] = None
    BY <1>4 DEF AccountTypeOK
  <1>6. QED
    BY <1>3, <1>4, <1>5
-----------------------------------------------------------------------------
(* Invitations.                                                            *)

\* A step that leaves them alone keeps the accounts as they should be.
LEMMA AccountsStay ==
  ASSUME AccountsInv, UNCHANGED <<users, account, person, invite, reg>>
  PROVE  AccountsInv'
  BY DEF AccountsInv, AccountTypeOK, UsersInOrder, InvitesOK, RegsOK, HoldsInvitation, ClaimStands,
         UsesBounded, PersonalLinkIsPersonal, Uses

\* Where an invitation was minted there was none: nobody has used it, nobody holds it.
LEMMA MintInv ==
  ASSUME AccountsInv, NEW i \in Invitations, NEW row \in Invite, row # NoInvite, Mint(i, row),
         \A g, h \in row.groups : g[1] = h[1] => g = h,
         row.kind = "claim" => row.user \in UserIds
  PROVE  AccountsInv'
  <1>1. /\ invite[i] = NoInvite /\ invite' = [invite EXCEPT ![i] = row]
        /\ UNCHANGED <<users, account, person, reg>>
        /\ invite \in [Invitations -> Invite]
    BY DEF Mint, AccountsInv, AccountTypeOK, rosterVars, roster
  <1>2. /\ invite' \in [Invitations -> Invite] /\ invite'[i] = row
        /\ \A j \in Invitations : j # i => invite'[j] = invite[j]
    BY <1>1
  <1>3. \A u \in UserIds : account[u] # i
    BY <1>1 DEF AccountsInv, InvitesOK
  <1>4. \A g \in Registrants : reg[g].pc # "idle" => reg[g].inv \in Invitations /\ reg[g].inv # i
    BY <1>1 DEF AccountsInv, RegsOK, HoldsInvitation, ClaimStands
  <1>5. \A j \in Invitations : Uses(j)' = Uses(j)
    BY <1>1 DEF Uses
  <1>6. Uses(i) = 0
    <2>1. {u \in UserIds : account[u] = i} = {}
      BY <1>3
    <2>2. QED
      BY <2>1, FS_EmptySet DEF Uses
  <1>7. AccountTypeOK' /\ UsersInOrder'
    BY <1>1, <1>2 DEF AccountsInv, AccountTypeOK, UsersInOrder
  <1>8. InvitesOK'
    BY <1>1, <1>2, <1>3 DEF AccountsInv, InvitesOK
  <1>9. RegsOK'
    BY <1>1, <1>2, <1>4, <1>5 DEF AccountsInv, RegsOK, HoldsInvitation, ClaimStands
  <1>10. UsesBounded'
    <2>1. row.max >= 0
      BY DEF Invite
    <2>2. QED
      BY <1>2, <1>5, <1>6, <2>1 DEF AccountsInv, UsesBounded
  <1>11. PersonalLinkIsPersonal'
    BY <1>1, <1>2, <1>3 DEF AccountsInv, PersonalLinkIsPersonal
  <1>12. QED
    BY <1>7, <1>8, <1>9, <1>10, <1>11 DEF AccountsInv

\* An invitation that nobody holds is revoked, or any of them expires.
LEMMA StatusInv ==
  ASSUME AccountsInv, NEW i \in Invitations, NEW st \in {"expired", "revoked"},
         st = "revoked" => ~Held(i),
         invite' = [invite EXCEPT ![i].status = st], UNCHANGED <<users, account, person, reg>>
  PROVE  AccountsInv'
  <1>1. invite \in [Invitations -> Invite]
    BY DEF AccountsInv, AccountTypeOK
  <1>2. /\ invite' \in [Invitations -> Invite]
        /\ invite'[i] = [invite[i] EXCEPT !.status = st]
        /\ \A j \in Invitations : j # i => invite'[j] = invite[j]
    BY <1>1 DEF Invite
  <1>3. \A j \in Invitations :
          /\ invite'[j].kind = invite[j].kind /\ invite'[j].user = invite[j].user
          /\ invite'[j].groups = invite[j].groups /\ invite'[j].max = invite[j].max
          /\ invite'[j].status = IF j = i THEN st ELSE invite[j].status
    BY <1>1, <1>2 DEF Invite
  <1>4. \A j \in Invitations : invite[j] # NoInvite => invite'[j] # NoInvite
    BY <1>2, <1>3 DEF NoInvite
  <1>5. \A j \in Invitations : Uses(j)' = Uses(j)
    BY DEF Uses
  <1>6. AccountTypeOK' /\ UsersInOrder'
    BY <1>2 DEF AccountsInv, AccountTypeOK, UsersInOrder
  <1>7. InvitesOK'
    BY <1>3, <1>4 DEF AccountsInv, InvitesOK
  <1>8. RegsOK'
    <2>1. \A g \in Registrants : reg[g].inv = i => Held(i)
      BY DEF Held
    <2>2. QED
      BY <1>3, <1>4, <1>5, <2>1 DEF AccountsInv, RegsOK, HoldsInvitation, ClaimStands
  <1>9. UsesBounded' /\ PersonalLinkIsPersonal'
    BY <1>3, <1>5 DEF AccountsInv, UsesBounded, PersonalLinkIsPersonal
  <1>10. QED
    BY <1>6, <1>7, <1>8, <1>9 DEF AccountsInv

LEMMA MintedInv ==
  ASSUME AccountsInv, group \subseteq Groups, NEW i \in Invitations, Minted(i)
  PROVE  AccountsInv'
  <1>1. /\ NoUser \in 0..MaxUser /\ 0 \in 0..MaxUses /\ 1 \in 0..MaxUses
        /\ \A u \in UserIds : u \in 0..MaxUser
        /\ \A max \in 1..MaxUses : max \in 0..MaxUses
    BY DEF UserIds, NoUser
  <1>2. ASSUME NEW u \in UserIds, CreatePersonalInvite(i, u)
        PROVE  AccountsInv'
    <2> DEFINE row == [NoInvite EXCEPT !.kind = "claim", !.user = u, !.max = 1]
    <2>1. /\ row \in Invite /\ row # NoInvite /\ row.groups = {}
          /\ row.kind = "claim" => row.user \in UserIds
      BY <1>1 DEF Invite, NoInvite
    <2>2. QED
      BY <1>2, <2>1, MintInv DEF CreatePersonalInvite
  <1>3. ASSUME NEW max \in 1..MaxUses, NEW gs \in SUBSET Groups,
               \A g, h \in gs : g[1] = h[1] => g = h,
               NEW kind \in {"group", "groups"},
               Mint(i, [NoInvite EXCEPT !.kind = kind, !.groups = gs, !.max = max])
        PROVE  AccountsInv'
    <2> DEFINE row == [NoInvite EXCEPT !.kind = kind, !.groups = gs, !.max = max]
    <2>1. row \in Invite /\ row # NoInvite /\ row.groups = gs /\ row.kind # "claim"
      BY <1>1 DEF Invite, NoInvite
    <2>2. QED
      BY <1>3, <2>1, MintInv
  <1>4. ASSUME NEW max \in 1..MaxUses, NEW g \in Groups, CreateGroupInvite(i, g, max)
        PROVE  AccountsInv'
    <2>1. {g} \in SUBSET Groups /\ \A h, k \in {g} : h[1] = k[1] => h = k
      OBVIOUS
    <2>2. QED
      BY <1>3, <1>4, <2>1 DEF CreateGroupInvite
  <1>5. ASSUME NEW max \in 1..MaxUses, NEW gs \in SUBSET Groups, CreateGroupsInvite(i, gs, max)
        PROVE  AccountsInv'
    BY <1>3, <1>5 DEF CreateGroupsInvite, Validate
  <1>6. ASSUME NEW max \in 1..MaxUses, NEW head \in BOOLEAN, CreateTeacherInvite(i, head, max)
        PROVE  AccountsInv'
    <2> DEFINE row == [NoInvite EXCEPT !.kind = "teacher", !.head = head, !.max = max]
    <2>1. /\ row \in Invite /\ row # NoInvite /\ row.groups = {}
          /\ row.kind = "claim" => row.user \in UserIds
      BY <1>1 DEF Invite, NoInvite
    <2>2. QED
      BY <1>6, <2>1, MintInv DEF CreateTeacherInvite
  <1>7. ASSUME NEW max \in 1..MaxUses, CreatePlainInvite(i, max)
        PROVE  AccountsInv'
    <2> DEFINE row == [NoInvite EXCEPT !.kind = "plain", !.max = max]
    <2>1. /\ row \in Invite /\ row # NoInvite /\ row.groups = {}
          /\ row.kind = "claim" => row.user \in UserIds
      BY <1>1 DEF Invite, NoInvite
    <2>2. QED
      BY <1>7, <2>1, MintInv DEF CreatePlainInvite
  <1>8. QED
    BY <1>2, <1>4, <1>5, <1>6, <1>7 DEF Minted
-----------------------------------------------------------------------------
(* Registrations and accounts.                                             *)

\* What the lock establishes: the invitation is live, it has a use left, and no
\* other registration holds it.
LEMMA LockInv ==
  ASSUME AccountsInv, NEW g \in Registrants, NEW i \in Invitations, NEW p \in People, Lock(g, i, p)
  PROVE  AccountsInv'
  <1> DEFINE held == [IdleReg EXCEPT !.pc = "locked", !.inv = i, !.person = p]
  <1>1. /\ reg' = [reg EXCEPT ![g] = held] /\ reg \in [Registrants -> Reg]
        /\ UNCHANGED <<users, account, person, invite>>
        /\ invite[i] # NoInvite /\ ~Held(i) /\ invite[i].status = "live" /\ Uses(i) < invite[i].max
    BY DEF Lock, CountUses, AccountsInv, AccountTypeOK, rosterVars, roster
  <1>2. held \in Reg /\ held.pc = "locked" /\ held.inv = i /\ held.person = p /\ held.found = {}
    BY DEF Reg, IdleReg
  <1> HIDE DEF held
  <1>3. /\ reg' \in [Registrants -> Reg] /\ reg'[g] = held
        /\ \A h \in Registrants : h # g => reg'[h] = reg[h]
    BY <1>1, <1>2
  <1>4. \A h \in Registrants : reg[h].inv # i
    BY <1>1 DEF Held
  <1>5. \A j \in Invitations : Uses(j)' = Uses(j)
    BY <1>1 DEF Uses
  <1>6. AccountTypeOK' /\ UsersInOrder'
    BY <1>1, <1>2, <1>3 DEF AccountsInv, AccountTypeOK, UsersInOrder
  <1>7. InvitesOK' /\ UsesBounded' /\ PersonalLinkIsPersonal'
    BY <1>1, <1>5 DEF AccountsInv, InvitesOK, UsesBounded, PersonalLinkIsPersonal
  <1>8. RegsOK'
    <2>1. \A h \in Registrants : reg'[h].pc # "idle" => HoldsInvitation(h)'
      <3>1. HoldsInvitation(g)'
        BY <1>1, <1>2, <1>3, <1>5 DEF HoldsInvitation, ClaimStands
      <3>2. \A h \in Registrants : h # g /\ reg[h].pc # "idle" => HoldsInvitation(h)'
        BY <1>1, <1>3, <1>5 DEF AccountsInv, RegsOK, HoldsInvitation, ClaimStands
      <3>3. QED
        BY <1>3, <3>1, <3>2
    <2>2. QED
      BY <1>2, <1>3, <1>4, <2>1 DEF AccountsInv, RegsOK
  <1>9. QED
    BY <1>6, <1>7, <1>8 DEF AccountsInv

LEMMA FindInv ==
  ASSUME AccountsInv, NEW g \in Registrants, Find(g)
  PROVE  AccountsInv'
  <1> DEFINE matches == Matches(invite[reg[g].inv].groups, reg[g].person)
             held == [reg[g] EXCEPT !.pc = "found", !.found = matches]
  <1>1. /\ reg[g].pc = "locked" /\ invite[reg[g].inv].kind \in {"group", "groups"}
        /\ reg' = [reg EXCEPT ![g] = held] /\ reg \in [Registrants -> Reg]
        /\ UNCHANGED <<users, account, person, invite>>
    BY DEF Find, AccountsInv, AccountTypeOK, rosterVars, roster
  <1>2. matches \in SUBSET UserIds /\ \A u \in matches : u \in users /\ person[u] = reg[g].person
    BY DEF Matches, AccountsInv, AccountTypeOK
  <1> HIDE DEF matches
  <1>3. /\ held \in Reg /\ held.pc = "found" /\ held.found = matches
        /\ held.inv = reg[g].inv /\ held.person = reg[g].person
    BY <1>1, <1>2 DEF Reg
  <1> HIDE DEF held
  <1>4. /\ reg' \in [Registrants -> Reg] /\ reg'[g] = held
        /\ \A h \in Registrants : h # g => reg'[h] = reg[h]
    BY <1>1, <1>3
  <1>5. \A j \in Invitations : Uses(j)' = Uses(j)
    BY <1>1 DEF Uses
  <1>6. AccountTypeOK' /\ UsersInOrder'
    BY <1>1, <1>3, <1>4 DEF AccountsInv, AccountTypeOK, UsersInOrder
  <1>7. InvitesOK' /\ UsesBounded' /\ PersonalLinkIsPersonal'
    BY <1>1, <1>5 DEF AccountsInv, InvitesOK, UsesBounded, PersonalLinkIsPersonal
  <1>8. RegsOK'
    <2>1. \A h \in Registrants : reg'[h].pc # "idle" => HoldsInvitation(h)'
      <3>1. HoldsInvitation(g)'
        BY <1>1, <1>2, <1>3, <1>4, <1>5 DEF AccountsInv, RegsOK, HoldsInvitation, ClaimStands
      <3>2. \A h \in Registrants : h # g /\ reg[h].pc # "idle" => HoldsInvitation(h)'
        BY <1>1, <1>4, <1>5 DEF AccountsInv, RegsOK, HoldsInvitation, ClaimStands
      <3>3. QED
        BY <1>4, <3>1, <3>2
    <2>2. QED
      BY <1>1, <1>3, <1>4, <2>1 DEF AccountsInv, RegsOK
  <1>9. QED
    BY <1>6, <1>7, <1>8 DEF AccountsInv

\* A registration that ends releases its invitation.
LEMMA DoneOK ==
  ASSUME AccountsInv, NEW g \in Registrants, Done(g)
  PROVE  /\ reg' \in [Registrants -> Reg] /\ reg'[g] = IdleReg /\ IdleReg.pc = "idle"
         /\ IdleReg.inv \notin Invitations
         /\ \A h \in Registrants : h # g => reg'[h] = reg[h]
         /\ \A h \in Registrants : reg'[h].pc = "idle" => reg'[h] = IdleReg
  <1>1. reg \in [Registrants -> Reg]
    BY DEF AccountsInv, AccountTypeOK
  <1>2. IdleReg \in Reg /\ IdleReg.pc = "idle" /\ IdleReg.inv \notin Invitations
    BY DEF IdleReg, Reg
  <1>3. QED
    BY <1>1, <1>2 DEF Done, AccountsInv, AccountTypeOK

LEMMA FailInv ==
  ASSUME AccountsInv, NEW g \in Registrants, Fail(g)
  PROVE  AccountsInv'
  <1>1. UNCHANGED <<users, account, person, invite>> /\ Done(g)
    BY DEF Fail, rosterVars, roster
  <1>2. \A j \in Invitations : Uses(j)' = Uses(j)
    BY <1>1 DEF Uses
  <1>3. AccountTypeOK' /\ UsersInOrder' /\ InvitesOK' /\ UsesBounded' /\ PersonalLinkIsPersonal'
    BY <1>1, <1>2, DoneOK DEF AccountsInv, AccountTypeOK, UsersInOrder, InvitesOK, UsesBounded,
                              PersonalLinkIsPersonal
  <1>4. RegsOK'
    <2>1. \A h \in Registrants : reg'[h].pc # "idle" => HoldsInvitation(h)'
      BY <1>1, <1>2, DoneOK DEF AccountsInv, RegsOK, HoldsInvitation, ClaimStands
    <2>2. \A h, k \in Registrants : reg'[h].pc # "idle" /\ reg'[h].inv = reg'[k].inv => h = k
      BY <1>1, DoneOK DEF AccountsInv, RegsOK, HoldsInvitation
    <2>3. \A h, k \in Registrants :
            reg'[h].pc = "claimed" /\ reg'[k].pc = "claimed" /\ reg'[h].found \cap reg'[k].found # {}
              => h = k
      BY <1>1, DoneOK DEF AccountsInv, RegsOK
    <2>4. QED
      BY <2>1, <2>2, <2>3 DEF RegsOK
  <1>5. QED
    BY <1>3, <1>4 DEF AccountsInv

\* An account that no registration made: no invitation has one use more.
LEMMA NewAccountInv ==
  ASSUME AccountsInv, NEW how \in {"sheets", "center"}, NEW p \in People,
         NewAccount(NextUser, how, p), UNCHANGED <<invite, reg>>
  PROVE  AccountsInv'
  <1>1. /\ NextUser \in UserIds /\ users' = users \cup {NextUser}
        /\ account' = [account EXCEPT ![NextUser] = how]
        /\ person' = [person EXCEPT ![NextUser] = p]
    BY DEF NewAccount
  <1>2. /\ account \in [UserIds -> Invitations \cup {None, "sheets", "center"}]
        /\ person \in [UserIds -> People \cup {None}]
    BY DEF AccountsInv, AccountTypeOK
  <1>3. /\ NextUser \notin users /\ account[NextUser] = None
        /\ \E n \in 0..MaxUser : users' = 1..n
    BY <1>1, NextUserFresh DEF AccountsInv
  <1>4. how \notin Invitations /\ None \notin Invitations /\ how # None
    BY DEF None
  <1>5. \A j \in Invitations : Uses(j)' = Uses(j)
    BY <1>1, <1>2, <1>3, <1>4, OneMoreUse
  <1>6. AccountTypeOK' /\ UsersInOrder'
    BY <1>1, <1>2, <1>3, <1>4 DEF AccountsInv, AccountTypeOK, UsersInOrder
  <1>7. InvitesOK' /\ UsesBounded' /\ PersonalLinkIsPersonal'
    BY <1>1, <1>2, <1>4, <1>5 DEF AccountsInv, InvitesOK, UsesBounded, PersonalLinkIsPersonal
  <1>8. RegsOK'
    <2>1. \A u \in users : person'[u] = person[u] /\ u \in users'
      BY <1>1, <1>2, <1>3 DEF AccountsInv, AccountTypeOK
    <2>2. \A u \in UserIds : account[u] = "sheets" => account'[u] = "sheets"
      BY <1>1, <1>2, <1>3 DEF None
    <2>3. \A h \in Registrants : reg[h].pc # "idle" => HoldsInvitation(h)'
      BY <1>5, <2>1, <2>2 DEF AccountsInv, RegsOK, HoldsInvitation, ClaimStands
    <2>4. QED
      BY <2>3 DEF AccountsInv, RegsOK
  <1>9. QED
    BY <1>6, <1>7, <1>8 DEF AccountsInv

\* A registration makes or takes over an account and commits: its invitation has
\* one use more, which the lock has kept for it.
LEMMA GrantInv ==
  ASSUME AccountsInv, NEW g \in Registrants, NEW u \in UserIds, reg[g].pc # "idle",
         account[u] \in {None, "sheets"},
         account' = [account EXCEPT ![u] = reg[g].inv], Done(g), UNCHANGED invite,
         users' = users \cup {u}, UsersInOrder',
         person' \in [UserIds -> People \cup {None}], \A v \in users : person'[v] = person[v],
         invite[reg[g].inv].kind = "claim" => u = invite[reg[g].inv].user,
         \A h \in Registrants \ {g} : reg[h].pc = "claimed" => u \notin reg[h].found
  PROVE  AccountsInv'
  <1> DEFINE i == reg[g].inv
  <1>1. /\ i \in Invitations /\ invite[i] # NoInvite /\ Uses(i) < invite[i].max
        /\ \A h \in Registrants : reg[h].inv = i => h = g
    BY DEF AccountsInv, RegsOK, HoldsInvitation, ClaimStands
  <1>2. /\ account \in [UserIds -> Invitations \cup {None, "sheets", "center"}]
        /\ invite \in [Invitations -> Invite]
    BY DEF AccountsInv, AccountTypeOK
  <1>3. account[u] \notin Invitations /\ None \notin Invitations
    BY DEF None
  <1>4. \A j \in Invitations :
          /\ Uses(j) \in Nat /\ Uses(j)' \in Nat
          /\ Uses(j)' <= Uses(j) + 1
          /\ j # i => Uses(j)' = Uses(j)
    BY <1>2, <1>3, OneMoreUse
  <1>5. AccountTypeOK'
    <2>1. account' \in [UserIds -> Invitations \cup {None, "sheets", "center"}]
      BY <1>1, <1>2
    <2>2. users' = {v \in UserIds : account'[v] # None}
      BY <1>1, <1>2, <1>3 DEF AccountsInv, AccountTypeOK
    <2>3. QED
      BY <1>2, <2>1, <2>2, DoneOK DEF AccountTypeOK
  <1>6. InvitesOK'
    BY <1>1, <1>2 DEF AccountsInv, InvitesOK
  <1>7. UsesBounded'
    <2>1. \A j \in Invitations : invite[j].max \in Nat
      BY <1>2 DEF Invite
    <2>2. QED
      BY <1>1, <1>4, <2>1 DEF AccountsInv, UsesBounded
  <1>8. PersonalLinkIsPersonal'
    BY <1>1, <1>2 DEF AccountsInv, PersonalLinkIsPersonal
  <1>9. RegsOK'
    <2>1. \A h \in Registrants : reg'[h].pc # "idle" => h # g /\ reg'[h] = reg[h] /\ reg[h].inv # i
      BY <1>1, DoneOK
    <2>2. \A h \in Registrants : reg'[h].pc = "claimed" => ClaimStands(h)'
      BY <1>2, <2>1 DEF AccountsInv, RegsOK, HoldsInvitation, ClaimStands
    <2>3. \A h \in Registrants : reg'[h].pc # "idle" => HoldsInvitation(h)'
      BY <1>4, <2>1, <2>2 DEF AccountsInv, RegsOK, HoldsInvitation
    <2>4. \A h, k \in Registrants : reg'[h].pc # "idle" /\ reg'[h].inv = reg'[k].inv => h = k
      BY <2>1, <2>3, DoneOK DEF AccountsInv, RegsOK, HoldsInvitation
    <2>5. \A h, k \in Registrants :
            reg'[h].pc = "claimed" /\ reg'[k].pc = "claimed" /\ reg'[h].found \cap reg'[k].found # {}
              => h = k
      BY <2>1 DEF AccountsInv, RegsOK
    <2>6. QED
      BY <2>3, <2>4, <2>5 DEF RegsOK
  <1>10. QED
    BY <1>5, <1>6, <1>7, <1>8, <1>9 DEF AccountsInv
-----------------------------------------------------------------------------
(* What an account is given.                                               *)

\* A transaction that leaves terms and groups alone keeps the roster, if the
\* enrolments it writes are in groups.
LEMMA RosterKept ==
  ASSUME RosterInv, UNCHANGED <<term, group, gone, call>>, users' \subseteq UserIds,
         enrol' \in [UserIds -> [TermIds -> Names \cup {None}]], EnrolledInRealGroup',
         teacher' \in [UserIds -> {None, "teacher", "head"}]
  PROVE  RosterInv'
  BY DEF RosterInv, RosterTypeOK, UnassignedStands, ActiveTerms, OneOpening

\* All the groups are granted: their terms differ, so none replaces another.
LEMMA ApplyStudentsOK ==
  ASSUME RosterInv, UNCHANGED group, NEW u \in UserIds, NEW gs \in SUBSET Groups,
         \A g, h \in gs : g[1] = h[1] => g = h,
         MayStudy(u, gs), ApplyStudents(u, gs)
  PROVE  /\ enrol' \in [UserIds -> [TermIds -> Names \cup {None}]]
         /\ EnrolledInRealGroup'
         /\ \A g \in gs : g \in group' /\ enrol'[u][g[1]] = g[2]
         /\ \A t \in TermIds : (\A g \in gs : g[1] # t) => enrol'[u][t] = enrol[u][t]
  <1> DEFINE at(t) == CHOOSE g \in gs : g[1] = t
             row == [t \in TermIds |-> IF \E g \in gs : g[1] = t THEN at(t)[2] ELSE enrol[u][t]]
  <1>1. enrol \in [UserIds -> [TermIds -> Names \cup {None}]] /\ enrol' = [enrol EXCEPT ![u] = row]
    BY DEF RosterInv, RosterTypeOK, ApplyStudents
  <1>2. \A g \in gs : /\ g[1] \in TermIds /\ g[2] \in Names /\ g = <<g[1], g[2]>>
                      /\ g \in group
    BY DEF Groups, MayStudy
  <1>3. \A g \in gs : at(g[1]) = g
    OBVIOUS
  <1>4. \A t \in TermIds :
          /\ \A g \in gs : g[1] = t => row[t] = g[2]
          /\ (\A g \in gs : g[1] # t) => row[t] = enrol[u][t]
    BY <1>3
  <1>5. row \in [TermIds -> Names \cup {None}]
    <2>1. ASSUME NEW t \in TermIds PROVE row[t] \in Names \cup {None}
      BY <1>1, <1>2, <1>4
    <2>2. row = [t \in TermIds |-> row[t]]
      OBVIOUS
    <2> HIDE DEF row
    <2>3. QED
      BY <2>1, <2>2
  <1> HIDE DEF row, at
  <1>6. /\ enrol' \in [UserIds -> [TermIds -> Names \cup {None}]]
        /\ enrol'[u] = row /\ \A v \in UserIds : v # u => enrol'[v] = enrol[v]
    BY <1>1, <1>5
  <1>7. EnrolledInRealGroup'
    <2>1. ASSUME NEW t \in TermIds, enrol'[u][t] # None PROVE <<t, enrol'[u][t]>> \in group'
      <3>1. CASE \E g \in gs : g[1] = t
        BY <1>2, <1>4, <1>6, <3>1
      <3>2. CASE \A g \in gs : g[1] # t
        BY <1>4, <1>6, <2>1, <3>2 DEF RosterInv, EnrolledInRealGroup, Enrolled
      <3>3. QED
        BY <3>1, <3>2
    <2>2. QED
      BY <1>6, <2>1 DEF RosterInv, EnrolledInRealGroup, Enrolled
  <1>8. QED
    BY <1>2, <1>4, <1>6, <1>7

LEMMA ProvisionInv ==
  ASSUME RegIInv, NEW p \in People, NEW g \in Groups, Provision(p, g)
  PROVE  RegIInv'
  <1>1. /\ NewAccount(NextUser, "sheets", p) /\ NextUser \in UserIds /\ g \in group
        /\ users' = users \cup {NextUser} /\ users \subseteq UserIds
        /\ enrol' = [enrol EXCEPT ![NextUser][g[1]] = g[2]]
        /\ UNCHANGED <<term, group, gone, teacher, call, invite, reg>>
    BY DEF Provision, NewAccount, RegIInv, RosterInv, RosterTypeOK
  <1>2. AccountsInv'
    BY <1>1, NewAccountInv DEF RegIInv
  <1>3. RosterInv'
    <2>1. enrol' \in [UserIds -> [TermIds -> Names \cup {None}]] /\ EnrolledInRealGroup'
      BY <1>1, EnrolOne DEF RegIInv
    <2>2. teacher \in [UserIds -> {None, "teacher", "head"}]
      BY DEF RegIInv, RosterInv, RosterTypeOK
    <2>3. QED
      BY <1>1, <2>1, <2>2, RosterKept DEF RegIInv
  <1>4. QED
    BY <1>2, <1>3 DEF RegIInv

LEMMA CenterAccountInv ==
  ASSUME RegIInv, NEW p \in People, CreateMathCenterAccount(p)
  PROVE  RegIInv'
  <1>1. /\ NewAccount(NextUser, "center", p) /\ NextUser \in UserIds
        /\ users' = users \cup {NextUser} /\ users \subseteq UserIds
        /\ teacher' = [teacher EXCEPT ![NextUser] = "head"]
        /\ UNCHANGED <<term, group, gone, enrol, call, invite, reg>>
    BY DEF CreateMathCenterAccount, NewAccount, RegIInv, RosterInv, RosterTypeOK
  <1>2. AccountsInv'
    BY <1>1, NewAccountInv DEF RegIInv
  <1>3. RosterInv'
    <2>1. enrol' \in [UserIds -> [TermIds -> Names \cup {None}]] /\ EnrolledInRealGroup'
      BY <1>1 DEF RegIInv, RosterInv, RosterTypeOK, EnrolledInRealGroup, Enrolled
    <2>2. teacher' \in [UserIds -> {None, "teacher", "head"}]
      BY <1>1 DEF RegIInv, RosterInv, RosterTypeOK
    <2>3. QED
      BY <1>1, <2>1, <2>2, RosterKept DEF RegIInv
  <1>4. QED
    BY <1>2, <1>3 DEF RegIInv

\* What every registration that commits with the account u does.
CommitsWith(g, u) ==
  /\ reg[g].pc # "idle" /\ account[u] \in {None, "sheets"}
  /\ account' = [account EXCEPT ![u] = reg[g].inv]
  /\ Free(u) => u \in reg[g].found
  /\ \A h \in invite[reg[g].inv].groups :
       \/ h \in group' /\ enrol'[u][h[1]] = h[2]
       \/ Free(u) /\ Group(u, h[1]) # h /\ Holds(g, u) /\ h \in reg[g].had
  /\ invite[reg[g].inv].kind = "teacher" => teacher'[u] # None

\* An account is claimed by one registration at a time.
LEMMA ClaimInv ==
  ASSUME AccountsInv, NEW g \in Registrants, NEW u \in UserIds, NEW had \in SUBSET Groups,
         reg[g].pc \in {"locked", "found"}, Claim(g, u, had),
         invite[reg[g].inv].kind \in {"claim", "group", "groups"},
         invite[reg[g].inv].kind = "claim" => u = invite[reg[g].inv].user,
         invite[reg[g].inv].kind # "claim" => u \in reg[g].found
  PROVE  AccountsInv'
  <1> DEFINE held == [reg[g] EXCEPT !.pc = "claimed", !.found = {u}, !.had = had]
  <1>1. /\ reg' = [reg EXCEPT ![g] = held] /\ reg \in [Registrants -> Reg]
        /\ UNCHANGED <<users, account, person, invite>>
        /\ account[u] = "sheets" /\ ~RowHeld(g, u)
    BY DEF Claim, Free, AccountsInv, AccountTypeOK, rosterVars, roster
  <1>2. u \in users
    BY <1>1 DEF AccountsInv, AccountTypeOK, None
  <1>3. /\ held \in Reg /\ held.pc = "claimed" /\ held.found = {u}
        /\ held.inv = reg[g].inv /\ held.person = reg[g].person
    BY <1>1 DEF Reg
  <1> HIDE DEF held
  <1>4. /\ reg' \in [Registrants -> Reg] /\ reg'[g] = held
        /\ \A h \in Registrants : h # g => reg'[h] = reg[h]
    BY <1>1, <1>3
  <1>5. \A j \in Invitations : Uses(j)' = Uses(j)
    BY <1>1 DEF Uses
  <1>6. AccountTypeOK' /\ UsersInOrder'
    BY <1>1, <1>3, <1>4 DEF AccountsInv, AccountTypeOK, UsersInOrder
  <1>7. InvitesOK' /\ UsesBounded' /\ PersonalLinkIsPersonal'
    BY <1>1, <1>5 DEF AccountsInv, InvitesOK, UsesBounded, PersonalLinkIsPersonal
  <1>8. RegsOK'
    <2>1. \A h \in Registrants : reg'[h].pc # "idle" => HoldsInvitation(h)'
      <3>1. HoldsInvitation(g)
        BY DEF AccountsInv, RegsOK
      <3>2. ClaimStands(g)'
        BY <1>1, <1>3, <1>4 DEF ClaimStands
      <3>3. HoldsInvitation(g)'
        BY <1>1, <1>2, <1>3, <1>4, <1>5, <3>1, <3>2 DEF HoldsInvitation
      <3>4. \A h \in Registrants : h # g /\ reg[h].pc # "idle" => HoldsInvitation(h)'
        BY <1>1, <1>4, <1>5 DEF AccountsInv, RegsOK, HoldsInvitation, ClaimStands
      <3>5. QED
        BY <1>4, <3>3, <3>4
    <2>2. \A h \in Registrants : h # g /\ reg[h].pc = "claimed" => u \notin reg[h].found
      BY <1>1 DEF RowHeld, Holds
    <2>3. \A h, k \in Registrants :
            reg'[h].pc = "claimed" /\ reg'[k].pc = "claimed" /\ reg'[h].found \cap reg'[k].found # {}
              => h = k
      BY <1>3, <1>4, <2>2 DEF AccountsInv, RegsOK
    <2>4. \A h, k \in Registrants : reg'[h].pc # "idle" /\ reg'[h].inv = reg'[k].inv => h = k
      BY <1>3, <1>4 DEF AccountsInv, RegsOK
    <2>5. QED
      BY <2>1, <2>3, <2>4 DEF RegsOK
  <1>9. QED
    BY <1>6, <1>7, <1>8 DEF AccountsInv

LEMMA ClaimPersonalInv ==
  ASSUME AccountsInv, NEW g \in Registrants, ClaimPersonal(g)
  PROVE  AccountsInv'
  <1>1. /\ reg[g].pc = "locked" /\ invite[reg[g].inv].kind = "claim"
        /\ Claim(g, invite[reg[g].inv].user, {})
    BY DEF ClaimPersonal
  <1>2. reg[g].inv \in Invitations
    BY <1>1 DEF AccountsInv, RegsOK, HoldsInvitation
  <1>3. invite[reg[g].inv].user \in UserIds
    BY <1>1, <1>2 DEF AccountsInv, InvitesOK
  <1>4. {} \in SUBSET Groups
    OBVIOUS
  <1>5. QED
    BY <1>1, <1>3, <1>4, ClaimInv

LEMMA ClaimFoundInv ==
  ASSUME AccountsInv, NEW g \in Registrants, ClaimFound(g)
  PROVE  AccountsInv'
  <1> DEFINE i == invite[reg[g].inv]
  <1>1. PICK u \in reg[g].found :
          Claim(g, u, IF i.kind = "group" THEN i.groups ELSE {h \in i.groups : Group(u, h[1]) = h})
    BY DEF ClaimFound
  <1>2. /\ reg[g].pc = "found" /\ reg[g].inv \in Invitations /\ i.kind \in {"group", "groups"}
        /\ u \in users
    BY DEF ClaimFound, AccountsInv, RegsOK, HoldsInvitation
  <1>3. u \in UserIds /\ i.groups \in SUBSET Groups
    BY <1>2 DEF AccountsInv, AccountTypeOK, Invite
  <1> DEFINE had == IF i.kind = "group" THEN i.groups ELSE {h \in i.groups : Group(u, h[1]) = h}
  <1>4. had \in SUBSET Groups /\ Claim(g, u, had)
    BY <1>1, <1>3
  <1> HIDE DEF had
  <1>5. QED
    BY <1>2, <1>3, <1>4, ClaimInv

\* The account that was claimed keeps what it is in; the rest is granted to it.
LEMMA CommitClaimInv ==
  ASSUME RegIInv, NEW g \in Registrants, CommitClaim(g)
  PROVE  RegIInv' /\ \E u \in UserIds : CommitsWith(g, u)
  <1> DEFINE i == reg[g].inv
             remaining == invite[i].groups \ reg[g].had
  <1>1. PICK u \in reg[g].found :
          /\ MayStudy(u, remaining) /\ ApplyStudents(u, remaining)
          /\ account' = [account EXCEPT ![u] = i]
    BY DEF CommitClaim
  <1>2. /\ reg[g].pc = "claimed" /\ Done(g)
        /\ UNCHANGED <<term, group, gone, teacher, users, call, person, invite>>
    BY DEF CommitClaim
  <1>3. /\ i \in Invitations /\ HoldsInvitation(g) /\ ClaimStands(g)
    BY <1>2 DEF RegIInv, AccountsInv, RegsOK, HoldsInvitation
  <1>4. /\ u \in UserIds /\ u \in users /\ account[u] = "sheets"
        /\ invite[i].kind = "claim" => u = invite[i].user
    BY <1>1, <1>3 DEF ClaimStands, HoldsInvitation
  <1>5. /\ invite[i].groups \in SUBSET Groups
        /\ \A h, k \in invite[i].groups : h[1] = k[1] => h = k
        /\ invite[i].kind # "teacher"
    BY <1>3 DEF RegIInv, AccountsInv, AccountTypeOK, Invite, InvitesOK, ClaimStands
  <1>6. /\ remaining \in SUBSET Groups
        /\ \A h, k \in remaining : h[1] = k[1] => h = k
    BY <1>5
  <1>7. /\ enrol' \in [UserIds -> [TermIds -> Names \cup {None}]] /\ EnrolledInRealGroup'
        /\ \A h \in remaining : h \in group' /\ enrol'[u][h[1]] = h[2]
        /\ \A t \in TermIds : (\A h \in remaining : h[1] # t) => enrol'[u][t] = enrol[u][t]
    <2> HIDE DEF remaining
    <2>1. QED
      BY <1>1, <1>2, <1>4, <1>6, ApplyStudentsOK DEF RegIInv
  <1>8. AccountsInv'
    <2>1. /\ users' = users \cup {u} /\ UsersInOrder' /\ \A v \in users : person'[v] = person[v]
          /\ person' \in [UserIds -> People \cup {None}]
      BY <1>2, <1>4 DEF RegIInv, AccountsInv, AccountTypeOK, UsersInOrder
    <2>2. \A h \in Registrants \ {g} : reg[h].pc = "claimed" => u \notin reg[h].found
      BY <1>1, <1>2 DEF RegIInv, AccountsInv, RegsOK
    <2>3. QED
      BY <1>1, <1>2, <1>4, <2>1, <2>2, GrantInv DEF RegIInv
  <1>9. RosterInv'
    BY <1>2, <1>7, RosterKept DEF RegIInv, RosterInv, RosterTypeOK
  <1>10. ASSUME NEW h \in invite[i].groups
         PROVE  \/ h \in group' /\ enrol'[u][h[1]] = h[2]
                \/ Group(u, h[1]) # h /\ h \in reg[g].had
    <2>1. h[1] \in TermIds /\ h[2] \in Names /\ h = <<h[1], h[2]>>
      BY <1>5 DEF Groups
    <2>2. CASE h \in remaining
      BY <1>7, <2>2
    <2>3. CASE h \in reg[g].had /\ Group(u, h[1]) = h
      <3>1. enrol[u][h[1]] = h[2]
        BY <2>1, <2>3 DEF Group
      <3>2. \A k \in remaining : k[1] # h[1]
        BY <1>5, <2>3
      <3>3. <<h[1], enrol[u][h[1]]>> \in group
        BY <1>4, <2>1, <3>1 DEF RegIInv, RosterInv, EnrolledInRealGroup, Enrolled, Names, Unassigned, None
      <3>4. enrol'[u][h[1]] = enrol[u][h[1]]
        BY <1>7, <2>1, <3>2
      <3>5. QED
        BY <1>2, <2>1, <3>1, <3>3, <3>4
    <2>4. QED
      BY <2>2, <2>3
  <1>11. CommitsWith(g, u)
    BY <1>1, <1>2, <1>4, <1>5, <1>10 DEF CommitsWith, Free, Holds
  <1>12. QED
    BY <1>4, <1>8, <1>9, <1>11 DEF RegIInv

LEMMA CreateInv ==
  ASSUME RegIInv, NEW g \in Registrants, Create(g)
  PROVE  RegIInv' /\ \E u \in UserIds : CommitsWith(g, u)
  <1> DEFINE i == reg[g].inv
             u == NextUser
  <1>1. /\ MakesNew(g) /\ MayStudy(u, invite[i].groups) /\ ApplyStudents(u, invite[i].groups)
        /\ ApplyTeacher(u, invite[i]) /\ Done(g)
        /\ NewAccount(u, i, reg[g].person)
        /\ UNCHANGED <<term, group, gone, call, invite>>
    BY DEF Create
  <1>2. /\ u \in UserIds /\ users' = users \cup {u}
        /\ account' = [account EXCEPT ![u] = i]
        /\ person' = [person EXCEPT ![u] = reg[g].person]
    BY <1>1 DEF NewAccount
  <1>3. reg[g].pc # "idle" /\ i \in Invitations /\ reg[g].person \in People
    BY <1>1 DEF MakesNew, RegIInv, AccountsInv, RegsOK, HoldsInvitation, ClaimStands
  <1>4. invite[i].kind # "claim" /\ reg[g].pc # "claimed"
    BY <1>1 DEF MakesNew, RegIInv, AccountsInv, RegsOK, HoldsInvitation, ClaimStands
  <1>5. u \notin users /\ account[u] = None /\ UsersInOrder'
    BY <1>2, NextUserFresh DEF RegIInv, AccountsInv, UsersInOrder
  <1>6. /\ invite[i].groups \in SUBSET Groups
        /\ \A h, k \in invite[i].groups : h[1] = k[1] => h = k
    BY <1>3 DEF RegIInv, AccountsInv, AccountTypeOK, Invite, InvitesOK
  <1> HIDE DEF u
  <1>7. /\ enrol' \in [UserIds -> [TermIds -> Names \cup {None}]] /\ EnrolledInRealGroup'
        /\ \A h \in invite[i].groups : h \in group' /\ enrol'[u][h[1]] = h[2]
    BY <1>1, <1>2, <1>6, ApplyStudentsOK DEF RegIInv
  <1>8. /\ teacher' \in [UserIds -> {None, "teacher", "head"}]
        /\ invite[i].kind = "teacher" => teacher'[u] # None
    <2>1. teacher \in [UserIds -> {None, "teacher", "head"}]
      BY DEF RegIInv, RosterInv, RosterTypeOK
    <2>2. QED
      BY <1>1, <1>2, <2>1 DEF ApplyTeacher, None
  <1>9. AccountsInv'
    <2>1. /\ person' \in [UserIds -> People \cup {None}]
          /\ \A v \in users : person'[v] = person[v]
      BY <1>2, <1>3, <1>5 DEF RegIInv, AccountsInv, AccountTypeOK
    <2>2. \A h \in Registrants \ {g} : reg[h].pc = "claimed" => u \notin reg[h].found
      BY <1>5 DEF RegIInv, AccountsInv, RegsOK, HoldsInvitation
    <2>3. QED
      BY <1>1, <1>2, <1>3, <1>4, <1>5, <2>1, <2>2, GrantInv DEF RegIInv
  <1>10. RosterInv'
    <2>1. users' \subseteq UserIds
      BY <1>2 DEF RegIInv, RosterInv, RosterTypeOK
    <2>2. QED
      BY <1>1, <1>7, <1>8, <2>1, RosterKept DEF RegIInv
  <1>11. CommitsWith(g, u)
    BY <1>2, <1>3, <1>5, <1>7, <1>8 DEF CommitsWith, Free, None
  <1>12. QED
    BY <1>2, <1>9, <1>10, <1>11 DEF RegIInv
-----------------------------------------------------------------------------
(* The inductive invariant.                                                *)

LEMMA InitRegIInv == RegistrationInit => RegIInv
  <1> SUFFICES ASSUME RegistrationInit PROVE RegIInv
    OBVIOUS
  <1> DEFINE first == [stage |-> Legacy, active |-> FALSE]
             second == [stage |-> 1, active |-> TRUE]
  <1>1. first \in Term /\ second \in Term
    BY DEF Term, Legacy
  <1>2. /\ term = <<first, second>> /\ ~first.active /\ second.active
        /\ term \in Seq(Term) /\ Len(term) = 2 /\ DOMAIN term = {1, 2}
        /\ term[1] = first /\ term[2] = second
    BY <1>1 DEF RegistrationInit
  <1> HIDE DEF first, second
  <1>3. ActiveTerms = {2}
    BY <1>2 DEF ActiveTerms
  <1>4. Cardinality(ActiveTerms) <= 1
    BY <1>3, FS_Singleton
  <1>5. UnassignedStands
    BY <1>2 DEF RegistrationInit, UnassignedStands, Groups, TermIds, Names
  <1>6. RosterInv
    <2>1. [r \in Requests |-> Idle] \in [Requests -> Call] /\ Idle.pc = "idle"
      BY IdleOK DEF Idle
    <2>2. QED
      BY <1>2, <1>4, <1>5, <2>1 DEF RegistrationInit, RosterInv, RosterTypeOK, EnrolledInRealGroup, Enrolled,
                                    OneOpening
  <1>7. AccountTypeOK /\ UsersInOrder
    <2>1. NoInvite \in Invite /\ IdleReg \in Reg
      BY DEF NoInvite, Invite, NoUser, IdleReg, Reg
    <2>2. users = 1..0
      BY DEF RegistrationInit
    <2>3. QED
      BY <2>1, <2>2 DEF RegistrationInit, AccountTypeOK, UsersInOrder
  <1>8. \A i \in Invitations : Uses(i) = 0
    <2>1. ASSUME NEW i \in Invitations PROVE Uses(i) = 0
      <3>1. {v \in UserIds : account[v] = i} = {}
        BY DEF RegistrationInit, None
      <3>2. QED
        BY <3>1, FS_EmptySet DEF Uses
    <2>2. QED
      BY <2>1
  <1>9. InvitesOK /\ RegsOK /\ UsesBounded /\ PersonalLinkIsPersonal
    BY <1>8 DEF RegistrationInit, InvitesOK, RegsOK, UsesBounded, PersonalLinkIsPersonal, NoInvite, IdleReg, None
  <1>10. QED
    BY <1>6, <1>7, <1>9 DEF RegIInv, AccountsInv

\* What a step does to the accounts: nothing, or it makes one that nobody signed
\* up for, or a registration commits.
AccountStep ==
  \/ UNCHANGED account
  \/ \E u \in UserIds, how \in {"sheets", "center"} :
       account[u] = None /\ account' = [account EXCEPT ![u] = how]
  \/ \E g \in Registrants, u \in UserIds : CommitsWith(g, u)

LEMMA NextRegIInv ==
  ASSUME RegIInv, [RegistrationNext]_registrationVars
  PROVE  RegIInv' /\ AccountStep
  <1>1. CASE UNCHANGED registrationVars
    BY <1>1, AccountsStay DEF registrationVars, rosterVars, roster, registration, RegIInv, RosterInv, RosterTypeOK,
       EnrolledInRealGroup, Enrolled, UnassignedStands, ActiveTerms, OneOpening, AccountStep
  <1>2. CASE RosterStep /\ UNCHANGED registration
    <2>1. RosterInv'
      BY <1>2, SyncStudentInv, TeacherStepInv, RemovalInv DEF RosterStep, RegIInv
    <2>2. UNCHANGED <<users, account, person, invite, reg>>
      BY <1>2 DEF RosterStep, SyncStudent, TeacherStep, AddTeacher, AddTeacherToCenter, SetTeacherHead,
         RemoveTeacher, RemovalStep, ManageRemoveStudent, AdminRemoveStudent, DeleteGroup, registration,
         roster
    <2>3. QED
      BY <2>1, <2>2, AccountsStay DEF RegIInv, AccountStep
  <1>3. ASSUME NEW p \in People, CreateMathCenterAccount(p)
        PROVE  RegIInv' /\ AccountStep
    <2>1. account[NextUser] = None /\ NextUser \in UserIds
          /\ account' = [account EXCEPT ![NextUser] = "center"]
      BY <1>3, NextUserFresh DEF CreateMathCenterAccount, NewAccount, RegIInv, AccountsInv
    <2>2. QED
      BY <1>3, <2>1, CenterAccountInv DEF AccountStep
  <1>4. ASSUME NEW p \in People, NEW g \in Groups, Provision(p, g)
        PROVE  RegIInv' /\ AccountStep
    <2>1. account[NextUser] = None /\ NextUser \in UserIds
          /\ account' = [account EXCEPT ![NextUser] = "sheets"]
      BY <1>4, NextUserFresh DEF Provision, NewAccount, RegIInv, AccountsInv
    <2>2. QED
      BY <1>4, <2>1, ProvisionInv DEF AccountStep
  <1>5. ASSUME NEW i \in Invitations, Minted(i) \/ Revoke(i) \/ Expire(i)
        PROVE  RegIInv' /\ AccountStep
    <2>1. UNCHANGED <<rosterVars, account, person, reg>>
      BY <1>5 DEF Minted, CreatePersonalInvite, CreateGroupInvite, CreateGroupsInvite,
         CreateTeacherInvite, CreatePlainInvite, Mint, Revoke, Expire
    <2>2. UNCHANGED <<users, account, person, reg>>
      BY <2>1 DEF rosterVars, roster
    <2>3. RosterInv'
      BY <2>1 DEF rosterVars, roster, RegIInv, RosterInv, RosterTypeOK, EnrolledInRealGroup, Enrolled,
         UnassignedStands, ActiveTerms, OneOpening
    <2>4. AccountsInv'
      <3>1. CASE Minted(i)
        BY <3>1, MintedInv DEF RegIInv, RosterInv, RosterTypeOK
      <3>2. CASE Revoke(i)
        BY <2>2, <3>2, StatusInv DEF Revoke, RegIInv
      <3>3. CASE Expire(i)
        BY <2>2, <3>3, StatusInv DEF Expire, RegIInv
      <3>4. QED
        BY <1>5, <3>1, <3>2, <3>3
    <2>5. QED
      BY <2>2, <2>3, <2>4 DEF RegIInv, AccountStep
  <1>6. ASSUME NEW g \in Registrants,
               \/ Find(g) \/ ClaimPersonal(g) \/ ClaimFound(g) \/ Fail(g)
               \/ \E i \in Invitations, p \in People : Lock(g, i, p)
        PROVE  RegIInv' /\ AccountStep
    <2>1. UNCHANGED <<rosterVars, account, person, invite>>
      BY <1>6 DEF Find, ClaimPersonal, ClaimFound, Claim, Fail, Lock
    <2>2. RosterInv'
      BY <2>1 DEF rosterVars, roster, RegIInv, RosterInv, RosterTypeOK, EnrolledInRealGroup, Enrolled,
         UnassignedStands, ActiveTerms, OneOpening
    <2>3. AccountsInv'
      BY <1>6, FindInv, ClaimPersonalInv, ClaimFoundInv, FailInv, LockInv DEF RegIInv
    <2>4. QED
      BY <2>1, <2>2, <2>3 DEF RegIInv, AccountStep
  <1>7. ASSUME NEW g \in Registrants, CommitClaim(g) \/ Create(g)
        PROVE  RegIInv' /\ AccountStep
    BY <1>7, CommitClaimInv, CreateInv DEF AccountStep
  <1>8. QED
    BY <1>1, <1>2, <1>3, <1>4, <1>5, <1>6, <1>7 DEF RegistrationNext, Meanwhile, Register
-----------------------------------------------------------------------------
(* Theorems.                                                               *)

LEMMA RegIInvHolds == RegistrationSpec => []RegIInv
  <1>1. RegIInv /\ [RegistrationNext]_registrationVars => RegIInv'
    BY NextRegIInv
  <1>2. QED
    BY InitRegIInv, <1>1, PTL DEF RegistrationSpec

\* However many registrations race, fail and are rolled back, while managers sync,
\* remove and revoke: an invitation is not used more often than it may be, and a
\* personal link makes no account but its own (Register in handlers/auth.go).
THEOREM InvitationsBounded == RegistrationSpec => []RegistrationInv
  <1>1. RegIInv => RegistrationInv
    BY DEF RegIInv, RosterInv, AccountsInv, AccountTypeOK, RegistrationInv, RegistrationTypeOK
  <1>2. QED
    BY <1>1, RegIInvHolds, PTL

\* The enrolments of the accounts, meanwhile, are in groups that exist, of their
\* own term.
THEOREM RosterStands == RegistrationSpec => [](EnrolledInRealGroup /\ UnassignedStands)
  <1>1. RegIInv => EnrolledInRealGroup /\ UnassignedStands
    BY DEF RegIInv, RosterInv
  <1>2. QED
    BY <1>1, RegIInvHolds, PTL

\* An account that somebody signed up for is never taken over, no revoked
\* invitation makes or takes one, and a placeholder that was found by name goes to
\* someone of that name (claimUniqueSheetsStudent).
THEOREM OwnersStay == RegistrationSpec => AccountsChangeOnce
  <1> DEFINE Step == \A u \in UserIds : account'[u] # account[u] =>
               /\ account[u] \in {None, "sheets"}
               /\ account'[u] \in Invitations =>
                    /\ invite[account'[u]].status # "revoked"
                    /\ Free(u) /\ invite[account'[u]].kind # "claim" =>
                         \E g \in Registrants : reg[g].inv = account'[u] /\ reg[g].person = person[u]
  <1>1. ASSUME RegIInv, [RegistrationNext]_registrationVars PROVE Step
    <2>1. account \in [UserIds -> Invitations \cup {None, "sheets", "center"}]
      BY <1>1 DEF RegIInv, AccountsInv, AccountTypeOK
    <2>2. CASE UNCHANGED account
      BY <2>2
    <2>3. ASSUME NEW u \in UserIds, NEW how \in {"sheets", "center"},
                 account[u] = None, account' = [account EXCEPT ![u] = how]
          PROVE  Step
      BY <2>1, <2>3
    <2>4. ASSUME NEW g \in Registrants, NEW u \in UserIds, CommitsWith(g, u)
          PROVE  Step
      <3>1. /\ reg[g].inv \in Invitations /\ invite[reg[g].inv].status # "revoked"
            /\ invite[reg[g].inv].kind # "claim" => \A v \in reg[g].found : person[v] = reg[g].person
        BY <1>1, <2>4 DEF CommitsWith, RegIInv, AccountsInv, RegsOK, HoldsInvitation, ClaimStands
      <3>2. QED
        BY <2>1, <2>4, <3>1 DEF CommitsWith
    <2>5. QED
      BY <1>1, <2>2, <2>3, <2>4, NextRegIInv DEF AccountStep
  <1>2. RegIInv /\ [RegistrationNext]_registrationVars => [Step]_registrationVars
    BY <1>1
  <1>3. QED
    BY <1>2, RegIInvHolds, PTL DEF RegistrationSpec, AccountsChangeOnce

\* No grant of an invitation is lost on the way: a new account has all of them when
\* it is committed, a placeholder those that it did not have when it was claimed,
\* and of those that it had, it misses only what it was taken out of since
\* (Register, claimUniqueSheetsStudentInGroups and Apply).
THEOREM GrantsComplete == RegistrationSpec => GrantsAreWhole
  <1> DEFINE Whole == \A u \in UserIds :
               account[u] # account'[u] /\ account'[u] \in Invitations =>
                 LET i == invite[account'[u]] IN
                 /\ \A h \in i.groups :
                      \/ h \in group' /\ enrol'[u][h[1]] = h[2]
                      \/ /\ Free(u) /\ Group(u, h[1]) # h
                         /\ \E g \in Registrants : Holds(g, u) /\ h \in reg[g].had
                 /\ i.kind = "teacher" => teacher'[u] # None
             Had == \A g \in Registrants :
               reg[g].pc = "found" /\ reg'[g].pc = "claimed" /\ invite[reg[g].inv].kind = "groups"
                 => \A u \in reg'[g].found, h \in reg'[g].had : Group(u, h[1]) = h
  <1>1. ASSUME RegIInv, [RegistrationNext]_registrationVars PROVE Whole
    <2>1. account \in [UserIds -> Invitations \cup {None, "sheets", "center"}]
      BY <1>1 DEF RegIInv, AccountsInv, AccountTypeOK
    <2>2. CASE UNCHANGED account
      BY <2>2
    <2>3. ASSUME NEW u \in UserIds, NEW how \in {"sheets", "center"},
                 account[u] = None, account' = [account EXCEPT ![u] = how]
          PROVE  Whole
      BY <2>1, <2>3
    <2>4. ASSUME NEW g \in Registrants, NEW u \in UserIds, CommitsWith(g, u)
          PROVE  Whole
      BY <2>1, <2>4 DEF CommitsWith
    <2>5. QED
      BY <1>1, <2>2, <2>3, <2>4, NextRegIInv DEF AccountStep
  <1>2. ASSUME RegIInv, [RegistrationNext]_registrationVars PROVE Had
    <2>1. SUFFICES ASSUME NEW g \in Registrants, reg[g].pc = "found", reg'[g].pc = "claimed",
                          invite[reg[g].inv].kind = "groups"
                   PROVE  \A u \in reg'[g].found, h \in reg'[g].had : Group(u, h[1]) = h
      OBVIOUS
    <2>2. reg \in [Registrants -> Reg]
      BY <1>2 DEF RegIInv, AccountsInv, AccountTypeOK
    <2>3. reg'[g] # reg[g]
      BY <2>1
    <2>4. PICK k \in Registrants : Register(k)
      BY <1>2, <2>3 DEF RegistrationNext, Meanwhile, registrationVars, registration, CreateMathCenterAccount,
         Provision, Minted, CreatePersonalInvite, CreateGroupInvite, CreateGroupsInvite,
         CreateTeacherInvite, CreatePlainInvite, Mint, Revoke, Expire
    <2>5. k = g
      <3>1. CASE Done(k)
        BY <2>1, <2>2, <3>1 DEF Done, IdleReg
      <3>2. CASE ~Done(k)
        BY <2>1, <2>2, <2>4, <3>2 DEF Register, Lock, Find, ClaimPersonal, ClaimFound, Claim,
           CommitClaim, Create, Fail
      <3>3. QED
        BY <3>1, <3>2
    <2>6. ClaimFound(g)
      <3>1. ~Done(g)
        BY <2>1, <2>2 DEF Done, IdleReg
      <3>2. ~\E i \in Invitations, p \in People : Lock(g, i, p)
        BY <2>1, <2>2 DEF Lock, IdleReg
      <3>3. QED
        BY <2>1, <2>4, <2>5, <3>1, <3>2 DEF Register, Find, ClaimPersonal, CommitClaim, Create, Fail
    <2>7. PICK v \in reg[g].found :
            Claim(g, v, {h \in invite[reg[g].inv].groups : Group(v, h[1]) = h})
      BY <2>1, <2>6 DEF ClaimFound
    <2>8. reg'[g].found = {v} /\ \A h \in reg'[g].had : Group(v, h[1]) = h
      BY <2>2, <2>7 DEF Claim, Reg
    <2>9. QED
      BY <2>8
  <1>3. RegIInv /\ [RegistrationNext]_registrationVars => [Whole /\ Had]_registrationVars
    BY <1>1, <1>2
  <1>4. QED
    BY <1>3, RegIInvHolds, PTL DEF RegistrationSpec, GrantsAreWhole
=============================================================================
