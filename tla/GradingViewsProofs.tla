------------------------- MODULE GradingViewsProofs -------------------------
(***************************************************************************)
(* Theorems about GradingViews, for every set of students, teachers,       *)
(* subproblems, series and terms and every bound.                          *)
(*                                                                         *)
(* Each query is right for a reason of its own: the queues, the counters   *)
(* and the hints read the two columns of a claim the same way; the pages   *)
(* of a series look at one roster; the center's spreadsheet has a snapshot *)
(* to itself; and a timeline or a student's counters are read after the    *)
(* rows, of logs that only grow.  The inductive invariant says what those  *)
(* reasons need: types, a status that the log explains, and what a read in *)
(* flight remembers.                                                       *)
(***************************************************************************)
EXTENDS GradingViews, SequenceTheorems, FunctionTheorems, FiniteSetTheorems,
        WellFoundedInduction, TLAPS
-----------------------------------------------------------------------------
(* The attempt under review.                                               *)

\* A set of positions of a sequence that is not empty has a last one.
LEMMA LastPosition ==
  ASSUME NEW n \in Nat, NEW I \in SUBSET (1..n), I # {}
  PROVE  Max(I) \in I
  <1> DEFINE T == {n - i : i \in I}
             R == {ss \in Nat \X Nat : ss[1] < ss[2]}
  <1>1. \A i \in I : i \in Nat /\ n - i \in Nat
    OBVIOUS
  <1>2. T \subseteq Nat /\ T # {}
    BY <1>1
  <1>3. IsWellFoundedOn(R, Nat)
    BY NatLessThanWellFounded, Zenon DEF OpToRel
  <1> HIDE DEF R, T
  <1>4. PICK x \in T : \A y \in T : ~ (<<y, x>> \in R)
    BY <1>2, <1>3, WFMin
  <1>5. \A y \in T : x <= y
    <2> TAKE y \in T
    <2>1. x \in Nat /\ y \in Nat
      BY <1>2
    <2>2. <<y, x>> \in R <=> y < x
      BY <2>1 DEF R
    <2>3. QED
      BY <1>4, <2>1, <2>2
  <1>6. PICK i \in I : x = n - i
    BY DEF T
  <1>7. \A j \in I : n - j \in T
    BY DEF T
  <1>8. \A j \in I : i >= j
    BY <1>1, <1>5, <1>6, <1>7
  <1>9. QED
    BY <1>6, <1>8 DEF Max

Attempts(l) == {i \in 1..Len(l) : l[i] \in AttemptKinds}

LEMMA AttemptIsLast ==
  ASSUME NEW l \in Seq(EventKinds)
  PROVE  /\ Attempts(l) = {} => Attempt(l) = 0
         /\ Attempts(l) # {} => Attempt(l) = Max(Attempts(l)) /\ Attempt(l) \in Attempts(l)
  <1>1. Attempt(l) = IF Attempts(l) # {} THEN Max(Attempts(l)) ELSE 0
    BY DEF Attempt, Attempts, SelectLastInSubSeq
  <1>2. Len(l) \in Nat /\ Attempts(l) \in SUBSET (1..Len(l))
    BY DEF Attempts
  <1>3. Attempts(l) # {} => Max(Attempts(l)) \in Attempts(l)
    BY <1>2, LastPosition
  <1>4. QED
    BY <1>1, <1>3

\* Only an attempt changes which attempt is under review: what a grade, a
\* retraction or an in-person event rolls back to stays what it was.
LEMMA OthersKeepAttempt ==
  ASSUME NEW l \in Seq(EventKinds), NEW e \in EventKinds \ AttemptKinds
  PROVE  /\ AttemptKind(Append(l, e)) = AttemptKind(l)
         /\ Rollback(Append(l, e)) = Rollback(l)
  <1> DEFINE m == Append(l, e)
  <1>1. /\ m \in Seq(EventKinds) /\ Len(m) = Len(l) + 1 /\ Len(l) \in Nat
        /\ \A i \in 1..Len(l) : m[i] = l[i]
        /\ m[Len(l) + 1] = e
    BY AppendProperties
  <1> HIDE DEF m
  <1>2. Attempts(m) = Attempts(l)
    BY <1>1 DEF Attempts
  <1>3. Attempt(m) = Attempt(l)
    BY <1>1, <1>2, AttemptIsLast
  <1>4. Attempt(l) # 0 => m[Attempt(l)] = l[Attempt(l)]
    BY <1>1, AttemptIsLast DEF Attempts
  <1>5. AttemptKind(m) = AttemptKind(l)
    BY <1>3, <1>4 DEF AttemptKind
  <1>6. QED
    BY <1>5 DEF Rollback, m

\* The status a timeline leaves behind, event by event.
LEMMA StatusAfterAppend ==
  ASSUME NEW l \in Seq(EventKinds), NEW e \in EventKinds
  PROVE  /\ e \in AttemptKinds \cup Verdicts => StatusAfter(Append(l, e)) = e
         /\ e = "accepted_offline" => StatusAfter(Append(l, e)) = "accepted"
         /\ e = "retracted" => StatusAfter(Append(l, e)) = Rollback(l)
         /\ e = "offline_retracted" =>
              StatusAfter(Append(l, e)) = IF AttemptKind(l) = "none" THEN "ungraded"
                                          ELSE Rollback(l)
  <1>1. Append(l, e) # <<>> /\ Last(Append(l, e)) = e
    BY AppendProperties DEF Last
  <1>2. e \in {"retracted"} \cup OfflineKinds =>
          /\ AttemptKind(Append(l, e)) = AttemptKind(l)
          /\ Rollback(Append(l, e)) = Rollback(l)
    BY OthersKeepAttempt DEF AttemptKinds, OfflineKinds
  <1>3. e \in AttemptKinds \cup Verdicts => StatusAfter(Append(l, e)) = e
    BY <1>1 DEF StatusAfter, AttemptKinds, Verdicts
  <1>4. e = "accepted_offline" => StatusAfter(Append(l, e)) = "accepted"
    BY <1>1 DEF StatusAfter, AttemptKinds, Verdicts
  <1>5. e = "retracted" => StatusAfter(Append(l, e)) = Rollback(l)
    BY <1>1, <1>2 DEF StatusAfter, AttemptKinds, Verdicts
  <1>6. e = "offline_retracted" =>
          StatusAfter(Append(l, e)) = IF AttemptKind(l) = "none" THEN "ungraded"
                                      ELSE Rollback(l)
    BY <1>1, <1>2 DEF StatusAfter, AttemptKinds, Verdicts, OfflineKinds
  <1>7. QED
    BY <1>3, <1>4, <1>5, <1>6
-----------------------------------------------------------------------------
(* The inductive invariant.                                                *)

ThreadType == [exists : BOOLEAN, status : Statuses, grader : Teachers \cup {Null},
               holder : Teachers \cup {Null}, expires : Nat, log : Seq(EventKinds)]

\* A row: a claim has both its columns or neither, events need the row, and they
\* explain its status.
RowOK(r) ==
  /\ r \in ThreadType
  /\ r.holder = Null <=> r.expires = None
  /\ r.log # <<>> => r.exists
  /\ r.status = StatusAfter(r.log)

CenterOK == roster \subseteq Students \X Terms /\ active \in Terms /\ now \in 1..MaxTime

\* Some prefix of the log l leaves a thread in this status.
Explains(l, status) == \E n \in 0..Len(l) : status = StatusAfter(SubSeq(l, 1, n))

\* A row read when its log had n events: the log has lost none since, and without
\* a new one the status is what was read.
SeenAs(r, n, status) ==
  n \in Nat /\ Len(r.log) >= n /\ (Len(r.log) = n => r.status = status)

\* What a read in flight has seen: the snapshot's roster and threads, or rows
\* whose logs have not lost an event since.
ReadOK ==
  /\ view.pc = "roster" =>
       /\ view.snap.threads \subseteq Keys
       /\ view.students = {s \in Students : <<s, view.term>> \in view.snap.roster}
  /\ view.pc = "row" =>
       view.key \in Keys /\ Explains(thread[view.key].log, view.status)
  /\ view.pc = "mine" =>
       /\ view.student \in Students
       /\ DOMAIN view.rows = ColumnsOf(view.series)
       /\ \A p \in ColumnsOf(view.series) :
            SeenAs(thread[<<view.student, p>>], view.seen[p], view.rows[p])

IInv == /\ thread \in [Keys -> ThreadType] /\ \A k \in Keys : RowOK(thread[k])
        /\ CenterOK /\ ReadOK
        /\ GridIsOfOneMoment /\ TimelineExplainsStatus /\ CountersCountRows

\* One more event does not undo an explanation: the log only grows.
LEMMA StillExplains ==
  ASSUME NEW l \in Seq(EventKinds), NEW e \in EventKinds, NEW status, Explains(l, status)
  PROVE  Explains(Append(l, e), status)
  <1> DEFINE m == Append(l, e)
  <1>1. /\ m \in Seq(EventKinds) /\ Len(m) = Len(l) + 1 /\ Len(l) \in Nat
        /\ \A i \in 1..Len(l) : m[i] = l[i]
    BY AppendProperties
  <1> HIDE DEF m
  <1>2. PICK n \in 0..Len(l) : status = StatusAfter(SubSeq(l, 1, n))
    BY DEF Explains
  <1>3. SubSeq(m, 1, n) = SubSeq(l, 1, n)
    BY <1>1, <1>2
  <1>4. n \in 0..Len(m)
    BY <1>1
  <1>5. QED
    BY <1>2, <1>3, <1>4 DEF Explains, m

\* The whole log explains the status of its row.
LEMMA RowExplained ==
  ASSUME NEW r, RowOK(r)
  PROVE  Explains(r.log, r.status)
  <1>1. r.log \in Seq(EventKinds) /\ r.status = StatusAfter(r.log)
    BY DEF RowOK, ThreadType
  <1>2. SubSeq(r.log, 1, Len(r.log)) = r.log /\ Len(r.log) \in 0..Len(r.log)
    BY <1>1, SubSeqFull
  <1>3. QED
    BY <1>1, <1>2 DEF Explains

\* A step that leaves one row sound and its log as it was or longer.
LEMMA OneRow ==
  ASSUME IInv, NEW k \in Keys, NEW new, RowOK(new),
         \/ new.log = thread[k].log
         \/ \E e \in EventKinds : new.log = Append(thread[k].log, e),
         thread' = [thread EXCEPT ![k] = new],
         UNCHANGED <<roster, active, now, view>>
  PROVE  IInv'
  <1>1. thread' \in [Keys -> ThreadType] /\ \A j \in Keys : RowOK(thread'[j])
    BY DEF IInv, RowOK
  <1>2. \A j \in Keys : thread[j].log \in Seq(EventKinds)
    BY DEF IInv, ThreadType
  <1>3. ASSUME NEW j \in Keys, NEW status, Explains(thread[j].log, status)
        PROVE  Explains(thread'[j].log, status)
    <2>1. thread'[j].log = thread[j].log
          \/ \E e \in EventKinds : thread'[j].log = Append(thread[j].log, e)
      BY DEF IInv
    <2>2. QED
      BY <1>2, <1>3, <2>1, StillExplains
  <1>4. ASSUME NEW j \in Keys, NEW n, NEW status, SeenAs(thread[j], n, status)
        PROVE  SeenAs(thread'[j], n, status)
    <2>1. CASE thread'[j].log = thread[j].log
      BY <1>1, <1>4, <2>1 DEF IInv, RowOK, SeenAs
    <2>2. ASSUME NEW e \in EventKinds, thread'[j].log = Append(thread[j].log, e)
          PROVE  Len(thread'[j].log) = Len(thread[j].log) + 1 /\ Len(thread[j].log) \in Nat
      BY <1>2, <2>2, AppendProperties
    <2>3. QED
      BY <1>4, <2>1, <2>2 DEF IInv, SeenAs
  <1>5. ReadOK'
    <2>1. \A p \in Subs, s \in Students : <<s, p>> \in Keys
      BY DEF Keys
    <2>2. \A x : ColumnsOf(x) \subseteq Subs
      BY DEF ColumnsOf
    <2>3. QED
      BY <1>3, <1>4, <2>1, <2>2 DEF IInv, ReadOK
  <1>6. QED
    BY <1>1, <1>5 DEF IInv, CenterOK, GridIsOfOneMoment, TimelineExplainsStatus,
                      CountersCountRows, Tally

\* The same for the writers that append an event.
LEMMA WriteOK ==
  ASSUME IInv, NEW k \in Keys, NEW kind \in EventKinds, NEW row \in ThreadType,
         row.log = thread[k].log, row.exists,
         row.holder = Null <=> row.expires = None,
         row.status = StatusAfter(Append(thread[k].log, kind)),
         Write(k, kind, row)
  PROVE  IInv'
  <1> DEFINE new == [row EXCEPT !.log = Append(@, kind)]
  <1>1. row.log \in Seq(EventKinds)
    BY DEF ThreadType
  <1>2. Append(row.log, kind) \in Seq(EventKinds)
    BY <1>1, AppendProperties
  <1>3. /\ new \in ThreadType /\ new.log = Append(row.log, kind)
        /\ new.holder = row.holder /\ new.expires = row.expires
        /\ new.exists = row.exists /\ new.status = row.status
    BY <1>2 DEF ThreadType
  <1>4. thread' = [thread EXCEPT ![k] = new] /\ UNCHANGED <<roster, active, now, view>>
    BY DEF Write
  <1> HIDE DEF new
  <1>5. RowOK(new)
    BY <1>3 DEF RowOK
  <1>6. QED
    BY <1>3, <1>4, <1>5, OneRow
-----------------------------------------------------------------------------
(* The writers.                                                            *)

LEMMA RowFacts ==
  ASSUME IInv, NEW k \in Keys
  PROVE  /\ thread[k] \in ThreadType /\ thread[k].log \in Seq(EventKinds)
         /\ thread[k].holder = Null <=> thread[k].expires = None
         /\ thread[k].log # <<>> => thread[k].exists
         /\ thread[k].status # "ungraded" => thread[k].exists
  BY DEF IInv, RowOK, ThreadType, StatusAfter

LEMMA RollbackStatus == \A l : Rollback(l) \in {"submitted", "appealed"}
  BY DEF Rollback

LEMMA SubmitAttemptOK ==
  ASSUME IInv, NEW s \in Students, NEW p \in Subs, SubmitAttempt(s, p)
  PROVE  IInv'
  <1> DEFINE k == <<s, p>>
             row == [thread[k] EXCEPT !.exists = TRUE, !.status = "submitted"]
  <1>1. k \in Keys
    BY DEF Keys
  <1>2. Write(k, "submitted", row)
    BY DEF SubmitAttempt
  <1> HIDE DEF k
  <1>3. /\ row \in ThreadType /\ row.log = thread[k].log /\ row.exists
        /\ row.holder = thread[k].holder /\ row.expires = thread[k].expires
        /\ row.status = "submitted"
    BY <1>1, RowFacts DEF ThreadType, Statuses
  <1>4. StatusAfter(Append(thread[k].log, "submitted")) = "submitted"
    BY <1>1, RowFacts, StatusAfterAppend DEF EventKinds, AttemptKinds
  <1>5. "submitted" \in EventKinds
    BY DEF EventKinds, AttemptKinds
  <1> HIDE DEF row
  <1>6. QED
    BY <1>1, <1>2, <1>3, <1>4, <1>5, RowFacts, WriteOK

LEMMA AppealGradeOK ==
  ASSUME IInv, NEW k \in Keys, AppealGrade(k)
  PROVE  IInv'
  <1> DEFINE row == [thread[k] EXCEPT !.status = "appealed"]
  <1>1. Write(k, "appealed", row) /\ thread[k].status = "rejected"
    BY DEF AppealGrade
  <1>2. /\ row \in ThreadType /\ row.log = thread[k].log /\ row.exists
        /\ row.holder = thread[k].holder /\ row.expires = thread[k].expires
        /\ row.status = "appealed"
    BY <1>1, RowFacts DEF ThreadType, Statuses
  <1>3. StatusAfter(Append(thread[k].log, "appealed")) = "appealed"
    BY RowFacts, StatusAfterAppend DEF EventKinds, AttemptKinds
  <1>4. "appealed" \in EventKinds
    BY DEF EventKinds, AttemptKinds
  <1> HIDE DEF row
  <1>5. QED
    BY <1>1, <1>2, <1>3, <1>4, RowFacts, WriteOK

\* A claim sets both columns and a release clears both; neither is an event.
LEMMA ClaimOK ==
  ASSUME IInv, NEW k \in Keys, NEW g \in Teachers, Claim(k, g)
  PROVE  IInv'
  <1> DEFINE new == [thread[k] EXCEPT !.holder = g, !.expires = now + Lease]
  <1>1. thread' = [thread EXCEPT ![k] = new] /\ UNCHANGED <<roster, active, now, view>>
    BY DEF Claim, IInv
  <1>2. now + Lease \in Nat \ {0} /\ g # Null
    BY ViewConstantsOK DEF IInv, CenterOK
  <1>3. RowOK(new) /\ new.log = thread[k].log
    BY <1>2, RowFacts DEF IInv, RowOK, ThreadType, None
  <1> HIDE DEF new
  <1>4. QED
    BY <1>1, <1>3, OneRow

LEMMA ReleaseOK ==
  ASSUME IInv, NEW k \in Keys, NEW g \in Teachers, Release(k, g)
  PROVE  IInv'
  <1> DEFINE new == [thread[k] EXCEPT !.holder = Null, !.expires = None]
  <1>1. thread' = [thread EXCEPT ![k] = new] /\ UNCHANGED <<roster, active, now, view>>
    BY DEF Release, IInv
  <1>2. RowOK(new) /\ new.log = thread[k].log
    BY RowFacts DEF IInv, RowOK, ThreadType, None
  <1> HIDE DEF new
  <1>3. QED
    BY <1>1, <1>2, OneRow

LEMMA GradeOK ==
  ASSUME IInv, NEW k \in Keys, NEW g \in Teachers, NEW verdict \in Verdicts,
         Grade(k, g, verdict)
  PROVE  IInv'
  <1> DEFINE row == [thread[k] EXCEPT !.status = verdict, !.grader = g,
                                      !.holder = Null, !.expires = None]
  <1>1. Write(k, verdict, row) /\ CanTransition(thread[k].status, "graded")
    BY DEF Grade
  <1>2. thread[k].status # "ungraded"
    BY <1>1 DEF CanTransition, LegalKinds
  <1>3. /\ row \in ThreadType /\ row.log = thread[k].log /\ row.exists
        /\ row.holder = Null /\ row.expires = None /\ row.status = verdict
    BY <1>2, RowFacts DEF ThreadType, Statuses, None
  <1>4. StatusAfter(Append(thread[k].log, verdict)) = verdict
    BY RowFacts, StatusAfterAppend DEF EventKinds
  <1>5. verdict \in EventKinds
    BY DEF EventKinds
  <1> HIDE DEF row
  <1>6. QED
    BY <1>1, <1>3, <1>4, <1>5, RowFacts, WriteOK

LEMMA RetractOK ==
  ASSUME IInv, NEW k \in Keys, NEW g \in Teachers, Retract(k, g)
  PROVE  IInv'
  <1> DEFINE row == [thread[k] EXCEPT !.status = Rollback(thread[k].log)]
  <1>1. Write(k, "retracted", row) /\ thread[k].status \in Verdicts
    BY DEF Retract
  <1>2. thread[k].status # "ungraded"
    BY <1>1 DEF Verdicts
  <1>3. /\ row \in ThreadType /\ row.log = thread[k].log /\ row.exists
        /\ row.holder = thread[k].holder /\ row.expires = thread[k].expires
        /\ row.status = Rollback(thread[k].log)
    BY <1>2, RowFacts, RollbackStatus DEF ThreadType, Statuses
  <1>4. StatusAfter(Append(thread[k].log, "retracted")) = Rollback(thread[k].log)
    BY RowFacts, StatusAfterAppend DEF EventKinds
  <1>5. "retracted" \in EventKinds
    BY DEF EventKinds
  <1> HIDE DEF row
  <1>6. QED
    BY <1>1, <1>3, <1>4, <1>5, RowFacts, WriteOK

LEMMA OfflineAcceptOK ==
  ASSUME IInv, NEW k \in Keys, NEW credit \in Teachers \cup {Null}, OfflineAccept(k, credit)
  PROVE  IInv'
  <1> DEFINE row == [thread[k] EXCEPT !.exists = TRUE, !.status = "accepted",
                                      !.grader = credit,
                                      !.holder = Null, !.expires = None]
  <1>1. Write(k, "accepted_offline", row)
    BY DEF OfflineAccept
  <1>2. /\ row \in ThreadType /\ row.log = thread[k].log /\ row.exists
        /\ row.holder = Null /\ row.expires = None /\ row.status = "accepted"
    BY RowFacts DEF ThreadType, Statuses, Verdicts, None
  <1>3. StatusAfter(Append(thread[k].log, "accepted_offline")) = "accepted"
    BY RowFacts, StatusAfterAppend DEF EventKinds, OfflineKinds
  <1>4. "accepted_offline" \in EventKinds
    BY DEF EventKinds, OfflineKinds
  <1> HIDE DEF row
  <1>5. QED
    BY <1>1, <1>2, <1>3, <1>4, RowFacts, WriteOK

LEMMA OfflineUndoOK ==
  ASSUME IInv, NEW k \in Keys, OfflineUndo(k)
  PROVE  IInv'
  <1> DEFINE back == IF AttemptKind(thread[k].log) = "none" THEN "ungraded"
                     ELSE Rollback(thread[k].log)
             row == [thread[k] EXCEPT !.status = back]
  <1>1. Write(k, "offline_retracted", row) /\ thread[k].status = "accepted"
    BY DEF OfflineUndo, AcceptedOffline
  <1>2. back \in Statuses
    BY RollbackStatus DEF Statuses
  <1>3. StatusAfter(Append(thread[k].log, "offline_retracted")) = back
    BY RowFacts, StatusAfterAppend DEF EventKinds, OfflineKinds
  <1> HIDE DEF back
  <1>4. /\ row \in ThreadType /\ row.log = thread[k].log /\ row.exists
        /\ row.holder = thread[k].holder /\ row.expires = thread[k].expires
        /\ row.status = back
    BY <1>1, <1>2, RowFacts DEF ThreadType
  <1>5. "offline_retracted" \in EventKinds
    BY DEF EventKinds, OfflineKinds
  <1> HIDE DEF row
  <1>6. QED
    BY <1>1, <1>3, <1>4, <1>5, RowFacts, WriteOK
-----------------------------------------------------------------------------
(* The readers and the rest of the center.                                 *)

LEMMA CenterStepOK ==
  ASSUME IInv, CenterStep
  PROVE  IInv'
  <1>1. UNCHANGED <<thread, view>>
    BY DEF CenterStep, SetEnrolled, ActivateTerm, Tick
  <1>2. CenterOK'
    <2>1. CASE \E s \in Students, t \in Terms : SetEnrolled(s, t)
      BY <2>1 DEF IInv, CenterOK, SetEnrolled
    <2>2. CASE \E t \in Terms : ActivateTerm(t)
      BY <2>2 DEF IInv, CenterOK, ActivateTerm
    <2>3. CASE Tick
      BY ViewConstantsOK, <2>3 DEF IInv, CenterOK, Tick
    <2>4. QED
      BY <2>1, <2>2, <2>3 DEF CenterStep
  <1>3. QED
    BY <1>1, <1>2 DEF IInv, ReadOK, GridIsOfOneMoment, TimelineExplainsStatus,
                      CountersCountRows, Tally

\* The spreadsheet's cells are of the snapshot its students were read from, and
\* of the columns of the same term.
LEMMA CellsAreOnGrid ==
  ASSUME NEW snap, NEW t, snap.threads \subseteq Keys
  PROVE  CellKeys(snap, t) \subseteq {s \in Students : <<s, t>> \in snap.roster}
                                      \X CenterGridColumns(t)
  <1> SUFFICES ASSUME NEW k \in CellKeys(snap, t)
               PROVE  k \in {s \in Students : <<s, t>> \in snap.roster}
                            \X CenterGridColumns(t)
    OBVIOUS
  <1>1. k \in Keys /\ TermOfSub(k[2]) = t /\ <<k[1], t>> \in snap.roster
    BY DEF CellKeys
  <1>2. k = <<k[1], k[2]>> /\ k[1] \in Students /\ k[2] \in Subs
    BY <1>1 DEF Keys
  <1>3. QED
    BY <1>1, <1>2 DEF CenterGridColumns

\* What the student's page is made of: the rows' statuses as they were, and the
\* counters over the statuses as they are.
LEMMA RowsAreSeen ==
  ASSUME IInv, NEW s \in Students, NEW x, MySeriesRows(s, x)
  PROVE  ReadOK'
  <1>1. \A p \in ColumnsOf(x) : <<s, p>> \in Keys
    BY DEF Keys, ColumnsOf
  <1>2. ASSUME NEW p \in ColumnsOf(x)
        PROVE  SeenAs(thread[<<s, p>>], Len(thread[<<s, p>>].log), thread[<<s, p>>].status)
    BY <1>1, RowFacts DEF SeenAs
  <1>3. /\ view'.pc = "mine" /\ view'.student = s /\ view'.series = x
        /\ DOMAIN view'.rows = ColumnsOf(x)
        /\ \A p \in ColumnsOf(x) : /\ view'.rows[p] = thread[<<s, p>>].status
                                   /\ view'.seen[p] = Len(thread[<<s, p>>].log)
    BY DEF MySeriesRows, StudentSeriesRollup
  <1>4. thread' = thread
    BY DEF MySeriesRows
  <1>5. QED
    BY <1>2, <1>3, <1>4 DEF ReadOK

LEMMA PageCounts ==
  ASSUME IInv, MySeriesRollup
  PROVE  CountersCountRows'
  <1> DEFINE s == view.student
             x == view.series
  <1>1. /\ s \in Students /\ DOMAIN view.rows = ColumnsOf(x)
        /\ \A p \in ColumnsOf(x) : SeenAs(thread[<<s, p>>], view.seen[p], view.rows[p])
    BY DEF MySeriesRollup, IInv, ReadOK
  <1>2. /\ view'.pc = "page" /\ view'.rows = view.rows
        /\ view'.counts = StudentSeriesCounts(s, x)
        /\ view'.changed = {p \in ColumnsOf(x) :
                              Len(thread[<<s, p>>].log) # view.seen[p]}
    BY DEF MySeriesRollup
  <1> HIDE DEF s, x
  <1> DEFINE later == [p \in ColumnsOf(x) |-> thread[<<s, p>>].status]
  <1>3. later \in [DOMAIN view'.rows -> Statuses]
    <2>1. \A p \in ColumnsOf(x) : <<s, p>> \in Keys
      BY <1>1 DEF Keys, ColumnsOf
    <2>2. QED
      BY <1>1, <1>2, <2>1, RowFacts DEF ThreadType
  <1>4. \A p \in DOMAIN view'.rows \ view'.changed : later[p] = view'.rows[p]
    BY <1>1, <1>2 DEF SeenAs
  <1>5. StudentSeriesCounts(s, x) = Tally(later)
    <2>1. Statuses \ Verdicts = {"ungraded", "submitted", "appealed"}
      BY DEF Statuses, Verdicts
    <2>2. \A statuses : With(s, x, statuses)
                         = Cardinality({p \in DOMAIN later : later[p] \in statuses})
      <3> TAKE statuses
      <3>1. {p \in ColumnsOf(x) : thread[<<s, p>>].status \in statuses}
              = {p \in DOMAIN later : later[p] \in statuses}
        OBVIOUS
      <3>2. QED
        BY <3>1 DEF With
    <2> HIDE DEF later
    <2>3. QED
      BY <2>1, <2>2 DEF StudentSeriesCounts, Tally
  <1> HIDE DEF later
  <1>6. QED
    BY <1>2, <1>3, <1>4, <1>5 DEF CountersCountRows

LEMMA ReaderStepOK ==
  ASSUME IInv, ReaderStep
  PROVE  IInv'
  <1>1. UNCHANGED <<thread, roster, active, now>>
    BY DEF ReaderStep, ResolveCenterGridTerm, CenterGridRoster, CenterGridCells,
           ThreadRow, ThreadEvents, MySeriesRows, MySeriesRollup, Answered
  <1>2. /\ ReadOK' /\ GridIsOfOneMoment' /\ TimelineExplainsStatus'
        /\ CountersCountRows'
    <2>1. CASE ResolveCenterGridTerm \/ Answered
      BY <2>1 DEF ResolveCenterGridTerm, Answered, NoView, ReadOK, GridIsOfOneMoment,
                  TimelineExplainsStatus, CountersCountRows
    <2>2. CASE CenterGridRoster
      BY <2>2 DEF CenterGridRoster, ReadOK, GridIsOfOneMoment, TimelineExplainsStatus,
                  CountersCountRows, Snapshot, RosterOf
    <2>3. CASE CenterGridCells
      <3>1. CellKeys(view.snap, view.term)
              \subseteq view.students \X CenterGridColumns(view.term)
        <4>1. /\ view.snap.threads \subseteq Keys
              /\ view.students = {s \in Students : <<s, view.term>> \in view.snap.roster}
          BY <2>3 DEF IInv, ReadOK, CenterGridCells
        <4>2. QED
          BY <4>1, CellsAreOnGrid
      <3>2. QED
        BY <2>3, <3>1 DEF CenterGridCells, ReadOK, GridIsOfOneMoment, TimelineExplainsStatus,
                          CountersCountRows
    <2>4. CASE \E k \in Keys : ThreadRow(k)
      <3>1. PICK k \in Keys : ThreadRow(k)
        BY <2>4
      <3>2. Explains(thread[k].log, thread[k].status)
        BY RowExplained DEF IInv
      <3>3. QED
        BY <3>1, <3>2 DEF ThreadRow, ReadOK, GridIsOfOneMoment, TimelineExplainsStatus,
                          CountersCountRows
    <2>5. CASE ThreadEvents
      <3>1. Explains(thread[view.key].log, view.status)
        BY <2>5 DEF ThreadEvents, IInv, ReadOK
      <3>2. QED
        BY <2>5, <3>1 DEF ThreadEvents, Explains, ReadOK, GridIsOfOneMoment,
                          TimelineExplainsStatus, CountersCountRows
    <2>6. CASE \E s \in Students, x \in Series : MySeriesRows(s, x)
      BY <2>6, RowsAreSeen DEF MySeriesRows, GridIsOfOneMoment, TimelineExplainsStatus,
                               CountersCountRows
    <2>7. CASE MySeriesRollup
      BY <2>7, PageCounts DEF MySeriesRollup, ReadOK, GridIsOfOneMoment,
                              TimelineExplainsStatus
    <2>8. QED
      BY <2>1, <2>2, <2>3, <2>4, <2>5, <2>6, <2>7 DEF ReaderStep
  <1>3. QED
    BY <1>1, <1>2 DEF IInv, CenterOK

LEMMA InitOK == Init => IInv
  <1> SUFFICES ASSUME Init PROVE IInv
    OBVIOUS
  <1>1. RowOK(NoThread)
    BY DEF RowOK, ThreadType, NoThread, None, Statuses, StatusAfter
  <1>2. thread \in [Keys -> ThreadType] /\ \A k \in Keys : RowOK(thread[k])
    BY <1>1 DEF Init, RowOK
  <1>3. CenterOK
    BY ViewConstantsOK DEF Init, CenterOK
  <1>4. ReadOK /\ GridIsOfOneMoment /\ TimelineExplainsStatus /\ CountersCountRows
    BY DEF Init, NoView, ReadOK, GridIsOfOneMoment, TimelineExplainsStatus,
           CountersCountRows
  <1>5. QED
    BY <1>2, <1>3, <1>4 DEF IInv

LEMMA NextOK == IInv /\ [Next]_vars => IInv'
  <1> SUFFICES ASSUME IInv, [Next]_vars PROVE IInv'
    OBVIOUS
  <1>1. CASE \E s \in Students, p \in Subs : SubmitAttempt(s, p)
    BY <1>1, SubmitAttemptOK
  <1>2. CASE \E k \in Keys : AppealGrade(k) \/ OfflineUndo(k)
    BY <1>2, AppealGradeOK, OfflineUndoOK
  <1>3. CASE \E k \in Keys, credit \in Teachers \cup {Null} : OfflineAccept(k, credit)
    BY <1>3, OfflineAcceptOK
  <1>4. CASE \E k \in Keys, g \in Teachers : Claim(k, g) \/ Release(k, g) \/ Retract(k, g)
    BY <1>4, ClaimOK, ReleaseOK, RetractOK
  <1>5. CASE \E k \in Keys, g \in Teachers : \E verdict \in Verdicts : Grade(k, g, verdict)
    BY <1>5, GradeOK
  <1>6. CASE CenterStep
    BY <1>6, CenterStepOK
  <1>7. CASE ReaderStep
    BY <1>7, ReaderStepOK
  <1>8. CASE UNCHANGED vars
    BY <1>8 DEF vars, IInv, CenterOK, ReadOK, GridIsOfOneMoment, TimelineExplainsStatus,
                    CountersCountRows, Tally
  <1>9. QED
    BY <1>1, <1>2, <1>3, <1>4, <1>5, <1>6, <1>7, <1>8 DEF Next, WriterStep

LEMMA Inductive == Spec => []IInv
  BY InitOK, NextOK, PTL DEF Spec
-----------------------------------------------------------------------------
(* Queues, hints and counters.                                             *)

LEMMA ClaimTypes ==
  ASSUME IInv, NEW k \in Keys
  PROVE  /\ thread[k].holder \in Teachers \cup {Null} /\ thread[k].expires \in Nat
         /\ now \in Nat /\ k[1] \in Students /\ k[2] \in Subs
  BY ViewConstantsOK, RowFacts DEF ThreadType, IInv, CenterOK, Keys

LEMMA TypesHold == IInv => ViewTypeOK
  <1> SUFFICES ASSUME IInv PROVE ViewTypeOK
    OBVIOUS
  <1>1. ASSUME NEW k \in Keys
        PROVE  /\ thread[k].status \in Statuses
               /\ {thread[k].grader, thread[k].holder} \subseteq Teachers \cup {Null}
               /\ thread[k].holder = Null <=> thread[k].expires = None
               /\ thread[k].log # <<>> => thread[k].exists
    BY <1>1, RowFacts DEF ThreadType
  <1>2. ASSUME NEW k \in Keys
        PROVE  \A i \in 1..Len(thread[k].log) : thread[k].log[i] \in EventKinds
    BY <1>2, RowFacts
  <1>3. QED
    BY <1>1, <1>2 DEF ViewTypeOK, IInv, CenterOK

\* A teacher finds a waiting thread in her queue exactly when TryClaim would give
\* it to her; while a claim is live that is its holder alone.
LEMMA QueueHolds == IInv => QueueIsWhatIsFree
  <1> SUFFICES ASSUME IInv, NEW x \in Series, NEW k \in Keys, k[2] \in ColumnsOf(x), Waiting(k)
               PROVE  LET seen == {g \in Teachers : k \in ListGraderQueueForSeries(x, g, FALSE)} IN
                        /\ seen = {g \in Teachers : FreeFor(k, g)}
                        /\ seen = Teachers \/ seen = {thread[k].holder}
    BY DEF QueueIsWhatIsFree
  <1>1. \A g \in Teachers : k \in ListGraderQueueForSeries(x, g, FALSE) <=> FreeFor(k, g)
    BY DEF ListGraderQueueForSeries, FreeFor
  <1>2. CASE thread[k].holder = Null \/ thread[k].expires < now
    BY <1>1, <1>2 DEF FreeFor
  <1>3. CASE thread[k].holder # Null /\ ~(thread[k].expires < now)
    BY <1>1, <1>3, ClaimTypes DEF FreeFor
  <1>4. QED
    BY <1>2, <1>3

LEMMA HintHolds == IInv => BeingGradedIsExclusive
  <1> SUFFICES ASSUME IInv, NEW s \in Students, NEW x \in Series, NEW p \in ColumnsOf(x),
                      StudentSeriesRollup(s, x)[p].being_graded, NEW g \in Teachers
               PROVE  FreeFor(<<s, p>>, g) <=> thread[<<s, p>>].holder = g
    BY DEF BeingGradedIsExclusive
  <1>1. <<s, p>> \in Keys
    BY DEF Keys, ColumnsOf
  <1>2. thread[<<s, p>>].holder # Null /\ thread[<<s, p>>].expires > now
    BY DEF StudentSeriesRollup
  <1>3. ~(thread[<<s, p>>].expires < now)
    BY <1>1, <1>2, ClaimTypes
  <1>4. QED
    BY <1>2, <1>3 DEF FreeFor

LEMMA AllColumns ==
  ASSUME NEW k \in Keys
  PROVE  \E x \in Series : k[2] \in ColumnsOf(x)
  BY ViewConstantsOK DEF Keys, ColumnsOf

LEMMA InQueue ==
  ASSUME NEW k, NEW g, NEW mine
  PROVE  k \in GraderQueue(g, mine) <=>
           /\ k \in Keys /\ Waiting(k)
           /\ thread[k].holder \in {Null, g} \/ thread[k].expires < now
           /\ mine => \/ thread[k].grader = g
                      \/ thread[k].holder = g /\ thread[k].expires > now
  BY AllColumns DEF GraderQueue, ListGraderQueueForSeries

LEMMA CountersHold == IInv => StatsMatchQueues
  <1> SUFFICES ASSUME IInv, NEW g \in Teachers
               PROVE  LET stats == GraderStatsForCenter(g)
                          queue == GraderQueue(g, FALSE)
                      IN /\ queue = stats.pending \cup stats.claimed
                         /\ stats.pending \cap stats.claimed = {}
                         /\ stats.appeals \cap queue \subseteq GraderQueue(g, TRUE)
                         /\ ListCoffinQueueForCenter(g) = {k \in queue : k[2] \in Coffins}
    BY DEF StatsMatchQueues
  <1> DEFINE stats == GraderStatsForCenter(g)
             queue == GraderQueue(g, FALSE)
  <1>1. g # Null
    BY ViewConstantsOK
  <1>2. \A k : k \in stats.pending <=>
              k \in Keys /\ Waiting(k) /\ (thread[k].holder = Null \/ thread[k].expires < now)
    BY DEF GraderStatsForCenter
  <1>3. \A k : k \in stats.claimed <=>
              k \in Keys /\ Waiting(k) /\ thread[k].holder = g /\ thread[k].expires >= now
    BY DEF GraderStatsForCenter
  <1>4. \A k : k \in stats.appeals <=>
              k \in Keys /\ thread[k].status = "appealed" /\ thread[k].grader = g
    BY DEF GraderStatsForCenter
  <1>5. \A k : k \in queue <=>
              /\ k \in Keys /\ Waiting(k)
              /\ thread[k].holder \in {Null, g} \/ thread[k].expires < now
    BY InQueue
  <1>6. \A k \in Keys : thread[k].expires >= now <=> ~(thread[k].expires < now)
    BY ClaimTypes
  <1> HIDE DEF stats, queue
  <1>7. queue = stats.pending \cup stats.claimed
    BY <1>2, <1>3, <1>5, <1>6
  <1>8. stats.pending \cap stats.claimed = {}
    BY <1>1, <1>2, <1>3, <1>6
  <1>9. stats.appeals \cap queue \subseteq GraderQueue(g, TRUE)
    BY <1>4, <1>5, InQueue
  <1>10. ListCoffinQueueForCenter(g) = {k \in queue : k[2] \in Coffins}
    BY <1>5 DEF ListCoffinQueueForCenter
  <1>11. QED
    BY <1>7, <1>8, <1>9, <1>10 DEF stats, queue
-----------------------------------------------------------------------------
(* Pages about one series.                                                 *)

\* The student's page against the two spreadsheets, for one subproblem.
LEMMA PageShowsGrid ==
  ASSUME IInv, NEW x \in Series, NEW s \in RosterOf(TermOf[x]), NEW p \in ColumnsOf(x)
  PROVE  /\ StudentSeriesRollup(s, x)[p].status = TeacherSeriesGrid(x)[<<s, p>>].status
         /\ <<s, p>> \notin TeacherCenterGridCellsForSeries(x) =>
              StudentSeriesRollup(s, x)[p].status = "ungraded"
  <1>1. <<s, p>> \in Keys /\ p \in Subs /\ SeriesOf[p] = x /\ <<s, TermOf[x]>> \in roster
    BY DEF Keys, ColumnsOf, RosterOf
  <1>2. StudentSeriesRollup(s, x)[p].status = thread[<<s, p>>].status
    BY DEF StudentSeriesRollup
  <1>3. TeacherSeriesGrid(x)[<<s, p>>].status = thread[<<s, p>>].status
    BY DEF TeacherSeriesGrid, GridCell
  <1>4. thread[<<s, p>>].exists => <<s, p>> \in TeacherCenterGridCellsForSeries(x)
    BY <1>1 DEF TeacherCenterGridCellsForSeries, CellKeys, Snapshot, TermOfSub
  <1>5. QED
    BY <1>1, <1>2, <1>3, <1>4, RowFacts

\* A bucket of a line of the statistics counts the cells of the grid's column: the
\* placeholder row of an empty roster is nobody's.
LEMMA BucketsAreColumns ==
  ASSUME NEW x \in Series, NEW p \in ColumnsOf(x), NEW c \in Statuses
  PROVE  AggregateProblemStats(x).lines[p][c]
           = Cardinality({s \in RosterOf(TermOf[x]) :
                            TeacherSeriesGrid(x)[<<s, p>>].status = c})
  <1> DEFINE rows == {r \in SeriesProblemStats(x) : r.student # Null}
             Rows == {r \in rows : r.sub = p /\ thread[<<r.student, p>>].status = c}
             S == {s \in RosterOf(TermOf[x]) : thread[<<s, p>>].status = c}
             f == [s \in S |-> [student |-> s, sub |-> p]]
  <1>1. S = {s \in RosterOf(TermOf[x]) : TeacherSeriesGrid(x)[<<s, p>>].status = c}
    BY DEF TeacherSeriesGrid, GridCell
  <1>2. IsFiniteSet(S)
    BY ViewConstantsOK, FS_Subset DEF RosterOf
  <1>3. \A s \in S : s \in Students /\ s # Null
    BY ViewConstantsOK DEF RosterOf
  <1>4. \A s \in S : f[s] \in Rows
    BY <1>3 DEF SeriesProblemStats, StatsRoster
  <1>5. ASSUME NEW r \in Rows
        PROVE  r.student \in S /\ f[r.student] = r
    BY <1>5 DEF SeriesProblemStats, StatsRoster
  <1>6. f \in Bijection(S, Rows)
    BY <1>4, <1>5, Fun_IsBij
  <1>7. Cardinality(Rows) = Cardinality(S)
    BY <1>2, <1>6, FS_Bijection, Fun_ExistsBij
  <1>8. AggregateProblemStats(x).lines[p][c] = Cardinality(Rows)
    BY DEF AggregateProblemStats
  <1>9. QED
    BY <1>1, <1>7, <1>8

LEMMA TotalIsRoster ==
  ASSUME NEW x \in Series, ColumnsOf(x) # {}
  PROVE  AggregateProblemStats(x).total = Cardinality(RosterOf(TermOf[x]))
  <1> DEFINE rows == {r \in SeriesProblemStats(x) : r.student # Null}
  <1>1. \A s \in RosterOf(TermOf[x]) : s # Null
    BY ViewConstantsOK DEF RosterOf
  <1>2. PICK p : p \in ColumnsOf(x)
    OBVIOUS
  <1>3. \A s \in RosterOf(TermOf[x]) : [student |-> s, sub |-> p] \in rows
    BY <1>1, <1>2 DEF SeriesProblemStats, StatsRoster
  <1>4. \A r \in rows : r.student \in RosterOf(TermOf[x])
    BY DEF SeriesProblemStats, StatsRoster
  <1>5. {r.student : r \in rows} = RosterOf(TermOf[x])
    <2>1. ASSUME NEW s \in RosterOf(TermOf[x]) PROVE s \in {r.student : r \in rows}
      <3>1. [student |-> s, sub |-> p] \in rows
        BY <1>3
      <3>2. [student |-> s, sub |-> p].student = s
        OBVIOUS
      <3>3. QED
        BY <3>1, <3>2
    <2>2. QED
      BY <1>4, <2>1
  <1>6. QED
    BY <1>5 DEF AggregateProblemStats

LEMMA CellsAreCells ==
  ASSUME NEW x \in Series
  PROVE  TeacherCenterGridCellsForSeries(x) \subseteq DOMAIN TeacherSeriesGrid(x)
  <1> SUFFICES ASSUME NEW k \in TeacherCenterGridCellsForSeries(x)
               PROVE  k \in RosterOf(TermOf[x]) \X ColumnsOf(x)
    BY DEF TeacherSeriesGrid
  <1>1. k \in Keys /\ SeriesOf[k[2]] = x /\ <<k[1], TermOf[x]>> \in roster
    BY DEF TeacherCenterGridCellsForSeries, CellKeys, Snapshot
  <1>2. k = <<k[1], k[2]>> /\ k[1] \in Students /\ k[2] \in Subs
    BY <1>1 DEF Keys
  <1>3. QED
    BY <1>1, <1>2 DEF RosterOf, ColumnsOf

LEMMA PagesAgree == IInv => ViewsAgree
  <1> SUFFICES ASSUME IInv, NEW x \in Series
               PROVE  LET grid  == TeacherSeriesGrid(x)
                          stats == AggregateProblemStats(x)
                          cells == TeacherCenterGridCellsForSeries(x)
                      IN /\ \A s \in RosterOf(TermOf[x]) : \A p \in ColumnsOf(x) :
                              LET mine == StudentSeriesRollup(s, x)[p] IN
                                /\ mine.status = grid[<<s, p>>].status
                                /\ <<s, p>> \notin cells => mine.status = "ungraded"
                         /\ \A p \in ColumnsOf(x) : \A c \in Statuses :
                              stats.lines[p][c] = Cardinality({s \in RosterOf(TermOf[x]) :
                                                                 grid[<<s, p>>].status = c})
                         /\ cells \subseteq DOMAIN grid
                         /\ ColumnsOf(x) # {} =>
                              stats.total = Cardinality(RosterOf(TermOf[x]))
    BY DEF ViewsAgree
  <1>1. QED
    BY PageShowsGrid, BucketsAreColumns, CellsAreCells, TotalIsRoster
-----------------------------------------------------------------------------
(* The theorems.                                                           *)

\* Queues and hints agree with the claims (ListGraderQueueForSeries and
\* StudentSeriesRollup against TryClaim): every thread that waits is in the queue
\* of exactly the teachers who could claim it at this instant, and a student is
\* told that her work is being graded only while one teacher alone can take it.
THEOREM QueuesAreRight == Spec => []ViewInv
  <1>1. IInv => ViewInv
    BY TypesHold, QueueHolds, HintHolds DEF ViewInv
  <1>2. QED
    BY <1>1, Inductive, PTL

\* The dashboard counts what the queues list (GraderStatsForCenter against
\* ListGraderQueueForSeries and ListCoffinQueueForCenter).
THEOREM CountersAreRight == Spec => []StatsMatchQueues
  BY CountersHold, Inductive, PTL

\* At one moment the series' spreadsheet, the center's spreadsheet, the statistics
\* and the rows of the student's own page do not contradict each other, for any
\* roster and any series.
THEOREM PagesAreConsistent == Spec => []ViewsAgree
  BY PagesAgree, Inductive, PTL

\* Whatever commits while GetCenterGrid runs its queries, its cells belong to the
\* students and columns it lists: they are of one snapshot.
THEOREM GridIsWhole == Spec => []GridIsOfOneMoment
  <1>1. IInv => GridIsOfOneMoment
    BY DEF IInv
  <1>2. QED
    BY <1>1, Inductive, PTL

\* MySeriesRollup reads the rows and the counters in two statements: the counters
\* count the rows shown, but for the subproblems that got an event in between.
THEOREM CountersAreOfTheRows == Spec => []CountersCountRows
  <1>1. IInv => CountersCountRows
    BY DEF IInv
  <1>2. QED
    BY <1>1, Inductive, PTL

\* GetThread reads the row before the events, outside a transaction; the events it
\* shows still explain the status it shows.
THEOREM TimelineIsExplained == Spec => []TimelineExplainsStatus
  <1>1. IInv => TimelineExplainsStatus
    BY DEF IInv
  <1>2. QED
    BY <1>1, Inductive, PTL
=============================================================================
