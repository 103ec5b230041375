------------------------ MODULE HomeworkThreadProofs ------------------------
(***************************************************************************)
(* Theorems about HomeworkThread for every set of users and requests, and  *)
(* for every bound on ids and time.                                        *)
(*                                                                         *)
(* VerdictBacked and its companions are not inductive: a request that has  *)
(* read the thread and waits to commit carries ids and statuses that must  *)
(* still make sense when it lands, however long it waited.  The inductive  *)
(* invariant IInv says so: the plans in flight only refer to committed     *)
(* events, no id is drawn twice, and a thread that was ever graded keeps   *)
(* an attempt.                                                             *)
(***************************************************************************)
EXTENDS HomeworkThread, TLAPS

\* The sequence never hands an id out twice, to the log or to two requests.
IdsFresh ==
  /\ \A i \in Landed : i < nextId
  /\ \A r \in Reqs : req[r].pc = "appended" =>
       req[r].id \in Ids /\ req[r].id < nextId /\ log[req[r].id] = NoEvent
  /\ \A r, s \in Reqs :
       req[r].pc = "appended" /\ req[s].pc = "appended" /\ req[r].id = req[s].id
         => r = s

\* What the row owes to the log.
RowBacked ==
  /\ VerdictBacked
  /\ PendingHasAttempt
  /\ PointersResolve
  /\ \A i \in Ids : log[i].kind = "graded" => thread.attempt # None

\* What the log owes to itself.
LogWellFormed ==
  /\ ReferencesResolve
  /\ \A i \in Ids : log[i].kind = "accepted_offline" => log[i].verdict = "accepted"

\* The event a request refers to is committed (and so has a smaller id).
PlanRefers(r, kinds) ==
  /\ req[r].ev.refers # None
  /\ log[req[r].ev.refers].kind \in kinds
  /\ req[r].pc = "appended" => req[r].ev.refers < req[r].id

\* What each kind of request has made sure of when it read the thread, and
\* what no other request can take away from it.
PlanSound(r) ==
  LET e == req[r].ev IN
  /\ e.kind \in Kinds
  /\ e.kind = "submitted" => e.refers = None
  /\ e.kind = "appealed" =>
       PlanRefers(r, {"graded"}) /\ log[e.refers].verdict = "rejected"
  /\ e.kind = "graded" =>
       /\ PlanRefers(r, AttemptKinds)
       /\ e.verdict \in Verdicts
       /\ thread.attempt # None
  /\ e.kind = "retracted" =>
       /\ req[r].back \in AttemptKinds
       /\ req[r].pc # "loaded" => PlanRefers(r, {"graded"})
  /\ e.kind = "accepted_offline" => e.refers = None /\ e.verdict = "accepted"
  /\ e.kind = "offline_retracted" =>
       /\ PlanRefers(r, {"accepted_offline"})
       /\ req[r].back \in AttemptKinds \cup {"ungraded"}
       /\ req[r].back \in AttemptKinds => thread.attempt # None
  /\ req[r].pc = "loaded" => e.kind = "retracted"

\* An import in flight holds the row's lock, over an ungraded thread.
ImportLocks(r) ==
  req[r].ev.sheet =>
    /\ req[r].pc = "appended"
    /\ rowLock = r
    /\ thread.status = "ungraded"

IInv == /\ TypeOK
        /\ IdsFresh
        /\ RowBacked
        /\ LogWellFormed
        /\ \A r \in Reqs : ~IsIdle(r) => PlanSound(r) /\ ImportLocks(r)
-----------------------------------------------------------------------------
(* Types.                                                                  *)

\* The event a handler plans is an event, and the request that holds it a
\* request.
LEMMA PlanTypes ==
  ASSUME req \in [Reqs -> Request], NEW r \in Reqs,
         NEW pc \in {"loaded", "checked"}, NEW kind \in Kinds,
         NEW actor \in Users, NEW uuid \in Uuids \cup {Null},
         NEW verdict \in Verdicts \cup {"none"}, NEW refers \in Ids \cup {None},
         NEW back \in Statuses, NEW credit \in Staff \cup {Null},
         Plan(r, pc, kind, actor, uuid, verdict, refers, back, credit)
  PROVE  req' \in [Reqs -> Request]
<1> DEFINE e == [kind |-> kind, actor |-> actor, uuid |-> uuid,
                 verdict |-> verdict, refers |-> refers, sheet |-> FALSE]
           q == [pc |-> pc, ev |-> e, back |-> back, credit |-> credit,
                 began |-> None, id |-> None]
<1>1. e \in Event
  BY DEF Event
<1>2. q \in Request
  <2>1. None \in Nat /\ None \in Ids \cup {None}
    BY DEF None
  <2> HIDE DEF e
  <2> QED BY <2>1, <1>1 DEF Request
<1>3. req' = [req EXCEPT ![r] = q]
  BY DEF Plan
<1> QED BY <1>2, <1>3

LEMMA IdleTypes == Idle \in Request /\ NoEvent \in Event
<1>1. NoEvent \in Event
  BY DEF NoEvent, Event
<1> QED BY <1>1 DEF Idle, Request, Statuses, None

LEMMA FinishTypes ==
  ASSUME req \in [Reqs -> Request], NEW r \in Reqs, Finish(r)
  PROVE  req' \in [Reqs -> Request]
BY IdleTypes DEF Finish

LEMMA TypeInit == Init => TypeOK
<1> SUFFICES ASSUME Init PROVE TypeOK
  OBVIOUS
<1>1. thread \in Thread
  BY DEF Init, NewThread, Thread, Statuses, None
<1>2. log \in [Ids -> Event] /\ req \in [Reqs -> Request]
  BY IdleTypes DEF Init
<1> QED BY <1>1, <1>2 DEF Init, TypeOK

\* One step per group of actions that write the same variables.
LEMMA TypeStep ==
  ASSUME TypeOK, [Next]_vars, \A r \in Reqs : ~IsIdle(r) => PlanSound(r)
  PROVE  TypeOK'
<1> USE DEF TypeOK
<1>1. ASSUME NEW r \in Reqs, IssueStudentUploadURLs(r) PROVE TypeOK'
  BY <1>1 DEF IssueStudentUploadURLs, FindOrCreateThread, Thread
<1>2. ASSUME NEW r \in Reqs, NEW uuid \in Uuids \cup {Null},
             NEW sp \in SubproblemContexts, SubmitAttempt(r, uuid, sp)
      PROVE  TypeOK'
  <2>1. thread' \in Thread
    BY <1>2 DEF SubmitAttempt, FindOrCreateThread, Thread
  <2>2. req' \in [Reqs -> Request]
    BY <1>2, PlanTypes
       DEF SubmitAttempt, Kinds, AttemptKinds, Users, Statuses, None
  <2> QED BY <1>2, <2>1, <2>2 DEF SubmitAttempt
<1>3. ASSUME NEW r \in Reqs, NEW uuid \in Uuids \cup {Null}, AppealGrade(r, uuid)
      PROVE  TypeOK'
  <2>1. req' \in [Reqs -> Request]
    BY <1>3, PlanTypes
       DEF AppealGrade, Kinds, AttemptKinds, Users, Statuses, Thread
  <2> QED BY <1>3, <2>1 DEF AppealGrade
<1>4. ASSUME NEW r \in Reqs, NEW g \in Staff,
             Claim(r, g) \/ Heartbeat(r, g) \/ Release(r, g)
      PROVE  TypeOK'
  <2>1. now + Lease \in Nat /\ None \in Nat
    BY ConstantsOK DEF None
  <2>2. thread' \in Thread
    BY <1>4, <2>1 DEF Claim, Heartbeat, Release, Thread
  <2> QED BY <1>4, <2>2 DEF Claim, Heartbeat, Release
<1>5. ASSUME NEW r \in Reqs, NEW g \in Staff, NEW uuid \in Uuids \cup {Null},
             NEW verdict \in Verdicts, Grade(r, g, uuid, verdict)
      PROVE  TypeOK'
  <2>1. req' \in [Reqs -> Request]
    BY <1>5, PlanTypes DEF Grade, Kinds, GradeKinds, Users, Statuses, Thread
  <2> QED BY <1>5, <2>1 DEF Grade
<1>6. ASSUME NEW r \in Reqs, NEW g \in Staff, Retract(r, g) PROVE TypeOK'
  <2>1. RollbackStatus \in Statuses
    BY DEF RollbackStatus, Statuses
  <2>2. req' \in [Reqs -> Request]
    BY <1>6, <2>1, PlanTypes DEF Retract, Kinds, Users, None
  <2> QED BY <1>6, <2>2 DEF Retract
<1>7. ASSUME NEW r \in Reqs, FindGradedEvent(r) PROVE TypeOK'
  <2>1. CASE GradedIds = {}
    BY <1>7, <2>1, FinishTypes DEF FindGradedEvent
  <2>2. CASE GradedIds # {}
    <3>1. PICK i \in GradedIds :
            req' = [req EXCEPT ![r].pc = "checked", ![r].ev.refers = i]
      BY <1>7, <2>2 DEF FindGradedEvent
    <3>2. i \in Ids
      BY DEF GradedIds, Landed
    <3> DEFINE e == [req[r].ev EXCEPT !.refers = i]
               q == [req[r] EXCEPT !.pc = "checked", !.ev = e]
    <3>3. e \in Event
      <4>1. req[r].ev \in Event
        BY DEF Request
      <4> QED BY <3>2, <4>1 DEF Event
    <3>4. q \in Request
      <4> HIDE DEF e
      <4> QED BY <3>3 DEF Request
    <3>5. req' = [req EXCEPT ![r] = q]
      BY <3>1
    <3>6. req' \in [Reqs -> Request]
      <4> HIDE DEF q
      <4> QED BY <3>4, <3>5
    <3> QED BY <1>7, <3>6 DEF FindGradedEvent
  <2> QED BY <2>1, <2>2
<1>8. ASSUME NEW r \in Reqs, NEW g \in Staff, NEW credit \in Teachers \cup {g, Null},
             OfflineAccept(r, g, credit)
      PROVE  TypeOK'
  <2>1. thread' \in Thread
    BY <1>8 DEF OfflineAccept, FindOrCreateThread, Thread
  <2>2. req' \in [Reqs -> Request]
    BY <1>8, PlanTypes
       DEF OfflineAccept, Kinds, GradeKinds, Users, Staff, Statuses, Verdicts, None
  <2> QED BY <1>8, <2>1, <2>2 DEF OfflineAccept
<1>9. ASSUME NEW r \in Reqs, NEW g \in Staff, OfflineUndo(r, g) PROVE TypeOK'
  <2>1. OfflineRollbackStatus \in Statuses
    BY DEF OfflineRollbackStatus, RollbackStatus, Statuses
  <2>2. req' \in [Reqs -> Request]
    BY <1>9, <2>1, PlanTypes DEF OfflineUndo, Kinds, Users, Thread
  <2> QED BY <1>9, <2>2 DEF OfflineUndo
<1>10. ASSUME NEW r \in Reqs, Append(r) PROVE TypeOK'
  <2>1. CASE Finish(r)
    <3>1. req' \in [Reqs -> Request]
      BY <2>1, FinishTypes
    <3> QED BY <1>10, <3>1 DEF Append
  <2>2. CASE req' = [req EXCEPT ![r].pc = "appended", ![r].began = now,
                                ![r].id = nextId]
    <3>1. nextId \in Ids
      BY <1>10, ConstantsOK DEF Append, Ids
    <3> DEFINE q == [req[r] EXCEPT !.pc = "appended", !.began = now, !.id = nextId]
    <3>2. q \in Request
      BY <3>1 DEF Request
    <3>3. req' = [req EXCEPT ![r] = q]
      BY <2>2
    <3>4. req' \in [Reqs -> Request]
      <4> HIDE DEF q
      <4> QED BY <3>2, <3>3
    <3> QED BY <1>10, <3>4 DEF Append
  <2> QED BY <1>10, <2>1, <2>2 DEF Append
<1>11. ASSUME NEW r \in Reqs, NEW row \in Thread, Land(r, row) PROVE TypeOK'
  <2>1. log' \in [Ids -> Event]
    BY <1>11 DEF Land, Request
  <2> QED BY <1>11, <2>1, FinishTypes DEF Land
<1>12. ASSUME NEW r \in Reqs, req[r].pc = "appended", CommitSubmit(r) \/ CommitAppeal(r)
       PROVE  TypeOK'
  <2>1. req[r].id \in Ids \cup {None}
    BY DEF Request
  <2>2. [thread EXCEPT !.status = "submitted", !.attempt = req[r].id] \in Thread
    BY <2>1 DEF Thread, Statuses
  <2>3. [thread EXCEPT !.status = "appealed", !.attempt = req[r].id] \in Thread
    BY <2>1 DEF Thread, Statuses
  <2> QED BY <1>11, <1>12, <2>2, <2>3 DEF CommitSubmit, CommitAppeal
<1>13. ASSUME NEW r \in Reqs, CommitGrade(r) PROVE TypeOK'
  <2>1. req[r].ev.verdict \in Verdicts
    BY <1>13 DEF CommitGrade, Ready, IsIdle, PlanSound
  <2>2. req[r].id \in Ids \cup {None} /\ None \in Nat
    BY DEF Request, None
  <2>3. req[r].ev.actor \in Staff \cup {Null}
    BY <1>13 DEF CommitGrade, HoldsClaim, Thread
  <2>4. [thread EXCEPT !.status = req[r].ev.verdict, !.grade = req[r].id,
                       !.lastGrader = req[r].ev.actor,
                       !.holder = Null, !.expires = None] \in Thread
    BY <2>1, <2>2, <2>3 DEF Thread, Statuses
  <2> QED BY <1>11, <1>13, <2>4 DEF CommitGrade
<1>14. ASSUME NEW r \in Reqs, CommitRetract(r) PROVE TypeOK'
  <2>1. [thread EXCEPT !.status = req[r].back, !.grade = None] \in Thread
    BY DEF Thread, Request
  <2> QED BY <1>11, <1>14, <2>1 DEF CommitRetract
<1>15. ASSUME NEW r \in Reqs, CommitOfflineAccept(r) PROVE TypeOK'
  <2>1. req[r].id \in Ids \cup {None} /\ None \in Nat
    BY DEF Request, None
  <2>2. req[r].credit \in Staff \cup {Null}
    BY DEF Request
  <2>3. [thread EXCEPT !.exists = TRUE,
                       !.status = "accepted", !.grade = req[r].id,
                       !.lastGrader = req[r].credit, !.named = TRUE,
                       !.holder = Null, !.expires = None] \in Thread
    BY <2>1, <2>2 DEF Thread, Statuses, Verdicts
  <2> QED BY <1>11, <1>15, <2>3 DEF CommitOfflineAccept
<1>16. ASSUME NEW r \in Reqs, CommitOfflineUndo(r) PROVE TypeOK'
  <2>1. [thread EXCEPT !.status = req[r].back, !.grade = None, !.named = FALSE]
          \in Thread
    BY DEF Thread, Request
  <2> QED BY <1>11, <1>16, <2>1 DEF CommitOfflineUndo
<1>17. ASSUME NEW r \in Reqs, GradeContention(r) \/ Abort(r) PROVE TypeOK'
  BY <1>17, FinishTypes DEF GradeContention, Abort
<1>18. ASSUME NEW r \in Reqs, NEW g \in Staff, ImportMarker(r, g) PROVE TypeOK'
  <2> DEFINE e == [kind |-> "accepted_offline", actor |-> g, uuid |-> Null,
                   verdict |-> "accepted", refers |-> None, sheet |-> TRUE]
             q == [pc |-> "appended", ev |-> e, back |-> "ungraded",
                   credit |-> Null, began |-> now, id |-> nextId]
  <2>1. e \in Event
    BY DEF Event, Kinds, GradeKinds, Users, Verdicts
  <2>2. q \in Request
    <3>1. nextId \in Ids /\ "ungraded" \in Statuses
      BY <1>18, ConstantsOK DEF ImportMarker, Ids, Statuses
    <3> HIDE DEF e
    <3> QED BY <3>1, <2>1 DEF Request
  <2>3. req' = [req EXCEPT ![r] = q]
    BY <1>18 DEF ImportMarker
  <2>4. req' \in [Reqs -> Request]
    BY <2>2, <2>3
  <2> QED BY <1>18, <2>4 DEF ImportMarker
<1>19. CASE Tick
  BY <1>19 DEF Tick
<1>20. CASE UNCHANGED vars
  BY <1>20 DEF vars
<1>21. ASSUME NEW r \in Reqs, StudentStep(r) PROVE TypeOK'
  BY <1>1, <1>2, <1>3, <1>21 DEF StudentStep
<1>22. ASSUME NEW r \in Reqs, StaffStep(r) PROVE TypeOK'
  BY <1>4, <1>5, <1>6, <1>8, <1>9, <1>18, <1>22 DEF StaffStep
<1>23. ASSUME NEW r \in Reqs, TxStep(r) PROVE TypeOK'
  BY <1>7, <1>10, <1>12, <1>13, <1>14, <1>15, <1>16, <1>17, <1>23
     DEF TxStep, CommitSubmit, CommitAppeal, Ready
<1> QED BY <1>19, <1>20, <1>21, <1>22, <1>23 DEF Next
-----------------------------------------------------------------------------
(* The inductive invariant.                                                *)

LEMMA InvInit == Init => IInv
<1> SUFFICES ASSUME Init PROVE IInv
  OBVIOUS
<1>1. Landed = {}
  BY DEF Init, Landed
<1>2. \A i \in Ids : log[i].kind = "none"
  BY DEF Init, NoEvent
<1>3. \A r \in Reqs : req[r].pc = "idle"
  BY DEF Init, Idle
<1>4. IdsFresh
  BY <1>1, <1>3 DEF IdsFresh
<1>5. RowBacked
  BY <1>2 DEF Init, NewThread, RowBacked, VerdictBacked, PendingHasAttempt,
              PointersResolve, Verdicts, AttemptKinds
<1>6. LogWellFormed
  BY <1>1, <1>2 DEF LogWellFormed, ReferencesResolve
<1> QED BY <1>3, <1>4, <1>5, <1>6, TypeInit DEF IInv, IsIdle

\* A step that commits nothing keeps the invariant if the one plan it makes is
\* sound, and if the id it takes is the sequence's next.
LEMMA QuietStep ==
  ASSUME IInv, TypeOK', NEW r \in Reqs,
         log' = log,
         thread'.status = thread.status,
         thread'.attempt = thread.attempt,
         thread'.grade = thread.grade,
         nextId' >= nextId,
         \A s \in Reqs \ {r} : req'[s] = req[s] /\ (rowLock = s => rowLock' = s),
         req'[r].pc = "appended" =>
           nextId \in Ids /\ req'[r].id = nextId /\ nextId' = nextId + 1,
         req'[r].pc # "idle" => PlanSound(r)' /\ ImportLocks(r)'
  PROVE  IInv'
<1>1. /\ TypeOK /\ IdsFresh /\ RowBacked /\ LogWellFormed
      /\ \A s \in Reqs : ~IsIdle(s) => PlanSound(s) /\ ImportLocks(s)
  BY DEF IInv
<1>2. IdsFresh'
  <2>1. nextId \in Nat /\ nextId' \in Nat
    BY <1>1 DEF TypeOK
  <2>2. \A i \in Landed' : i < nextId'
    <3>1. Landed' = Landed /\ Landed \subseteq Nat
      BY DEF Landed, Ids
    <3> QED BY <1>1, <2>1, <3>1 DEF IdsFresh
  <2>3. nextId \in Ids => log[nextId] = NoEvent
    BY <1>1, <2>1 DEF IdsFresh, Landed
  <2>4. ASSUME NEW s \in Reqs, req'[s].pc = "appended"
        PROVE  /\ req'[s].id \in Ids /\ req'[s].id < nextId' /\ log'[req'[s].id] = NoEvent
               /\ s # r => req'[s].id < nextId
    BY <1>1, <2>1, <2>3, <2>4 DEF IdsFresh, Ids
  <2>5. ASSUME NEW s \in Reqs, NEW t \in Reqs,
               req'[s].pc = "appended", req'[t].pc = "appended",
               req'[s].id = req'[t].id
        PROVE  s = t
    <3>1. CASE s = r /\ t # r
      BY <2>1, <2>4, <2>5, <3>1
    <3>2. CASE s # r /\ t = r
      BY <2>1, <2>4, <2>5, <3>2
    <3>3. CASE s # r /\ t # r
      BY <1>1, <2>5, <3>3 DEF IdsFresh
    <3> QED BY <3>1, <3>2, <3>3
  <2> QED BY <2>2, <2>4, <2>5 DEF IdsFresh
<1>3. RowBacked'
  BY <1>1 DEF RowBacked, VerdictBacked, PendingHasAttempt, PointersResolve
<1>4. LogWellFormed'
  BY <1>1 DEF LogWellFormed, ReferencesResolve, RefersTo, Landed
<1>5. ASSUME NEW s \in Reqs, ~IsIdle(s)' PROVE PlanSound(s)' /\ ImportLocks(s)'
  <2>1. CASE s = r
    BY <1>5, <2>1 DEF IsIdle
  <2>2. CASE s # r
    BY <1>1, <1>5, <2>2 DEF IsIdle, PlanSound, PlanRefers, ImportLocks
  <2> QED BY <2>1, <2>2
<1> QED BY <1>2, <1>3, <1>4, <1>5 DEF IInv

\* A commit keeps the invariant if it leaves the row backed by the new log and
\* does not lose an attempt.
LEMMA LandStep ==
  ASSUME IInv, TypeOK', NEW r \in Reqs, NEW row, Land(r, row),
         req[r].pc = "appended", RowFree(r),
         thread.attempt # None => thread'.attempt # None,
         VerdictBacked', PendingHasAttempt', PointersResolve'
  PROVE  IInv'
<1> DEFINE i == req[r].id
           e == req[r].ev
<1>1. /\ TypeOK /\ IdsFresh /\ RowBacked /\ LogWellFormed
      /\ \A s \in Reqs : ~IsIdle(s) => PlanSound(s) /\ ImportLocks(s)
  BY DEF IInv
<1>2. /\ i \in Ids /\ i < nextId /\ log[i] = NoEvent
      /\ log' = [log EXCEPT ![i] = e]
      /\ nextId' = nextId /\ rowLock' = Null
  BY <1>1 DEF IdsFresh, Land
<1>3. /\ log'[i] = e
      /\ \A j \in Ids \ {i} : log'[j] = log[j]
      /\ log[i].kind = "none"
  BY <1>1, <1>2 DEF TypeOK, NoEvent
<1>4. /\ req'[r].pc = "idle"
      /\ \A s \in Reqs \ {r} : req'[s] = req[s]
  BY <1>1 DEF Land, Finish, Idle, TypeOK
<1>5. PlanSound(r)
  BY <1>1 DEF IsIdle
<1>6. i # None /\ None \notin Ids
  BY <1>2 DEF Ids, None
<1>7. Landed' \subseteq Landed \cup {i}
  BY <1>3 DEF Landed
<1>8. IdsFresh'
  <2>1. \A j \in Landed' : j < nextId'
    BY <1>1, <1>2, <1>7 DEF IdsFresh
  <2>2. ASSUME NEW s \in Reqs, req'[s].pc = "appended"
        PROVE  s # r /\ req[s].pc = "appended" /\ req'[s].id = req[s].id /\ req[s].id # i
    BY <1>1, <1>4, <2>2 DEF IdsFresh
  <2> QED BY <1>1, <1>2, <1>3, <2>1, <2>2 DEF IdsFresh
<1>9. RowBacked'
  BY <1>1, <1>3, <1>5 DEF RowBacked, PlanSound
<1> HIDE DEF i, e
<1>10. ASSUME NEW k \in Ids \cup {None}, NEW kinds, "none" \notin kinds,
              k # None, log[k].kind \in kinds
       PROVE  k \in Ids /\ log'[k] = log[k]
  BY <1>3, <1>10
<1>11. ASSUME NEW j \in Ids \ {i}, NEW kinds, "none" \notin kinds, RefersTo(j, kinds)
       PROVE  RefersTo(j, kinds)' /\ log'[log[j].refers] = log[log[j].refers]
  <2>1. log[j].refers \in Ids \cup {None}
    BY <1>1 DEF TypeOK, Event
  <2> QED BY <1>3, <1>10, <1>11, <2>1 DEF RefersTo
<1>12. ASSUME NEW j \in Ids, j = i,
              NEW kinds, "none" \notin kinds, PlanRefers(r, kinds)
       PROVE  RefersTo(j, kinds)' /\ log'[e.refers] = log[e.refers]
  <2>1. e.refers \in Ids \cup {None}
    BY <1>1 DEF TypeOK, Request, Event, e
  <2>2. e.refers # None /\ log[e.refers].kind \in kinds /\ e.refers < i
    BY <1>12 DEF PlanRefers, e, i
  <2> QED BY <1>3, <1>10, <1>12, <2>1, <2>2 DEF RefersTo
<1>13. LogWellFormed'
  <2>1. ASSUME NEW j \in Ids, log'[j].kind = "appealed"
        PROVE  RefersTo(j, {"graded"})' /\ log'[log'[j].refers].verdict = "rejected"
    <3>1. CASE j = i
      BY <1>2, <1>3, <1>5, <1>12, <2>1, <3>1 DEF PlanSound, e
    <3>2. CASE j # i
      BY <1>1, <1>3, <1>11, <2>1, <3>2
         DEF LogWellFormed, ReferencesResolve, Landed, NoEvent
    <3> QED BY <3>1, <3>2
  <2>2. ASSUME NEW j \in Ids, log'[j].kind = "graded"
        PROVE  RefersTo(j, AttemptKinds)'
    <3>1. CASE j = i
      BY <1>2, <1>3, <1>5, <1>12, <2>2, <3>1 DEF PlanSound, e, AttemptKinds
    <3>2. CASE j # i
      BY <1>1, <1>3, <1>11, <2>2, <3>2
         DEF LogWellFormed, ReferencesResolve, Landed, NoEvent, AttemptKinds
    <3> QED BY <3>1, <3>2
  <2>3. ASSUME NEW j \in Ids, log'[j].kind = "retracted"
        PROVE  RefersTo(j, {"graded"})'
    <3>1. CASE j = i
      BY <1>2, <1>3, <1>5, <1>12, <2>3, <3>1 DEF PlanSound, e
    <3>2. CASE j # i
      BY <1>1, <1>3, <1>11, <2>3, <3>2
         DEF LogWellFormed, ReferencesResolve, Landed, NoEvent
    <3> QED BY <3>1, <3>2
  <2>4. ASSUME NEW j \in Ids, log'[j].kind = "offline_retracted"
        PROVE  RefersTo(j, {"accepted_offline"})'
    <3>1. CASE j = i
      BY <1>2, <1>3, <1>5, <1>12, <2>4, <3>1 DEF PlanSound, e
    <3>2. CASE j # i
      BY <1>1, <1>3, <1>11, <2>4, <3>2
         DEF LogWellFormed, ReferencesResolve, Landed, NoEvent
    <3> QED BY <3>1, <3>2
  <2>5. ASSUME NEW j \in Ids
        PROVE  /\ log'[j].kind \in {"submitted", "accepted_offline"}
                    => log'[j].refers = None
               /\ log'[j].kind = "accepted_offline" => log'[j].verdict = "accepted"
    <3>1. CASE j = i
      BY <1>3, <1>5, <3>1 DEF PlanSound, e
    <3>2. CASE j # i
      BY <1>1, <1>3, <3>2 DEF LogWellFormed, ReferencesResolve, Landed, NoEvent
    <3> QED BY <3>1, <3>2
  <2> QED BY <2>1, <2>2, <2>3, <2>4, <2>5
          DEF LogWellFormed, ReferencesResolve, Landed
<1>14. ASSUME NEW s \in Reqs, ~IsIdle(s)' PROVE PlanSound(s)' /\ ImportLocks(s)'
  <2>1. s # r /\ req'[s] = req[s] /\ PlanSound(s) /\ ImportLocks(s)
    BY <1>1, <1>4, <1>14 DEF IsIdle
  <2>2. ~req[s].ev.sheet
    BY <2>1, ConstantsOK DEF ImportLocks, RowFree
  <2>3. req[s].ev.refers \in Ids \cup {None}
    BY <1>1 DEF TypeOK, Request, Event
  <2>4. ASSUME NEW kinds, "none" \notin kinds, PlanRefers(s, kinds)
        PROVE  PlanRefers(s, kinds)' /\ log'[req[s].ev.refers] = log[req[s].ev.refers]
    BY <1>10, <2>1, <2>3, <2>4 DEF PlanRefers
  <2>5. PlanSound(s)'
    BY <2>1, <2>4 DEF PlanSound, AttemptKinds
  <2> QED BY <2>1, <2>2, <2>5 DEF ImportLocks
<1> QED BY <1>8, <1>9, <1>13, <1>14 DEF IInv

\* Each action makes a sound plan, carries one on, or lands one.
LEMMA InvStep == IInv /\ [Next]_vars => IInv'
<1> SUFFICES ASSUME IInv, [Next]_vars PROVE IInv'
  OBVIOUS
<1>1. /\ TypeOK /\ IdsFresh /\ RowBacked /\ LogWellFormed
      /\ \A s \in Reqs : ~IsIdle(s) => PlanSound(s) /\ ImportLocks(s)
  BY DEF IInv
<1>2. TypeOK'
  BY <1>1, TypeStep
<1>3. /\ thread \in Thread /\ thread' \in Thread
      /\ nextId \in Nat /\ nextId' \in Nat
      /\ req \in [Reqs -> Request] /\ log \in [Ids -> Event]
  BY <1>1, <1>2 DEF TypeOK
<1>4. thread.attempt # None =>
        thread.attempt \in Ids /\ log[thread.attempt].kind \in AttemptKinds
  BY <1>1, <1>3 DEF RowBacked, PointersResolve, Thread
<1>5. thread.grade # None =>
        thread.grade \in Ids /\ log[thread.grade].kind \in GradeKinds
  BY <1>1, <1>3 DEF RowBacked, PointersResolve, Thread
<1>6. ASSUME NEW r \in Reqs, req'[r] = req[r], IsIdle(r),
             log' = log, nextId' = nextId, rowLock' = rowLock, req' = req,
             thread'.status = thread.status, thread'.attempt = thread.attempt,
             thread'.grade = thread.grade
      PROVE  IInv'
  BY <1>2, <1>3, <1>6, QuietStep DEF IsIdle
<1>7. ASSUME NEW r \in Reqs, NEW pc \in {"loaded", "checked"}, NEW kind \in Kinds,
             NEW actor, NEW uuid, NEW verdict, NEW refers, NEW back, NEW credit,
             Plan(r, pc, kind, actor, uuid, verdict, refers, back, credit),
             log' = log, nextId' = nextId, rowLock' = rowLock,
             thread'.status = thread.status, thread'.attempt = thread.attempt,
             thread'.grade = thread.grade,
             PlanSound(r)'
      PROVE  IInv'
  <2>1. /\ req'[r].pc = pc /\ req'[r].ev.sheet = FALSE
        /\ \A s \in Reqs \ {r} : req'[s] = req[s]
    BY <1>3, <1>7 DEF Plan
  <2> QED BY <1>2, <1>3, <1>7, <2>1, QuietStep DEF ImportLocks
<1>8. ASSUME NEW r \in Reqs, Finish(r),
             log' = log, nextId' \in {nextId, nextId + 1},
             rowLock' = rowLock \/ (rowLock = r /\ rowLock' = Null),
             thread' = thread
      PROVE  IInv'
  <2>1. req'[r].pc = "idle" /\ \A s \in Reqs \ {r} : req'[s] = req[s]
    BY <1>3, <1>8 DEF Finish, Idle
  <2> QED BY <1>2, <1>3, <1>8, <2>1, QuietStep
<1>11. ASSUME NEW r \in Reqs, IssueStudentUploadURLs(r) PROVE IInv'
  <2>1. /\ thread'.status = thread.status /\ thread'.attempt = thread.attempt
        /\ thread'.grade = thread.grade
    BY <1>3, <1>11 DEF IssueStudentUploadURLs, FindOrCreateThread, Thread
  <2> QED BY <1>6, <1>11, <2>1 DEF IssueStudentUploadURLs
<1>12. ASSUME NEW r \in Reqs, NEW uuid \in Uuids \cup {Null},
              NEW sp \in SubproblemContexts, SubmitAttempt(r, uuid, sp)
       PROVE  IInv'
  <2>1. /\ thread'.status = thread.status /\ thread'.attempt = thread.attempt
        /\ thread'.grade = thread.grade
    BY <1>3, <1>12 DEF SubmitAttempt, FindOrCreateThread, Thread
  <2>2. Plan(r, "checked", "submitted", Student, uuid, "none", None, "ungraded", Null)
    BY <1>12 DEF SubmitAttempt
  <2>3. PlanSound(r)'
    BY <1>3, <2>2 DEF Plan, PlanSound, Kinds, AttemptKinds
  <2> QED BY <1>7, <1>12, <2>1, <2>2, <2>3 DEF SubmitAttempt, Kinds, AttemptKinds
<1>13. ASSUME NEW r \in Reqs, NEW uuid \in Uuids \cup {Null}, AppealGrade(r, uuid)
       PROVE  IInv'
  <2>1. /\ thread.grade \in Ids /\ thread.grade # None
        /\ log[thread.grade].verdict = "rejected"
    BY <1>1, <1>5, <1>13 DEF AppealGrade, RowBacked, VerdictBacked, Verdicts
  <2>2. log[thread.grade].kind = "graded"
    BY <1>1, <1>5, <2>1 DEF LogWellFormed, GradeKinds
  <2>3. /\ Plan(r, "checked", "appealed", Student, uuid, "none", thread.grade,
                "ungraded", Null)
        /\ thread' = thread /\ log' = log
    BY <1>13 DEF AppealGrade
  <2>4. PlanSound(r)'
    BY <1>3, <2>1, <2>2, <2>3 DEF Plan, PlanSound, PlanRefers, Kinds, AttemptKinds
  <2> QED BY <1>7, <1>13, <2>3, <2>4 DEF AppealGrade, Kinds, AttemptKinds
<1>14. ASSUME NEW r \in Reqs, NEW g \in Staff,
              Claim(r, g) \/ Heartbeat(r, g) \/ Release(r, g)
       PROVE  IInv'
  <2>1. /\ thread'.status = thread.status /\ thread'.attempt = thread.attempt
        /\ thread'.grade = thread.grade
    BY <1>3, <1>14 DEF Claim, Heartbeat, Release, Thread
  <2> QED BY <1>6, <1>14, <2>1 DEF Claim, Heartbeat, Release
<1>15. ASSUME NEW r \in Reqs, NEW g \in Staff, NEW uuid \in Uuids \cup {Null},
              NEW verdict \in Verdicts, Grade(r, g, uuid, verdict)
       PROVE  IInv'
  <2>1. thread.status \in {"submitted", "appealed"}
    BY <1>3, <1>15 DEF Grade, CanTransition, LegalKinds, Thread, Statuses, Verdicts
  <2>2. /\ thread.attempt \in Ids /\ thread.attempt # None
        /\ log[thread.attempt].kind \in AttemptKinds
    BY <1>1, <1>4, <2>1 DEF RowBacked, PendingHasAttempt, AttemptKinds
  <2>3. /\ Plan(r, "checked", "graded", g, uuid, verdict, thread.attempt,
                "ungraded", Null)
        /\ thread' = thread /\ log' = log
    BY <1>15 DEF Grade
  <2>4. PlanSound(r)'
    BY <1>3, <2>2, <2>3 DEF Plan, PlanSound, PlanRefers, Kinds, GradeKinds
  <2> QED BY <1>7, <1>15, <2>3, <2>4 DEF Grade, Kinds, GradeKinds
<1>16. ASSUME NEW r \in Reqs, NEW g \in Staff, Retract(r, g) PROVE IInv'
  <2>1. RollbackStatus \in AttemptKinds
    BY DEF RollbackStatus, AttemptKinds
  <2>2. /\ Plan(r, "loaded", "retracted", g, Null, "none", None,
                RollbackStatus, Null)
        /\ thread' = thread
    BY <1>16 DEF Retract
  <2>3. PlanSound(r)'
    BY <1>3, <2>1, <2>2 DEF Plan, PlanSound, Kinds
  <2> QED BY <1>7, <1>16, <2>2, <2>3 DEF Retract, Kinds
<1>17. ASSUME NEW r \in Reqs, FindGradedEvent(r) PROVE IInv'
  <2>1. CASE GradedIds = {}
    BY <1>8, <1>17, <2>1 DEF FindGradedEvent
  <2>2. CASE GradedIds # {}
    <3>1. PICK i \in GradedIds :
            req' = [req EXCEPT ![r].pc = "checked", ![r].ev.refers = i]
      BY <1>17, <2>2 DEF FindGradedEvent
    <3>2. i \in Ids /\ i # None /\ log[i].kind = "graded"
      BY DEF GradedIds, Landed, Ids, None
    <3>3. /\ req[r].ev.kind = "retracted" /\ ~req[r].ev.sheet
          /\ req[r].back \in AttemptKinds
      BY <1>1, <1>17 DEF FindGradedEvent, IsIdle, PlanSound, ImportLocks
    <3>4. req[r] \in Request /\ req[r].ev \in Event
      BY <1>3 DEF Request
    <3>5. /\ req'[r].pc = "checked" /\ req'[r].ev.refers = i
          /\ req'[r].ev.kind = "retracted" /\ ~req'[r].ev.sheet
          /\ req'[r].back = req[r].back
          /\ \A s \in Reqs \ {r} : req'[s] = req[s]
      BY <1>3, <3>1, <3>3, <3>4 DEF Request, Event
    <3>6. PlanSound(r)' /\ ImportLocks(r)'
      BY <1>17, <3>2, <3>3, <3>5
         DEF FindGradedEvent, PlanSound, PlanRefers, ImportLocks, Kinds
    <3> QED BY <1>2, <1>3, <1>17, <3>5, <3>6, QuietStep DEF FindGradedEvent
  <2> QED BY <2>1, <2>2
<1>18. ASSUME NEW r \in Reqs, NEW g \in Staff, NEW credit \in Teachers \cup {g, Null},
              OfflineAccept(r, g, credit)
       PROVE  IInv'
  <2>1. /\ thread'.status = thread.status /\ thread'.attempt = thread.attempt
        /\ thread'.grade = thread.grade
    BY <1>3, <1>18 DEF OfflineAccept, FindOrCreateThread, Thread
  <2>2. Plan(r, "checked", "accepted_offline", g, Null, "accepted", None,
             "ungraded", credit)
    BY <1>18 DEF OfflineAccept
  <2>3. PlanSound(r)'
    BY <1>3, <2>2 DEF Plan, PlanSound, Kinds, GradeKinds
  <2> QED BY <1>7, <1>18, <2>1, <2>2, <2>3 DEF OfflineAccept, Kinds, GradeKinds
<1>19. ASSUME NEW r \in Reqs, NEW g \in Staff, OfflineUndo(r, g) PROVE IInv'
  <2>1. /\ thread.grade \in Ids /\ thread.grade # None
        /\ log[thread.grade].kind = "accepted_offline"
    BY <1>5, <1>19 DEF OfflineUndo, IsOffline, GradeKinds, OfflineKinds
  <2>2. /\ OfflineRollbackStatus \in AttemptKinds \cup {"ungraded"}
        /\ OfflineRollbackStatus \in AttemptKinds => thread.attempt # None
    BY DEF OfflineRollbackStatus, RollbackStatus, AttemptKinds
  <2>3. /\ Plan(r, "checked", "offline_retracted", g, Null, "none", thread.grade,
                OfflineRollbackStatus, Null)
        /\ thread' = thread /\ log' = log
    BY <1>19 DEF OfflineUndo
  <2>4. PlanSound(r)'
    BY <1>3, <2>1, <2>2, <2>3 DEF Plan, PlanSound, PlanRefers, Kinds
  <2> QED BY <1>7, <1>19, <2>3, <2>4 DEF OfflineUndo, Kinds
<1>20. ASSUME NEW r \in Reqs, Append(r) PROVE IInv'
  <2>1. CASE Finish(r)
    BY <1>8, <1>20, <2>1 DEF Append
  <2>2. CASE req' = [req EXCEPT ![r].pc = "appended", ![r].began = now,
                                ![r].id = nextId]
    <3>1. nextId \in Ids
      BY <1>1, <1>20, ConstantsOK DEF Append, Ids, TypeOK
    <3>2. PlanSound(r) /\ ImportLocks(r) /\ req[r].pc = "checked"
      BY <1>1, <1>20 DEF Append, IsIdle
    <3>3. /\ req'[r].pc = "appended" /\ req'[r].id = nextId
          /\ req'[r].ev = req[r].ev /\ req'[r].back = req[r].back
          /\ \A s \in Reqs \ {r} : req'[s] = req[s]
      BY <1>3, <2>2 DEF Request
    <3>4. req[r].ev.refers \in Ids \cup {None}
      BY <1>3 DEF Request, Event
    <3>5. ASSUME NEW kinds, "none" \notin kinds, PlanRefers(r, kinds)
          PROVE  PlanRefers(r, kinds)'
      <4>1. req[r].ev.refers \in Landed
        BY <3>4, <3>5 DEF PlanRefers, Landed, NoEvent
      <4>2. req[r].ev.refers < nextId
        BY <1>1, <4>1 DEF IdsFresh
      <4> QED BY <1>20, <3>3, <3>5, <4>2 DEF Append, PlanRefers
    <3>6. PlanSound(r)'
      BY <1>20, <3>2, <3>3, <3>5 DEF Append, PlanSound, AttemptKinds
    <3>7. ImportLocks(r)'
      BY <3>2, <3>3 DEF ImportLocks
    <3> QED BY <1>2, <1>3, <1>20, <3>1, <3>3, <3>6, <3>7, QuietStep DEF Append
  <2> QED BY <1>20, <2>1, <2>2 DEF Append
<1>21. ASSUME NEW r \in Reqs, NEW row, req[r].pc = "appended", RowFree(r), Land(r, row)
       PROVE  /\ PlanSound(r) /\ req[r].id \in Ids /\ req[r].id # None
              /\ log'[req[r].id] = req[r].ev
              /\ \A j \in Ids : log[j].kind # "none" => log'[j] = log[j]
  <2>1. PlanSound(r) /\ req[r].id \in Ids /\ log[req[r].id] = NoEvent
    BY <1>1, <1>21 DEF IsIdle, IdsFresh
  <2> QED BY <1>3, <1>21, <2>1 DEF Land, NoEvent, Ids, None
<1>22. ASSUME NEW r \in Reqs, CommitSubmit(r) \/ CommitAppeal(r) PROVE IInv'
  <2> DEFINE k == req[r].ev.kind
             row == [thread EXCEPT !.status = k, !.attempt = req[r].id]
  <2>1. /\ k \in AttemptKinds /\ req[r].pc = "appended" /\ RowFree(r)
        /\ Land(r, row)
    BY <1>22 DEF CommitSubmit, CommitAppeal, Ready, AttemptKinds
  <2>2. thread'.status = k /\ thread'.attempt = req[r].id /\ thread'.grade = thread.grade
    BY <1>3, <2>1 DEF Land, Thread
  <2>3. VerdictBacked'
    BY <2>1, <2>2 DEF VerdictBacked, Verdicts, AttemptKinds
  <2>4. PendingHasAttempt'
    BY <1>21, <2>1, <2>2 DEF PendingHasAttempt
  <2>5. PointersResolve'
    BY <1>5, <1>21, <2>1, <2>2 DEF PointersResolve, GradeKinds
  <2> QED BY <1>2, <1>21, <2>1, <2>2, <2>3, <2>4, <2>5, LandStep
<1>23. ASSUME NEW r \in Reqs, CommitGrade(r) PROVE IInv'
  <2> DEFINE row == [thread EXCEPT !.status = req[r].ev.verdict, !.grade = req[r].id,
                                   !.lastGrader = req[r].ev.actor,
                                   !.holder = Null, !.expires = None]
  <2>1. /\ req[r].ev.kind = "graded" /\ req[r].pc = "appended" /\ RowFree(r)
        /\ Land(r, row)
    BY <1>23 DEF CommitGrade, Ready
  <2>2. /\ thread'.status = req[r].ev.verdict /\ thread'.grade = req[r].id
        /\ thread'.attempt = thread.attempt
    BY <1>3, <2>1 DEF Land, Thread
  <2>3. thread.attempt # None
    BY <1>21, <2>1 DEF PlanSound
  <2>4. VerdictBacked' /\ PendingHasAttempt'
    BY <1>21, <2>1, <2>2, <2>3 DEF VerdictBacked, PendingHasAttempt
  <2>5. PointersResolve'
    BY <1>4, <1>21, <2>1, <2>2 DEF PointersResolve, GradeKinds, AttemptKinds
  <2> QED BY <1>2, <2>1, <2>2, <2>4, <2>5, LandStep
<1>24. ASSUME NEW r \in Reqs, CommitRetract(r) PROVE IInv'
  <2> DEFINE row == [thread EXCEPT !.status = req[r].back, !.grade = None]
  <2>1. /\ req[r].ev.kind = "retracted" /\ req[r].pc = "appended" /\ RowFree(r)
        /\ Land(r, row)
    BY <1>24 DEF CommitRetract, Ready
  <2>2. /\ thread'.status = req[r].back /\ thread'.grade = None
        /\ thread'.attempt = thread.attempt
    BY <1>3, <2>1 DEF Land, Thread
  <2>3. req[r].back \in AttemptKinds /\ PlanRefers(r, {"graded"})
    BY <1>21, <2>1 DEF PlanSound
  <2>4. thread.attempt # None
    <3>1. req[r].ev.refers \in Ids \cup {None}
      BY <1>3 DEF Request, Event
    <3> QED BY <1>1, <2>3, <3>1 DEF PlanRefers, RowBacked
  <2>5. VerdictBacked' /\ PendingHasAttempt'
    BY <2>2, <2>3, <2>4 DEF VerdictBacked, PendingHasAttempt, Verdicts, AttemptKinds
  <2>6. PointersResolve'
    BY <1>4, <1>21, <2>1, <2>2 DEF PointersResolve, AttemptKinds
  <2> QED BY <1>2, <2>1, <2>2, <2>5, <2>6, LandStep
<1>25. ASSUME NEW r \in Reqs, CommitOfflineAccept(r) PROVE IInv'
  <2> DEFINE row == [thread EXCEPT !.exists = TRUE,
                                   !.status = "accepted", !.grade = req[r].id,
                                   !.lastGrader = req[r].credit, !.named = TRUE,
                                   !.holder = Null, !.expires = None]
  <2>1. /\ req[r].ev.kind = "accepted_offline" /\ req[r].pc = "appended" /\ RowFree(r)
        /\ Land(r, row)
    BY <1>25 DEF CommitOfflineAccept, Ready
  <2>2. /\ thread'.status = "accepted" /\ thread'.grade = req[r].id
        /\ thread'.attempt = thread.attempt
    BY <1>3, <2>1 DEF Land, Thread
  <2>3. req[r].ev.verdict = "accepted"
    BY <1>21, <2>1 DEF PlanSound
  <2>4. VerdictBacked' /\ PendingHasAttempt'
    BY <1>21, <2>1, <2>2, <2>3 DEF VerdictBacked, PendingHasAttempt, AttemptKinds
  <2>5. PointersResolve'
    BY <1>4, <1>21, <2>1, <2>2 DEF PointersResolve, GradeKinds, AttemptKinds
  <2> QED BY <1>2, <2>1, <2>2, <2>4, <2>5, LandStep
<1>26. ASSUME NEW r \in Reqs, CommitOfflineUndo(r) PROVE IInv'
  <2> DEFINE row == [thread EXCEPT !.status = req[r].back, !.grade = None,
                                   !.named = FALSE]
  <2>1. /\ req[r].ev.kind = "offline_retracted" /\ req[r].pc = "appended"
        /\ RowFree(r) /\ Land(r, row)
    BY <1>26 DEF CommitOfflineUndo, Ready
  <2>2. /\ thread'.status = req[r].back /\ thread'.grade = None
        /\ thread'.attempt = thread.attempt
    BY <1>3, <2>1 DEF Land, Thread
  <2>3. /\ req[r].back \in AttemptKinds \cup {"ungraded"}
        /\ req[r].back \in AttemptKinds => thread.attempt # None
    BY <1>21, <2>1 DEF PlanSound
  <2>4. VerdictBacked' /\ PendingHasAttempt'
    BY <2>2, <2>3 DEF VerdictBacked, PendingHasAttempt, Verdicts, AttemptKinds
  <2>5. PointersResolve'
    BY <1>4, <1>21, <2>1, <2>2 DEF PointersResolve, AttemptKinds
  <2> QED BY <1>2, <2>1, <2>2, <2>4, <2>5, LandStep
<1>27. ASSUME NEW r \in Reqs, GradeContention(r) \/ Abort(r) PROVE IInv'
  BY <1>8, <1>27 DEF GradeContention, Abort
<1>28. ASSUME NEW r \in Reqs, NEW g \in Staff, ImportMarker(r, g) PROVE IInv'
  <2>1. nextId \in Ids
    BY <1>1, <1>28, ConstantsOK DEF ImportMarker, Ids, TypeOK
  <2>2. /\ req'[r].pc = "appended" /\ req'[r].id = nextId
        /\ req'[r].ev.kind = "accepted_offline" /\ req'[r].ev.refers = None
        /\ req'[r].ev.verdict = "accepted"
        /\ \A s \in Reqs \ {r} : req'[s] = req[s]
    BY <1>3, <1>28 DEF ImportMarker
  <2>3. PlanSound(r)' /\ ImportLocks(r)'
    BY <1>28, <2>2 DEF ImportMarker, PlanSound, ImportLocks, Kinds, GradeKinds
  <2> QED BY <1>2, <1>3, <1>28, <2>1, <2>2, <2>3, ConstantsOK, QuietStep
          DEF ImportMarker
<1>29. CASE UNCHANGED <<thread, log, nextId, req, rowLock>>
  BY <1>1, <1>2, <1>29
     DEF IInv, IdsFresh, Landed, RowBacked, VerdictBacked, PendingHasAttempt,
         PointersResolve, LogWellFormed, ReferencesResolve, RefersTo, IsIdle,
         PlanSound, PlanRefers, ImportLocks
<1>30. ASSUME NEW r \in Reqs, StudentStep(r) PROVE IInv'
  BY <1>11, <1>12, <1>13, <1>30 DEF StudentStep
<1>31. ASSUME NEW r \in Reqs, StaffStep(r) PROVE IInv'
  BY <1>14, <1>15, <1>16, <1>18, <1>19, <1>28, <1>31 DEF StaffStep
<1>32. ASSUME NEW r \in Reqs, TxStep(r) PROVE IInv'
  BY <1>17, <1>20, <1>22, <1>23, <1>24, <1>25, <1>26, <1>27, <1>32 DEF TxStep
<1> QED BY <1>29, <1>30, <1>31, <1>32 DEF Next, Tick, vars
-----------------------------------------------------------------------------
(* Theorems.                                                               *)

\* What every request in flight relies on is never invalidated by another.
THEOREM PlansStaySound == Spec => []IInv
<1>1. Init => IInv
  BY InvInit
<1>2. IInv /\ [Next]_vars => IInv'
  BY InvStep
<1> QED BY <1>1, <1>2, PTL DEF Spec

\* The row, the log and the requests keep their types.
THEOREM TypeCorrect == Spec => []TypeOK
<1>1. IInv => TypeOK
  BY DEF IInv
<1> QED BY <1>1, PlansStaySound, PTL

\* No interleaving of grades, retractions and offline marks leaves a verdict
\* in the row without the event that gave it (the UPDATEs of
\* queries/homework.sql, none of which re-checks the status).
THEOREM VerdictsAreBacked == Spec => []VerdictBacked
<1>1. IInv => VerdictBacked
  BY DEF IInv, RowBacked
<1> QED BY <1>1, PlansStaySound, PTL

\* rollbackStatus never puts a thread without an attempt into the queue.
THEOREM PendingThreadsHaveAttempts == Spec => []PendingHasAttempt
<1>1. IInv => PendingHasAttempt
  BY DEF IInv, RowBacked
<1> QED BY <1>1, PlansStaySound, PTL

\* refers_to_event_id always names an earlier event of the right kind.
THEOREM TimelineIsCausal == Spec => []ReferencesResolve
<1>1. IInv => ReferencesResolve
  BY DEF IInv, LogWellFormed
<1> QED BY <1>1, PlansStaySound, PTL

\* What one step can do to the log: nothing, or one commit of the event a
\* request had appended.
LEMMA LogStep ==
  ASSUME IInv, [Next]_vars
  PROVE  \/ log' = log
         \/ \E r \in Reqs :
              /\ req[r].pc = "appended" /\ RowFree(r)
              /\ req[r].id \in Ids /\ log[req[r].id] = NoEvent
              /\ log' = [log EXCEPT ![req[r].id] = req[r].ev]
<1>1. ASSUME NEW r \in Reqs, NEW row, NEW kind, Ready(r, kind), Land(r, row)
      PROVE  /\ req[r].pc = "appended" /\ RowFree(r)
             /\ req[r].id \in Ids /\ log[req[r].id] = NoEvent
             /\ log' = [log EXCEPT ![req[r].id] = req[r].ev]
  BY <1>1 DEF Ready, Land, IInv, IdsFresh
<1>2. ASSUME NEW r \in Reqs, StudentStep(r) PROVE log' = log
  BY <1>2 DEF StudentStep, IssueStudentUploadURLs, SubmitAttempt, AppealGrade
<1>3. ASSUME NEW r \in Reqs, StaffStep(r) PROVE log' = log
  BY <1>3 DEF StaffStep, Claim, Heartbeat, Release, Grade, Retract,
              OfflineAccept, OfflineUndo, ImportMarker
<1>4. ASSUME NEW r \in Reqs,
             FindGradedEvent(r) \/ Append(r) \/ GradeContention(r) \/ Abort(r)
      PROVE  log' = log
  BY <1>4 DEF FindGradedEvent, Append, GradeContention, Abort
<1>5. ASSUME NEW r \in Reqs,
             \/ CommitSubmit(r) \/ CommitAppeal(r) \/ CommitGrade(r)
             \/ CommitRetract(r) \/ CommitOfflineAccept(r) \/ CommitOfflineUndo(r)
      PROVE  \E s \in Reqs :
               /\ req[s].pc = "appended" /\ RowFree(s)
               /\ req[s].id \in Ids /\ log[req[s].id] = NoEvent
               /\ log' = [log EXCEPT ![req[s].id] = req[s].ev]
  <2>1. PICK kind, row : Ready(r, kind) /\ Land(r, row)
    BY <1>5 DEF CommitSubmit, CommitAppeal, CommitGrade, CommitRetract,
                CommitOfflineAccept, CommitOfflineUndo, Kinds, AttemptKinds, GradeKinds
  <2> QED BY <1>1, <2>1
<1>6. CASE Tick \/ UNCHANGED vars
  BY <1>6 DEF Tick, vars
<1> QED BY <1>2, <1>3, <1>4, <1>5, <1>6 DEF Next, TxStep

\* A committed event is never lost, changed or overwritten: the sequence's ids
\* keep concurrent appends apart.
THEOREM LogIsAppendOnly == Spec => EventsImmutable
<1>1. ASSUME IInv, [Next]_vars PROVE \A i \in Landed : log'[i] = log[i]
  BY <1>1, LogStep DEF Landed, IInv, TypeOK
<1>2. IInv /\ [Next]_vars => [\A i \in Landed : log'[i] = log[i]]_vars
  BY <1>1
<1> QED BY <1>2, PlansStaySound, PTL DEF Spec, EventsImmutable

\* importLink's transaction keeps the lock FindOrCreateThread took, so the
\* status it checked is the status it overwrites.
THEOREM ImportsNeverOverwrite == Spec => ImportNeverOverwrites
<1> DEFINE A == \A i \in Ids : Lands(i) /\ log'[i].sheet => thread.status = "ungraded"
<1>1. ASSUME IInv, [Next]_vars PROVE A
  <2> SUFFICES ASSUME NEW i \in Ids, Lands(i), log'[i].sheet
               PROVE  thread.status = "ungraded"
    OBVIOUS
  <2>1. PICK r \in Reqs : req[r].pc = "appended" /\ log'[i] = req[r].ev
    BY <1>1, LogStep DEF Lands, IInv, TypeOK
  <2> QED BY <1>1, <2>1 DEF IInv, IsIdle, ImportLocks
<1>2. IInv /\ [Next]_vars => [A]_vars
  BY <1>1
<1> QED BY <1>2, PlansStaySound, PTL DEF Spec, ImportNeverOverwrites
-----------------------------------------------------------------------------
(* Re-sent requests.                                                       *)

\* No open transaction has inserted an event_uuid that is committed already or
\* that another open transaction has inserted.
UuidsReserved ==
  \A r \in Reqs : req[r].pc = "appended" /\ req[r].ev.uuid # Null =>
    /\ \A i \in Landed : log[i].uuid # req[r].ev.uuid
    /\ \A s \in Reqs : req[s].pc = "appended" /\ req[s].ev.uuid = req[r].ev.uuid
         => s = r

UuidInv == IInv /\ UuidOnce /\ UuidsReserved

\* A step that commits nothing and inserts no uuid.
LEMMA UuidQuiet ==
  ASSUME UuidInv, log' = log,
         \A r \in Reqs : req'[r].pc = "appended" =>
           \/ req'[r] = req[r]
           \/ req'[r].ev.uuid = Null
  PROVE  UuidOnce' /\ UuidsReserved'
BY DEF UuidInv, UuidOnce, UuidsReserved, Landed

\* The transaction of a request that has inserted its event commits.
LEMMA UuidLand ==
  ASSUME UuidInv, NEW r \in Reqs, NEW row, req[r].pc = "appended", Land(r, row)
  PROVE  UuidOnce' /\ UuidsReserved'
<1>1. /\ req[r].id \in Ids /\ log[req[r].id] = NoEvent
      /\ log \in [Ids -> Event] /\ req \in [Reqs -> Request]
  BY DEF UuidInv, IInv, IdsFresh, TypeOK
<1>2. /\ log'[req[r].id] = req[r].ev
      /\ \A j \in Ids : j # req[r].id => log'[j] = log[j]
      /\ req'[r].pc = "idle"
      /\ \A s \in Reqs : s # r => req'[s] = req[s]
  BY <1>1 DEF Land, Finish, Idle
<1>3. UuidOnce'
  <2> SUFFICES ASSUME NEW i \in Ids, NEW j \in Ids, log'[i] # NoEvent, log'[j] # NoEvent,
                      log'[i].uuid # Null, log'[i].uuid = log'[j].uuid
               PROVE  i = j
    BY DEF UuidOnce, Landed
  <2>1. CASE i # req[r].id /\ j # req[r].id
    BY <1>2, <2>1 DEF UuidInv, UuidOnce, Landed
  <2>2. CASE i = req[r].id /\ j # req[r].id
    BY <1>2, <2>2 DEF UuidInv, UuidsReserved, Landed
  <2>3. CASE i # req[r].id /\ j = req[r].id
    BY <1>2, <2>3 DEF UuidInv, UuidsReserved, Landed
  <2> QED BY <2>1, <2>2, <2>3
<1>4. UuidsReserved'
  <2> SUFFICES ASSUME NEW s \in Reqs, req'[s].pc = "appended", req'[s].ev.uuid # Null
               PROVE  /\ \A i \in Landed' : log'[i].uuid # req'[s].ev.uuid
                      /\ \A t \in Reqs : req'[t].pc = "appended"
                                         /\ req'[t].ev.uuid = req'[s].ev.uuid => t = s
    BY DEF UuidsReserved
  <2>1. s # r /\ req'[s] = req[s]
    BY <1>2
  <2>2. ASSUME NEW i \in Landed' PROVE log'[i].uuid # req'[s].ev.uuid
    <3>1. CASE i = req[r].id
      BY <1>2, <2>1, <3>1 DEF UuidInv, UuidsReserved
    <3>2. CASE i # req[r].id
      BY <1>2, <2>1, <3>2 DEF UuidInv, UuidsReserved, Landed
    <3> QED BY <3>1, <3>2
  <2> QED BY <1>2, <2>1, <2>2 DEF UuidInv, UuidsReserved
<1> QED BY <1>3, <1>4

LEMMA UuidStep == UuidInv /\ [Next]_vars => UuidInv'
<1> SUFFICES ASSUME UuidInv, [Next]_vars PROVE UuidOnce' /\ UuidsReserved'
  BY InvStep DEF UuidInv
<1>1. IInv /\ TypeOK /\ req \in [Reqs -> Request]
  BY DEF UuidInv, IInv, TypeOK
<1>2. ASSUME NEW r \in Reqs, NEW pc \in {"loaded", "checked"}, NEW kind, NEW actor,
             NEW uuid, NEW verdict, NEW refers, NEW back, NEW credit,
             Plan(r, pc, kind, actor, uuid, verdict, refers, back, credit), log' = log
      PROVE  UuidOnce' /\ UuidsReserved'
  <2>1. req'[r].pc # "appended" /\ \A s \in Reqs \ {r} : req'[s] = req[s]
    BY <1>1, <1>2 DEF Plan
  <2> QED BY <1>2, <2>1, UuidQuiet
<1>3. ASSUME NEW r \in Reqs, Finish(r), log' = log
      PROVE  UuidOnce' /\ UuidsReserved'
  <2>1. req'[r].pc # "appended" /\ \A s \in Reqs \ {r} : req'[s] = req[s]
    BY <1>1, <1>3 DEF Finish, Idle
  <2> QED BY <1>3, <2>1, UuidQuiet
<1>4. ASSUME req' = req, log' = log PROVE UuidOnce' /\ UuidsReserved'
  BY <1>4, UuidQuiet
<1>5. ASSUME NEW r \in Reqs, StudentStep(r) PROVE UuidOnce' /\ UuidsReserved'
  BY <1>2, <1>4, <1>5
     DEF StudentStep, IssueStudentUploadURLs, SubmitAttempt, AppealGrade
<1>6. ASSUME NEW r \in Reqs, NEW g \in Staff, ImportMarker(r, g)
      PROVE  UuidOnce' /\ UuidsReserved'
  <2>1. req'[r].ev.uuid = Null /\ \A s \in Reqs \ {r} : req'[s] = req[s]
    BY <1>1, <1>6 DEF ImportMarker
  <2> QED BY <1>6, <2>1, UuidQuiet DEF ImportMarker
<1>7. ASSUME NEW r \in Reqs, StaffStep(r) PROVE UuidOnce' /\ UuidsReserved'
  BY <1>2, <1>4, <1>6, <1>7
     DEF StaffStep, Claim, Heartbeat, Release, Grade, Retract, OfflineAccept, OfflineUndo
<1>8. ASSUME NEW r \in Reqs, FindGradedEvent(r) PROVE UuidOnce' /\ UuidsReserved'
  <2>1. CASE GradedIds = {}
    BY <1>3, <1>8, <2>1 DEF FindGradedEvent
  <2>2. CASE GradedIds # {}
    <3>1. PICK i : req' = [req EXCEPT ![r].pc = "checked", ![r].ev.refers = i]
      BY <1>8, <2>2 DEF FindGradedEvent
    <3>2. req'[r].pc = "checked" /\ \A s \in Reqs \ {r} : req'[s] = req[s]
      BY <1>1, <3>1 DEF Request
    <3> QED BY <1>8, <3>2, UuidQuiet DEF FindGradedEvent
  <2> QED BY <2>1, <2>2
<1>9. ASSUME NEW r \in Reqs, Append(r) PROVE UuidOnce' /\ UuidsReserved'
  <2>1. CASE Finish(r)
    BY <1>3, <1>9, <2>1 DEF Append
  <2>2. CASE /\ req[r].ev.uuid = Null \/ ~UuidTaken(r)
             /\ req' = [req EXCEPT ![r].pc = "appended", ![r].began = now,
                                   ![r].id = nextId]
    <3>1. /\ req'[r].ev = req[r].ev
          /\ \A s \in Reqs : s # r => req'[s] = req[s]
      BY <1>1, <2>2 DEF Request
    <3>2. CASE req[r].ev.uuid = Null
      BY <1>9, <3>1, <3>2, UuidQuiet DEF Append
    <3>3. CASE req[r].ev.uuid # Null
      <4>1. /\ \A i \in Landed : log[i].uuid # req[r].ev.uuid
            /\ \A s \in Reqs : s # r /\ req[s].pc = "appended"
                 => req[s].ev.uuid # req[r].ev.uuid
        BY <1>9, <2>2, <3>3 DEF Append, UuidTaken, UuidPending
      <4>2. UuidOnce'
        BY <1>9 DEF Append, UuidInv, UuidOnce, Landed
      <4>3. UuidsReserved'
        BY <1>9, <3>1, <4>1 DEF Append, UuidInv, UuidsReserved, Landed
      <4> QED BY <4>2, <4>3
    <3> QED BY <3>2, <3>3
  <2> QED BY <1>9, <2>1, <2>2 DEF Append
<1>10. ASSUME NEW r \in Reqs, GradeContention(r) \/ Abort(r)
       PROVE  UuidOnce' /\ UuidsReserved'
  BY <1>3, <1>10 DEF GradeContention, Abort
<1>11. ASSUME NEW r \in Reqs,
              \/ CommitSubmit(r) \/ CommitAppeal(r) \/ CommitGrade(r)
              \/ CommitRetract(r) \/ CommitOfflineAccept(r) \/ CommitOfflineUndo(r)
       PROVE  UuidOnce' /\ UuidsReserved'
  BY <1>11, UuidLand
     DEF CommitSubmit, CommitAppeal, CommitGrade, CommitRetract,
         CommitOfflineAccept, CommitOfflineUndo, Ready
<1>12. CASE Tick \/ UNCHANGED vars
  BY <1>4, <1>12 DEF Tick, vars
<1> QED BY <1>5, <1>7, <1>8, <1>9, <1>10, <1>11, <1>12 DEF Next, TxStep

\* Two copies of a request that carry the same event_uuid land at most once,
\* even when both are past the check and race to insert (the UNIQUE column
\* homework_thread_event.event_uuid).
THEOREM ResendsLandOnce == Spec => []UuidOnce
<1>1. Init => UuidInv
  BY InvInit DEF Init, UuidInv, UuidOnce, UuidsReserved, Landed, Idle
<1>2. UuidInv /\ [Next]_vars => UuidInv'
  BY UuidStep
<1>3. UuidInv => UuidOnce
  BY DEF UuidInv
<1> QED BY <1>1, <1>2, <1>3, PTL DEF Spec
-----------------------------------------------------------------------------
(* The claim.                                                              *)

\* The claim columns implement ClaimLease: no handler and no commit hands a
\* live claim to another grader, and only time, the holder or a verdict ends it.
THEOREM ClaimColumnsAreALease == Spec => ClaimIsLease
<1> DEFINE left == IF thread.holder = Null \/ thread.expires < now
                   THEN -1 ELSE thread.expires - now
           Dropped == thread'.holder = Null /\ now' = now
           Kept == thread'.holder = thread.holder /\ thread'.expires = thread.expires
                   /\ now' = now
<1>1. Init => ClaimSpec!Init
  BY DEF Init, NewThread, ClaimSpec!Init
<1>2. ASSUME TypeOK, [Next]_vars PROVE [ClaimSpec!Next]_(ClaimSpec!vars)
  <2>1. /\ thread \in Thread /\ thread.expires \in Nat /\ now \in Nat
        /\ thread.holder \in Staff \cup {Null}
    BY <1>2 DEF TypeOK, Thread
  <2>2. Lease \in Nat /\ Null \notin Staff
    BY ConstantsOK DEF Users
  <2>3. ASSUME Kept PROVE UNCHANGED ClaimSpec!vars
    BY <2>3 DEF ClaimSpec!vars
  <2>4. ASSUME Dropped PROVE [ClaimSpec!Next]_(ClaimSpec!vars)
    BY <2>4 DEF ClaimSpec!Next, ClaimSpec!vars, ClaimSpec!Drop
  <2>5. ASSUME NEW r \in Reqs, NEW g \in Staff, Claim(r, g) PROVE ClaimSpec!Take(g)
    BY <2>1, <2>2, <2>5 DEF Claim, Thread, ClaimSpec!Take
  <2>6. ASSUME NEW r \in Reqs, NEW g \in Staff, Heartbeat(r, g) PROVE ClaimSpec!Extend(g)
    BY <2>1, <2>2, <2>6 DEF Heartbeat, Thread, ClaimSpec!Extend
  <2>7. ASSUME NEW r \in Reqs, NEW g \in Staff, Release(r, g) PROVE Dropped
    BY <2>1, <2>7 DEF Release, Thread
  <2>8. ASSUME NEW r \in Reqs, StudentStep(r) PROVE Kept
    BY <2>1, <2>8 DEF StudentStep, IssueStudentUploadURLs, SubmitAttempt, AppealGrade,
                      FindOrCreateThread, Thread
  <2>9. ASSUME NEW r \in Reqs, StaffStep(r) PROVE [ClaimSpec!Next]_(ClaimSpec!vars)
    <3>1. PICK g \in Staff :
            \/ Claim(r, g) \/ Heartbeat(r, g) \/ Release(r, g)
            \/ \E uuid \in Uuids \cup {Null}, verdict \in Verdicts :
                 Grade(r, g, uuid, verdict)
            \/ Retract(r, g)
            \/ \E credit \in Teachers \cup {g, Null} : OfflineAccept(r, g, credit)
            \/ OfflineUndo(r, g) \/ ImportMarker(r, g)
      BY <2>9 DEF StaffStep
    <3>2. CASE Claim(r, g) \/ Heartbeat(r, g)
      BY <2>5, <2>6, <3>2 DEF ClaimSpec!Next
    <3>3. CASE Release(r, g)
      BY <2>4, <2>7, <3>3
    <3>4. CASE \/ \E uuid \in Uuids \cup {Null}, verdict \in Verdicts :
                    Grade(r, g, uuid, verdict)
               \/ Retract(r, g)
               \/ \E credit \in Teachers \cup {g, Null} : OfflineAccept(r, g, credit)
               \/ OfflineUndo(r, g) \/ ImportMarker(r, g)
      <4>1. Kept
        BY <2>1, <3>4 DEF Grade, Retract, OfflineAccept, FindOrCreateThread,
                          OfflineUndo, ImportMarker, Thread
      <4> QED BY <2>3, <4>1
    <3> QED BY <3>1, <3>2, <3>3, <3>4
  <2>10. ASSUME NEW r \in Reqs, CommitGrade(r) \/ CommitOfflineAccept(r) PROVE Dropped
    BY <2>1, <2>10 DEF CommitGrade, CommitOfflineAccept, Land, Thread
  <2>11. ASSUME NEW r \in Reqs, TxStep(r), ~CommitGrade(r), ~CommitOfflineAccept(r)
         PROVE  Kept
    BY <2>1, <2>11 DEF TxStep, FindGradedEvent, Append, CommitSubmit, CommitAppeal,
                       GradeContention, CommitRetract, CommitOfflineUndo, Abort,
                       Land, Thread
  <2>12. CASE Tick
    BY <2>1, <2>12 DEF Tick, ClaimSpec!Next, ClaimSpec!vars, ClaimSpec!Pass
  <2>13. CASE UNCHANGED vars
    BY <2>3, <2>13 DEF vars
  <2> QED BY <1>2, <2>3, <2>4, <2>8, <2>9, <2>10, <2>11, <2>12, <2>13 DEF Next
<1> QED BY <1>1, <1>2, TypeCorrect, PTL DEF Spec, ClaimIsLease, ClaimSpec!Spec
-----------------------------------------------------------------------------
(* Requests that take turns.                                               *)

\* No two requests on the thread at the same time.
TakeTurns == \A r, s \in Reqs : r = s

\* What a request checked when it read the thread is still so, and so is the
\* status it is going to restore: nobody else writes in between.
CheckStands(r) ==
  LET kind == req[r].ev.kind IN
  /\ \/ CanTransition(thread.status, kind)
     \/ /\ kind = "accepted_offline"
        /\ thread.grade # None /\ IsOffline(thread.grade)
  /\ kind = "retracted" => req[r].back = RollbackStatus
  /\ kind = "offline_retracted" =>
       /\ req[r].back = OfflineRollbackStatus
       /\ thread.grade # None /\ IsOffline(thread.grade)
  /\ req[r].pc = "appended" => \A i \in Landed : i < req[r].id

\* The row's attempt is the last one on the timeline.
AttemptIsLast ==
  \A i \in Landed : log[i].kind \in AttemptKinds =>
    thread.attempt # None /\ i <= thread.attempt

\* CacheAgreesWithTimeline, with the row's attempt for the last one.
StatusFollowsLast ==
  \A i \in LastLanded :
    /\ log[i].kind \in AttemptKinds => thread.status = log[i].kind
    /\ log[i].kind \in GradeKinds => thread.status = log[i].verdict
    /\ log[i].kind \notin AttemptKinds \cup GradeKinds =>
         IF thread.attempt = None THEN thread.status = "ungraded"
         ELSE thread.status = log[thread.attempt].kind

TurnsInv == /\ IInv /\ AttemptIsLast /\ StatusFollowsLast
            /\ \A r \in Reqs : ~IsIdle(r) => CheckStands(r)

\* A step of the only request in flight that commits nothing.
LEMMA TurnReads ==
  ASSUME TakeTurns, TurnsInv, IInv', NEW r \in Reqs,
         log' = log, thread'.status = thread.status,
         thread'.attempt = thread.attempt, thread'.grade = thread.grade,
         req'[r].pc # "idle" => CheckStands(r)'
  PROVE  TurnsInv'
<1>1. Landed' = Landed /\ LastLanded' = LastLanded
  BY DEF Landed, LastLanded
<1>2. AttemptIsLast' /\ StatusFollowsLast'
  BY <1>1 DEF TurnsInv, AttemptIsLast, StatusFollowsLast
<1>3. \A s \in Reqs : ~IsIdle(s)' => CheckStands(s)'
  BY DEF TakeTurns, IsIdle
<1> QED BY <1>2, <1>3 DEF TurnsInv

\* What a commit does to the timeline: its event is the last.
LEMMA LandsLast ==
  ASSUME TurnsInv, NEW r \in Reqs, NEW row, Land(r, row), req[r].pc = "appended"
  PROVE  /\ req[r].id \in Ids /\ req[r].id \notin Landed
         /\ req[r].ev.kind \in Kinds
         /\ log'[req[r].id] = req[r].ev
         /\ \A j \in Ids : j # req[r].id => log'[j] = log[j]
         /\ Landed' = Landed \cup {req[r].id}
         /\ LastLanded' = {req[r].id}
<1> DEFINE id == req[r].id
<1>1. id \in Ids /\ log[id] = NoEvent /\ log \in [Ids -> Event]
  BY DEF TurnsInv, IInv, IdsFresh, TypeOK
<1>2. req[r].ev.kind \in Kinds /\ \A i \in Landed : i < id
  BY DEF TurnsInv, IInv, PlanSound, CheckStands, IsIdle
<1>3. log' = [log EXCEPT ![id] = req[r].ev]
  BY DEF Land
<1>4. req[r].ev # NoEvent
  BY <1>2 DEF NoEvent, Kinds, AttemptKinds, GradeKinds
<1>5. Landed' = Landed \cup {id}
  BY <1>1, <1>3, <1>4 DEF Landed
<1>6. LastLanded' = {id}
  BY <1>1, <1>2, <1>5 DEF LastLanded, Landed, Ids
<1> QED BY <1>1, <1>2, <1>3, <1>5, <1>6 DEF Landed

\* The commit of the only request in flight.
LEMMA TurnLands ==
  ASSUME TakeTurns, TurnsInv, IInv', NEW r \in Reqs, NEW row, Land(r, row),
         req[r].pc = "appended",
         row.attempt = IF req[r].ev.kind \in AttemptKinds
                       THEN req[r].id ELSE thread.attempt,
         req[r].ev.kind \in AttemptKinds => row.status = req[r].ev.kind,
         req[r].ev.kind \in GradeKinds => row.status = req[r].ev.verdict,
         req[r].ev.kind \notin AttemptKinds \cup GradeKinds =>
           row.status = IF thread.attempt = None THEN "ungraded"
                        ELSE log[thread.attempt].kind
  PROVE  TurnsInv'
<1> DEFINE id == req[r].id
<1>1. /\ id \in Ids /\ id \notin Landed /\ log'[id] = req[r].ev
      /\ \A j \in Ids : j # id => log'[j] = log[j]
      /\ Landed' = Landed \cup {id} /\ LastLanded' = {id}
  BY LandsLast
<1>2. /\ thread' = row /\ req'[r].pc = "idle"
      /\ thread \in Thread /\ \A i \in Landed : i < id
  BY DEF Land, Finish, Idle, TurnsInv, IInv, TypeOK, CheckStands, IsIdle
<1>3. id # None /\ None \notin Ids
  BY <1>1 DEF Ids, None
<1>4. thread.attempt # None => thread.attempt \in Landed
  BY <1>2 DEF TurnsInv, IInv, RowBacked, PointersResolve, Thread, Landed, NoEvent,
              AttemptKinds
<1>5. AttemptIsLast'
  <2> SUFFICES ASSUME NEW i \in Landed', log'[i].kind \in AttemptKinds
               PROVE  row.attempt # None /\ i <= row.attempt
    BY <1>2 DEF AttemptIsLast
  <2>1. CASE req[r].ev.kind \in AttemptKinds
    BY <1>1, <1>2, <1>3, <2>1 DEF Ids, Landed
  <2>2. CASE req[r].ev.kind \notin AttemptKinds
    BY <1>1, <2>2 DEF TurnsInv, AttemptIsLast, Landed
  <2> QED BY <2>1, <2>2
<1>6. StatusFollowsLast'
  <2>1. thread.attempt # None => log'[thread.attempt] = log[thread.attempt]
    BY <1>1, <1>4 DEF Landed
  <2>2. req[r].ev.kind \notin AttemptKinds => row.attempt = thread.attempt
    OBVIOUS
  <2> QED BY <1>1, <1>2, <2>1, <2>2 DEF StatusFollowsLast
<1>7. \A s \in Reqs : IsIdle(s)'
  BY <1>2 DEF TakeTurns, IsIdle
<1> QED BY <1>5, <1>6, <1>7 DEF TurnsInv

\* A retraction in flight has an attempt to go back to: it refers to a grade, and
\* what was graded was an attempt.
LEMMA RetractionHasAttempt ==
  ASSUME TurnsInv, NEW r \in Reqs, Ready(r, "retracted")
  PROVE  /\ thread.attempt # None
         /\ log[thread.attempt].kind \in AttemptKinds
         /\ req[r].back = log[thread.attempt].kind
<1>1. PlanSound(r) /\ CheckStands(r) /\ req[r].pc = "appended"
  BY DEF TurnsInv, IInv, IsIdle, Ready
<1>2. req[r].ev.refers \in Ids /\ log[req[r].ev.refers].kind = "graded"
  BY <1>1 DEF Ready, PlanSound, PlanRefers, TurnsInv, IInv, TypeOK, Request, Event
<1>3. thread.attempt # None /\ log[thread.attempt].kind \in AttemptKinds
  BY <1>2 DEF TurnsInv, IInv, RowBacked, PointersResolve
<1>4. req[r].back = RollbackStatus
  BY <1>1 DEF Ready, CheckStands
<1> QED BY <1>3, <1>4 DEF RollbackStatus, AttemptKinds

LEMMA TurnsStep == TakeTurns /\ TurnsInv /\ [Next]_vars => TurnsInv'
<1> SUFFICES ASSUME TakeTurns, TurnsInv, [Next]_vars PROVE TurnsInv'
  OBVIOUS
<1>1. IInv /\ IInv' /\ thread \in Thread /\ req \in [Reqs -> Request] /\ req' \in [Reqs -> Request]
  BY InvStep DEF TurnsInv, IInv, TypeOK
<1> DEFINE Same == /\ log' = log /\ thread'.status = thread.status
                   /\ thread'.attempt = thread.attempt /\ thread'.grade = thread.grade
<1>2. ASSUME NEW r \in Reqs, Same, req'[r] = req[r], nextId' = nextId PROVE TurnsInv'
  <2>1. Landed' = Landed
    BY <1>2 DEF Landed
  <2>2. req'[r].pc # "idle" => CheckStands(r)'
    BY <1>2, <2>1 DEF TurnsInv, CheckStands, IsIdle, IsOffline, RollbackStatus,
                      OfflineRollbackStatus
  <2> QED BY <1>1, <1>2, <2>2, TurnReads
<1>3. ASSUME NEW r \in Reqs, Same, req'[r].pc = "idle" PROVE TurnsInv'
  BY <1>1, <1>3, TurnReads
<1>4. ASSUME NEW r \in Reqs, StudentStep(r) PROVE TurnsInv'
  <2>1. CASE IssueStudentUploadURLs(r)
    BY <1>1, <1>2, <2>1 DEF IssueStudentUploadURLs, FindOrCreateThread, Thread
  <2>2. ASSUME NEW uuid \in Uuids \cup {Null}, NEW sp \in SubproblemContexts,
               SubmitAttempt(r, uuid, sp)
        PROVE  TurnsInv'
    <3>1. Same
      BY <1>1, <2>2 DEF SubmitAttempt, FindOrCreateThread, Thread
    <3>2. /\ req'[r].ev.kind = "submitted" /\ req'[r].pc = "checked"
          /\ CanTransition(thread.status, "submitted")
      BY <1>1, <2>2 DEF SubmitAttempt, Plan
    <3>3. CheckStands(r)'
      BY <3>1, <3>2 DEF CheckStands
    <3> QED BY <1>1, <3>1, <3>3, TurnReads
  <2>3. ASSUME NEW uuid \in Uuids \cup {Null}, AppealGrade(r, uuid) PROVE TurnsInv'
    <3>1. /\ req'[r].ev.kind = "appealed" /\ req'[r].pc = "checked"
          /\ CanTransition(thread.status, "appealed") /\ Same
      BY <1>1, <2>3 DEF AppealGrade, Plan, CanTransition, LegalKinds
    <3>2. CheckStands(r)'
      BY <3>1 DEF CheckStands
    <3> QED BY <1>1, <3>1, <3>2, TurnReads
  <2> QED BY <1>4, <2>1, <2>2, <2>3 DEF StudentStep
<1>5. ASSUME NEW r \in Reqs, StaffStep(r) PROVE TurnsInv'
  <2>1. PICK g \in Staff :
          \/ Claim(r, g) \/ Heartbeat(r, g) \/ Release(r, g)
          \/ \E uuid \in Uuids \cup {Null}, verdict \in Verdicts : Grade(r, g, uuid, verdict)
          \/ Retract(r, g)
          \/ \E credit \in Teachers \cup {g, Null} : OfflineAccept(r, g, credit)
          \/ OfflineUndo(r, g) \/ ImportMarker(r, g)
    BY <1>5 DEF StaffStep
  <2>2. CASE Claim(r, g) \/ Heartbeat(r, g) \/ Release(r, g)
    BY <1>1, <1>2, <2>2 DEF Claim, Heartbeat, Release, Thread
  <2>3. CASE \E uuid \in Uuids \cup {Null}, verdict \in Verdicts : Grade(r, g, uuid, verdict)
    <3>1. /\ req'[r].ev.kind = "graded" /\ req'[r].pc = "checked"
          /\ CanTransition(thread.status, "graded") /\ Same
      BY <1>1, <2>3 DEF Grade, Plan
    <3>2. CheckStands(r)'
      BY <3>1 DEF CheckStands
    <3> QED BY <1>1, <3>1, <3>2, TurnReads
  <2>4. CASE Retract(r, g)
    <3>1. /\ req'[r].ev.kind = "retracted" /\ req'[r].pc = "loaded"
          /\ req'[r].back = RollbackStatus /\ Same
      BY <1>1, <2>4 DEF Retract, Plan
    <3>2. CanTransition(thread.status, "retracted")
      BY <2>4 DEF Retract, Verdicts, CanTransition, LegalKinds
    <3>3. CheckStands(r)'
      BY <3>1, <3>2 DEF CheckStands, RollbackStatus
    <3> QED BY <1>1, <3>1, <3>3, TurnReads
  <2>5. CASE \E credit \in Teachers \cup {g, Null} : OfflineAccept(r, g, credit)
    <3>1. Same
      BY <1>1, <2>5 DEF OfflineAccept, FindOrCreateThread, Thread
    <3>2. /\ req'[r].ev.kind = "accepted_offline" /\ req'[r].pc = "checked"
          /\ \/ CanTransition(thread.status, "accepted_offline")
             \/ thread.grade # None /\ IsOffline(thread.grade)
      BY <1>1, <2>5 DEF OfflineAccept, Plan
    <3>3. CheckStands(r)'
      BY <3>1, <3>2 DEF CheckStands, IsOffline
    <3> QED BY <1>1, <3>1, <3>3, TurnReads
  <2>6. CASE OfflineUndo(r, g)
    <3>1. /\ req'[r].ev.kind = "offline_retracted" /\ req'[r].pc = "checked"
          /\ req'[r].back = OfflineRollbackStatus /\ Same
          /\ CanTransition(thread.status, "offline_retracted")
          /\ thread.grade # None /\ IsOffline(thread.grade)
      BY <1>1, <2>6 DEF OfflineUndo, Plan
    <3>2. CheckStands(r)'
      BY <3>1 DEF CheckStands, IsOffline, RollbackStatus, OfflineRollbackStatus
    <3> QED BY <1>1, <3>1, <3>2, TurnReads
  <2>7. CASE ImportMarker(r, g)
    <3>1. /\ req'[r].ev.kind = "accepted_offline" /\ req'[r].id = nextId /\ Same
          /\ thread.status = "ungraded"
      BY <1>1, <2>7 DEF ImportMarker
    <3>2. CanTransition(thread.status, "accepted_offline")
      BY <3>1 DEF CanTransition, LegalKinds
    <3>3. \A i \in Landed' : i < req'[r].id
      BY <1>1, <3>1 DEF IInv, IdsFresh, Landed
    <3>4. CheckStands(r)'
      BY <3>1, <3>2, <3>3 DEF CheckStands
    <3> QED BY <1>1, <3>1, <3>4, TurnReads
  <2> QED BY <2>1, <2>2, <2>3, <2>4, <2>5, <2>6, <2>7
<1>6. ASSUME NEW r \in Reqs, FindGradedEvent(r) \/ Append(r) PROVE TurnsInv'
  <2>1. Same
    BY <1>6 DEF FindGradedEvent, Append
  <2>2. CASE req'[r].pc = "idle"
    BY <1>3, <2>1, <2>2
  <2>3. CASE req'[r].pc # "idle"
    <3>1. /\ req[r].pc # "idle" /\ req'[r].ev.kind = req[r].ev.kind
          /\ req'[r].back = req[r].back
          /\ req'[r].pc = "appended" => req'[r].id = nextId
      BY <1>1, <1>6, <2>3 DEF FindGradedEvent, Append, Finish, Idle, Request, Event
    <3>2. \A i \in Landed' : i < nextId
      BY <1>1, <2>1 DEF IInv, IdsFresh, Landed
    <3>3. CheckStands(r)'
      BY <2>1, <3>1, <3>2 DEF TurnsInv, CheckStands, IsIdle, IsOffline, RollbackStatus,
                              OfflineRollbackStatus
    <3> QED BY <1>1, <2>1, <3>3, TurnReads
  <2> QED BY <2>2, <2>3
<1>7. ASSUME NEW r \in Reqs, GradeContention(r) \/ Abort(r) PROVE TurnsInv'
  BY <1>1, <1>3, <1>7 DEF GradeContention, Abort, Finish, Idle
<1>8. ASSUME NEW r \in Reqs, CommitSubmit(r) \/ CommitAppeal(r) PROVE TurnsInv'
  <2>1. PICK kind \in AttemptKinds :
          /\ Ready(r, kind)
          /\ Land(r, [thread EXCEPT !.status = kind, !.attempt = req[r].id])
    BY <1>8 DEF CommitSubmit, CommitAppeal, AttemptKinds
  <2>2. req[r].ev.kind \notin GradeKinds
    BY <2>1 DEF Ready, AttemptKinds, GradeKinds
  <2> DEFINE row == [thread EXCEPT !.status = kind, !.attempt = req[r].id]
  <2>3. row.status = kind /\ row.attempt = req[r].id
    BY <1>1 DEF Thread
  <2> HIDE DEF row
  <2>4. Land(r, row)
    BY <2>1 DEF row
  <2> QED BY <1>1, <2>1, <2>2, <2>3, <2>4, TurnLands DEF Ready
<1>9. ASSUME NEW r \in Reqs, CommitGrade(r) \/ CommitOfflineAccept(r) PROVE TurnsInv'
  <2> DEFINE graded == [thread EXCEPT !.status = req[r].ev.verdict, !.grade = req[r].id,
                                      !.lastGrader = req[r].ev.actor,
                                      !.holder = Null, !.expires = None]
             offline == [thread EXCEPT !.exists = TRUE, !.status = "accepted",
                                       !.grade = req[r].id, !.lastGrader = req[r].credit,
                                       !.named = TRUE, !.holder = Null, !.expires = None]
  <2>1. /\ graded.attempt = thread.attempt /\ graded.status = req[r].ev.verdict
        /\ offline.attempt = thread.attempt /\ offline.status = "accepted"
    BY <1>1 DEF Thread
  <2>2. \/ Land(r, graded)
        \/ Land(r, offline) /\ Ready(r, "accepted_offline")
    BY <1>9 DEF CommitGrade, CommitOfflineAccept
  <2>3. Ready(r, "accepted_offline") => req[r].ev.verdict = "accepted"
    BY <1>1 DEF Ready, IInv, IsIdle, PlanSound
  <2>4. req[r].ev.kind \in GradeKinds /\ req[r].pc = "appended"
    BY <1>9 DEF CommitGrade, CommitOfflineAccept, Ready, GradeKinds
  <2>5. req[r].ev.kind \notin AttemptKinds
    BY <2>4 DEF AttemptKinds, GradeKinds
  <2> HIDE DEF graded, offline
  <2> QED BY <1>1, <2>1, <2>2, <2>3, <2>4, <2>5, TurnLands
<1>10. ASSUME NEW r \in Reqs, CommitRetract(r) \/ CommitOfflineUndo(r) PROVE TurnsInv'
  <2> DEFINE taken  == [thread EXCEPT !.status = req[r].back, !.grade = None]
             undone == [thread EXCEPT !.status = req[r].back, !.grade = None,
                                      !.named = FALSE]
  <2>1. /\ \A row \in {taken, undone} : row.attempt = thread.attempt /\ row.status = req[r].back
        /\ req[r].pc = "appended"
        /\ req[r].ev.kind \in {"retracted", "offline_retracted"}
    BY <1>1, <1>10 DEF CommitRetract, CommitOfflineUndo, Ready, Thread
  <2>2. Land(r, taken) \/ Land(r, undone)
    BY <1>10 DEF CommitRetract, CommitOfflineUndo
  <2> HIDE DEF taken, undone
  <2>3. req[r].ev.kind \notin AttemptKinds /\ req[r].ev.kind \notin GradeKinds
    BY <2>1 DEF AttemptKinds, GradeKinds
  <2>4. req[r].back = IF thread.attempt = None THEN "ungraded" ELSE log[thread.attempt].kind
    <3>1. CASE CommitRetract(r)
      BY <3>1, RetractionHasAttempt DEF CommitRetract
    <3>2. CASE CommitOfflineUndo(r)
      <4>1. req[r].back = OfflineRollbackStatus
        BY <3>2 DEF CommitOfflineUndo, Ready, TurnsInv, CheckStands, IsIdle
      <4>2. thread.attempt # None => log[thread.attempt].kind \in AttemptKinds
        BY <1>1 DEF IInv, RowBacked, PointersResolve
      <4> QED BY <4>1, <4>2 DEF OfflineRollbackStatus, RollbackStatus, AttemptKinds
    <3> QED BY <1>10, <3>1, <3>2
  <2> QED BY <1>1, <2>1, <2>2, <2>3, <2>4, TurnLands
<1>11. CASE Tick \/ UNCHANGED vars
  <2>1. Same /\ req' = req /\ nextId' = nextId
    BY <1>11 DEF Tick, vars
  <2>2. CASE Reqs = {}
    BY <1>1, <2>1, <2>2 DEF TurnsInv, AttemptIsLast, StatusFollowsLast, LastLanded, Landed
  <2> QED BY <1>2, <2>1, <2>2
<1> QED BY <1>4, <1>5, <1>6, <1>7, <1>8, <1>9, <1>10, <1>11 DEF Next, TxStep

LEMMA TurnsInit == Init => TurnsInv
<1> SUFFICES ASSUME Init PROVE TurnsInv
  OBVIOUS
<1>1. Landed = {} /\ LastLanded = {}
  BY DEF Init, Landed, LastLanded
<1>2. \A r \in Reqs : IsIdle(r)
  BY DEF Init, Idle, IsIdle
<1> QED BY <1>1, <1>2, InvInit DEF TurnsInv, AttemptIsLast, StatusFollowsLast

\* The row is a cache of its log: while requests take turns, current_status is what
\* a reader of the timeline derives, from the last event or, when that takes a
\* verdict back, from the last attempt.
THEOREM CacheTellsTimeline == TakeTurns => (Spec => []CacheAgreesWithTimeline)
<1>1. SUFFICES ASSUME TakeTurns PROVE Spec => []CacheAgreesWithTimeline
  OBVIOUS
<1>2. TurnsInv /\ [Next]_vars => TurnsInv'
  BY <1>1, TurnsStep
<1>3. TurnsInv => CacheAgreesWithTimeline
  <2> SUFFICES ASSUME TurnsInv PROVE CacheAgreesWithTimeline
    OBVIOUS
  <2> DEFINE attempts == {i \in Landed : log[i].kind \in AttemptKinds}
             latest   == {k \in attempts : \A j \in attempts : j <= k}
             pending  == {log[i].kind : i \in latest}
  <2>1. thread.attempt \in Ids \cup {None}
    BY DEF TurnsInv, IInv, TypeOK, Thread
  <2>2. thread.attempt = None => pending = {}
    BY DEF TurnsInv, AttemptIsLast
  <2>3. thread.attempt # None => pending = {log[thread.attempt].kind}
    <3> SUFFICES ASSUME thread.attempt # None PROVE latest = {thread.attempt}
      OBVIOUS
    <3>1. thread.attempt \in attempts
      BY <2>1 DEF TurnsInv, IInv, RowBacked, PointersResolve, Landed, NoEvent, AttemptKinds
    <3>2. \A i \in attempts : i <= thread.attempt
      BY DEF TurnsInv, AttemptIsLast
    <3> QED BY <3>1, <3>2 DEF Landed, Ids
  <2> HIDE DEF pending
  <2>4. \A i \in LastLanded :
          CASE log[i].kind \in AttemptKinds -> thread.status = log[i].kind
            [] log[i].kind \in GradeKinds   -> thread.status = log[i].verdict
            [] OTHER -> IF pending = {} THEN thread.status = "ungraded"
                        ELSE thread.status \in pending
    <3> SUFFICES ASSUME NEW i \in LastLanded
                 PROVE  CASE log[i].kind \in AttemptKinds -> thread.status = log[i].kind
                          [] log[i].kind \in GradeKinds   -> thread.status = log[i].verdict
                          [] OTHER -> IF pending = {} THEN thread.status = "ungraded"
                                      ELSE thread.status \in pending
      OBVIOUS
    <3>1. /\ log[i].kind \in AttemptKinds => thread.status = log[i].kind
          /\ log[i].kind \in GradeKinds => thread.status = log[i].verdict
          /\ log[i].kind \notin AttemptKinds \cup GradeKinds =>
               IF thread.attempt = None THEN thread.status = "ungraded"
               ELSE thread.status = log[thread.attempt].kind
      BY DEF TurnsInv, StatusFollowsLast
    <3>2. CASE log[i].kind \in AttemptKinds
      <4>1. log[i].kind \notin GradeKinds
        BY <3>2 DEF AttemptKinds, GradeKinds
      <4> QED BY <3>1, <3>2, <4>1
    <3>3. CASE log[i].kind \in GradeKinds
      <4>1. log[i].kind \notin AttemptKinds
        BY <3>3 DEF AttemptKinds, GradeKinds
      <4> QED BY <3>1, <3>3, <4>1
    <3>4. CASE log[i].kind \notin AttemptKinds \cup GradeKinds
      BY <2>2, <2>3, <3>1, <3>4
    <3> QED BY <3>2, <3>3, <3>4
  <2> QED BY <2>4 DEF CacheAgreesWithTimeline, pending
<1> QED BY TurnsInit, <1>2, <1>3, PTL DEF Spec

\* While requests take turns, a thread lives the life that ThreadLifecycle
\* describes: every commit is one transition that the table allows, or the
\* re-crediting of an offline accept, with the status it goes to; every read,
\* claim, append, failure and tick leaves that life where it is.
THEOREM LifecycleImplemented == TakeTurns => (Spec => FollowsLifecycle)
<1>1. SUFFICES ASSUME TakeTurns PROVE Spec => FollowsLifecycle
  OBVIOUS
<1>2. TurnsInv /\ [Next]_vars => TurnsInv'
  BY <1>1, TurnsStep
<1> DEFINE attempt == IF thread.attempt = None THEN "none" ELSE log[thread.attempt].kind
           source == IF thread.grade = None THEN "none"
                     ELSE IF IsOffline(thread.grade) THEN "offline" ELSE "online"
<1>3. Init => Lifecycle!Init
  BY DEF Init, NewThread, Lifecycle!Init
<1>4. ASSUME TurnsInv, [Next]_vars PROVE [Lifecycle!Next]_(Lifecycle!vars)
  <2>1. /\ thread \in Thread /\ log \in [Ids -> Event]
        /\ thread.attempt # None => thread.attempt \in Landed
        /\ thread.grade # None => thread.grade \in Landed
        /\ thread.attempt # None => log[thread.attempt].kind \in AttemptKinds
    BY <1>4 DEF TurnsInv, IInv, TypeOK, RowBacked, PointersResolve, Thread, Landed, NoEvent,
                AttemptKinds, GradeKinds
  <2>2. ASSUME log' = log, thread'.status = thread.status,
               thread'.attempt = thread.attempt, thread'.grade = thread.grade
        PROVE  UNCHANGED Lifecycle!vars
    BY <2>2 DEF Lifecycle!vars, IsOffline
  <2>3. ASSUME NEW r \in Reqs, StudentStep(r) \/ StaffStep(r) PROVE UNCHANGED Lifecycle!vars
    <3>1. /\ log' = log /\ thread'.status = thread.status
          /\ thread'.attempt = thread.attempt /\ thread'.grade = thread.grade
      BY <2>1, <2>3
      DEF StudentStep, StaffStep, IssueStudentUploadURLs, SubmitAttempt, AppealGrade,
          FindOrCreateThread, Claim, Heartbeat, Release, Grade, Retract, OfflineAccept,
          OfflineUndo, ImportMarker, Thread
    <3> QED BY <2>2, <3>1
  <2>4. ASSUME NEW r \in Reqs,
               FindGradedEvent(r) \/ Append(r) \/ GradeContention(r) \/ Abort(r)
        PROVE  UNCHANGED Lifecycle!vars
    BY <2>2, <2>4 DEF FindGradedEvent, Append, GradeContention, Abort
  <2>5. ASSUME NEW r \in Reqs, NEW kind, Ready(r, kind), NEW row, Land(r, row)
        PROVE  /\ req[r].id \in Ids /\ req[r].id # None
               /\ log'[req[r].id].kind = kind /\ req[r].ev.kind = kind
               /\ \A j \in Landed : log'[j] = log[j]
               /\ CheckStands(r)
               /\ thread' = row
    <3>1. req[r].pc = "appended" /\ req[r].ev.kind = kind
      BY <2>5 DEF Ready
    <3>2. /\ req[r].id \in Ids /\ req[r].id \notin Landed
          /\ log'[req[r].id] = req[r].ev
          /\ \A j \in Ids : j # req[r].id => log'[j] = log[j]
      BY <1>4, <2>5, <3>1, LandsLast
    <3>3. CheckStands(r) /\ thread' = row
      BY <1>4, <2>5, <3>1 DEF TurnsInv, IsIdle, Land
    <3> QED BY <3>1, <3>2, <3>3 DEF Landed, Ids, None
  <2>6. ASSUME NEW r \in Reqs, NEW kind \in AttemptKinds, Ready(r, kind),
               Land(r, [thread EXCEPT !.status = kind, !.attempt = req[r].id])
        PROVE  Lifecycle!Attempted(kind)
    <3> DEFINE row == [thread EXCEPT !.status = kind, !.attempt = req[r].id]
    <3>1. row.status = kind /\ row.attempt = req[r].id /\ row.grade = thread.grade
      BY <2>1 DEF Thread
    <3> HIDE DEF row
    <3>2. Land(r, row)
      BY <2>6 DEF row
    <3>3. thread'.status = kind /\ attempt' = kind /\ UNCHANGED source
      BY <2>1, <2>5, <2>6, <3>1, <3>2 DEF IsOffline
    <3>4. CanTransition(thread.status, kind)
      BY <2>5, <2>6, <3>2 DEF CheckStands, AttemptKinds
    <3> QED BY <3>3, <3>4 DEF Lifecycle!Attempted, Lifecycle!CanTransition,
                              Lifecycle!LegalKinds, CanTransition, LegalKinds
  <2>7. ASSUME NEW r \in Reqs, CommitGrade(r)
        PROVE  \E verdict \in Verdicts : Lifecycle!Graded(verdict)
    <3> DEFINE verdict == req[r].ev.verdict
               row == [thread EXCEPT !.status = verdict, !.grade = req[r].id,
                                     !.lastGrader = req[r].ev.actor,
                                     !.holder = Null, !.expires = None]
    <3>1. row.status = verdict /\ row.attempt = thread.attempt /\ row.grade = req[r].id
      BY <2>1 DEF Thread
    <3>2. Land(r, row) /\ Ready(r, "graded")
      BY <2>7 DEF CommitGrade
    <3>3. verdict \in Verdicts
      BY <1>4, <3>2 DEF Ready, TurnsInv, IInv, IsIdle, PlanSound
    <3> HIDE DEF row
    <3>4. thread'.status = verdict /\ UNCHANGED attempt /\ source' = "online"
      BY <2>1, <2>5, <3>1, <3>2 DEF IsOffline, OfflineKinds
    <3>5. CanTransition(thread.status, "graded")
      BY <2>5, <3>2 DEF CheckStands
    <3> QED BY <3>3, <3>4, <3>5 DEF Lifecycle!Graded, Lifecycle!CanTransition,
                                    Lifecycle!LegalKinds, CanTransition, LegalKinds
  <2>8. ASSUME NEW r \in Reqs, CommitRetract(r) PROVE Lifecycle!Retracted
    <3> DEFINE row == [thread EXCEPT !.status = req[r].back, !.grade = None]
    <3>1. row.status = req[r].back /\ row.attempt = thread.attempt /\ row.grade = None
      BY <2>1 DEF Thread
    <3>2. Land(r, row) /\ Ready(r, "retracted")
      BY <2>8 DEF CommitRetract
    <3>3. thread.attempt # None /\ req[r].back = attempt /\ attempt # "none"
      BY <1>4, <3>2, RetractionHasAttempt DEF AttemptKinds
    <3> HIDE DEF row
    <3>4. thread'.status = attempt /\ UNCHANGED attempt /\ source' = "none"
      BY <2>1, <2>5, <3>1, <3>2, <3>3
    <3>5. CanTransition(thread.status, "retracted")
      BY <2>5, <3>2 DEF CheckStands
    <3> QED BY <3>3, <3>4, <3>5 DEF Lifecycle!Retracted, Lifecycle!CanTransition,
                                    Lifecycle!LegalKinds, CanTransition, LegalKinds
  <2>9. ASSUME NEW r \in Reqs, CommitOfflineAccept(r) PROVE Lifecycle!AcceptedOffline
    <3> DEFINE row == [thread EXCEPT !.exists = TRUE, !.status = "accepted",
                                     !.grade = req[r].id, !.lastGrader = req[r].credit,
                                     !.named = TRUE, !.holder = Null, !.expires = None]
    <3>1. row.status = "accepted" /\ row.attempt = thread.attempt /\ row.grade = req[r].id
      BY <2>1 DEF Thread
    <3>2. Land(r, row) /\ Ready(r, "accepted_offline")
      BY <2>9 DEF CommitOfflineAccept
    <3> HIDE DEF row
    <3>3. thread'.status = "accepted" /\ UNCHANGED attempt /\ source' = "offline"
      BY <2>1, <2>5, <3>1, <3>2 DEF IsOffline, OfflineKinds
    <3>4. CanTransition(thread.status, "accepted_offline") \/ source = "offline"
      BY <2>5, <3>2 DEF CheckStands
    <3> QED BY <3>3, <3>4 DEF Lifecycle!AcceptedOffline, Lifecycle!CanTransition,
                              Lifecycle!LegalKinds, CanTransition, LegalKinds
  <2>10. ASSUME NEW r \in Reqs, CommitOfflineUndo(r) PROVE Lifecycle!OfflineRetracted
    <3> DEFINE row == [thread EXCEPT !.status = req[r].back, !.grade = None,
                                     !.named = FALSE]
    <3>1. row.status = req[r].back /\ row.attempt = thread.attempt /\ row.grade = None
      BY <2>1 DEF Thread
    <3>2. Land(r, row) /\ Ready(r, "offline_retracted")
      BY <2>10 DEF CommitOfflineUndo
    <3>3. /\ req[r].back = OfflineRollbackStatus /\ source = "offline"
          /\ CanTransition(thread.status, "offline_retracted")
      BY <2>5, <3>2 DEF CheckStands
    <3>4. req[r].back = IF attempt = "none" THEN "ungraded" ELSE attempt
      BY <2>1, <3>3 DEF OfflineRollbackStatus, RollbackStatus, AttemptKinds
    <3> HIDE DEF row
    <3>5. /\ thread'.status = IF attempt = "none" THEN "ungraded" ELSE attempt
          /\ UNCHANGED attempt /\ source' = "none"
      BY <2>1, <2>5, <3>1, <3>2, <3>4
    <3> QED BY <3>3, <3>5 DEF Lifecycle!OfflineRetracted, Lifecycle!CanTransition,
                              Lifecycle!LegalKinds, CanTransition, LegalKinds
  <2>11. ASSUME NEW r \in Reqs, CommitSubmit(r) \/ CommitAppeal(r) PROVE Lifecycle!Next
    <3>1. \E kind \in AttemptKinds :
            /\ Ready(r, kind)
            /\ Land(r, [thread EXCEPT !.status = kind, !.attempt = req[r].id])
      BY <2>11 DEF CommitSubmit, CommitAppeal, AttemptKinds
    <3> QED BY <2>6, <3>1 DEF Lifecycle!Next, Lifecycle!AttemptKinds, AttemptKinds
  <2>12. CASE Tick \/ UNCHANGED vars
    BY <2>2, <2>12 DEF Tick, vars
  <2>13. ASSUME NEW r \in Reqs, TxStep(r) PROVE [Lifecycle!Next]_(Lifecycle!vars)
    BY <2>4, <2>7, <2>8, <2>9, <2>10, <2>11, <2>13
    DEF TxStep, Lifecycle!Next, Lifecycle!Verdicts, Verdicts
  <2> QED BY <1>4, <2>3, <2>12, <2>13 DEF Next
<1> QED BY TurnsInit, <1>2, <1>3, <1>4, PTL DEF Spec, FollowsLifecycle, Lifecycle!Spec

=============================================================================
