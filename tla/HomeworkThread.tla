--------------------------- MODULE HomeworkThread ---------------------------
(***************************************************************************)
(* One homework thread -- the (student, subproblem) row of homework_thread *)
(* and its log homework_thread_event -- under the HTTP handlers that write *)
(* it and the Google-Sheets importer.                                      *)
(*                                                                         *)
(* A handler first READS the thread through the pool, outside any          *)
(* transaction, and checks it; only then does it open a transaction that   *)
(* appends an event and updates the row.  A request is therefore two or    *)
(* three atomic steps: the handler's name (read, checks, the plan of the   *)
(* transaction), Append (the INSERT: the sequence hands out an id, the     *)
(* UNIQUE event_uuid is enforced) and a Commit (the UPDATE and the COMMIT, *)
(* during which the row is locked).  PostgreSQL runs at READ COMMITTED: an *)
(* event is invisible until its Commit, an UPDATE sees the latest          *)
(* committed row, and an id handed out by the sequence is never reused,    *)
(* even when its transaction rolls back.                                   *)
(***************************************************************************)
EXTENDS HomeworkRules, FiniteSets

CONSTANTS
  Student,     \* the student who owns the thread
  Teachers,    \* teachers of the math center
  Admins,      \* callers whose token carries is_admin
  Reqs,        \* the requests that can be in flight at once
  Uuids,       \* event_uuids a client may send more than once
  Null,        \* SQL NULL in a user column; also "a fresh event_uuid"
  Lease,       \* length of a claim, in clock ticks (15 minutes in the code)
  MaxId,       \* bound: the largest event id
  MaxTime      \* bound: the last instant of the clock

Staff == Teachers \cup Admins
Users == Staff \cup {Student}
Ids   == 1..MaxId

ASSUME ConstantsOK ==
  /\ Student \notin Staff /\ Null \notin Users /\ Null \notin Uuids
  /\ Null \notin Reqs
  /\ Lease \in Nat \ {0} /\ MaxId \in Nat /\ MaxTime \in Nat \ {0}

VARIABLES
  thread,      \* the homework_thread row (exists = FALSE: not inserted yet)
  log,         \* the committed homework_thread_event rows, by id
  nextId,      \* the sequence behind homework_thread_event.id
  req,         \* what each request in flight has decided and done so far
  rowLock,     \* the import transaction that holds the row's lock, or Null
  now          \* the database clock

vars == <<thread, log, nextId, req, rowLock, now>>
-----------------------------------------------------------------------------
(* The rows.                                                               *)

NoEvent == [kind |-> "none", actor |-> Null, uuid |-> Null,
            verdict |-> "none", refers |-> None, sheet |-> FALSE]

Event == [kind : Kinds \cup {"none"}, actor : Users \cup {Null},
          uuid : Uuids \cup {Null}, verdict : Verdicts \cup {"none"},
          refers : Ids \cup {None}, sheet : BOOLEAN]

\* named: last_grader_name is not ''.
Thread == [exists : BOOLEAN, status : Statuses,
           attempt : Ids \cup {None}, grade : Ids \cup {None},
           lastGrader : Staff \cup {Null}, named : BOOLEAN,
           holder : Staff \cup {Null}, expires : Nat]

NewThread == [exists |-> FALSE, status |-> "ungraded",
              attempt |-> None, grade |-> None,
              lastGrader |-> Null, named |-> FALSE,
              holder |-> Null, expires |-> None]

Landed == {i \in Ids : log[i] # NoEvent}

GradedIds == {i \in Landed : log[i].kind = "graded"}

IsOffline(i) == log[i].kind \in OfflineKinds

(* A request: pc is how far it has come, ev the event it will append, back *)
(* the status a retraction restores, credit the grader an offline accept   *)
(* credits, began the NOW() of its transaction, id its event's id.         *)
Idle == [pc |-> "idle", ev |-> NoEvent, back |-> "ungraded",
         credit |-> Null, began |-> None, id |-> None]

Request == [pc : {"idle", "loaded", "checked", "appended"}, ev : Event,
            back : Statuses, credit : Staff \cup {Null},
            began : Nat, id : Ids \cup {None}]

\* The request has validated what it read and will append this event.
Plan(r, pc, kind, actor, uuid, verdict, refers, back, credit) ==
  req' = [req EXCEPT ![r] =
            [pc |-> pc,
             ev |-> [kind |-> kind, actor |-> actor, uuid |-> uuid,
                     verdict |-> verdict, refers |-> refers, sheet |-> FALSE],
             back |-> back, credit |-> credit, began |-> None, id |-> None]]

IsIdle(r)  == req[r].pc = "idle"
Finish(r)  == req' = [req EXCEPT ![r] = Idle]

\* No other transaction holds the row's lock.
RowFree(r) == rowLock \in {Null, r}
-----------------------------------------------------------------------------
(* The students' handlers.                                                 *)

\* FindOrCreateThread: the upsert waits for a transaction that holds the row.
FindOrCreateThread(r) ==
  /\ RowFree(r)
  /\ thread' = [thread EXCEPT !.exists = TRUE]

IssueStudentUploadURLs(r) ==
  /\ IsIdle(r)
  /\ FindOrCreateThread(r)
  /\ UNCHANGED <<log, nextId, req, rowLock, now>>

\* What GetSubproblemContext may return: other components edit the deadline, mark
\* the subproblem a coffin and release it.
SubproblemContexts ==
  [coffin : BOOLEAN, releasedAt : {None, MaxTime}, dueAt : {MaxTime}]

SubmitAttempt(r, uuid, sp) ==
  /\ IsIdle(r)
  /\ ~SubmissionClosed(sp.coffin, sp.releasedAt, sp.dueAt, now)
  /\ FindOrCreateThread(r)
  /\ CanTransition(thread.status, "submitted")
  /\ Plan(r, "checked", "submitted", Student, uuid, "none", None,
          "ungraded", Null)
  /\ UNCHANGED <<log, nextId, rowLock, now>>

\* Mutant of AppealGrade: an appeal against any verdict.
AppealAnyVerdict(r, uuid) ==
  /\ IsIdle(r)
  /\ thread.exists
  /\ thread.status \in Verdicts
  /\ Plan(r, "checked", "appealed", Student, uuid, "none", thread.grade,
          "ungraded", Null)
  /\ UNCHANGED <<thread, log, nextId, rowLock, now>>

\* Not gated by the submission window.
AppealGrade(r, uuid) ==
  /\ IsIdle(r)
  /\ thread.exists
  /\ thread.status = "rejected"
  /\ Plan(r, "checked", "appealed", Student, uuid, "none", thread.grade,
          "ungraded", Null)
  /\ UNCHANGED <<thread, log, nextId, rowLock, now>>
-----------------------------------------------------------------------------
(* The claim: a lease on the row.  Claim, Heartbeat and Release are single *)
(* auto-committed UPDATEs.                                                 *)

\* Mutant of Claim: <= in the expiry test.
ClaimAtExpiry(r, g) ==
  /\ IsIdle(r) /\ RowFree(r) /\ thread.exists
  /\ thread.holder = Null \/ thread.expires <= now \/ thread.holder = g
  /\ thread' = [thread EXCEPT !.holder = g, !.expires = now + Lease]
  /\ UNCHANGED <<log, nextId, req, rowLock, now>>

Claim(r, g) ==
  /\ IsIdle(r) /\ RowFree(r) /\ thread.exists
  /\ \/ thread.holder = Null
     \/ thread.expires < now
     \/ thread.holder = g
  /\ thread' = [thread EXCEPT !.holder = g, !.expires = now + Lease]
  /\ UNCHANGED <<log, nextId, req, rowLock, now>>

Heartbeat(r, g) ==
  /\ IsIdle(r) /\ RowFree(r) /\ thread.exists
  /\ thread.holder = g
  /\ thread.expires > now
  /\ thread' = [thread EXCEPT !.expires = now + Lease]
  /\ UNCHANGED <<log, nextId, req, rowLock, now>>

Release(r, g) ==
  /\ IsIdle(r) /\ RowFree(r) /\ thread.exists
  /\ thread.holder = g
  /\ thread' = [thread EXCEPT !.holder = Null, !.expires = None]
  /\ UNCHANGED <<log, nextId, req, rowLock, now>>
-----------------------------------------------------------------------------
(* The graders' handlers.                                                  *)

\* An appeal is answered by the last grader or by an admin.
MayAnswer(g) ==
  thread.status = "appealed" => g \in Admins \/ thread.lastGrader = g

Grade(r, g, uuid, verdict) ==
  /\ IsIdle(r) /\ thread.exists
  /\ CanTransition(thread.status, "graded")
  /\ MayAnswer(g)
  /\ Plan(r, "checked", "graded", g, uuid, verdict, thread.attempt,
          "ungraded", Null)
  /\ UNCHANGED <<thread, log, nextId, rowLock, now>>

\* Mutants of RollbackStatus: the kind of the wrong event, and a rollback that
\* forgets appeals.
RollbackToGradeKind ==
  IF thread.grade # None THEN log[thread.grade].kind ELSE "submitted"
RollbackToSubmitted == "submitted"

\* rollbackStatus; an attempt event is immutable, so reading its kind later
\* than the thread makes no difference.
RollbackStatus ==
  IF thread.attempt # None /\ log[thread.attempt].kind = "appealed"
  THEN "appealed" ELSE "submitted"

Retract(r, g) ==
  /\ IsIdle(r) /\ thread.exists
  /\ g \in Admins \/ thread.lastGrader = g
  /\ thread.status \in Verdicts
  /\ Plan(r, "loaded", "retracted", g, Null, "none", None,
          RollbackStatus, Null)
  /\ UNCHANGED <<thread, log, nextId, rowLock, now>>

\* The second read of Retract: GetMostRecentGradedEvent, 409 when there is none.
FindGradedEvent(r) ==
  /\ req[r].pc = "loaded"
  /\ IF GradedIds = {}
     THEN Finish(r)
     ELSE \E i \in GradedIds :
            /\ \A j \in GradedIds : j <= i
            /\ req' = [req EXCEPT ![r].pc = "checked", ![r].ev.refers = i]
  /\ UNCHANGED <<thread, log, nextId, rowLock, now>>

\* Mutant of OfflineAccept: an accepted thread is always re-credited.
OfflineAcceptAny(r, g, credit) ==
  /\ IsIdle(r)
  /\ FindOrCreateThread(r)
  /\ Plan(r, "checked", "accepted_offline", g, Null, "accepted", None,
          "ungraded", credit)
  /\ UNCHANGED <<log, nextId, rowLock, now>>

\* credit is the grader to credit: a teacher of the center, Null for a
\* free-text name, or the caller.  An accepted thread may only be re-credited,
\* and only when its current accept is itself offline.
OfflineAccept(r, g, credit) ==
  /\ IsIdle(r)
  /\ FindOrCreateThread(r)
  /\ IF thread.status = "accepted"
     THEN thread.grade # None /\ IsOffline(thread.grade)
     ELSE CanTransition(thread.status, "accepted_offline")
  /\ Plan(r, "checked", "accepted_offline", g, Null, "accepted", None,
          "ungraded", credit)
  /\ UNCHANGED <<log, nextId, rowLock, now>>

\* Mutant of OfflineRollbackStatus: the online handler's fallback.
OfflineRollbackAsOnline == RollbackStatus

OfflineRollbackStatus ==
  IF thread.attempt = None THEN "ungraded" ELSE RollbackStatus

OfflineUndo(r, g) ==
  /\ IsIdle(r) /\ thread.exists
  /\ CanTransition(thread.status, "offline_retracted")
  /\ thread.grade # None /\ IsOffline(thread.grade)
  /\ Plan(r, "checked", "offline_retracted", g, Null, "none", thread.grade,
          OfflineRollbackStatus, Null)
  /\ UNCHANGED <<thread, log, nextId, rowLock, now>>
-----------------------------------------------------------------------------
(* The transactions.                                                       *)

\* Mutant of UuidPending: the uuid is looked up before the INSERT instead of
\* being UNIQUE, so only a committed copy is seen.
LookedUpFirst(r) == FALSE

\* Another open transaction has inserted the same event_uuid: an INSERT of it
\* waits until that transaction ends.
UuidPending(r) ==
  \E s \in Reqs \ {r} : /\ req[s].pc = "appended"
                        /\ req[s].ev.uuid = req[r].ev.uuid

UuidTaken(r) == \E i \in Landed : log[i].uuid = req[r].ev.uuid

\* Mutant of Append: the id is the number of committed events plus one.
AppendNumbered(r) ==
  /\ req[r].pc = "checked"
  /\ Cardinality(Landed) < MaxId
  /\ req' = [req EXCEPT ![r].pc = "appended", ![r].began = now,
                        ![r].id = Cardinality(Landed) + 1]
  /\ UNCHANGED <<thread, log, nextId, rowLock, now>>

\* BEGIN and AppendEvent.  The foreign key takes a KEY SHARE lock on the thread
\* row, which no UPDATE of a non-key column conflicts with.
Append(r) ==
  /\ req[r].pc = "checked"
  /\ nextId <= MaxId
  /\ req[r].ev.uuid = Null \/ ~UuidPending(r)
  /\ IF req[r].ev.uuid # Null /\ UuidTaken(r)
     THEN Finish(r)
     ELSE req' = [req EXCEPT ![r].pc = "appended", ![r].began = now,
                             ![r].id = nextId]
  /\ nextId' = nextId + 1
  /\ UNCHANGED <<thread, log, rowLock, now>>

\* COMMIT: the event becomes visible together with the row's new values.
Land(r, row) ==
  /\ log' = [log EXCEPT ![req[r].id] = req[r].ev]
  /\ thread' = row
  /\ Finish(r)
  /\ rowLock' = Null
  /\ UNCHANGED <<nextId, now>>

Ready(r, kind) ==
  req[r].pc = "appended" /\ req[r].ev.kind = kind /\ RowFree(r)

CommitSubmit(r) ==
  /\ Ready(r, "submitted")
  /\ Land(r, [thread EXCEPT !.status = "submitted", !.attempt = req[r].id])

CommitAppeal(r) ==
  /\ Ready(r, "appealed")
  /\ Land(r, [thread EXCEPT !.status = "appealed", !.attempt = req[r].id])

\* The WHERE clause of UpdateThreadAfterGrade; its NOW() is the transaction's.
HoldsClaim(r) ==
  /\ thread.holder = req[r].ev.actor
  /\ thread.expires > req[r].began

CommitGrade(r) ==
  /\ Ready(r, "graded")
  /\ HoldsClaim(r)
  /\ Land(r, [thread EXCEPT !.status = req[r].ev.verdict, !.grade = req[r].id,
                            !.lastGrader = req[r].ev.actor,
                            !.holder = Null, !.expires = None])

\* No row updated: errClaimContention, the transaction rolls back.
GradeContention(r) ==
  /\ Ready(r, "graded")
  /\ ~HoldsClaim(r)
  /\ Finish(r)
  /\ UNCHANGED <<thread, log, nextId, rowLock, now>>

\* Mutant of CommitRetract: the grade is dropped, the status kept.
RetractKeepsStatus(r) ==
  /\ Ready(r, "retracted")
  /\ Land(r, [thread EXCEPT !.grade = None])

CommitRetract(r) ==
  /\ Ready(r, "retracted")
  /\ Land(r, [thread EXCEPT !.status = req[r].back, !.grade = None])

CommitOfflineAccept(r) ==
  /\ Ready(r, "accepted_offline")
  /\ Land(r, [thread EXCEPT !.exists = TRUE,
                            !.status = "accepted", !.grade = req[r].id,
                            !.lastGrader = req[r].credit, !.named = TRUE,
                            !.holder = Null, !.expires = None])

CommitOfflineUndo(r) ==
  /\ Ready(r, "offline_retracted")
  /\ Land(r, [thread EXCEPT !.status = req[r].back, !.grade = None,
                            !.named = FALSE])

\* A failed statement, a cancelled context or a crashed server: an open
\* transaction rolls back, and its event id stays unused.
Abort(r) ==
  /\ ~IsIdle(r)
  /\ Finish(r)
  /\ rowLock' = IF rowLock = r THEN Null ELSE rowLock
  /\ UNCHANGED <<thread, log, nextId, now>>
-----------------------------------------------------------------------------
(* The spreadsheet import of this cell: FindOrCreateThread, the check and  *)
(* the append run inside ONE transaction, and the upsert's row lock is     *)
(* held to its end.  Until then the other requests neither lock the row    *)
(* nor see it change; a row the transaction inserted is not visible yet.   *)
\* Mutant of ImportMarker: the check does not lock the row.
ImportUnlocked(r, g) ==
  /\ IsIdle(r)
  /\ rowLock = Null
  /\ nextId <= MaxId
  /\ thread.status = "ungraded"
  /\ req' = [req EXCEPT ![r] =
               [pc |-> "appended",
                ev |-> [kind |-> "accepted_offline", actor |-> g, uuid |-> Null,
                        verdict |-> "accepted", refers |-> None, sheet |-> TRUE],
                back |-> "ungraded", credit |-> Null,
                began |-> now, id |-> nextId]]
  /\ nextId' = nextId + 1
  /\ UNCHANGED <<thread, log, rowLock, now>>

ImportMarker(r, g) ==
  /\ IsIdle(r)
  /\ rowLock = Null
  /\ nextId <= MaxId
  /\ thread.status = "ungraded"
  /\ req' = [req EXCEPT ![r] =
               [pc |-> "appended",
                ev |-> [kind |-> "accepted_offline", actor |-> g, uuid |-> Null,
                        verdict |-> "accepted", refers |-> None, sheet |-> TRUE],
                back |-> "ungraded", credit |-> Null,
                began |-> now, id |-> nextId]]
  /\ nextId' = nextId + 1
  /\ rowLock' = r
  /\ UNCHANGED <<thread, log, now>>
-----------------------------------------------------------------------------
(* The environment.                                                        *)

Tick == /\ now < MaxTime
        /\ now' = now + 1
        /\ UNCHANGED <<thread, log, nextId, req, rowLock>>
-----------------------------------------------------------------------------
Init == /\ thread = NewThread
        /\ log = [i \in Ids |-> NoEvent]
        /\ nextId = 1
        /\ req = [r \in Reqs |-> Idle]
        /\ rowLock = Null
        /\ now = 1

StudentStep(r) ==
  \/ IssueStudentUploadURLs(r)
  \/ \E uuid \in Uuids \cup {Null} :
       \/ \E sp \in SubproblemContexts : SubmitAttempt(r, uuid, sp)
       \/ AppealGrade(r, uuid)

StaffStep(r) ==
  \E g \in Staff :
    \/ Claim(r, g) \/ Heartbeat(r, g) \/ Release(r, g)
    \/ \E uuid \in Uuids \cup {Null}, verdict \in Verdicts :
         Grade(r, g, uuid, verdict)
    \/ Retract(r, g)
    \/ \E credit \in Teachers \cup {g, Null} : OfflineAccept(r, g, credit)
    \/ OfflineUndo(r, g)
    \/ ImportMarker(r, g)

TxStep(r) ==
  \/ FindGradedEvent(r) \/ Append(r)
  \/ CommitSubmit(r) \/ CommitAppeal(r)
  \/ CommitGrade(r) \/ GradeContention(r) \/ CommitRetract(r)
  \/ CommitOfflineAccept(r) \/ CommitOfflineUndo(r)
  \/ Abort(r)

Next == \/ \E r \in Reqs : StudentStep(r) \/ StaffStep(r) \/ TxStep(r)
        \/ Tick

Spec == Init /\ [][Next]_vars
-----------------------------------------------------------------------------
(* Type invariant.                                                         *)
TypeOK == /\ thread \in Thread
          /\ log \in [Ids -> Event]
          /\ nextId \in Nat \ {0}
          /\ req \in [Reqs -> Request]
          /\ rowLock \in Reqs \cup {Null}
          /\ now \in Nat
-----------------------------------------------------------------------------
(* Safety of the row against its log, with requests overlapping freely.    *)

\* An accepted or rejected thread points at a committed event carrying that
\* verdict: no interleaving of grades, retractions and offline marks leaves a
\* verdict without the event that gave it.
VerdictBacked ==
  thread.status \in Verdicts =>
    thread.grade # None /\ log[thread.grade].verdict = thread.status

\* A thread that waits for a grader, or was rejected, has an attempt to look
\* at: the "falls back to 'submitted'" branch of rollbackStatus never strands
\* a thread in the queue with nothing to grade.
PendingHasAttempt ==
  thread.status \in AttemptKinds \cup {"rejected"} => thread.attempt # None

\* The two cache pointers name committed events of the kind they are for.
PointersResolve ==
  /\ thread.attempt # None => log[thread.attempt].kind \in AttemptKinds
  /\ thread.grade # None => log[thread.grade].kind \in GradeKinds

\* The kind of event another event may refer to.
RefersTo(i, kinds) ==
  log[i].refers # None /\ log[i].refers < i /\ log[log[i].refers].kind \in kinds

\* The timeline is causally well formed: an appeal disputes a rejection a
\* grader gave, a grade answers an attempt, a retraction takes back a grade,
\* an undo an offline accept, each already in the log and with a smaller id.
ReferencesResolve ==
  \A i \in Landed :
    /\ log[i].kind = "appealed" =>
         RefersTo(i, {"graded"}) /\ log[log[i].refers].verdict = "rejected"
    /\ log[i].kind = "graded" => RefersTo(i, AttemptKinds)
    /\ log[i].kind = "retracted" => RefersTo(i, {"graded"})
    /\ log[i].kind = "offline_retracted" => RefersTo(i, {"accepted_offline"})
    /\ log[i].kind \in {"submitted", "accepted_offline"} => log[i].refers = None

\* A retried or double-clicked submit, appeal or grade that re-sends its
\* event_uuid lands once, even when both copies are in flight together.
UuidOnce ==
  \A i, j \in Landed : log[i].uuid # Null /\ log[i].uuid = log[j].uuid => i = j

\* The events a step commits.
Lands(i) == log[i] = NoEvent /\ log'[i] # NoEvent

\* The log is append-only: a committed event is never lost or changed, not by
\* a later retraction and not by two requests drawing the same id.
EventsImmutable == [][\A i \in Landed : log'[i] = log[i]]_vars

\* An import never overwrites a state of the thread, however slow the import
\* and whatever the requests that run beside it.
ImportNeverOverwrites ==
  [][\A i \in Ids : Lands(i) /\ log'[i].sheet => thread.status = "ungraded"]_vars

\* The claim as ClaimLease promises it: the rest of the thread never hands a
\* live claim to another grader.
ClaimSpec ==
  INSTANCE ClaimLease WITH
    Graders <- Staff, Nobody <- Null, Term <- Lease, holder <- thread.holder,
    left <- IF thread.holder = Null \/ thread.expires < now
            THEN -1 ELSE thread.expires - now

ClaimIsLease == ClaimSpec!Spec
-----------------------------------------------------------------------------
(* What holds as long as the requests on one thread do not overlap         *)
(* (Cardinality(Reqs) = 1).                                                *)

LastLanded == {i \in Landed : \A j \in Landed : j <= i}

\* The status is the one a reader derives from the timeline: the last event's
\* own outcome or, when it takes a verdict back, the last attempt.
CacheAgreesWithTimeline ==
  LET attempts == {i \in Landed : log[i].kind \in AttemptKinds}
      pending  == {log[i].kind : i \in {k \in attempts : \A j \in attempts : j <= k}}
  IN \A i \in LastLanded :
       CASE log[i].kind \in AttemptKinds -> thread.status = log[i].kind
         [] log[i].kind \in GradeKinds   -> thread.status = log[i].verdict
         [] OTHER -> IF pending = {} THEN thread.status = "ungraded"
                     ELSE thread.status \in pending

\* An event lands only where the transition table allows it; the one exception
\* is the re-crediting of an offline accept.
LegalSequence ==
  [][\A i \in Ids : Lands(i) =>
        \/ CanTransition(thread.status, log'[i].kind)
        \/ /\ log'[i].kind = "accepted_offline"
           /\ thread.grade # None /\ IsOffline(thread.grade)]_vars

\* Offline marking never overrides a verdict given online.
OfflineSparesOnlineAccept ==
  [][\A i \in Ids : Lands(i) /\ log'[i].kind = "accepted_offline" =>
        ~(thread.status = "accepted" /\ ~IsOffline(thread.grade))]_vars

Lifecycle ==
  INSTANCE ThreadLifecycle WITH
    status <- thread.status,
    attempt <- IF thread.attempt = None THEN "none" ELSE log[thread.attempt].kind,
    source <- IF thread.grade = None THEN "none"
              ELSE IF IsOffline(thread.grade) THEN "offline" ELSE "online"

\* Every commit is a step of the abstract lifecycle.
FollowsLifecycle == Lifecycle!Spec
-----------------------------------------------------------------------------
(* What comments of the code say and the code does not do.                 *)

\* A 'retracted' event refers to the grade it rescinds, the current one.
RetractionNamesCurrentGrade ==
  [][\A i \in Ids : Lands(i) /\ log'[i].kind = "retracted" =>
        log'[i].refers = thread.grade]_vars

\* A retraction puts the thread back to the attempt it has now.
RetractRestoresAttempt ==
  [][\A i \in Ids : Lands(i) /\ log'[i].kind = "retracted" =>
        thread'.status = log[thread.attempt].kind]_vars

\* last_grader_name is empty while the current grade was given online.
OnlineGradeUnnamed ==
  thread.grade # None /\ log[thread.grade].kind = "graded" => ~thread.named

\* An appeal is answered by the grader whose rejection it disputes, or by an
\* admin.
AppealAnsweredByItsGrader ==
  [][\A i \in Ids : Lands(i) /\ log'[i].kind = "graded" /\ thread.status = "appealed" =>
        \/ log'[i].actor \in Admins
        \/ log'[i].actor = log[log[thread.attempt].refers].actor]_vars
=============================================================================
