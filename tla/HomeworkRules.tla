--------------------------- MODULE HomeworkRules ---------------------------
(***************************************************************************)
(* The pure rules of the homework feature: the vocabulary of thread        *)
(* statuses and event kinds, the table of legal transitions, and the       *)
(* submission window.  They are constant operators; the state machines     *)
(* HomeworkThread and ThreadLifecycle are built from them.                 *)
(***************************************************************************)
EXTENDS Integers

\* SQL NULL in a BIGINT or TIMESTAMPTZ column (ids and instants start at 1).
None == 0

Verdicts == {"accepted", "rejected"}
Statuses == {"ungraded", "submitted", "appealed"} \cup Verdicts

\* The events a student produces, and the ones that settle a thread.
AttemptKinds == {"submitted", "appealed"}
GradeKinds   == {"graded", "accepted_offline"}
OfflineKinds == {"accepted_offline", "offline_retracted"}

\* The kinds some handler appends ('claimed' and 'released' are legal for the
\* table below and for the CHECK constraint, but nothing ever writes them).
Kinds == AttemptKinds \cup GradeKinds \cup {"retracted", "offline_retracted"}

LegalKinds ==
  [ ungraded  |-> {"submitted", "accepted_offline"},
    submitted |-> {"claimed", "released", "graded", "accepted_offline"},
    rejected  |-> {"submitted", "appealed", "accepted_offline", "retracted"},
    appealed  |-> {"claimed", "released", "graded", "accepted_offline"},
    accepted  |-> {"retracted", "offline_retracted"} ]

CanTransition(status, kind) == kind \in LegalKinds[status]

\* Mutant of SubmissionClosed: the deadline itself is still open.
ClosedAfterDeadline(isCoffin, releasedAt, dueAt, now) ==
  IF isCoffin THEN releasedAt # None /\ now >= releasedAt
              ELSE now > dueAt

\* An instant is a positive integer; releasedAt = None is a NULL pointer.
SubmissionClosed(isCoffin, releasedAt, dueAt, now) ==
  IF isCoffin THEN releasedAt # None /\ now >= releasedAt
              ELSE now >= dueAt
=============================================================================
