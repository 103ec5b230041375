# my239 in TLA+

my239 is the platform of a mathematics circle ("math center"): students hand in
written homework, teachers grade it online or offline, and the center's grid of
students × subproblems is kept up to date in everybody's browser.  A Go backend
(`src/backend`) keeps its state in PostgreSQL; a React frontend
(`src/frontend/web`, with the client library `src/frontend/shared`) talks to it
over HTTP and one server-sent event stream.

This directory holds a TLA+ development of that system: specifications
translated from the code, TLC configurations that check them on small
instances, and TLAPS proofs of what matters most for every value of the
constants.  `PROJECT.json` lists the runs, the code every definition stands
for, and the hazards the properties are aimed at; the disagreements found between
the code and its own comments are listed [below](#findings).

Contents: [inventory](#inventory) · [plan](#plan) ·
[the modules](#the-modules) · [the runs](#the-runs) ·
[bounds](#bounds) · [fairness](#fairness) · [findings](#findings) ·
[proofs](#proofs) · [abstractions](#abstractions-and-what-is-left-out) · [not modelled](#not-modelled)

To check: `tlc -workers 2 -config ThreadRace.cfg MCHomeworkThread` (module and
configuration of each run are in `PROJECT.json`), `tlapm HomeworkThreadProofs.tla`
and likewise each other module whose name ends in `Proofs`.

## Inventory

Paths are relative to `src/backend/internal` unless they start with `queries/`
or `migrations/` (`src/backend/…`) or `shared/`, `web/` (`src/frontend/…/src/`).

### How the parts interact

```
 student's browser          grader's browsers             Google Sheets
   | ApiClient (session)       |   ^                          |
   v                           v   | SSE stream               v
 handlers/homework ------> homework_thread + events <--- googlesheets import
   |  ^                        ^         |
   |  | submission window      | lock    | after COMMIT: live.Publish
   |  |                        | order   v
 handlers/mathcenter:       PostgreSQL  pg_notify -> listener -> hub -> SSE
   series, coffins, solutions, terms        (one listener and hub per instance)
 handlers/auth: login, register, refresh, logout -> refresh_tokens, users
   every handler -> alerts queue -> Telegram
```

* All shared server state is in PostgreSQL at READ COMMITTED.  Handlers commonly
  read through the pool, validate, and then open a transaction: what was
  validated may have changed by then.  Row locks, unique indexes and the WHERE
  clauses of single UPDATEs are the only coordination.
* There are three pieces of concurrent in-process state: the hub's
  subscriptions, the alert service's queue, and the memory rate limiter.
* In the browser, an `ApiClient` per tab shares one refresh token in
  `localStorage` with the other tabs, and a query cache is fed by fetches and by
  the event stream.

### Components

| Component | State | Operations | What is hard | What makes it correct |
|---|---|---|---|---|
| **Homework threads** (`handlers/homework/{submit,appeal,grade,retract,offline}.go`, `homework/`, `queries/homework.sql`) | the `homework_thread` row (status, current attempt and grade, last grader) and its append-only log | submit, appeal, grade, retract, offline accept and undo, upload URLs | checks on a row read before the transaction; ids drawn before the row is locked; retries with the same `event_uuid` | the row agrees with its log; references in the log resolve; a resend lands once; the order of events is a legal one |
| **Grading claims** (`claim.go`, `TryClaim`, `HeartbeatClaim`, `ReleaseClaim`) | holder and expiry on the row | claim, heartbeat, release; a grade uses it up | expiry against the database clock, holders that vanish | a lease: never stolen while live, never kept for good |
| **Refresh tokens** (`auth/refresh.go`, `auth/token_service.go`) | rows of `refresh_tokens`: revoked, expiry, successor | issue, exchange, revoke | the exchange reads without a lock; errors after the commit | one chain with one working end per login; ended sessions stay ended |
| **API client session** (`shared/api/client.ts`, `web/lib/token-store.ts`) | access token and refresh in flight (per tab), refresh token (all tabs) | request with a retry, refresh, restore, login, logout, reload | several requests and tabs meeting 401 at once, answers in any order, reloads in between | no request exchanges a token twice; waiters resume; the stored token works |
| **Live updates** (`live/`, `handlers/mathcenter/events.go`, `shared/api/sse.ts`, `web/features/mathcenter/use-center-events.ts`) | subscriptions and buffers, the stream, the refresh queue, the cached grid | publish, listen, subscribe, catch up, refresh a series, refetch the grid | lost notifications, full buffers, streams that break, answers that arrive out of order | an open page ends up showing what is committed; the queue never wedges |
| **Google Sheets import and structure sync** (`googlesheets/`) | links, sync runs; one thread transaction per marker | sync, import, write the structure | runs left over by a crash; markers racing the handlers | an import never overwrites a thread |
| **Solutions and coffins** (`handlers/mathcenter/{coffins,solution_publication}.go`) | per subproblem: coffin, `released_at`, draft and published formats | mark, unmark, save, link, publish | checks on earlier reads; publication of several subproblems under locks | a published solution keeps a format; the submission window closes exactly on release |
| **Series and problems** (`handlers/mathcenter/series.go`) | series, problems, subproblems | create, update with renumbering, publish, delete | renumbering under a unique index; removals that cascade to threads; blobs outside the transaction | numbers end as asked; nothing else moves |
| **Terms** (`handlers/mathcenter/terms.go`) | terms with one active, groups, students | create the next term | two requests at once; the roster is copied in several statements while others write it | one active term with its groups; access to what is past does not change |
| **Center roster and access table** (`handlers/mathcenter/manage.go`, `handlers/admin/mathcenter.go`, `googlesheets/structure_sync.go`) | groups, enrolments, teachers; a default and a row per student and series of who sees which razbors | enrol, move, remove, create and delete groups, edit the table by cell, row and column | every handler checks on one snapshot and writes on another; rows are materialised by some of the ways to enrol only; two queries compute the same access | enrolments are in groups that exist; the managers' table is what students see; an edit does what it says and no more |
| **Registration and invitations** (`handlers/auth/register.go`, `queries/invitation_tokens.sql`) | invitations with uses, users, placeholders | invite, register, claim a placeholder | uses counted under a row lock; a claim locks the account and none of its enrolments; tokens issued after the commit | never more uses than allowed; an account once |
| **Telegram alerts** (`telegramalerts/`) | queue, drop count, deliveries in flight, enrollment session | enqueue, batch, send with retry, flush, enroll | queue at its limit, flush racing a receive | nothing lost silently; flush returns only when it is delivered |
| **Rate limiting** (`pkg/ratelimit`) | windows per key | allow | window boundaries, failing open | at most the limit per window |
| **Login, passwords, access tokens** (`auth/password.go`, `auth/jwt.go`) | none between requests | login, verify | – | – |
| **Homework read side** (queues, stats, grids) | none (queries) | read | the same fact from different joins; answers of several queries | queues, counters, grids and the student's page tell one story |
| **Photo uploads** (`upload_urls.go`, `pkg/objectstore`) | objects outside the database | presign, delete | no transaction spans both | – |
| **Notes; likbez lectures; LaTeX preamble; center management; admin API** | rows edited by one statement each | create, update, delete | little: nothing interleaves within an operation | authorization |
| **Middleware and impersonation; store (generated); server, migrations, plumbing** | none, or configuration | – | – | – |
| **Frontend pages and data layer** | query cache | one request and one invalidation per hook | the session and the live grid are components above | – |

Hazards – what a test of this code would hardly reach – are listed at their
lines in `PROJECT.json`, each with the properties that would catch it going
wrong. Those that the models have and that the code does not guard against are
under [findings](#findings).

## Plan

The order was by how much depends on a component and how hard it is to test.

| # | Module(s) | What | Abstract specification | Proofs |
|---|---|---|---|---|
| 1 | `HomeworkRules`, `HomeworkThread` | a thread under all its writers | – | proved: types, five invariants, two action properties |
| 2 | `ClaimLease` | the claim | it *is* one; `HomeworkThread` implements it | proved |
| 3 | `ThreadLifecycle` | the life of a thread as readers think of it | it *is* one; implemented while requests do not overlap | proved for requests that take turns |
| 4 | `RefreshTokens`, `ClientSession` | sessions, both ends; the second composes the first | – | proved for exchanges that overlap; that a login has one working end for one request at a time, `NoSelfReplay` for one tab |
| 5 | `LiveGrid` | a change on its way to an open page | – | safety proved for any parts, buffer and faults; liveness checked |
| 6 | `SolutionPublication` | drafts, coffins, publication and the submission window, with what `SubmitAttempt` reads | – | proved |
| 7 | `CenterRoster`, `RazborAccess` | roster, terms, access table | – | proved |
| 8 | `Registration` | the locked invitation, placeholders, grants | – | proved |
| 9 | `SeriesBoard` | problem sets: renumbering in passes against "the problems asked for" | the payload itself (`EditDoesAsked`) | proved, for payloads of any length: the passes by an invariant of each loop |
| 10 | `GradingViews` | the read endpoints against one another | – | proved |

Modelling is complete as far as it is worth it: what is left is under
[not modelled](#not-modelled), with the reasons.

## The modules

| Module | Code it stands for | Role |
|---|---|---|
| `HomeworkRules` | `homework/state.go`, `homework/submission.go` | statuses, kinds, `CanTransition`, `SubmissionClosed` |
| `HomeworkThread` | `handlers/homework/*.go`, `queries/homework.sql`, one marker of `googlesheets/service.go` | the state machine of one thread |
| `ClaimLease` | the claim's three statements | abstract lease |
| `ThreadLifecycle` | the transition table and the offline rules | abstract lifecycle |
| `HomeworkThreadProofs`, `RefreshTokensProofs`, `ClientSessionProofs`, `LiveGridProofs`, `SeriesBoardProofs`, `SolutionPublicationProofs`, `GradingViewsProofs` | – | theorems about the module they are named after |
| `CenterProofs` | – | theorems about `RazborAccess` and `Registration`, on the same lemmas about the actions of `CenterRoster`; hence the names of the latter's specification (`RegistrationSpec`, …) |
| `RefreshTokens` | `auth/refresh.go`, `auth/token_service.go`, `queries/refresh_tokens.sql` | the table and the calls being served |
| `ClientSession` | `shared/api/client.ts`, `web/lib/token-store.ts` | tabs over `RefreshTokens` (an `INSTANCE`) |
| `LiveGrid` | `live/*.go`, `events.go`, `shared/api/sse.ts`, `use-center-events.ts`, the grid's query in `shared/queries/homework.ts` | server, stream and page |
| `SeriesBoard` | `handlers/mathcenter/series.go`, `store/math_center_series.sql.go` | the problem sets of a center and their statement PDFs |
| `SolutionPublication` | `handlers/mathcenter/{coffins,solution_publication}.go`, `store/subproblem_solutions.sql.go`, what `series.go` shows of solutions | solutions and coffins of one series; extends `HomeworkRules` |
| `GradingViews` | the read handlers of `handlers/homework`, the queries of `store/homework.sql.go` and `store/homework_center_grid.sql.go` | the read endpoints over reduced writers; extends `HomeworkRules` |
| `CenterRoster` | `handlers/mathcenter/{manage,terms}.go`, `handlers/admin/mathcenter.go`, `store/math_center*.sql.go` | terms, groups, enrolments, teachers: the actions `RazborAccess` and `Registration` are composed from |
| `RazborAccess` | the access table of `manage.go` and its queries, `SyncStudents` | extends `CenterRoster`: each of its actions with what it does to the access rows |
| `Registration` | `handlers/auth/{register,invite}.go`, `tokenpreset/`, the handlers that mint invitations | extends `CenterRoster` by invitations and accounts |
| `MC…` | – | values and symmetry sets for TLC |

A definition named "Mutant of X" is X with a plausible bug; it is used nowhere
in the specification, and each shows that one property depends on X.

### HomeworkThread

*State.*  `thread` is the row (with `exists` for "not inserted yet" and `named`
for "`last_grader_name` is not empty"), `log` the committed events by id,
`nextId` the sequence, `req` the requests in flight, `rowLock` the import
transaction that holds the row's lock, `now` the database clock.

*Steps.*  A handler that appends an event is two or three atomic steps, as the
code makes them:

1. the handler's name (`SubmitAttempt`, `AppealGrade`, `Grade`, `Retract` – which
   reads twice, hence `FindGradedEvent` –, `OfflineAccept`, `OfflineUndo`): what
   it reads through the pool, its checks and early returns, and a *plan* of its
   transaction.  A request that is refused has no step of its own: it changes
   nothing, apart from the row `FindOrCreateThread` may have inserted, which
   `IssueStudentUploadURLs` has as an effect as well;
2. `Append`: BEGIN and the INSERT, where the sequence hands out an id and
   `UNIQUE (event_uuid)` is enforced.  An INSERT waits while another open
   transaction holds the same uuid;
3. a `Commit…`: the UPDATE and the COMMIT, when the event becomes visible, or
   `Abort`: a rollback (an error, a cancelled request, a crash), after which the
   id is used up.

`Claim`, `Heartbeat` and `Release` are single statements.  `CommitGrade` is
conditional on the claim, `GradeContention` its other case.  `ImportMarker` is
the import's transaction up to its INSERT; it holds the row's lock from its
upsert on, so every other write waits for it (`RowFree`), and its commit is
`CommitOfflineAccept` or `Abort` like anybody's.

### RefreshTokens and ClientSession

`token` is the table; `call` has, for each request in flight, what it asks for
and how far it is.  An exchange is `ExchangeCheck` (the read and its checks) and
`ExchangeCommit` (INSERT, UPDATE, COMMIT); `Fail` is every way in which the
caller gets an error, before or *after* the table has changed.  The column
`login`, which the table does not have, remembers which login a token descends
from; nothing in the actions reads it except to copy it.

`ClientSession` replaces the free callers by tabs.  JavaScript runs to its next
`await`, so an action is one such stretch: `Unauthorized` is a 401 and
`refresh()` up to its request, `RefreshDone` all that happens when its answer
arrives, for every request that shared it.  `Reload` forgets what is in memory.

### LiveGrid

The data of a part of the grid is its version: how many changes of it are
committed.  A handler commits (`Commit`) and later publishes (`Publish`:
pg_notify, listener and hub in one step, because a notification that waits in
between is one that is sent later).  A fetch is *sent*, *read* by the server
and *done* (or failed) at the page.  `Schedule`, `CellsDone` and `CellsFailed`
are `SeriesRefreshQueue`; `Connected` is `onConnected`; `HandleCenterEvent` the
switch over event kinds, with the kinds that name a series and those that
refresh the whole grid.

TanStack Query is not part of the repository: what the grid's queries rely on is
modelled from their use (a refetch replaces a fetch in flight if there is data,
`fetchQuery` joins a fetch in flight, `setQueryData` clears the invalidation, an
unused entry is collected) and is marked external.

### SeriesBoard

`series`, `board` (problems and subproblems with their sequences) and `blobs`
(the object store) are the tables; `call` has the handlers that take more than
one step. `ReconcileSeriesProblems` translates the edit of a problem set statement
by statement – deletions, parking at negative numbers, then each problem of the
payload with its final number and its parts – on a board whose `ok` turns false when
a unique index is violated, so that a wrong order of the passes shows. A loop is a
recursive function from the number of passes to the board (`Parked`,
`InsertLabels`, `WriteProblems`); deletions, whose order cannot matter, are of sets.
`CreateSeries` and `UpdateSeries` are transactions that lock the series first and thus one step;
`DeleteSeriesGet`/`DeleteSeries`/`DeleteObject` and
`FinalizeStat`/`FinalizePDFPublish` are the steps between which the row and its
object can part. `PutObject` is the client of a presigned URL, at any time.

### SolutionPublication

`row` is `math_center_subproblem_solutions`, `groups` the solutions shared by
several subproblems. Marking, saving and publishing are single statements or one
locked transaction; `UnmarkRead`/`UnmarkCoffin` and `ClearLinkRead`/`ClearLink`
read and write apart. The four places that decide what a student sees
(`RestrictSeriesRazbors`, `CoffinTab`, the two read endpoints) are operators over
the state, each with its own condition as in the code, and so are the three
queries of the coffins tab. Deadlines and access rights are quantified over in
the properties. Deadlines, and `SubmissionClosed`, which the homework handlers
ask, come from `HomeworkRules`.

### GradingViews

The writers of a thread, the roster and the active term, each reduced to what its
transaction commits, and every read endpoint as the set or function its SQL
returns: `ListGraderQueueForSeries`, `GraderStatsForCenter`,
`ListCoffinQueueForCenter`, `TeacherSeriesGrid`, `AggregateProblemStats`,
`MySeriesRollup`, `StudentSeriesRollup`. Three reads are several steps: the
center's spreadsheet (the term outside, then three queries in a REPEATABLE READ
transaction, whose snapshot the first one takes), the page of a thread (the
row, then the events, in no transaction), and a student's page of a series (its
rows, `MySeriesRows`, then its counters, `MySeriesRollup`: two statements of the
pool, in no transaction).

### CenterRoster, RazborAccess and Registration

`CenterRoster` has the tables every part of center management shares, and a
request (`call`) with a check step and a write step for each handler that reads
before its transaction: two ways to add a student, two ways to move one, creating
a group, adding a teacher. `ListTerms`, `OpenTerm` and `CommitTerm` are the three
moments of opening a term: the list the sequence is checked against, the copy of
groups and students, the commit; a second `OpenTerm` waits for the first.

`RazborAccess` conjoins to each of them what it does to the defaults and to the
rows of the access table (`InitRows`: only some ways to enrol materialise them),
orders a user's enrolments as their ids would (`older`, which picks the newest),
adds the spreadsheet's `Sync`, the series and the edits, and computes access
twice: `ManagerSees` as the table's query does, `StudentSees` as the student's.
An edit of cells is an `INSERT … SELECT … ON CONFLICT DO UPDATE` of *both* formats:
`ReadMatrix` takes its rows from the statement's snapshot, the format that was not
edited included, and `SetMatrix` writes them and commits, whatever was committed in
between – READ COMMITTED makes the statement wait for a row, not read it again.

`Registration` adds invitations of each kind, accounts (`users.invitation_token_id`
and the placeholders of the spreadsheets) and registrations in flight:
`Lock` (the invitation FOR UPDATE, its uses), `Find` (the placeholder, with or
without a lock, as the kind has it), then a claim (`ClaimPersonal`, `ClaimFound`:
the UPDATE of the account and the read of the groups it is in) and `CommitClaim`
(the groups that remain, and the COMMIT), or `Create`, or `Fail`. Minting,
revoking, expiry, removals and `SyncStudents` happen in between. A claimed account
is still a placeholder to everybody else. Its row is locked: other claims wait
(`RowHeld`), and so do inserts of rows that refer to it (a foreign key takes FOR KEY
SHARE, which the UPDATE of a unique column excludes). No enrolment is locked:
removals, moves and deletions of groups do not wait.

## The runs

### Threads

* **thread_race** (`ThreadRace.cfg`).  Two requests, of the student or of a
  grader, overlap in every way, with rollbacks and imports, also two that carry
  one uuid (the INSERT of the second waits for the first).  *TypeOK*;
  *VerdictBacked*: a verdict in the row names the committed event that gave it;
  *PendingHasAttempt*: nothing is ever queued without an attempt to look at;
  *ReferencesResolve*: appeals, grades, retractions and undos refer to earlier
  committed events of the right kind; *UuidOnce*: of a request and its resend one
  is committed at most, in flight together or one after the other;
  *EventsImmutable*; *ImportNeverOverwrites*.  None of these is checked by the code
  when it commits, apart from the unique index on uuids – they survive although the
  statuses the requests checked are stale.
* **thread_serial** (`ThreadSerial.cfg`).  One request at a time, longer logs and a
  clock.  *FollowsLifecycle* (the thread
  implements `ThreadLifecycle`: accepted work stays accepted until somebody takes
  the verdict back, and so on) and *CacheAgreesWithTimeline* need "one at a
  time", as the findings show, and are proved for it; *ClaimIsLease* (the thread
  implements `ClaimLease`) does not need it, and is proved without.

### Sessions

* **refresh_overlap** (`RefreshOverlap.cfg`).  Two clients that present any token
  ever issued, each between its check and its commit, failing anywhere, and
  logouts.  Nothing locks the token that is read, and two exchanges of one token do
  both succeed (`RefreshTwice.cfg`); what stays true is *WorkingEndsAccountedFor*: a
  login has at most one working token more than it has had exchanges that were
  displaced in that way, and *DeadSessionsStayDead*: a session in which nothing
  works, and no exchange of which is past its check, never works again.
* **session_tabs** (`SessionTabs.cfg`).  Two tabs, no reload: *SessionInv*, with
  *StoredTokenUsable*: logouts, refreshes and logins of the tabs overwrite one
  another's token, and the one that is stored still works.
* **session_single** (`SessionSingle.cfg`).  One tab, two requests, a reload:
  *NoSelfReplay*, and *WaitersResume* under fairness.

### Live grid

* **grid_live** (`GridLive.cfg`).  *StaysCurrent* with two series and no faults:
  the dirty flag of the refresh queue, set before and read after the await, is
  what makes it true.
* **grid_faults** (`GridFaults.cfg`).  Any two faults, a series and a center-wide
  part, a buffer of one.  *GridTypeOK* (with the bounded buffer, and "running
  means a fetch is in flight"); *RefreshEnds*; *MissedChangesArrive*: the
  catch-up after a reconnect covers the time without a stream, once nothing goes
  wrong any more.

### The center

The main invariant of a module (`…Inv`) is a conjunction of named parts, the types
first.

* **series_board** (`SeriesBoard.cfg`).  Every payload in every state of a problem
  set, and two handlers between their steps.  *EditDoesAsked*: no accepted edit trips
  a unique index half-way, it leaves exactly what was asked for, and every problem and
  part that the payload keeps is the same row – threads hang on its id.  *BoardInv*:
  every problem has parts to hang threads on; a PDF key has its object, while two
  handlers are between the check of the one and the write of the other.
* **solutions** (`SolutionPublication.cfg`).  *SolutionInv*: who sees anything of a
  solution cannot submit at that instant, the boundaries included (of later
  instants it says nothing: to mark a published problem that is no coffin opens it
  again); *EndpointsAgree*;
  *OpenCoffinsAreListed* over a change of term; *ReleaseIsFinal*;
  *PublicationIsWhole*: what is published together has material and is one
  solution.
* **views** (`GradingViews.cfg`).  *ViewInv*: a queue is what `TryClaim` would
  grant, and "being graded" is true of one teacher; *StatsMatchQueues*,
  *ViewsAgree*: the same facts from different joins; *CountersCountRows*: the
  counters of a student's page count its rows, but for what was committed between
  the two statements; *GridIsOfOneMoment* and *TimelineExplainsStatus*: two more answers that
  are several queries, while others commit.
* **razbor** (`RazborAccess.cfg`).  Two requests between their check and their
  write.  *RazborInv*: one active term, enrolments in groups that exist and an
  unassigned group in every term, although groups and terms come and go after the
  check (a foreign key and unique indexes hold them); *TableIsWhatStudentsSee*;
  *EditsDoAsked*: an edit of the table, committed after anything else that happened
  since it began, leaves every row it is about as it was asked to be, and no other
  row changes (what it was asked includes the other format as the edit found it, see
  `OtherFormatStands` under findings); *RowsAreHistory*;
  *RolloverKeepsAccess*: the commit of a term changes nobody's access to what is
  past, if the term it was copied from is still the current one and its roster
  stood still since.
* **registration** (`Registration.cfg`).  Two registrations and two invitations
  over the same placeholders, while the roster changes.  *RegistrationInv*: uses
  never exceed the limit, a personal link makes no account but its own;
  *AccountsChangeOnce*: nobody's account is taken over, nothing is made with a
  revoked invitation, and a placeholder found by name goes to that name;
  *GrantsAreWhole*: no grant is lost on the way. A new account has all of them when
  it is committed, a placeholder those that it was not in when it was claimed; of
  those that it was in, it misses only what somebody took it out of before the
  commit, for which nothing is locked (`GrantsAreAllThere` under findings).

Deadlock is checked except where the system really stops under the bounds: in
`LiveGrid` when everything is delivered and nobody changes anything any more, in
`SeriesBoard`, `GradingViews`, `RazborAccess` and `Registration` when ids, events,
steps or changes are used up.

## Bounds

| Bound | Value | Why it is enough |
|---|---|---|
| `Reqs` | 2 (1 in *thread_serial*) | every hazard of the thread is one request overtaking another; a third only repeats what one of the two can do, since an idle request can start anything. The theorems have no bound |
| `Teachers`, `Admins` | 1 overlapping, 2 serial; none | a second grader matters for claims, stickiness and re-crediting; an admin's extra rights are exercised by the proofs, which allow any. With two graders and `MaxTime` 1 *thread_race* passes too (7.0 million states, about five minutes) |
| `Uuids` | 1 (none in *thread_serial*) | a request and its resend, against requests without one |
| `MaxId` | 4 overlapping, 5 serial | an appeal racing a retraction needs four events; submit, reject, appeal, offline accept, undo – the longest chain in which each event depends on the one before – five |
| `MaxTime`, `Lease` | 3, 1 (*thread_serial*); 2, 1 (*thread_race*) | a lease that is live, at its boundary instant, and past |
| `Callers` (*refresh_overlap*) | 2 | an exchange between the check and the commit of another one, or a logout there |
| `MaxToken` | 3–4 | a chain of three tokens, or two sessions |
| `Tabs`, `Queries` | 2 × 1, 1 × 2 | one shared refresh token, and one shared refresh, respectively |
| `MaxReloads` | 0–1 | stated per property: a reload between the rotation and the answer does strand the stored token |
| `Buffer` | 1–4 for the code's 16 | 4 holds every event of *grid_live* (no drop), 1 overflows at the second |
| `MaxVersion` | 1–2 | a change during a fetch of an earlier change |
| `MaxFaults` | 0–2 | a fault while another one is being repaired |
| `Numbers`, `MaxSpecs`, `MaxCount` (*series_board*) | {0, 1}, 2, 2 | two problems that swap numbers, are dropped and added; parts appear, grow, shrink and disappear |
| `MaxSeries`, `MaxProblem`, `MaxSub` | 1, 2, 4 | one series – edits touch no other, which the statements' WHERE says –, two problems that swap, and one that is dropped for a new one at its number; only new problems use up ids, so that kept ones are edited at the limit too |
| `Requests` (*series_board*) | 2 | a finalization or a creation between its check and its write while another one, or a deletion, is between its own |
| `Requests` (*solutions*, *registration*) | 1 | one handler between its steps, while all single-step handlers run (and, in *registration*, two registrations) |
| subproblems, `MaxNow`, `MaxGroup` (*solutions*) | 2, 2, 2 | two rows that share a solution, a group they join and one they leave; a coffin released now and a deadline before, at and after. One offers TeX and a link, the other a PDF |
| students, series, terms (*views*) | 1, 2, 2 | the joins go wrong for a student in one term and not in the other; one series has the coffin. `MaxEvents` 3 reaches an appeal, a retraction and an undo, `MaxClaims` 1 with `Lease` 1 a live, an expiring and an expired claim |
| `Requests`, `MaxTerm`, `MaxSteps` (*razbor*) | 2, 3, 3 | a request overtaken by another one and by two single steps, over two rollovers; opening a term and editing the table take no step of the bound. One student and one group besides "unassigned" |
| `Registrants`, `Invitations`, `People`, `MaxUser`, `MaxUses`, `MaxChanges` (*registration*) | 2, 2, 2, 3, 1, 4 | a race for the last use, and for one placeholder by two links; namesakes; four steps before, between and after: two placeholders and two invitations, or one of each, a removal and a revocation |

Users, uuids and tabs are model values; symmetry is used over requests, teachers
and tabs in runs without liveness properties.

## Fairness

| Specification | Weakly fair | Why |
|---|---|---|
| `ClientSession!FairSpec` | each server step, `RefreshDone` | an HTTP exchange ends in an answer or an error, and the promise that waits for it is resumed |
| `LiveGrid!FairSpec` | `Publish`, `ListenerBack`, reads and answers of fetches, `Subscribe`, `Connected`, `HandleCenterEvent` | handlers run on, `Run` and `openEventStream` reconnect in a loop, an exchange ends. Nobody has to open, hide or show a page, and faults need not stop except that they are bounded |

The other modules have no fairness: nothing in them runs unless a user asks for
it.  A claim needs no sweeper, because its expiry is compared with
the database's `NOW()` by whoever comes next.

## Findings

The modules state sentences of the repository that the code does not live up to.
TLC violates each with the configuration named here (`tlc -config
ThreadIllegalSequence.cfg MCHomeworkThread`); none is part of the project's runs,
which check what does hold.  Where the configuration is a run's own
(`GradingViews.cfg`, `Registration.cfg`, `SeriesBoard.cfg`,
`SolutionPublication.cfg`), the property goes in the place of the run's properties.
The module to run is `MCHomeworkThread` for `Thread…`, `MCRazborAccess` for
`Razbor…` and `Roster…`, `RefreshTokens`, `MCClientSession` for `Session…`,
`LiveGrid` for `Grid…`, `MCSeriesBoard`, `MCSolutionPublication`, `MCGradingViews` and
`MCRegistration` for the configurations that begin with their names.

Threads, sessions and the live grid:

| Property | Configuration | What the code says | What happens |
|---|---|---|---|
| `LegalSequence` | `ThreadIllegalSequence.cfg` | `CanTransition` is checked again inside the transaction | it is checked on an earlier read; a submission lands on a thread accepted in between |
| `RetractionNamesCurrentGrade` | `ThreadRetractedGrade.cfg` | a retraction refers to the grade it rescinds | it names the last *online* grade even if the current accept is an offline one |
| `CacheAgreesWithTimeline` | `ThreadCacheOrder.cfg` | timeline and cache cannot disagree (offline.go:285-286) | ids are drawn before the row is locked, so the last writer of the row need not have the last id |
| `RetractRestoresAttempt` | `ThreadStaleRollback.cfg` | a retraction restores the most recent attempt (retract.go:27-28) | the status is computed earlier; an appeal in between is shown as a submission |
| `OfflineSparesOnlineAccept` | `ThreadOfflineOverride.cfg` | offline marking cannot override an online accept (offline.go:85-86) | it can, if the accept lands after the check |
| `OnlineGradeUnnamed` | `ThreadGraderName.cfg` | the free-text grader name is empty for online grades (migrations/000015_offline_grading.up.sql:28-29) | it survives a retraction and a new grade |
| `AppealAnsweredByItsGrader` | `ThreadAppealGrader.cfg` | only the original grader or an admin resolves an appeal (grade.go:80-82) | an undone offline accept leaves its grader as the last one |
| `OneLivePerLogin` | `RefreshTwice.cfg` | an exchange is atomic (refresh.go:78-80) | two with the same token both succeed |
| `ClearsOnlyDeadToken` | `SessionClears.cfg` | the refresh token is dead when it is cleared | any failure clears it, also one that never reached the server |
| `SignedOutStaysOut` | `SessionSignOut.cfg` | the local cleanup signs the user out (client.ts:193-194) | a refresh in flight stores a working token afterwards |
| `StaysCurrent` | `GridBurst.cfg` | a dropped event is made up for by the next event or a periodic refetch (hub.go:51-53) | there is no periodic refetch, and the next event may be about another series |
| `StaysCurrent` | `GridRevisit.cfg` | the first connection races the page's own snapshot (use-center-events.ts:41-43) | after leaving and returning there is no new snapshot: the cached grid is used and not refreshed |
| `StaysCurrent` | `GridWhole.cfg` | every open page stays current (use-center-events.ts:15-18) | a whole-grid answer that was read earlier replaces newer cells |

The center:

| Property | Configuration | What the code says | What happens |
|---|---|---|---|
| `PublishedHasContent` | `SeriesBoard.cfg` | only a series that is not published may be without problems (series.go:1121) | an edit may empty the problems of a published series, and its statement may be removed |
| `PublishedHasMaterial` | `SolutionPublication.cfg` | a published solution keeps a format (coffins.go:801) | the check is a read before a separate write |
| `RowMeansSomething` | `SolutionPublication.cfg` | a row exists iff the subproblem is a coffin or carries a solution (queries/subproblem_solutions.sql:1) | clearing a link leaves an empty row |
| `MarkReopens` | `SolutionPublication.cfg` | marking a coffin opens it again (coffins.go:439) | one that was released keeps `released_at` and stays closed |
| `UnmarkKeepsSolution` | `SolutionPublication.cfg` | unmarking keeps a solution (coffins.go:469-471) | one saved after the handler looked is deleted with the row |
| `RolesExclusive` | `Registration.cfg` | a teacher of the center cannot also be a student (admin/mathcenter.go:270) | the check is not locked, and `SyncStudents` does not make it |
| `NobodyLeftBehind` | `RosterLeftBehind.cfg` | the students of the term before are carried over (terms.go:86-89) | one enrolled while the roster is copied is not |
| `TermsFollow` | `RosterTermsFollow.cfg` | the terms of a cohort are strictly sequential (terms.go:215) | the sequence is checked against a list read earlier |
| `DefaultsAreForLaterSeries` | `RazborDefaults.cfg` | changing a future-series default cannot change historical access (migrations/000024_razbor_access_matrix.up.sql:13-14) | where no row was materialised – admin `AddStudent`, a registration, `SyncStudents` – it does |
| `ClaimedIsInTheGroup` | `Registration.cfg` | the placeholder already owns the exact group enrollment (register.go:180) | a spreadsheet may have moved it since it was found |
| `GrantsAreAllThere` | `Registration.cfg` | the grants commit atomically with the user, or not at all (register.go:175-177) | a placeholder that was in one of several groups may be taken out of it after the handler has read its groups, and it is not put back |
| `ValidIsUsable` | `Registration.cfg` | the invitation page is told whether a link is usable (invite.go:44-46) | the group of a link to one group, or the claimed student, may be gone |

TLC also shows what no comment promises but a user may expect:

* `QueueIsOnGrid` (`GradingViews.cfg`): a student who left the group of the series'
  term still has threads that wait in queues, and no row on the spreadsheet of the
  series.
* `PageIsOfOneMoment` (`GradingViews.cfg`): a student's rows and counters are two
  statements (my_series_rollup.go:88 and 97), and what commits in between makes the
  page contradict itself.
* `OtherFormatStands` (`RazborLostEdit.cfg`): of two managers who edit the two formats
  of one cell at the same time, one loses the edit: the statement that waits for the
  row writes the other format back as its snapshot had it (math_center.sql.go:1699,
  1862, 2044).

Met while modelling, without a property of their own:

* `Flush` of the alert service can see an empty queue and no delivery in flight
  between the receive of an event and the increment that announces it
  (telegramalerts/service.go:130).
* A sync run is inserted as `running` and finished by a later statement; a crash
  leaves it running for good (googlesheets/service.go:297).
* Notifications sent while the listener reconnects are lost, and clients whose
  streams stay up are not told (live/listener.go:65).
* A page that is reloaded after the server rotated its token and before the answer
  is stored loses the session (client.ts:155).
* `CreateSeries` with a term checks that the term is active before its INSERT
  (series.go:240; `CreateInTerm` has the step).
* A registration is committed, and then issuing its tokens fails: the retry meets
  a taken username (register.go:223).
* A several-groups invitation whose placeholder is enrolled in another group of one
  of its terms fails every time (`UNIQUE (user_id, term_id)`,
  tokenpreset.go:302); so does an admin's "claim" preset without a center.
* `SyncStudents` loads names once; a registration of the same person that commits
  in between leaves two accounts of one person (structure_sync.go:151).
* A student who is removed and added again keeps the old rows of the access table;
  `SetStudentRazborAccess` writes a flag that no query reaches.
* Requests that open a term and listed the terms before there was any copy all the
  legacy roster; those that wait for the lock open one term after another from it,
  so the last of them may change who sees what (terms.go:86-89, the check of
  terms.go:215 passes on the older list).
* A logout that lands between the check and the commit of an exchange revokes a
  token that is about to be replaced: the session lives on under the new one
  (refresh.go:89-124).

## Proofs

Every theorem is about the module's specification, for every set of users, requests, tabs,
subproblems, terms … and every bound: what TLC shows of the instances in
[bounds](#bounds) holds of all.  All invariants follow the same way: an inductive
`IInv` that says more than the property (TLC checks it on the run's instance as
well), `Init` implies it, one lemma per action or handler shows that the action
keeps it, and the theorem follows with `PTL`.

| Module | Theorem | Says |
|---|---|---|
| `HomeworkThreadProofs` | `PlansStaySound` | `[]IInv` |
| | `TypeCorrect` | `[]TypeOK` |
| | `VerdictsAreBacked`, `PendingThreadsHaveAttempts`, `TimelineIsCausal` | the row and the log agree on verdicts, attempts, references |
| | `LogIsAppendOnly`, `ImportsNeverOverwrite` | the two action properties |
| | `ResendsLandOnce` | `[]UuidOnce` |
| | `ClaimColumnsAreALease` | `HomeworkThread` implements `ClaimLease` |
| | `CacheTellsTimeline`, `LifecycleImplemented` | if requests take turns: `[]CacheAgreesWithTimeline`; `HomeworkThread` implements `ThreadLifecycle` |
| `RefreshTokensProofs` | `TokensSafe` | types, and tokens that were issued, for any requests |
| | `WorkingEndsCounted`, `DeadStaysDead` | `[]WorkingEndsAccountedFor`, `DeadSessionsStayDead`, for any requests that overlap |
| | `OneWorkingEnd` | one request at a time: `[]OneLivePerLogin` |
| `ClientSessionProofs` | `StoredTokenWorks` | `[]SessionInv`, any tabs, requests and reloads |
| | `OneTabNeverReplays` | one tab: `[]NoSelfReplay` |
| `LiveGridProofs` | `GridTyped` | `[]GridTypeOK` |
| `SeriesBoardProofs` | `BoardSound` | `[]BoardInv` |
| | `EditsDoAsked` | `[]EditDoesAsked`: whatever valid payload meets whatever board |
| `SolutionPublicationProofs` | `SolutionsStayHidden`, `EndpointsAlwaysAgree`, `OpenCoffinsAreFound` | `[]SolutionInv`, `[]EndpointsAgree`, `[]OpenCoffinsAreListed` |
| | `ReleasesAreFinal`, `PublicationsAreWhole` | the two action properties |
| `CenterProofs` | `InvitationsBounded` | `[]RegistrationInv` |
| | `RosterStands` | the roster's invariants hold beside registrations |
| | `OwnersStay`, `GrantsComplete` | `AccountsChangeOnce`, `GrantsAreWhole` |
| | `RosterIsSound`, `TableIsTrue`, `EditsAreExact` | `[]RazborInv`, `[]TableIsWhatStudentsSee`, `EditsDoAsked` |
| | `RowsStay`, `RolloverIsSeamless` | `RowsAreHistory`, `RolloverKeepsAccess` |
| `GradingViewsProofs` | `QueuesAreRight`, `CountersAreRight`, `PagesAreConsistent` | `[]ViewInv`, `[]StatsMatchQueues`, `[]ViewsAgree` |
| | `CountersAreOfTheRows`, `GridIsWhole`, `TimelineIsExplained` | `[]CountersCountRows`, `[]GridIsOfOneMoment`, `[]TimelineExplainsStatus`: the three reads that are several queries |

### Assumptions

Each is declared by the module it is about and evaluated by TLC in the runs:

* `ConstantsOK`: the student is not staff, `Null` is none of the users, requests
  and uuids; the bounds are naturals (positive where a clock or a lease needs it).
* `TokenConstantsOK`, `SessionConstantsOK`: bounds are naturals; `"sign"` and
  `"none"` name no request.
* `LiveConstantsOK`: a part is a series or center-wide, not both; a buffer has room
  for an event; the bounds are naturals.
* `BoardConstantsOK`: no payload has a negative number (`validateSeriesPayload`) –
  parking relies on it –, some numbers are allowed, the bounds are naturals.
* `OfferedAssumption`, `BoundsAssumption`: a subproblem offers some of the formats;
  bounds.
* `RosterAssumption`, `RegistrationAssumption`: "unassigned" is not the name of an
  ordinary group, `None` not a name, the kinds of account that are not an
  invitation are none; there is room for a term, and in `Registration`, whose
  center begins in its second, for two, and for one use. The second is about
  `Registration` alone: no proof about `RazborAccess` uses it.
* `ViewConstantsOK`: every subproblem has a series and every series a term, there
  are finitely many students and subproblems (they are rows), `Null` is nobody.

Four theorems have a hypothesis about the requests, because the property is false
without it and TLC shows how: with two requests on one thread the last writer of the
row need not have the last id (`ThreadCacheOrder.cfg`) and a stale check passes
(`ThreadIllegalSequence.cfg`), hence *TakeTurns* for `CacheTellsTimeline` and
`LifecycleImplemented`; with two exchanges of one token both succeed
(`RefreshTwice.cfg`), hence *OneAtATime* for `OneWorkingEnd`; two tabs may both present
the token they share, hence *OneTab* for `OneTabNeverReplays`.  Each says that a set has
at most one member. *thread_serial* and *session_single* check their properties under
it; with one caller in `RefreshTwice.cfg` TLC finds nothing either.

### The arguments

*HomeworkThread.*  `VerdictBacked` is not inductive, because a request commits what
it planned when it read, possibly long ago.  `IInv` adds what every plan in
flight has made sure of and nobody can take from it (`PlanSound`): the events
it refers to are committed – events are never removed –, and a retraction or an
undo restores a status that has an attempt behind it, because attempts are never
forgotten either.  `IdsFresh` says that a request's id is in nobody else's hands
and not in the log, so its commit cannot overwrite; `ImportLocks` that an import
in flight still sees the ungraded thread it saw, since it holds the row.  `TypeOK`
needs the whole of it: the status a grade writes is the verdict its plan carries.
`ResendsLandOnce` adds that of two requests with one uuid at most one is past its
INSERT.  The refinement of the lease needs types only: each step is a `Take`,
`Extend`, `Drop`, `Pass` or a stutter, with the remaining time as `expires - now`.

For requests that take turns `TurnsInv` adds that the attempt the row points at is
the last one, that the status follows from the last event, and that what the
request in flight has checked still stands.  Then each commit is the transition of
`ThreadLifecycle` that its check allowed.

*RefreshTokens.*  What works cannot be counted directly: a logout between the check and
the commit of an exchange takes a working end away and the commit brings one back. So
the invariant counts the tokens that nothing replaced (`ChainEnds`), working or not.
A commit over a token without an heir moves the end of a chain; over one that has an
heir already it adds an end, and displaces that heir, which no row names any more
(`HeirsFollow`, `HeirsDiffer`).  A session that is over stays so because the check
refuses every token of it.  With one request at a time the check still stands at the
commit, and a commit replaces the one working end.

*ClientSession.*  The tabs share one stored token and each holds answers it has not
handled yet.  `GotIsFresh` says that a token which was granted and not yet stored is
nobody else's: not stored, not presented, not granted to another call.  So whoever
stores it, in whatever order the answers come, stores a token that works.  With one
tab, `SingleFlight` (one exchange at a time, shared by its waiters) and
`RotatedAreRevoked` make the second part: what the tab is granted replaces what it
presented before it presents anything again.

*LiveGrid.*  The types alone are not inductive: nothing would bound how many changes
wait to be published, and a stream could start with somebody's old buffer. What
waits was committed (`UnsentCommitted`), and only a page that is open and in view has
a stream (`StreamsInView`). That a run
of the refresh queue has a fetch in flight is kept by each way a fetch ends
(`RunOnKeeps`), the failed one included.

*SeriesBoard.*  The library's theorems of induction take the predicate as a parameter,
which the provers cannot instantiate; `NatInduct` states induction with a *set* of
numbers instead and follows from < being well-founded. With it each loop is first
shown to be a *run* – a function over `0..n` whose neighbours are one pass apart – and
then a property is carried along the run. A board is `Sound` when its types are
right, nothing but known rows is referred to, labels and numbers are unique and no
statement has failed. For an edit the kept problems are first parked (`ParkedDoes`):
each at the negative of its id, where two cannot meet and no final number is. Then
`Halfway` is the invariant of the loop over the payload: what the first specs asked
for is there, the kept problems among the rest wait untouched, other series are as
they were. A pass keeps it whether the spec is a kept problem, whose parts are
matched by label, or a new one; at the end it says what `EditDoesAsked` says
(`HalfwayIsAllTheWay`). Creating a series is the same loop without kept problems.
`BoardInv` is not inductive either: between two steps of a handler the object store
and the row must stay in a relation that depends on what the handler has done
(`CallOK`), and every stored problem has all parts of some count (`PartsInFull`).

*SolutionPublication.*  Nothing is left of a row that does not exist, no release or
publication lies in the future (`NothingAhead`), and a request between its read and
its write refers to a subproblem (`CallsRefer`).  The four endpoints then agree by
their conditions.

*CenterRoster and its two users.*  A term that is being opened is not committed yet:
`OneOpening` says that it is the only one, that its copy has the unassigned group and
that there is room for it when it commits.  `RazborAccess` adds that a new term is new
to everything: no group, series, enrolment or request names it before it exists; so
the copied defaults give the access the old ones gave.  `Registration` adds what the
lock of an invitation means: whoever holds it is alone with it, it is not revoked
and not used up, and the uses it counted are still the uses there are; and what the
lock of a claimed account means (`ClaimStands`): it is claimed by one registration,
and free for everybody else until that one commits, so that the commit need not look
again.  An edit of the table carries the rows it is about to write (`edit`); they stay
what was asked however the roster and the defaults move, since they are full rows.

*GradingViews.*  The status of a row is what its log leaves behind, because only an
attempt changes which attempt is under review (`OthersKeepAttempt`), and a log only
grows (`StillExplains`): so a status that was read before the log is explained by a
prefix of it.  A read in flight keeps a snapshot whose threads and students fit, and
of the rows of a student's page how long each log was (`SeenAs`): a log that is no
longer than it was then belongs to the status that was read.
Queues, counters and hints then follow from types – a claim has both its columns or
neither – and the sums from finite sets.

### Checked but not proved

Liveness under fairness, which is out of the provers' reach: `WaitersResume`,
`RefreshEnds`, `MissedChangesArrive`, `StaysCurrent`. Every invariant and every
action property of the runs is proved.

## Abstractions and what is left out

*HomeworkThread.*
* Bodies, photos, comments and their validation: a request is a valid one.
* Who is a teacher, an admin or the student is constant while requests run.
* The deadline and the coffin state are whatever they may be at each submission
  (`SubproblemContexts`); `SolutionPublication` says how they come about.
* `TryClaim` uses `NOW()` when it executes; an UPDATE that waited for a lock uses
  the start of its transaction (`began`).
* Deleting a subproblem or a user removes threads by cascade; threads live on
  here.
* The live event after a commit is the business of `LiveGrid`; the alert is left
  out.

*RefreshTokens, ClientSession.*
* Hashes, JWTs and passwords are abstracted to their outcome; a rate-limited
  request is a failed one.
* A failure merges "the request was lost" with "the answer was lost" and with
  every server error: the client treats them alike.
* One sign-in or sign-out call per tab at a time; the event stream as another
  caller of `refresh()`, blob requests and impersonation are left out.
* Tokens expire in `RefreshTokens` only; in `ClientSession` an expired token is
  one more failure.

*LiveGrid.*
* One page in one tab, in one term, looking at other people's changes; the grid
  page is open while the center's layout is.  The page's own mutations, the other
  queries an event invalidates, and the end of a stream when the user signs out
  are left out.
* The whole grid is read in one step: the handler reads it in one
  repeatable-read transaction.
* Notifications lost while the listener reconnects are a fault of *grid_faults*;
  the code does not try to make up for them.

*SeriesBoard.*
* Names, deadlines and the text of a statement; a label is its position in the
  alphabet. Several centers do not share rows.
* Threads and solutions hang on the ids of subproblems, which are what the
  properties follow; they are not rows here.

*SolutionPublication.*
* One series; its deadline and the student's rights are quantified over. TeX
  sources and links are one bit each, the object store a set.

*GradingViews.*
* Writers are one atomic step each: how they interleave is `HomeworkThread`'s
  subject. While a student's page is between its two statements the series has the
  subproblems it had; an edit of the series in between is left out.

*CenterRoster, RazborAccess, Registration.*
* A group is its term and its name; a name is not used again in a term after its
  group was deleted.
* One center. Admin rights, grants in several centers and user names are left out;
  a taken user name fails a registration like any other error.
* A registration grants the remaining groups and commits in one step: each group
  that is granted is locked from its INSERT on (the foreign key), the new rows are
  nobody else's to see, and what a check before them relies on – no enrolment in the
  term, no teacher's row – cannot appear while the account's row is locked. For the
  same reason a new account is one step. Tokens are issued after the commit and left
  out.
* A default is set for a group and for its students by two statements of one
  transaction, and an enrolment copies the group's default in the INSERT; each is one
  step here. In the code a student who is enrolled between the two can keep the older
  default.
* `can_view_razbors` is left out: the defaults are NOT NULL, so the queries never
  reach it. No one becomes a teacher in `RazborAccess`.

## Not modelled

What is left has no interleaving that a property could be about, or is not state
of this system:

* **Telegram alerts**, **rate limiting**: no other component reads their state. A
  limited request is a failed one in `ClientSession`; the two races met in the
  alert service are named under [findings](#findings).
* **Google Sheets**: reading and writing the spreadsheet, `SyncSeries`, sync runs.
  The marker's import is a writer of `HomeworkThread`, `SyncStudents` one of the
  roster.
* **Notes, likbez lectures, LaTeX preamble and sources, center settings, the admin
  flag**: rows edited by one statement each.
* **Login, passwords, JWTs, middleware, impersonation**: computed per request, no
  state between requests; who may call what is a constant of the models.
* **Reads that nothing calls** (`TeacherCenterGrid` for a term and its kin) and
  lists of names.
* **Server, migrations, demo data, generated statements of the components above**,
  and the **frontend's pages and hooks**, each one request and one invalidation.
