------------------------ MODULE SolutionPublication ------------------------
(***************************************************************************)
(* The official solutions (razbors) of the subproblems of one series, and  *)
(* the coffins: subproblems that stay open past the deadline of the series *)
(* until their solution is released.  A row carries the coffin flag and    *)
(* the draft material; one explicit publication shows it to students.      *)
(* Saves are single upserts and publication is a transaction that locks    *)
(* its rows; unmarking a coffin and clearing a link read first and write   *)
(* later, without a transaction.                                           *)
(***************************************************************************)
EXTENDS Integers, HomeworkRules

CONSTANTS Subproblems,
          Offered,    \* bound: the formats a teacher saves for each subproblem
          Requests,   \* two-step requests in flight at once
          MaxNow, MaxGroup, MaxTerm   \* bounds: the clock, groups, terms

Formats == {"tex", "pdf", "link"}

ASSUME OfferedAssumption == Offered \in [Subproblems -> SUBSET Formats]

ASSUME BoundsAssumption ==
  MaxNow \in Nat \ {0} /\ MaxTerm \in Nat \ {0} /\ MaxGroup \in Nat

VARIABLES now,
          row,      \* math_center_subproblem_solutions
          groups,   \* the last id of math_center_solution_groups
          blobs,    \* subproblems whose solution PDF is in the object store
          active,   \* the active term; the series belongs to term 1
          call      \* requests between their read and their write

vars == <<now, row, groups, blobs, active, call>>

Instants == 0..MaxNow

Solution == [exists : BOOLEAN, coffin : BOOLEAN, released : Instants,
             material : SUBSET Formats, group : 0..MaxGroup, published : Instants]

NoSolution == [exists |-> FALSE, coffin |-> FALSE, released |-> None,
               material |-> {}, group |-> None, published |-> None]

Idle == [pc |-> "idle", sub |-> None, seen |-> {}]

SeriesTerm == 1

\* ON CONFLICT (subproblem_id) DO UPDATE: an absent row gets the defaults.
Upsert(s) == [row[s] EXCEPT !.exists = TRUE]

HasMaterial(s) == row[s].material # {}
-----------------------------------------------------------------------------
\* The statements.

UpsertCoffinFlag(s, flag) == row' = [row EXCEPT ![s] = [Upsert(s) EXCEPT !.coffin = flag]]

DeleteSubproblemSolution(s) == row' = [row EXCEPT ![s] = NoSolution]

SetSubproblemSolutionTex(s) ==
  row' = [row EXCEPT ![s] = [Upsert(s) EXCEPT !.material = @ \cup {"tex"}]]

SetSubproblemSolutionPdf(s) ==
  row' = [row EXCEPT ![s] = [Upsert(s) EXCEPT !.material = @ \cup {"pdf"}]]

SetSubproblemSolutionLink(s, links) ==
  row' = [row EXCEPT ![s] = [Upsert(s) EXCEPT !.material = (@ \ {"link"}) \cup links]]

\* Mutant of SetSubproblemSolutionGroup: rows that have a group keep it.
FillSolutionGroup(rows, ids, g) ==
  [s \in Subproblems |-> IF s \in ids /\ rows[s].exists /\ rows[s].group = None
                         THEN [rows[s] EXCEPT !.group = g] ELSE rows[s]]

\* Only rows that exist are updated.
SetSubproblemSolutionGroup(rows, ids, g) ==
  [s \in Subproblems |-> IF s \in ids /\ rows[s].exists
                         THEN [rows[s] EXCEPT !.group = g] ELSE rows[s]]

\* Mutant of PublishSolutions: a second publication releases anew.
RepublishSolutions(rows, ids) ==
  [s \in Subproblems |->
     IF s \in ids
     THEN [rows[s] EXCEPT !.published = now, !.released = IF rows[s].coffin THEN now ELSE @]
     ELSE rows[s]]

\* released_at = COALESCE(released_at, now) for the coffins among them.
PublishSolutions(rows, ids) ==
  [s \in Subproblems |->
     IF s \in ids
     THEN [rows[s] EXCEPT !.published = now,
                          !.released = IF rows[s].coffin /\ @ = None THEN now ELSE @]
     ELSE rows[s]]
-----------------------------------------------------------------------------
\* The handlers of a teacher.

MarkCoffin(s) ==
  /\ UpsertCoffinFlag(s, TRUE)
  /\ UNCHANGED <<now, groups, blobs, active, call>>

\* UnmarkCoffin reads the row; without one it is done.
UnmarkRead(r, s) ==
  /\ call[r] = Idle /\ row[s].exists
  /\ call' = [call EXCEPT ![r] = [pc |-> "unmark", sub |-> s, seen |-> row[s].material]]
  /\ UNCHANGED <<now, row, groups, blobs, active>>

\* With a solution only the flag is cleared, else the row is dropped.  (The
\* deletion of a stray PDF is not reachable: a PDF is a solution.)
UnmarkCoffin(r) ==
  /\ call[r].pc = "unmark"
  /\ IF call[r].seen # {} THEN UpsertCoffinFlag(call[r].sub, FALSE)
                          ELSE DeleteSubproblemSolution(call[r].sub)
  /\ call' = [call EXCEPT ![r] = Idle]
  /\ UNCHANGED <<now, groups, blobs, active>>

PutSubproblemSolutionTex(s) ==
  /\ "tex" \in Offered[s] /\ SetSubproblemSolutionTex(s)
  /\ UNCHANGED <<now, groups, blobs, active, call>>

\* The client of a presigned URL.
PutObject(s) ==
  /\ "pdf" \in Offered[s] /\ blobs' = blobs \cup {s}
  /\ UNCHANGED <<now, row, groups, active, call>>

\* Stat and upsert; nothing removes an object, so they are one step.
FinalizeSubproblemSolutionPDFPublish(s) ==
  /\ s \in blobs /\ SetSubproblemSolutionPdf(s)
  /\ UNCHANGED <<now, groups, blobs, active, call>>

SetSubproblemSolutionLinkHandler(s) ==
  /\ "link" \in Offered[s] /\ SetSubproblemSolutionLink(s, {"link"})
  /\ UNCHANGED <<now, groups, blobs, active, call>>

\* An empty link: the last format of a published solution is refused (409).
ClearLinkRead(r, s) ==
  /\ call[r] = Idle /\ "link" \in Offered[s]
  /\ row[s].published = None \/ row[s].material \ {"link"} # {}
  /\ call' = [call EXCEPT ![r] = [pc |-> "clear", sub |-> s, seen |-> row[s].material]]
  /\ UNCHANGED <<now, row, groups, blobs, active>>

ClearLink(r) ==
  /\ call[r].pc = "clear"
  /\ SetSubproblemSolutionLink(call[r].sub, {})
  /\ call' = [call EXCEPT ![r] = Idle]
  /\ UNCHANGED <<now, groups, blobs, active>>

\* The fresh id is nobody else's before the UPDATE that assigns it.
AssignSolutionGroup(ids) ==
  /\ groups < MaxGroup /\ groups' = groups + 1
  /\ row' = SetSubproblemSolutionGroup(row, ids, groups + 1)
  /\ UNCHANGED <<now, blobs, active, call>>

LockSolutionPublicationTargets(ids) == {s \in ids : row[s].exists}

SameGroup(ids) == \E g \in 1..groups : \A s \in ids : row[s].group = g

\* Mutant of Publishable: a row of its own is enough.
RowsExist(ids) == LockSolutionPublicationTargets(ids) = ids

Publishable(ids) == /\ LockSolutionPublicationTargets(ids) = ids
                    /\ \A s \in ids : HasMaterial(s)

\* One transaction over locked rows.
PublishSubproblemSolutions(ids) ==
  /\ Publishable(ids)
  /\ IF SameGroup(ids)
     THEN row' = PublishSolutions(row, ids) /\ UNCHANGED groups
     ELSE /\ groups < MaxGroup /\ groups' = groups + 1
          /\ row' = PublishSolutions(SetSubproblemSolutionGroup(row, ids, groups + 1), ids)
  /\ UNCHANGED <<now, blobs, active, call>>

Tick == /\ now < MaxNow /\ now' = now + 1
        /\ UNCHANGED <<row, groups, blobs, active, call>>

\* Another module's: the term of the series is archived.
CreateTerm == /\ active < MaxTerm /\ active' = active + 1
              /\ UNCHANGED <<now, row, groups, blobs, call>>
-----------------------------------------------------------------------------
\* What a student is shown, at the current instant, of a series due at due.

\* razborAccess: what CenterRoster grants the student for the series.
AccessRights == [video : BOOLEAN, docs : BOOLEAN]
FullAccess   == [video |-> TRUE, docs |-> TRUE]

SolutionReleasedToStudent(s, due) ==
  /\ row[s].published # None
  /\ IF row[s].coffin THEN row[s].released # None /\ now >= row[s].released
                      ELSE now >= due

\* loadSubproblemForRead: coffins override the student's rights.
LoadSubproblemForRead(s, access) == IF row[s].coffin THEN FullAccess ELSE access

GetSubproblemSolutionTex(s, access, due) ==
  /\ row[s].exists /\ LoadSubproblemForRead(s, access).docs
  /\ SolutionReleasedToStudent(s, due) /\ "tex" \in row[s].material

DownloadSubproblemSolutionPDF(s, access, due) ==
  /\ row[s].exists /\ LoadSubproblemForRead(s, access).docs
  /\ SolutionReleasedToStudent(s, due) /\ "pdf" \in row[s].material

Permitted(access) == (IF access.docs THEN {"tex", "pdf"} ELSE {})
                       \cup (IF access.video THEN {"link"} ELSE {})

\* Mutant of RestrictSeriesRazbors: drafts show once the deadline is over.
RestrictByDeadline(s, access, due) ==
  IF now < due THEN {} ELSE row[s].material \cap Permitted(access)

\* The formats of a subproblem that the student's view of the series keeps.
RestrictSeriesRazbors(s, access, due) ==
  CASE ~row[s].coffin /\ now < due                    -> {}
    [] row[s].published = None                        -> {}
    [] row[s].coffin /\ row[s].published # None       ->
         IF row[s].released # None /\ now >= row[s].released THEN row[s].material ELSE {}
    [] OTHER                                          -> row[s].material \cap Permitted(access)

\* The coffins tab: without a term, the active one and whatever is still open;
\* with one, the carried coffins go with the active term only.
ListCenterCoffins ==
  {s \in Subproblems : row[s].coffin /\ (active = SeriesTerm \/ row[s].released = None)}

\* Mutant of ListCenterCoffinsForTerm: nothing is carried over.
ListOwnCoffinsForTerm(t) == {s \in Subproblems : row[s].coffin /\ t = SeriesTerm}

ListCenterCoffinsForTerm(t) ==
  {s \in Subproblems :
     row[s].coffin /\ (t = SeriesTerm \/ (t = active /\ row[s].released = None))}

CoffinTab(s) ==
  IF row[s].published # None /\ row[s].released # None /\ now >= row[s].released
  THEN row[s].material ELSE {}
-----------------------------------------------------------------------------
Init == /\ now = 1 /\ groups = 0 /\ blobs = {} /\ active = SeriesTerm
        /\ row = [s \in Subproblems |-> NoSolution]
        /\ call = [r \in Requests |-> Idle]

Next ==
  \/ Tick \/ CreateTerm
  \/ \E s \in Subproblems :
       \/ MarkCoffin(s) \/ PutSubproblemSolutionTex(s) \/ PutObject(s)
       \/ FinalizeSubproblemSolutionPDFPublish(s) \/ SetSubproblemSolutionLinkHandler(s)
  \/ \E ids \in SUBSET Subproblems \ {{}} :
       AssignSolutionGroup(ids) \/ PublishSubproblemSolutions(ids)
  \/ \E r \in Requests :
       \/ UnmarkCoffin(r) \/ ClearLink(r)
       \/ \E s \in Subproblems : UnmarkRead(r, s) \/ ClearLinkRead(r, s)

Spec == Init /\ [][Next]_vars
-----------------------------------------------------------------------------
\* Type invariant; nothing is known of a row that does not exist.
SolutionTypeOK ==
  /\ now \in 1..MaxNow /\ groups \in 0..MaxGroup /\ active \in 1..MaxTerm
  /\ row \in [Subproblems -> Solution]
  /\ \A s \in Subproblems : ~row[s].exists => row[s] = NoSolution
  /\ \A r \in Requests : call[r].pc \in {"idle", "unmark", "clear"}

Deadlines == 1..(MaxNow + 1)

\* A student who can see anything of a solution, through any of the endpoints
\* and with any rights, cannot submit at that instant (HomeworkRules.SubmissionClosed).
\* Nothing is said of later: marking a problem that is no coffin opens it again.
VisibleOnlyWhenClosed ==
  \A s \in Subproblems, due \in Deadlines, access \in AccessRights :
    (\/ RestrictSeriesRazbors(s, access, due) # {}
     \/ row[s].coffin /\ CoffinTab(s) # {}
     \/ GetSubproblemSolutionTex(s, access, due)
     \/ DownloadSubproblemSolutionPDF(s, access, due))
    => SubmissionClosed(row[s].coffin, row[s].released, due, now)

\* The main invariant: types, and no solution shows while its problem is open.
SolutionInv == SolutionTypeOK /\ VisibleOnlyWhenClosed

\* The series view, the coffins tab and the two read endpoints each decide for
\* themselves what a student may see, and agree.
EndpointsAgree ==
  \A s \in Subproblems, due \in Deadlines, access \in AccessRights :
    LET shown == RestrictSeriesRazbors(s, access, due)
    IN /\ "tex" \in shown <=> GetSubproblemSolutionTex(s, access, due)
       /\ "pdf" \in shown <=> DownloadSubproblemSolutionPDF(s, access, due)
       /\ row[s].coffin => CoffinTab(s) = shown

\* A coffin that is still open for submission is in the tab of the active term,
\* whatever term its series is of, and in the archive of its own.
OpenCoffinsAreListed ==
  \A s \in Subproblems :
    row[s].coffin /\ ~SubmissionClosed(TRUE, row[s].released, 1, now) =>
      s \in ListCenterCoffins \cap ListCenterCoffinsForTerm(active)
              \cap ListCenterCoffinsForTerm(SeriesTerm)

\* While a row lives, its release is never moved or taken back: through marking,
\* unmarking, saving and publishing again a coffin that closed stays closed.
ReleaseIsFinal ==
  [][\A s \in Subproblems : row[s].released # None /\ row'[s].exists =>
       row'[s].released = row[s].released]_vars

\* What is published in one step has material, and becomes one shared solution.
PublicationIsWhole ==
  [][LET fresh == {s \in Subproblems : row'[s].published # row[s].published /\ row'[s].exists}
     IN /\ \A s \in fresh : row[s].material # {} /\ row'[s].group # None
        /\ \A s, t \in fresh : row'[s].group = row'[t].group]_vars

\* Violated.  A published solution keeps a format (coffins.go:801).
PublishedHasMaterial == \A s \in Subproblems : row[s].published # None => HasMaterial(s)

\* Violated.  A row exists iff the subproblem is a coffin or carries a solution
\* (queries/subproblem_solutions.sql:1).
RowMeansSomething ==
  \A s \in Subproblems : row[s].exists => row[s].coffin \/ HasMaterial(s)

\* Violated.  Marking a coffin opens it for submission again (coffins.go:439).
MarkReopens ==
  [][\A s \in Subproblems : ~row[s].coffin /\ row'[s].coffin =>
       ~SubmissionClosed(TRUE, row'[s].released, 1, now)]_vars

\* Violated.  Unmarking keeps a solution (coffins.go:471).
UnmarkKeepsSolution ==
  [][\A s \in Subproblems : HasMaterial(s) => row'[s].exists]_vars
=============================================================================
