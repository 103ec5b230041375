---------------------- MODULE SolutionPublicationProofs ----------------------
(***************************************************************************)
(* Theorems about SolutionPublication, for every set of subproblems and    *)
(* requests and every bound.                                               *)
(*                                                                         *)
(* What a student is shown depends on three facts that the four endpoints  *)
(* do not check and that the handlers keep between them: nothing is left   *)
(* of a row that does not exist, no release lies in the future, and a      *)
(* request between its read and its write only refers to a subproblem.     *)
(* They are the inductive invariant.                                       *)
(***************************************************************************)
EXTENDS SolutionPublication, TLAPS

CallsRefer ==
  call \in [Requests -> [pc : {"idle", "unmark", "clear"}, sub : Subproblems \cup {None},
                         seen : SUBSET Formats]]
  /\ \A r \in Requests : call[r].pc # "idle" => call[r].sub \in Subproblems

\* Nothing was released or published later than now.
NothingAhead == \A s \in Subproblems : row[s].released <= now /\ row[s].published <= now

IInv == SolutionTypeOK /\ CallsRefer /\ NothingAhead

USE BoundsAssumption DEF None
-----------------------------------------------------------------------------
(* What a statement makes of one row.                                      *)

\* The rows a table of solutions may hold at this instant.
RowOK(r) == r \in Solution /\ (~r.exists => r = NoSolution)
              /\ r.released <= now /\ r.published <= now

LEMMA RowsOK ==
  IInv <=> /\ now \in 1..MaxNow /\ groups \in 0..MaxGroup /\ active \in 1..MaxTerm
           /\ row \in [Subproblems -> Solution] /\ \A s \in Subproblems : RowOK(row[s])
           /\ CallsRefer
  BY DEF IInv, SolutionTypeOK, NothingAhead, CallsRefer, RowOK

LEMMA NoSolutionOK == now \in 1..MaxNow /\ groups \in 0..MaxGroup => RowOK(NoSolution)
  BY DEF RowOK, NoSolution, Solution, Instants

\* Saving changes the flag or the material, never a group, a release or a
\* publication.
LEMMA UpsertOK ==
  ASSUME IInv, NEW s \in Subproblems
  PROVE  /\ \A flag \in BOOLEAN : RowOK([Upsert(s) EXCEPT !.coffin = flag])
         /\ \A m \in SUBSET Formats : RowOK([Upsert(s) EXCEPT !.material = m])
         /\ \A flag \in BOOLEAN :
              /\ [Upsert(s) EXCEPT !.coffin = flag].released = row[s].released
              /\ [Upsert(s) EXCEPT !.coffin = flag].published = row[s].published
         /\ \A m \in SUBSET Formats :
              /\ [Upsert(s) EXCEPT !.material = m].released = row[s].released
              /\ [Upsert(s) EXCEPT !.material = m].published = row[s].published
  <1>1. row[s] \in Solution /\ row[s].released <= now /\ row[s].published <= now
    BY DEF IInv, SolutionTypeOK, NothingAhead
  <1>2. QED
    BY <1>1 DEF RowOK, Upsert, Solution

\* Assigning a group and publishing keep what the row shows, and only publishing
\* an unreleased coffin releases it, at the instant of the publication.
LEMMA GroupOK ==
  ASSUME NEW rows, \A s \in Subproblems : RowOK(rows[s]), NEW ids, NEW g \in 0..MaxGroup
  PROVE  \A s \in Subproblems :
           LET new == SetSubproblemSolutionGroup(rows, ids, g)[s] IN
           /\ RowOK(new)
           /\ new.exists = rows[s].exists /\ new.material = rows[s].material
           /\ new.released = rows[s].released /\ new.published = rows[s].published
           /\ s \in ids /\ rows[s].exists => new.group = g
  BY DEF RowOK, SetSubproblemSolutionGroup, Solution, NoSolution

LEMMA PublishOK ==
  ASSUME NEW rows, \A s \in Subproblems : RowOK(rows[s]), now \in 1..MaxNow,
         NEW ids, \A s \in ids : rows[s].exists
  PROVE  \A s \in Subproblems :
           LET new == PublishSolutions(rows, ids)[s] IN
           /\ RowOK(new)
           /\ new.exists = rows[s].exists /\ new.group = rows[s].group
           /\ rows[s].released # None => new.released = rows[s].released
           /\ s \notin ids => new = rows[s]
  <1> SUFFICES ASSUME NEW s \in Subproblems
               PROVE  LET new == PublishSolutions(rows, ids)[s] IN
                      /\ RowOK(new)
                      /\ new.exists = rows[s].exists /\ new.group = rows[s].group
                      /\ rows[s].released # None => new.released = rows[s].released
                      /\ s \notin ids => new = rows[s]
    OBVIOUS
  <1>1. CASE s \notin ids
    BY <1>1 DEF PublishSolutions
  <1>2. CASE s \in ids
    <2>1. RowOK(rows[s]) /\ rows[s].exists
      BY <1>2
    <2>2. ASSUME NEW at \in {now, rows[s].released}
          PROVE  RowOK([rows[s] EXCEPT !.published = now, !.released = at])
      <3>1. at \in Instants /\ at <= now /\ now \in Instants
        BY <2>1 DEF RowOK, Solution, Instants
      <3>2. [rows[s] EXCEPT !.published = now, !.released = at] \in Solution
        BY <2>1, <3>1 DEF RowOK, Solution
      <3>3. QED
        BY <2>1, <3>1, <3>2 DEF RowOK, Solution, Instants
    <2>3. PublishSolutions(rows, ids)[s]
            = [rows[s] EXCEPT !.published = now,
                              !.released = IF rows[s].coffin /\ rows[s].released = None
                                           THEN now ELSE rows[s].released]
      BY <1>2, <2>1 DEF PublishSolutions, RowOK, Solution
    <2>4. QED
      BY <2>1, <2>2, <2>3, <1>2 DEF RowOK, Solution
  <1>3. QED
    BY <1>1, <1>2
-----------------------------------------------------------------------------
(* What a step makes of the table: every action saves, publishes, or leaves  *)
(* the rows alone.                                                           *)

\* A row keeps its release and its publication, or is gone.
Saved == \A s \in Subproblems :
           \/ row'[s] = NoSolution
           \/ row'[s].released = row[s].released /\ row'[s].published = row[s].published

\* Some rows with material are published, as one group.
Published ==
  \E ids \in SUBSET Subproblems, g \in 1..MaxGroup :
    \A s \in Subproblems :
      /\ s \notin ids => row'[s].published = row[s].published
      /\ s \in ids => row[s].material # {} /\ row'[s].group = g
      /\ row[s].released # None => row'[s].released = row[s].released

LEMMA SaveRow ==
  ASSUME IInv, NEW s \in Subproblems, NEW r, RowOK(r),
         row' = [row EXCEPT ![s] = r],
         r = NoSolution \/ (r.released = row[s].released /\ r.published = row[s].published),
         UNCHANGED <<now, groups, active>>, CallsRefer'
  PROVE  IInv' /\ Saved
  <1>1. row \in [Subproblems -> Solution] /\ \A t \in Subproblems : RowOK(row[t])
    BY RowsOK
  <1>2. row' \in [Subproblems -> Solution] /\ \A t \in Subproblems : RowOK(row'[t])
    BY <1>1 DEF RowOK
  <1>3. \A t \in Subproblems : RowOK(row'[t]) /\ UNCHANGED now => RowOK(row[t])'
    BY DEF RowOK
  <1>4. IInv'
    BY <1>2, <1>3 DEF IInv, SolutionTypeOK, NothingAhead, CallsRefer, RowOK
  <1>5. QED
    BY <1>1, <1>4 DEF Saved

\* The two ways a table of several rows changes.
LEMMA WriteRows ==
  ASSUME IInv, NEW g \in groups..MaxGroup,
         groups' = g, UNCHANGED <<now, active, call>>,
         row' \in [Subproblems -> Solution], \A s \in Subproblems : RowOK(row'[s])
  PROVE  IInv'
  <1>1. CallsRefer' /\ now \in 1..MaxNow /\ g \in 0..MaxGroup
    BY DEF IInv, SolutionTypeOK, CallsRefer
  <1>2. \A s \in Subproblems :
          /\ row'[s].released <= now /\ row'[s].published <= now
          /\ ~row'[s].exists => row'[s] = NoSolution
    BY DEF RowOK
  <1>3. QED
    BY <1>1, <1>2 DEF IInv, SolutionTypeOK, NothingAhead, CallsRefer

LEMMA AssignStep ==
  ASSUME IInv, NEW ids \in SUBSET Subproblems, AssignSolutionGroup(ids)
  PROVE  IInv' /\ Saved
  <1>1. groups + 1 \in 0..MaxGroup /\ groups + 1 \in groups..MaxGroup
    BY DEF AssignSolutionGroup, IInv, SolutionTypeOK
  <1>2. \A s \in Subproblems : RowOK(row[s])
    BY RowsOK
  <1>3. \A s \in Subproblems :
          /\ RowOK(row'[s])
          /\ row'[s].released = row[s].released /\ row'[s].published = row[s].published
    BY <1>1, <1>2, GroupOK DEF AssignSolutionGroup
  <1>4. row' \in [Subproblems -> Solution]
    BY <1>3 DEF AssignSolutionGroup, SetSubproblemSolutionGroup, RowOK
  <1>5. QED
    BY <1>1, <1>3, <1>4, WriteRows DEF AssignSolutionGroup, Saved

\* A publication sees rows that exist and carry material, and leaves them with
\* one group: the one they share, or the fresh one it gave them.
LEMMA PublishStep ==
  ASSUME IInv, NEW ids \in SUBSET Subproblems, PublishSubproblemSolutions(ids)
  PROVE  IInv' /\ Published
  <1>1. /\ \A s \in Subproblems : RowOK(row[s])
        /\ now \in 1..MaxNow /\ groups \in 0..MaxGroup
    BY RowsOK
  <1>2. \A s \in ids : row[s].exists /\ row[s].material # {}
    BY DEF PublishSubproblemSolutions, Publishable, LockSolutionPublicationTargets,
           HasMaterial
  <1>3. CASE SameGroup(ids)
    <2>1. row' = PublishSolutions(row, ids) /\ UNCHANGED groups
      BY <1>3 DEF PublishSubproblemSolutions
    <2>2. PICK g \in 1..groups : \A s \in ids : row[s].group = g
      BY <1>3 DEF SameGroup
    <2>3. \A s \in Subproblems :
            /\ RowOK(row'[s]) /\ row'[s].group = row[s].group
            /\ row[s].released # None => row'[s].released = row[s].released
            /\ s \notin ids => row'[s] = row[s]
      BY <2>1, <1>1, <1>2, PublishOK
    <2>4. row' \in [Subproblems -> Solution]
      BY <2>1, <2>3 DEF PublishSolutions, RowOK
    <2>5. IInv'
      BY <1>1, <2>1, <2>3, <2>4, WriteRows DEF PublishSubproblemSolutions
    <2>6. g \in 1..MaxGroup /\ \A s \in ids : row'[s].group = g
      BY <1>1, <2>2, <2>3
    <2>7. QED
      BY <2>5, <2>6, <2>3, <1>2 DEF Published
  <1>4. CASE ~SameGroup(ids)
    <2> DEFINE g      == groups + 1
               joined == SetSubproblemSolutionGroup(row, ids, g)
    <2>1. groups < MaxGroup /\ groups' = g /\ row' = PublishSolutions(joined, ids)
      BY <1>4 DEF PublishSubproblemSolutions
    <2>2. g \in 1..MaxGroup /\ g \in 0..MaxGroup /\ g \in groups..MaxGroup
      BY <2>1, <1>1
    <2> HIDE DEF g
    <2>3. \A s \in Subproblems :
            /\ RowOK(joined[s]) /\ joined[s].exists = row[s].exists
            /\ joined[s].released = row[s].released
            /\ joined[s].published = row[s].published
            /\ s \in ids => joined[s].group = g
      BY <2>2, <1>1, <1>2, GroupOK
    <2> HIDE DEF joined
    <2>4. \A s \in ids : joined[s].exists
      BY <2>3, <1>2
    <2>5. \A s \in Subproblems :
            /\ RowOK(row'[s]) /\ row'[s].group = joined[s].group
            /\ joined[s].released # None => row'[s].released = joined[s].released
            /\ s \notin ids => row'[s] = joined[s]
      BY <2>1, <2>3, <2>4, <1>1, PublishOK
    <2>6. row' \in [Subproblems -> Solution]
      BY <2>1, <2>5 DEF PublishSolutions, RowOK
    <2>7. IInv'
      BY <2>1, <2>2, <2>5, <2>6, WriteRows DEF PublishSubproblemSolutions
    <2>8. \A s \in Subproblems :
            /\ s \notin ids => row'[s].published = row[s].published
            /\ s \in ids => row[s].material # {} /\ row'[s].group = g
            /\ row[s].released # None => row'[s].released = row[s].released
      BY <2>3, <2>5, <1>2
    <2>9. QED
      BY <2>2, <2>7, <2>8 DEF Published
  <1>5. QED
    BY <1>3, <1>4

\* The handlers of one row.
LEMMA SaveStep ==
  ASSUME IInv, NEW s \in Subproblems,
         \/ MarkCoffin(s) \/ PutSubproblemSolutionTex(s)
         \/ FinalizeSubproblemSolutionPDFPublish(s) \/ SetSubproblemSolutionLinkHandler(s)
  PROVE  IInv' /\ Saved
  <1>1. UNCHANGED <<now, groups, active>> /\ CallsRefer'
    BY DEF MarkCoffin, PutSubproblemSolutionTex, FinalizeSubproblemSolutionPDFPublish,
           SetSubproblemSolutionLinkHandler, IInv, CallsRefer
  <1>2. Upsert(s).material \in SUBSET Formats
    BY DEF IInv, SolutionTypeOK, Upsert, Solution
  <1>3. \/ row' = [row EXCEPT ![s] = [Upsert(s) EXCEPT !.coffin = TRUE]]
        \/ \E m \in SUBSET Formats : row' = [row EXCEPT ![s] = [Upsert(s) EXCEPT !.material = m]]
    <2>1. CASE MarkCoffin(s)
      BY <2>1 DEF MarkCoffin, UpsertCoffinFlag
    <2>2. CASE PutSubproblemSolutionTex(s)
      <3>1. Upsert(s).material \cup {"tex"} \in SUBSET Formats
        BY <1>2 DEF Formats
      <3>2. QED
        BY <2>2, <3>1 DEF PutSubproblemSolutionTex, SetSubproblemSolutionTex
    <2>3. CASE FinalizeSubproblemSolutionPDFPublish(s)
      <3>1. Upsert(s).material \cup {"pdf"} \in SUBSET Formats
        BY <1>2 DEF Formats
      <3>2. QED
        BY <2>3, <3>1 DEF FinalizeSubproblemSolutionPDFPublish, SetSubproblemSolutionPdf
    <2>4. CASE SetSubproblemSolutionLinkHandler(s)
      <3>1. (Upsert(s).material \ {"link"}) \cup {"link"} \in SUBSET Formats
        BY <1>2 DEF Formats
      <3>2. QED
        BY <2>4, <3>1 DEF SetSubproblemSolutionLinkHandler, SetSubproblemSolutionLink
    <2>5. QED
      BY <2>1, <2>2, <2>3, <2>4
  <1>4. QED
    BY <1>1, <1>3, UpsertOK, SaveRow

\* The second steps of the requests, which write what the first step read.
LEMMA RequestStep ==
  ASSUME IInv, NEW r \in Requests, UnmarkCoffin(r) \/ ClearLink(r)
  PROVE  IInv' /\ Saved
  <1> DEFINE s == call[r].sub
  <1>1. s \in Subproblems
    BY DEF UnmarkCoffin, ClearLink, IInv, CallsRefer
  <1>2. UNCHANGED <<now, groups, active>> /\ CallsRefer'
    <2>1. UNCHANGED <<now, groups, active>> /\ call' = [call EXCEPT ![r] = Idle]
      BY DEF UnmarkCoffin, ClearLink
    <2>2. QED
      BY <2>1 DEF IInv, CallsRefer, Idle
  <1>3. (Upsert(s).material \ {"link"}) \cup {} \in SUBSET Formats
    BY <1>1 DEF IInv, SolutionTypeOK, Upsert, Solution
  <1>4. \/ row' = [row EXCEPT ![s] = [Upsert(s) EXCEPT !.coffin = FALSE]]
        \/ row' = [row EXCEPT ![s] = NoSolution]
        \/ \E m \in SUBSET Formats : row' = [row EXCEPT ![s] = [Upsert(s) EXCEPT !.material = m]]
    BY <1>3 DEF UnmarkCoffin, ClearLink, UpsertCoffinFlag, DeleteSubproblemSolution,
                SetSubproblemSolutionLink
  <1>5. RowOK(NoSolution)
    BY NoSolutionOK DEF IInv, SolutionTypeOK
  <1>6. QED
    BY <1>1, <1>2, <1>4, <1>5, UpsertOK, SaveRow

\* The steps that only move the clock, the terms, the objects or a request.
LEMMA QuietStep ==
  ASSUME IInv, UNCHANGED <<row, groups>>, CallsRefer',
         now' \in 1..MaxNow, now <= now', active' \in 1..MaxTerm
  PROVE  IInv' /\ Saved
  <1>1. \A s \in Subproblems : row[s].released \in Int /\ row[s].published \in Int
    BY DEF IInv, SolutionTypeOK, Solution, Instants
  <1>2. QED
    BY <1>1 DEF IInv, SolutionTypeOK, NothingAhead, CallsRefer, Saved

LEMMA NextStep ==
  ASSUME IInv, Next
  PROVE  IInv' /\ (Saved \/ Published)
  <1>1. CASE Tick
    <2>1. now' \in 1..MaxNow /\ now <= now' /\ CallsRefer'
      BY <1>1 DEF Tick, IInv, SolutionTypeOK, CallsRefer
    <2>2. QED
      BY <1>1, <2>1, QuietStep DEF Tick, IInv, SolutionTypeOK
  <1>2. CASE CreateTerm
    <2>1. active' \in 1..MaxTerm /\ now <= now /\ CallsRefer'
      BY <1>2 DEF CreateTerm, IInv, SolutionTypeOK, CallsRefer
    <2>2. QED
      BY <1>2, <2>1, QuietStep DEF CreateTerm, IInv, SolutionTypeOK
  <1>3. ASSUME NEW s \in Subproblems, PutObject(s)
        PROVE  IInv' /\ Saved
    <2>1. now <= now /\ CallsRefer'
      BY <1>3 DEF PutObject, IInv, SolutionTypeOK, CallsRefer
    <2>2. QED
      BY <1>3, <2>1, QuietStep DEF PutObject, IInv, SolutionTypeOK
  <1>4. ASSUME NEW s \in Subproblems, NEW r \in Requests,
               UnmarkRead(r, s) \/ ClearLinkRead(r, s)
        PROVE  IInv' /\ Saved
    <2>1. row[s].material \in SUBSET Formats
      BY DEF IInv, SolutionTypeOK, Solution
    <2>2. now <= now /\ CallsRefer'
      BY <1>4, <2>1 DEF UnmarkRead, ClearLinkRead, IInv, SolutionTypeOK, CallsRefer
    <2>3. QED
      BY <1>4, <2>2, QuietStep DEF UnmarkRead, ClearLinkRead, IInv, SolutionTypeOK
  <1>5. QED
    BY <1>1, <1>2, <1>3, <1>4, AssignStep, PublishStep, SaveStep, RequestStep DEF Next

LEMMA InitIInv == Init => IInv
  <1> SUFFICES ASSUME Init PROVE IInv
    OBVIOUS
  <1>1. CallsRefer
    BY DEF Init, CallsRefer, Idle
  <1>2. now \in 1..MaxNow /\ groups \in 0..MaxGroup /\ active \in 1..MaxTerm
    BY DEF Init, SeriesTerm
  <1>3. \A s \in Subproblems : RowOK(row[s])
    BY <1>2, NoSolutionOK DEF Init
  <1>4. row \in [Subproblems -> Solution]
    BY <1>3 DEF Init, RowOK
  <1>5. QED
    BY <1>1, <1>2, <1>3, <1>4, RowsOK

LEMMA NextIInv == IInv /\ [Next]_vars => IInv'
  <1>1. IInv /\ Next => IInv'
    BY NextStep
  <1>2. IInv /\ UNCHANGED vars => IInv'
    BY DEF vars, IInv, SolutionTypeOK, CallsRefer, NothingAhead
  <1>3. QED
    BY <1>1, <1>2

LEMMA Inductive == Spec => []IInv
  <1>1. QED
    BY InitIInv, NextIInv, PTL DEF Spec
-----------------------------------------------------------------------------
(* What students are shown.                                                *)

\* Each endpoint decides from the flag, the release, the publication and the
\* deadline; whatever combination of them the handlers leave behind, it shows
\* nothing of a problem that is open.
LEMMA ShownWhenClosed ==
  ASSUME IInv
  PROVE  VisibleOnlyWhenClosed
  <1> SUFFICES ASSUME NEW s \in Subproblems, NEW due \in Deadlines, NEW access \in AccessRights,
                      \/ RestrictSeriesRazbors(s, access, due) # {}
                      \/ row[s].coffin /\ CoffinTab(s) # {}
                      \/ SolutionReleasedToStudent(s, due)
               PROVE  SubmissionClosed(row[s].coffin, row[s].released, due, now)
    BY DEF VisibleOnlyWhenClosed, GetSubproblemSolutionTex, DownloadSubproblemSolutionPDF
  <1>1. /\ row[s].coffin \in BOOLEAN /\ row[s].released \in Int /\ row[s].published \in Int
        /\ now \in Int /\ due \in Int
    BY DEF IInv, SolutionTypeOK, Solution, Instants, Deadlines
  <1>2. CASE RestrictSeriesRazbors(s, access, due) # {}
    BY <1>1, <1>2 DEF RestrictSeriesRazbors, SubmissionClosed
  <1>3. CASE row[s].coffin /\ CoffinTab(s) # {}
    BY <1>3 DEF CoffinTab, SubmissionClosed
  <1>4. CASE SolutionReleasedToStudent(s, due)
    BY <1>4 DEF SolutionReleasedToStudent, SubmissionClosed
  <1>5. QED
    BY <1>2, <1>3, <1>4

\* No student, with any rights and through any endpoint, sees anything of the
\* official solution of a problem that can still be handed in.
THEOREM SolutionsStayHidden == Spec => []SolutionInv
  <1>1. IInv => SolutionInv
    BY ShownWhenClosed DEF SolutionInv, IInv
  <1>2. QED
    BY <1>1, Inductive, PTL

\* The series view, the coffins tab and the two download endpoints of
\* subproblem_solutions.go and coffins.go take the same decision for every row
\* the handlers can leave, every deadline and every right of a student.
THEOREM EndpointsAlwaysAgree == Spec => []EndpointsAgree
  <1>1. ASSUME IInv PROVE EndpointsAgree
    <2> SUFFICES ASSUME NEW s \in Subproblems, NEW due \in Deadlines,
                        NEW access \in AccessRights
                 PROVE  LET shown == RestrictSeriesRazbors(s, access, due)
                        IN /\ "tex" \in shown <=> GetSubproblemSolutionTex(s, access, due)
                           /\ "pdf" \in shown <=> DownloadSubproblemSolutionPDF(s, access, due)
                           /\ row[s].coffin => CoffinTab(s) = shown
      BY DEF EndpointsAgree
    <2>1. /\ row[s] \in Solution /\ now \in Int /\ due \in Int
          /\ ~row[s].exists => row[s].published = None
      BY <1>1 DEF IInv, SolutionTypeOK, Deadlines, NoSolution
    <2>2. CASE row[s].coffin
      BY <2>1, <2>2 DEF RestrictSeriesRazbors, CoffinTab, GetSubproblemSolutionTex,
         DownloadSubproblemSolutionPDF, SolutionReleasedToStudent, LoadSubproblemForRead,
         FullAccess, Solution, Instants
    <2>3. CASE ~row[s].coffin
      BY <2>1, <2>3 DEF RestrictSeriesRazbors, GetSubproblemSolutionTex,
         DownloadSubproblemSolutionPDF, SolutionReleasedToStudent, LoadSubproblemForRead,
         Permitted, AccessRights, Solution, Instants
    <2>4. QED
      BY <2>2, <2>3
  <1>2. QED
    BY <1>1, Inductive, PTL

\* A coffin that can still be handed in is found in the coffins tab, with or
\* without a term filter, however many terms have begun since its series.
THEOREM OpenCoffinsAreFound == Spec => []OpenCoffinsAreListed
  <1>1. ASSUME IInv PROVE OpenCoffinsAreListed
    <2> SUFFICES ASSUME NEW s \in Subproblems, row[s].coffin,
                        ~SubmissionClosed(TRUE, row[s].released, 1, now)
                 PROVE  s \in ListCenterCoffins \cap ListCenterCoffinsForTerm(active)
                                \cap ListCenterCoffinsForTerm(SeriesTerm)
      BY DEF OpenCoffinsAreListed
    <2>1. row[s].released \in Int /\ now \in Int /\ row[s].released <= now
      BY <1>1 DEF IInv, SolutionTypeOK, NothingAhead, Solution, Instants
    <2>2. row[s].released = None
      BY <2>1 DEF SubmissionClosed
    <2>3. QED
      BY <2>2 DEF ListCenterCoffins, ListCenterCoffinsForTerm
  <1>2. QED
    BY <1>1, Inductive, PTL
-----------------------------------------------------------------------------
(* What a step may never do.                                               *)

\* Marking, unmarking, saving, grouping and publishing again, by requests that
\* overlap at will: a coffin that was released keeps the instant of its release
\* for as long as its row lives.
THEOREM ReleasesAreFinal == Spec => ReleaseIsFinal
  <1> DEFINE Kept == \A s \in Subproblems :
                       row[s].released # None /\ row'[s].exists
                         => row'[s].released = row[s].released
  <1>1. ASSUME IInv, Next PROVE Kept
    BY <1>1, NextStep DEF Saved, Published, NoSolution
  <1>2. ASSUME UNCHANGED vars PROVE Kept
    BY <1>2 DEF vars
  <1>3. IInv /\ [Next]_vars => [Kept]_vars
    BY <1>1
  <1>4. QED
    BY <1>3, Inductive, PTL DEF Spec, ReleaseIsFinal

\* Whatever becomes visible to students in one step had material when the step
\* took its locks, and is one shared solution: never half of a publication.
THEOREM PublicationsAreWhole == Spec => PublicationIsWhole
  <1> DEFINE fresh == {s \in Subproblems : row'[s].published # row[s].published /\ row'[s].exists}
             Whole == /\ \A s \in fresh : row[s].material # {} /\ row'[s].group # None
                      /\ \A s, t \in fresh : row'[s].group = row'[t].group
  <1>1. ASSUME IInv, Next PROVE Whole
    <2>1. CASE Saved
      BY <2>1 DEF Saved, NoSolution
    <2>2. CASE Published
      <3>1. PICK ids \in SUBSET Subproblems, g \in 1..MaxGroup :
              \A s \in Subproblems :
                /\ s \notin ids => row'[s].published = row[s].published
                /\ s \in ids => row[s].material # {} /\ row'[s].group = g
        BY <2>2 DEF Published
      <3>2. \A s \in fresh : s \in ids
        BY <3>1
      <3>3. QED
        BY <3>1, <3>2
    <2>3. QED
      BY <1>1, <2>1, <2>2, NextStep
  <1>2. IInv /\ [Next]_vars => [Whole]_vars
    BY <1>1
  <1>3. QED
    BY <1>2, Inductive, PTL DEF Spec, PublicationIsWhole
=============================================================================
