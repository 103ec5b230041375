---------------------------- MODULE Registration ----------------------------
(***************************************************************************)
(* Invitations and the accounts that are made with them.  A registration   *)
(* is one transaction: it locks the invitation, counts its uses, and then  *)
(* creates an account or takes over one that the spreadsheets made (a      *)
(* placeholder: its username begins with "sheets-" and it came from no     *)
(* invitation), and gives it what the invitation grants.                   *)
(*                                                                         *)
(* A claim updates the row of the account, and reads the groups it is in;  *)
(* the rest is granted in another step, with the commit.  Until then other *)
(* claims of the account wait, and so does what inserts a row that refers  *)
(* to it; but no enrolment is locked, and the account is removed and moved *)
(* as before.  A new account is one step: nobody else can name it.         *)
(*                                                                         *)
(* A person is a first and a last name; two may share them.  A username    *)
(* that is taken fails a registration like any other error.                *)
(***************************************************************************)
EXTENDS CenterRoster

CONSTANTS Invitations, Registrants,
          People,     \* first and last names
          MaxUses,    \* bound: the uses an invitation may be given
          MaxChanges  \* bound: what managers do, and expiries

ASSUME RegistrationAssumption ==
  /\ MaxUses \in Nat \ {0} /\ MaxChanges \in Nat
  /\ MaxTerm > 1 /\ MaxStage > 0   \* the center begins in its second term
  /\ None \notin People /\ {None, "sheets", "center"} \cap Invitations = {}

VARIABLES account,  \* None, "sheets", "center", or users.invitation_token_id
          person,   \* the name of a user
          invite,   \* invitation_tokens
          reg,      \* the registrations in flight
          changes

registration == <<account, person, invite, reg>>
registrationVars == <<rosterVars, registration, changes>>

\* preset: one of the student forms, a teacher's row, or nothing.
Invite == [kind : {"none", "claim", "group", "groups", "teacher", "plain"},
           user : 0..MaxUser, groups : SUBSET Groups, head : BOOLEAN,
           max : 0..MaxUses, status : {"live", "expired", "revoked"}]

NoInvite == [kind |-> "none", user |-> NoUser, groups |-> {}, head |-> FALSE,
             max |-> 0, status |-> "live"]

\* found: the placeholders of that name; once one is claimed, that one.  had: the
\* granted groups that it was in already.
Reg == [pc : {"idle", "locked", "found", "claimed"}, inv : Invitations \cup {None},
        person : People \cup {None}, found : SUBSET UserIds, had : SUBSET Groups]

IdleReg == [pc |-> "idle", inv |-> None, person |-> None, found |-> {}, had |-> {}]

Free(u)        == account[u] = "sheets"
Uses(i)        == Cardinality({u \in UserIds : account[u] = i})
CountUses(i)   == Uses(i)
Held(i)        == \E g \in Registrants : reg[g].inv = i
Holds(h, u)    == /\ u \in reg[h].found
                  /\ reg[h].pc = "claimed" \/ invite[reg[h].inv].kind = "group"
RowHeld(g, u)  == \E h \in Registrants \ {g} : Holds(h, u)
Group(u, t)    == <<t, enrol[u][t]>>
NextUser       == Cardinality(users) + 1
-----------------------------------------------------------------------------
(* Accounts that are not made by registering.                              *)

NewAccount(u, how, p) ==
  /\ u \in UserIds
  /\ users' = users \cup {u}
  /\ account' = [account EXCEPT ![u] = how]
  /\ person' = [person EXCEPT ![u] = p]

\* SyncStudents, for a name that no user has: the account cannot be signed in to.
Provision(p, g) ==
  /\ g \in group
  /\ NewAccount(NextUser, "sheets", p)
  /\ enrol' = [enrol EXCEPT ![NextUser][g[1]] = g[2]]
  /\ UNCHANGED <<term, group, gone, teacher, call, invite, reg>>

CreateMathCenterAccount(p) ==
  /\ NewAccount(NextUser, "center", p)
  /\ teacher' = [teacher EXCEPT ![NextUser] = "head"]
  /\ UNCHANGED <<term, group, gone, enrol, call, invite, reg>>
-----------------------------------------------------------------------------
(* Invitations.                                                            *)

Mint(i, row) ==
  /\ invite[i] = NoInvite
  /\ invite' = [invite EXCEPT ![i] = row]
  /\ UNCHANGED <<rosterVars, account, person, reg>>

\* For a placeholder of the current term.
CreatePersonalInvite(i, u) ==
  /\ Free(u) /\ CurrentTerm # NoTerm /\ Enrolled(u, CurrentTerm)
  /\ Mint(i, [NoInvite EXCEPT !.kind = "claim", !.user = u, !.max = 1])

\* A head teacher names a group of the center, or gets the unassigned one of the
\* current term.
CreateGroupInvite(i, g, max) ==
  g \in group /\ Mint(i, [NoInvite EXCEPT !.kind = "group", !.groups = {g}, !.max = max])

CreateTeacherInvite(i, head, max) ==
  Mint(i, [NoInvite EXCEPT !.kind = "teacher", !.head = head, !.max = max])

\* Validate: groups that exist, one per term.
Validate(gs) ==
  gs # {} /\ gs \subseteq group /\ \A g, h \in gs : g[1] = h[1] => g = h

\* CreateToken of the admins: several groups, or no preset at all.
CreateGroupsInvite(i, gs, max) ==
  Validate(gs) /\ Mint(i, [NoInvite EXCEPT !.kind = "groups", !.groups = gs, !.max = max])

CreatePlainInvite(i, max) == Mint(i, [NoInvite EXCEPT !.kind = "plain", !.max = max])

\* The update waits for a registration that holds the row.
Revoke(i) ==
  /\ invite[i] # NoInvite /\ ~Held(i)
  /\ invite' = [invite EXCEPT ![i].status = "revoked"]
  /\ UNCHANGED <<rosterVars, account, person, reg>>

Expire(i) ==
  /\ invite[i] # NoInvite /\ invite[i].status = "live"
  /\ invite' = [invite EXCEPT ![i].status = "expired"]
  /\ UNCHANGED <<rosterVars, account, person, reg>>

\* InviteLookup: what the registration page says of an invitation.
LookupValid(i) ==
  /\ invite[i].status = "live" /\ Uses(i) < invite[i].max
  /\ invite[i].kind = "claim" => Free(invite[i].user)
  /\ invite[i].kind = "groups" => invite[i].groups \subseteq group
-----------------------------------------------------------------------------
(* Register.                                                               *)

\* Mutant of Lock: the row is read without FOR UPDATE.
ReadInvitation(g, i, p) ==
  /\ reg[g] = IdleReg /\ invite[i] # NoInvite
  /\ invite[i].status = "live" /\ CountUses(i) < invite[i].max
  /\ reg' = [reg EXCEPT ![g] = [IdleReg EXCEPT !.pc = "locked", !.inv = i, !.person = p]]
  /\ UNCHANGED <<rosterVars, account, person, invite>>

Lock(g, i, p) ==
  /\ reg[g] = IdleReg /\ invite[i] # NoInvite /\ ~Held(i)
  /\ invite[i].status = "live" /\ CountUses(i) < invite[i].max
  /\ reg' = [reg EXCEPT ![g] = [IdleReg EXCEPT !.pc = "locked", !.inv = i, !.person = p]]
  /\ UNCHANGED <<rosterVars, account, person, invite>>

Matches(gs, p) ==
  {u \in users : Free(u) /\ person[u] = p /\ \E t \in TermIds : Group(u, t) \in gs}

\* claimUniqueSheetsStudent locks what it finds, and so waits for another that
\* has locked it; claimUniqueSheetsStudentInGroups only reads.
Find(g) ==
  LET i == reg[g].inv
      matches == Matches(invite[i].groups, reg[g].person)
  IN /\ reg[g].pc = "locked" /\ invite[i].kind \in {"group", "groups"}
     /\ invite[i].kind = "group" => \A u \in matches : ~RowHeld(g, u)
     /\ reg' = [reg EXCEPT ![g].pc = "found", ![g].found = matches]
     /\ UNCHANGED <<rosterVars, account, person, invite>>

\* applyStudent for each of the groups; a second enrolment for a term is an error.
MayStudy(u, gs) ==
  /\ gs \subseteq group
  /\ gs # {} => ~IsTeacherInCenter(u)
  /\ \A g \in gs : ~Enrolled(u, g[1])

ApplyStudents(u, gs) ==
  enrol' = [enrol EXCEPT ![u] = [t \in TermIds |->
              IF \E g \in gs : g[1] = t THEN (CHOOSE g \in gs : g[1] = t)[2] ELSE enrol[u][t]]]

ApplyTeacher(u, i) ==
  teacher' = IF i.kind # "teacher" THEN teacher
             ELSE [teacher EXCEPT ![u] = IF i.head THEN "head" ELSE "teacher"]

Done(g) == reg' = [reg EXCEPT ![g] = IdleReg]

Claim(g, u, had) ==
  /\ Free(u) /\ ~RowHeld(g, u)
  /\ reg' = [reg EXCEPT ![g].pc = "claimed", ![g].found = {u}, ![g].had = had]
  /\ UNCHANGED <<rosterVars, account, person, invite>>

\* claimSheetsStudentByID: the account is still free, and of the center in any
\* term.  What it is enrolled in stays.
\* Mutant of ClaimPersonal: what the link was made for is not checked again.
ClaimBlindly(g) ==
  LET u == invite[reg[g].inv].user IN
  /\ reg[g].pc = "locked" /\ invite[reg[g].inv].kind = "claim"
  /\ ~RowHeld(g, u)
  /\ reg' = [reg EXCEPT ![g].pc = "claimed", ![g].found = {u}]
  /\ UNCHANGED <<rosterVars, account, person, invite>>

ClaimPersonal(g) ==
  LET u == invite[reg[g].inv].user IN
  /\ reg[g].pc = "locked" /\ invite[reg[g].inv].kind = "claim"
  /\ \E t \in TermIds : Enrolled(u, t)
  /\ Claim(g, u, {})

\* The one match is claimed, if it still is free.  With a single group it is taken
\* to be in it; with several, those that it is in are read.
ClaimFound(g) ==
  LET i == invite[reg[g].inv] IN
  /\ reg[g].pc = "found" /\ Cardinality(reg[g].found) = 1
  /\ \E u \in reg[g].found :
       Claim(g, u, IF i.kind = "group" THEN i.groups
                   ELSE {h \in i.groups : Group(u, h[1]) = h})

\* The groups that remain are granted, and all is committed.
\* Mutant of CommitClaim: nothing remains to be granted.
ClaimOnly(g) ==
  /\ reg[g].pc = "claimed"
  /\ \E u \in reg[g].found : account' = [account EXCEPT ![u] = reg[g].inv]
  /\ Done(g)
  /\ UNCHANGED <<rosterVars, person, invite>>

CommitClaim(g) ==
  LET remaining == invite[reg[g].inv].groups \ reg[g].had IN
  /\ reg[g].pc = "claimed"
  /\ \E u \in reg[g].found :
       /\ MayStudy(u, remaining) /\ ApplyStudents(u, remaining)
       /\ account' = [account EXCEPT ![u] = reg[g].inv]
  /\ Done(g)
  /\ UNCHANGED <<term, group, gone, teacher, users, call, person, invite>>

\* Everything else makes a new account: no match, or more than one, or one that
\* was claimed since (in the variant that holds no lock).
MakesNew(g) ==
  \/ reg[g].pc = "locked" /\ invite[reg[g].inv].kind \in {"teacher", "plain"}
  \/ reg[g].pc = "found" /\ (Cardinality(reg[g].found) # 1 \/ \A u \in reg[g].found : ~Free(u))

Create(g) ==
  LET i == reg[g].inv
      u == NextUser
  IN /\ MakesNew(g)
     /\ NewAccount(u, i, reg[g].person)
     /\ MayStudy(u, invite[i].groups)
     /\ ApplyStudents(u, invite[i].groups)
     /\ ApplyTeacher(u, invite[i])
     /\ Done(g)
     /\ UNCHANGED <<term, group, gone, call, invite>>

\* A refusal (a group that is gone, a placeholder that was claimed, a taken
\* username), an error or a lost connection: the transaction is rolled back.
Fail(g) ==
  /\ reg[g] # IdleReg /\ Done(g)
  /\ UNCHANGED <<rosterVars, account, person, invite>>
-----------------------------------------------------------------------------
\* A migrated center in its second term, with its groups and nobody in them yet.
RegistrationInit ==
  /\ term = <<[stage |-> Legacy, active |-> FALSE], [stage |-> 1, active |-> TRUE]>>
  /\ group = Groups
  /\ gone = {}
  /\ enrol = [u \in UserIds |-> [t \in TermIds |-> None]]
  /\ teacher = [u \in UserIds |-> None]
  /\ call = [r \in Requests |-> Idle]
  /\ users = {}
  /\ account = [u \in UserIds |-> None]
  /\ person = [u \in UserIds |-> None]
  /\ invite = [i \in Invitations |-> NoInvite]
  /\ reg = [g \in Registrants |-> IdleReg]
  /\ changes = 0

\* What the managers do meanwhile (terms, and the ways to enrol and to move one
\* student by hand, are left to RazborAccess).  A new row that refers to an account
\* waits for who holds it.
RosterStep ==
  /\ \/ \E u \in UserIds, g \in Groups : SyncStudent(u, g)
     \/ TeacherStep
     \/ RemovalStep
  /\ \A g \in Registrants, u \in UserIds : Holds(g, u) =>
       /\ teacher[u] = None => teacher'[u] = None
       /\ \A t \in TermIds : enrol[u][t] = None => enrol'[u][t] = None

Minted(i) ==
  \/ \E u \in UserIds : CreatePersonalInvite(i, u)
  \/ \E max \in 1..MaxUses :
       \/ \E g \in Groups : CreateGroupInvite(i, g, max)
       \/ \E gs \in SUBSET Groups : CreateGroupsInvite(i, gs, max)
       \/ \E head \in BOOLEAN : CreateTeacherInvite(i, head, max)
       \/ CreatePlainInvite(i, max)

Register(g) ==
  \/ \E i \in Invitations, p \in People : Lock(g, i, p)
  \/ Find(g) \/ ClaimPersonal(g) \/ ClaimFound(g) \/ CommitClaim(g)
  \/ Create(g) \/ Fail(g)

Meanwhile ==
  \/ RosterStep /\ UNCHANGED registration
  \/ \E p \in People : CreateMathCenterAccount(p) \/ \E g \in Groups : Provision(p, g)
  \/ \E i \in Invitations : Minted(i) \/ Revoke(i) \/ Expire(i)

RegistrationNext ==
  \/ changes < MaxChanges /\ changes' = changes + 1 /\ Meanwhile
  \/ UNCHANGED changes /\ \E g \in Registrants : Register(g)

RegistrationSpec == RegistrationInit /\ [][RegistrationNext]_registrationVars
-----------------------------------------------------------------------------
RegistrationTypeOK ==
  /\ RosterTypeOK
  /\ users = {u \in UserIds : account[u] # None}
  /\ account \in [UserIds -> Invitations \cup {None, "sheets", "center"}]
  /\ person \in [UserIds -> People \cup {None}]
  /\ invite \in [Invitations -> Invite]
  /\ reg \in [Registrants -> Reg]
  /\ \A g \in Registrants : reg[g].pc = "idle" => reg[g] = IdleReg

\* However many registrations race with one invitation, it is not used more often
\* than it may be.
UsesBounded == \A i \in Invitations : Uses(i) <= invite[i].max

\* A personal link makes no account but the one it was sent for.
PersonalLinkIsPersonal ==
  \A i \in Invitations, u \in UserIds :
    invite[i].kind = "claim" /\ account[u] = i => u = invite[i].user

\* The main invariant: types, and no invitation makes more than it may.
RegistrationInv == RegistrationTypeOK /\ UsesBounded /\ PersonalLinkIsPersonal

\* An account changes hands once: one that somebody signed up for is never taken
\* over; no revoked invitation makes or takes one, not even by a registration
\* that was under way; and a placeholder that was found by name goes to someone
\* of that name.
AccountsChangeOnce ==
  [][\A u \in UserIds : account'[u] # account[u] =>
       /\ account[u] \in {None, "sheets"}
       /\ account'[u] \in Invitations =>
            /\ invite[account'[u]].status # "revoked"
            /\ Free(u) /\ invite[account'[u]].kind # "claim" =>
                 \E g \in Registrants :
                   reg[g].inv = account'[u] /\ reg[g].person = person[u]]_registrationVars

\* No grant is lost on the way, whatever is deleted, moved or claimed meanwhile.  A
\* new account has all that its invitation grants when it is committed: the groups,
\* or the teacher's row.  A placeholder has the granted groups that it was not in
\* when it was claimed; of those that it was in, it misses the ones that somebody
\* took it out of since.  (Through a link to one group it is taken to be in it.)
GrantsAreWhole ==
  [][/\ \A u \in UserIds :
          account[u] # account'[u] /\ account'[u] \in Invitations =>
            LET i == invite[account'[u]] IN
            /\ \A h \in i.groups :
                 \/ h \in group' /\ enrol'[u][h[1]] = h[2]
                 \/ /\ Free(u) /\ Group(u, h[1]) # h
                    /\ \E g \in Registrants : Holds(g, u) /\ h \in reg[g].had
            /\ i.kind = "teacher" => teacher'[u] # None
     /\ \A g \in Registrants :
          reg[g].pc = "found" /\ reg'[g].pc = "claimed" /\ invite[reg[g].inv].kind = "groups"
            => \A u \in reg'[g].found, h \in reg'[g].had : Group(u, h[1]) = h]_registrationVars
-----------------------------------------------------------------------------
(* What comments of the code say and the code does not do.                 *)

\* "The placeholder already owns the exact group enrollment."
ClaimedIsInTheGroup ==
  [][\A u \in UserIds :
       Free(u) /\ account'[u] \in Invitations /\ invite[account'[u]].kind = "group"
         => \E t \in TermIds : <<t, enrol'[u][t]>> \in invite[account'[u]].groups]_registrationVars

\* "... so the grants commit atomically with the user -- or not at all": who signs
\* up through an invitation to several groups is in all of them.
GrantsAreAllThere ==
  [][\A u \in UserIds :
       account[u] # account'[u] /\ account'[u] \in Invitations
         => \A h \in invite[account'[u]].groups :
              invite[account'[u]].kind = "groups" => Group(u, h[1])' = h]_registrationVars

\* "... returns whether it is still usable": some registration with it would pass.
ValidIsUsable ==
  \A i \in Invitations : invite[i] # NoInvite /\ LookupValid(i) =>
    CASE invite[i].kind = "claim" -> \E t \in TermIds : Enrolled(invite[i].user, t)
      [] OTHER                    -> invite[i].groups \subseteq group
=============================================================================
