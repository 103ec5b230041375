--------------------------- MODULE RefreshTokens ---------------------------
(***************************************************************************)
(* The refresh tokens of the server: the rows of refresh_tokens and the    *)
(* calls of /auth/login, /auth/refresh and /auth/logout that are being     *)
(* served.  An exchange reads the presented row without locking it, checks *)
(* it, and only then inserts the successor and marks the row: two steps,   *)
(* with anything in between.  The other two operations change the table in *)
(* a single statement.                                                     *)
(***************************************************************************)
EXTENDS Naturals, FiniteSets

CONSTANTS Callers,   \* the HTTP requests that can be in flight at once
          MaxToken   \* bound: the largest id of refresh_tokens

ASSUME TokenConstantsOK == MaxToken \in Nat

NoToken == 0
Tokens  == 1..MaxToken

VARIABLES token,      \* refresh_tokens, by id
          nextToken,  \* the sequence behind refresh_tokens.id
          call        \* what each request asks for and how far it has come

vars == <<token, nextToken, call>>

\* heir is replaced_by_id; login (which the table does not have) is the first
\* token of the session, the one a login issued.
Row == [revoked : BOOLEAN, expired : BOOLEAN,
        heir : Tokens \cup {NoToken}, login : Tokens \cup {NoToken}]

NewRow(login) == [revoked |-> FALSE, expired |-> FALSE, heir |-> NoToken,
                  login |-> login]

Issued == {t \in Tokens : t < nextToken}

Live(t) == ~token[t].revoked /\ ~token[t].expired

\* What Exchange accepts: neither revoked nor replaced nor expired.
Exchangeable(t) == Live(t) /\ token[t].heir = NoToken

NoCall == [op |-> "none", pc |-> "none", given |-> NoToken, got |-> NoToken]

Call == [op : {"none", "login", "refresh", "logout"},
         pc : {"none", "sent", "checked", "granted", "refused", "failed"},
         given : Tokens \cup {NoToken}, got : Tokens \cup {NoToken}]

Settled(c) == call[c].pc \in {"granted", "refused", "failed"}
-----------------------------------------------------------------------------
\* A request arrives.
Present(c, op, t) ==
  /\ call[c].pc = "none"
  /\ call' = [call EXCEPT ![c] = [op |-> op, pc |-> "sent", given |-> t,
                                  got |-> NoToken]]

\* The client has its answer, or has stopped waiting for it.
Hangup(c) == call' = [call EXCEPT ![c] = NoCall]

Asks(c, op) == call[c].op = op /\ call[c].pc = "sent"

\* IssuePair.
Issue(c) ==
  /\ Asks(c, "login")
  /\ nextToken <= MaxToken
  /\ token' = [token EXCEPT ![nextToken] = NewRow(nextToken)]
  /\ nextToken' = nextToken + 1
  /\ call' = [call EXCEPT ![c].pc = "granted", ![c].got = nextToken]

\* Mutant of ExchangeCheck: a rotated token passes.
CheckExpiryOnly(c) ==
  /\ Asks(c, "refresh")
  /\ call' = [call EXCEPT ![c].pc =
                IF token[call[c].given].expired THEN "refused" ELSE "checked"]
  /\ UNCHANGED <<token, nextToken>>

\* Exchange, to its last check.
ExchangeCheck(c) ==
  /\ Asks(c, "refresh")
  /\ call' = [call EXCEPT ![c].pc =
                IF Exchangeable(call[c].given) THEN "checked" ELSE "refused"]
  /\ UNCHANGED <<token, nextToken>>

\* Mutant of ExchangeCommit: the presented token names its successor but is not
\* revoked.
CommitWithoutRevoking(c) ==
  /\ call[c].pc = "checked"
  /\ nextToken <= MaxToken
  /\ LET old == call[c].given IN
       token' = [token EXCEPT ![nextToken] = NewRow(token[old].login),
                              ![old].heir = nextToken]
  /\ nextToken' = nextToken + 1
  /\ call' = [call EXCEPT ![c].pc = "granted", ![c].got = nextToken]

\* CreateRefreshToken, RotateRefreshToken (which updates whatever it finds) and
\* the COMMIT: nothing of it is visible before.
ExchangeCommit(c) ==
  /\ call[c].pc = "checked"
  /\ nextToken <= MaxToken
  /\ LET old == call[c].given IN
       token' = [token EXCEPT ![nextToken] = NewRow(token[old].login),
                              ![old].revoked = TRUE, ![old].heir = nextToken]
  /\ nextToken' = nextToken + 1
  /\ call' = [call EXCEPT ![c].pc = "granted", ![c].got = nextToken]

\* Revoke; a request without a token is not sent.
Revoke(c) ==
  /\ Asks(c, "logout")
  /\ token' = [token EXCEPT ![call[c].given].revoked = TRUE]
  /\ call' = [call EXCEPT ![c].pc = "granted"]
  /\ UNCHANGED nextToken

\* A lost or rate-limited request, a database error, a user lookup that fails
\* after the rotation, a lost answer: the caller sees an error, whether or not
\* the table has changed.
Fail(c) ==
  /\ call[c].pc \in {"sent", "checked", "granted"}
  /\ call' = [call EXCEPT ![c].pc = "failed", ![c].got = NoToken]
  /\ UNCHANGED <<token, nextToken>>

\* expires_at passes (which makes no difference to a revoked token).
Expire(t) ==
  /\ t \in Issued /\ Live(t)
  /\ token' = [token EXCEPT ![t].expired = TRUE]
  /\ UNCHANGED <<nextToken, call>>
-----------------------------------------------------------------------------
Init == /\ token = [t \in Tokens |-> NewRow(NoToken)]
        /\ nextToken = 1
        /\ call = [c \in Callers |-> NoCall]

Serve(c) == Issue(c) \/ ExchangeCheck(c) \/ ExchangeCommit(c) \/ Revoke(c)

\* Clients that only present tokens they were given.
Arrive(c) ==
  /\ \/ Present(c, "login", NoToken)
     \/ \E op \in {"refresh", "logout"}, t \in Issued : Present(c, op, t)
  /\ UNCHANGED <<token, nextToken>>

Depart(c) == Settled(c) /\ Hangup(c) /\ UNCHANGED <<token, nextToken>>

Next == \/ \E c \in Callers : Serve(c) \/ Fail(c) \/ Arrive(c) \/ Depart(c)
        \/ \E t \in Tokens : Expire(t)

Spec == Init /\ [][Next]_vars
-----------------------------------------------------------------------------
\* Type invariant.
TokensTypeOK == /\ token \in [Tokens -> Row]
                /\ nextToken \in 1..(MaxToken + 1)
                /\ call \in [Callers -> Call]

Of(login) == {t \in Issued : token[t].login = login}

WorkingEnds(login) == {t \in Of(login) : ~token[t].revoked}

\* Successors that no token names any more: the token that was exchanged for
\* them has been exchanged again, by a request that had passed its check before.
Displaced(login) ==
  {t \in Of(login) : t # login /\ \A u \in Issued : token[u].heir # t}

\* Rotation keeps a session one chain with one working end: a login has more
\* than one unrevoked token only where a token of it was exchanged twice at
\* once, and one more for each time that happened.
WorkingEndsAccountedFor ==
  \A t \in Issued :
    LET login == token[t].login IN
      Cardinality(WorkingEnds(login)) <= 1 + Cardinality(Displaced(login))

Dead(login) == WorkingEnds(login) = {}

\* Nothing of the session works, and no exchange of it is past its check.
Over(login) ==
  /\ Dead(login)
  /\ \A c \in Callers : call[c].pc = "checked" => token[call[c].given].login # login

\* A session that is over never gets a working token again: not from the tokens
\* it went through before, in whatever order they are presented.  (A logout
\* alone does not make it over: an exchange already past its check revives it.)
DeadSessionsStayDead ==
  [][\A t \in Issued : Over(token[t].login) => Over(token[t].login)']_vars
-----------------------------------------------------------------------------
(* What the comment on Exchange says ("atomically rotates"), and the code  *)
(* does only for requests that do not overlap (Cardinality(Callers) = 1).  *)

\* A login has at most one unrevoked token.
OneLivePerLogin ==
  \A t, u \in Issued :
    token[t].login = token[u].login /\ ~token[t].revoked /\ ~token[u].revoked => t = u
=============================================================================
