------------------------- MODULE ClientSessionProofs -------------------------
(***************************************************************************)
(* Theorems about ClientSession: the token that the tabs share, for any    *)
(* number of tabs, of requests in each and of reloads.                     *)
(*                                                                         *)
(* StoredTokenUsable is not inductive.  A token that a tab was granted and *)
(* has not stored yet must be nobody else's: not stored, not presented by  *)
(* another call, not granted to one (GotIsFresh).  Then whoever stores it  *)
(* stores a token that works, whatever the other tabs did in between.      *)
(***************************************************************************)
EXTENDS ClientSession, TLAPS

Issued == Server!Issued

\* What a call may be in each of its states.
CallsOK ==
  \A c \in Callers :
    /\ call[c].pc = "none" => call[c] = Server!NoCall
    /\ call[c].pc \in {"checked", "refused"} => call[c].op = "refresh"
    /\ call[c].op \in {"refresh", "logout"} => call[c].given \in Issued
    /\ call[c].op \in {"none", "login"} => call[c].given = NoToken

StoreIssued == store \in Issued \cup {NoToken}

\* A token that was granted is held by the call that waits to be answered, and
\* by nobody else.
GotIsFresh ==
  \A c \in Callers : call[c].got # NoToken =>
    /\ call[c].got \in Issued /\ ~token[call[c].got].revoked
    /\ call[c].got # store
    /\ \A d \in Callers : /\ call[d].given # call[c].got
                          /\ call[d].got = call[c].got => d = c

\* The table, the calls and the stored token; and the tabs.
SharedInv == /\ Server!TokensTypeOK /\ CallsOK /\ StoreIssued /\ GotIsFresh
             /\ StoredTokenUsable
TabsTypeOK == tab \in [Tabs -> ApiClient] /\ query \in [Tabs -> [Queries -> Query]]

\* The refresh a tab waits for is a refresh.
RefresherRefreshes ==
  \A t \in Tabs : tab[t].refresher # NoQuery =>
    call[<<t, tab[t].refresher>>].op = "refresh"

\* What holds of any number of tabs.
IInv == SharedInv /\ TabsTypeOK /\ RefresherRefreshes /\ reloads \in Nat
-----------------------------------------------------------------------------
(* Names.                                                                  *)

\* A caller is a query of one tab or the sign-in of one.
LEMMA CallersAre ==
  /\ \A t \in Tabs, q \in Queries : <<t, q>> \in Callers /\ <<t, q>> # <<t, "sign">>
  /\ \A t \in Tabs : <<t, "sign">> \in Callers
  /\ \A t, u \in Tabs, q, r \in Queries \cup {"sign"} :
       <<t, q>> = <<u, r>> => t = u /\ q = r
  BY SessionConstantsOK DEF Callers

\* A caller that asks for nothing.
LEMMA NoCallIsCall == Server!NoCall \in Server!Call
  BY DEF Server!NoCall, Server!Call, Server!NoToken

\* The invariant is what SessionInv says, and more.
LEMMA IInvImplies == IInv => SessionInv
  BY DEF IInv, SharedInv, TabsTypeOK, RefresherRefreshes, SessionInv, SessionTypeOK,
         StoreIssued, Issued, Server!Issued

\* Nobody is signed in and nothing is asked for.
LEMMA InitIInv == Init => IInv
  <1> SUFFICES ASSUME Init PROVE IInv
    OBVIOUS
  <1> USE DEF Init, Server!Init
  <1>1. Server!TokensTypeOK
    BY SessionConstantsOK, NoCallIsCall
    DEF Server!TokensTypeOK, Server!NewRow, Server!Row, Server!Tokens, Server!NoToken
  <1>2. CallsOK /\ StoreIssued /\ GotIsFresh /\ StoredTokenUsable
    BY DEF CallsOK, StoreIssued, GotIsFresh, StoredTokenUsable, Server!NoCall, NoToken,
           Server!NoToken
  <1>3. TabsTypeOK /\ RefresherRefreshes
    BY DEF TabsTypeOK, RefresherRefreshes, ApiClient, NewClient, Query, IdleQuery
  <1>4. QED
    BY <1>1, <1>2, <1>3 DEF IInv, SharedInv
-----------------------------------------------------------------------------
(* Calls come and go.                                                      *)

\* A call that presents the stored token, or none.
LEMMA PresentKeeps ==
  ASSUME SharedInv, NEW c \in Callers, NEW op \in {"login", "refresh", "logout"}, NEW x,
         Server!Present(c, op, x),
         op = "login" => x = NoToken,
         op # "login" => x = store /\ store # NoToken,
         UNCHANGED <<token, nextToken, store, reloads>>
  PROVE  SharedInv'
  <1> USE DEF SharedInv
  <1>1. x \in Issued \cup {NoToken} /\ (op # "login" => x \in Issued)
    BY DEF StoreIssued
  <1> DEFINE new == [op |-> op, pc |-> "sent", given |-> x, got |-> NoToken]
  <1>2. /\ call[c].pc = "none"
        /\ call' = [call EXCEPT ![c] = new]
        /\ call \in [Callers -> Server!Call]
    BY DEF Server!Present, NoToken, Server!TokensTypeOK
  <1>3. new \in Server!Call
    BY <1>1 DEF Server!Call, Issued, Server!Issued, NoToken
  <1>4. call[c].given = NoToken /\ call[c].got = NoToken
    BY <1>2 DEF CallsOK, Server!NoCall, NoToken
  <1>5. call'[c] = new /\ \A d \in Callers : d # c => call'[d] = call[d]
    BY <1>2
  <1>6. Issued' = Issued
    BY DEF Issued, Server!Issued
  <1>7. Server!TokensTypeOK'
    BY <1>2, <1>3 DEF Server!TokensTypeOK
  <1>8. CallsOK'
    BY <1>1, <1>5, <1>6 DEF CallsOK
  <1>9. StoreIssued'
    BY <1>6 DEF StoreIssued
  <1>10. GotIsFresh'
    BY <1>1, <1>4, <1>5, <1>6 DEF GotIsFresh
  <1>11. StoredTokenUsable'
    BY <1>4, <1>5 DEF StoredTokenUsable
  <1>12. QED
    BY <1>7, <1>8, <1>9, <1>10, <1>11

\* A call that ends: its tab stores what it was granted, or clears the store, or
\* leaves the store alone if the call presented no token.
LEMMA HangupKeeps ==
  ASSUME SharedInv, NEW c \in Callers, Server!Hangup(c),
         \/ store' = NoToken \/ store' = call[c].got
         \/ store' = store /\ call[c].op = "login",
         UNCHANGED <<token, nextToken, reloads>>
  PROVE  SharedInv'
  <1> USE DEF SharedInv
  <1>1. /\ call' = [call EXCEPT ![c] = Server!NoCall]
        /\ call \in [Callers -> Server!Call]
    BY DEF Server!Hangup, Server!TokensTypeOK
  <1>2. call'[c] = Server!NoCall /\ \A d \in Callers : d # c => call'[d] = call[d]
    BY <1>1
  <1>3. /\ Server!NoCall.pc = "none" /\ Server!NoCall.op = "none"
        /\ Server!NoCall.given = NoToken /\ Server!NoCall.got = NoToken
    BY DEF Server!NoCall, NoToken
  <1>4. Issued' = Issued
    BY DEF Issued, Server!Issued
  <1>5. Server!TokensTypeOK'
    BY <1>1, NoCallIsCall DEF Server!TokensTypeOK
  <1>6. CallsOK'
    BY <1>2, <1>3, <1>4 DEF CallsOK
  <1>7. StoreIssued'
    BY <1>4 DEF StoreIssued, GotIsFresh
  <1>8. GotIsFresh'
    BY <1>2, <1>3, <1>4 DEF GotIsFresh
  <1>9. StoredTokenUsable'
    <2>1. CASE store' = NoToken
      BY <2>1 DEF StoredTokenUsable
    <2>2. CASE store' = call[c].got /\ call[c].got # NoToken
      BY <2>2 DEF StoredTokenUsable, GotIsFresh
    <2>3. CASE store' = store /\ call[c].op = "login"
      BY <2>3, <1>2 DEF StoredTokenUsable, CallsOK
    <2>4. QED
      BY <2>1, <2>2, <2>3
  <1>10. QED
    BY <1>5, <1>6, <1>7, <1>8, <1>9

\* A reload forgets calls, and nothing is asked of the stored token after it.
LEMMA ReloadKeeps ==
  ASSUME SharedInv, reloads \in Nat, NEW t \in Tabs, Reload(t)
  PROVE  SharedInv' /\ \A c \in Callers : call'[c] \in {call[c], Server!NoCall}
  <1> USE DEF SharedInv
  <1>1. /\ UNCHANGED <<token, nextToken, store>>
        /\ call' = [c \in Callers |-> IF c[1] = t THEN Server!NoCall ELSE call[c]]
        /\ call \in [Callers -> Server!Call]
    BY DEF Reload, Server!TokensTypeOK
  <1>2. \A c \in Callers : call'[c] \in {call[c], Server!NoCall}
    BY <1>1
  <1>3. /\ Server!NoCall.pc = "none" /\ Server!NoCall.op = "none"
        /\ Server!NoCall.given = NoToken /\ Server!NoCall.got = NoToken
    BY DEF Server!NoCall, NoToken
  <1>4. Issued' = Issued
    BY <1>1 DEF Issued, Server!Issued
  <1>5. Server!TokensTypeOK'
    BY <1>1, NoCallIsCall DEF Server!TokensTypeOK
  <1>6. CallsOK' /\ StoreIssued'
    BY <1>1, <1>2, <1>3, <1>4 DEF CallsOK, StoreIssued
  <1>7. GotIsFresh'
    <2> SUFFICES ASSUME NEW c \in Callers, call'[c].got # NoToken
                 PROVE  /\ call'[c].got \in Issued /\ ~token[call'[c].got].revoked
                        /\ call'[c].got # store
                        /\ \A d \in Callers : /\ call'[d].given # call'[c].got
                                              /\ call'[d].got = call'[c].got => d = c
      BY <1>1, <1>4 DEF GotIsFresh
    <2>1. call'[c] = call[c]
      BY <1>2, <1>3
    <2>2. QED
      BY <1>2, <1>3, <2>1 DEF GotIsFresh
  <1>8. StoredTokenUsable'
    BY DEF Reload, StoredTokenUsable
  <1>9. QED
    BY <1>2, <1>5, <1>6, <1>7, <1>8
-----------------------------------------------------------------------------
(* The server.                                                             *)

\* An id that the sequence hands out next is nobody's.
LEMMA FreshId ==
  ASSUME SharedInv, nextToken <= MaxToken
  PROVE  /\ nextToken \in Server!Tokens /\ nextToken \notin Issued /\ nextToken # NoToken
         /\ nextToken # store
         /\ \A d \in Callers : call[d].given # nextToken /\ call[d].got # nextToken
         /\ nextToken + 1 \in 1..(MaxToken + 1)
         /\ \A n : n = nextToken + 1 =>
              {t \in Server!Tokens : t < n} = Issued \cup {nextToken}
  <1>1. /\ nextToken \in Server!Tokens /\ nextToken \notin Issued /\ nextToken # NoToken
        /\ nextToken + 1 \in 1..(MaxToken + 1)
        /\ \A n : n = nextToken + 1 => {t \in Server!Tokens : t < n} = Issued \cup {nextToken}
    BY SessionConstantsOK
    DEF SharedInv, Server!TokensTypeOK, Server!Tokens, Issued, Server!Issued, NoToken,
        Server!NoToken
  <1>2. \A d \in Callers : call[d].given \in Issued \cup {NoToken}
    BY DEF SharedInv, CallsOK, Server!TokensTypeOK, Server!Call
  <1>3. \A d \in Callers : call[d].got \in Issued \cup {NoToken}
    BY DEF SharedInv, GotIsFresh
  <1>4. QED
    BY <1>1, <1>2, <1>3 DEF SharedInv, StoreIssued

\* A token is issued to the caller and, in an exchange, the one it presented is
\* revoked.
LEMMA GrantKeeps ==
  ASSUME SharedInv, NEW c \in Callers, NEW row \in [Server!Tokens -> Server!Row],
         Server!Issue(c) \/ Server!ExchangeCommit(c),
         token' = row, UNCHANGED <<store, reloads>>,
         ~row[nextToken].revoked,
         \A x \in Issued : x # call[c].given => row[x] = token[x]
  PROVE  SharedInv'
  <1> USE DEF SharedInv
  <1>1. /\ nextToken <= MaxToken /\ nextToken' = nextToken + 1
        /\ call' = [call EXCEPT ![c].pc = "granted", ![c].got = nextToken]
        /\ call \in [Callers -> Server!Call]
        /\ call[c].op \in {"login", "refresh"}
    BY DEF Server!Issue, Server!ExchangeCommit, Server!Asks, Server!TokensTypeOK, CallsOK
  <1>2. /\ nextToken \in Server!Tokens /\ nextToken \notin Issued /\ nextToken # NoToken
        /\ nextToken # store /\ nextToken' \in 1..(MaxToken + 1)
        /\ \A d \in Callers : call[d].given # nextToken /\ call[d].got # nextToken
        /\ Issued' = Issued \cup {nextToken}
    BY <1>1, FreshId DEF Issued, Server!Issued
  <1>3. call'[c] = [call[c] EXCEPT !.pc = "granted", !.got = nextToken]
    BY <1>1
  <1>4. \A d \in Callers : d # c => call'[d] = call[d]
    BY <1>1
  <1>5. /\ call'[c].pc = "granted" /\ call'[c].got = nextToken
        /\ call'[c].op = call[c].op /\ call'[c].given = call[c].given
        /\ call'[c] \in Server!Call
    BY <1>1, <1>2, <1>3 DEF Server!Call
  <1>6. Server!TokensTypeOK'
    BY <1>1, <1>2, <1>3, <1>5 DEF Server!TokensTypeOK
  <1>7. CallsOK'
    BY <1>1, <1>2, <1>4, <1>5 DEF CallsOK
  <1>8. StoreIssued'
    BY <1>2 DEF StoreIssued
  <1>9. GotIsFresh'
    <2> SUFFICES ASSUME NEW d \in Callers, call'[d].got # NoToken
                 PROVE  /\ call'[d].got \in Issued' /\ ~token'[call'[d].got].revoked
                        /\ call'[d].got # store'
                        /\ \A e \in Callers : /\ call'[e].given # call'[d].got
                                              /\ call'[e].got = call'[d].got => e = d
      BY DEF GotIsFresh
    <2>1. CASE d = c
      BY <1>2, <1>4, <1>5, <2>1
    <2>2. CASE d # c
      <3>1. call'[d] = call[d] /\ call[d].got \in Issued /\ call[d].got # call[c].given
        BY <1>4, <2>2 DEF GotIsFresh
      <3>2. \A e \in Callers : call'[e].given = call[e].given
        BY <1>4, <1>5
      <3>3. \A e \in Callers : call'[e].got = call[d].got => e = d
        BY <1>2, <1>4, <1>5, <3>1 DEF GotIsFresh
      <3>4. QED
        BY <1>2, <3>1, <3>2, <3>3 DEF GotIsFresh
    <2>3. QED
      BY <2>1, <2>2
  <1>10. StoredTokenUsable'
    <2> SUFFICES ASSUME reloads = 0, store # NoToken, row[store].revoked
                 PROVE  \E d \in Callers : call'[d].given = store
      BY DEF StoredTokenUsable
    <2>1. CASE store = call[c].given
      BY <1>5, <2>1
    <2>2. CASE store # call[c].given
      <3>1. row[store] = token[store]
        BY <2>2 DEF StoreIssued
      <3>2. QED
        BY <1>4, <1>5, <3>1 DEF StoredTokenUsable
    <2>3. QED
      BY <2>1, <2>2
  <1>11. QED
    BY <1>6, <1>7, <1>8, <1>9, <1>10

\* A call moves on without a token being issued or granted; tokens may be revoked
\* only because a call presented them.
LEMMA AdvanceKeeps ==
  ASSUME SharedInv, NEW c \in Callers, NEW call1 \in Server!Call, call1.pc # "none",
         call1.op = call[c].op, call1.given = call[c].given,
         call1.got = call[c].got \/ call1.got = NoToken,
         call1.pc \in {"checked", "refused"} => call1.op = "refresh",
         call' = [call EXCEPT ![c] = call1],
         NEW row \in [Server!Tokens -> Server!Row], token' = row,
         \A x \in Issued : x # call[c].given => row[x] = token[x],
         row = token \/ call[c].op # "login",
         UNCHANGED <<nextToken, store, reloads>>
  PROVE  SharedInv'
  <1> USE DEF SharedInv
  <1>1. call'[c] = call1 /\ \A d \in Callers : d # c => call'[d] = call[d]
    BY DEF Server!TokensTypeOK
  <1>2. \A d \in Callers : call'[d].given = call[d].given
                           /\ call'[d].got \in {call[d].got, NoToken}
    BY <1>1
  <1>3. Issued' = Issued
    BY DEF Issued, Server!Issued
  <1>4. Server!TokensTypeOK'
    BY DEF Server!TokensTypeOK
  <1>5. CallsOK'
    BY <1>1, <1>3 DEF CallsOK
  <1>6. StoreIssued'
    BY <1>3 DEF StoreIssued
  <1>7. GotIsFresh'
    <2> SUFFICES ASSUME NEW d \in Callers, call'[d].got # NoToken
                 PROVE  /\ call'[d].got \in Issued /\ ~row[call'[d].got].revoked
                        /\ call'[d].got # store
                        /\ \A e \in Callers : /\ call'[e].given # call'[d].got
                                              /\ call'[e].got = call'[d].got => e = d
      BY <1>3 DEF GotIsFresh
    <2>1. call'[d].got = call[d].got /\ call[d].got \in Issued /\ call[d].got # call[c].given
      BY <1>2 DEF GotIsFresh
    <2>2. row[call[d].got] = token[call[d].got]
      BY <2>1
    <2>3. QED
      BY <1>2, <2>1, <2>2 DEF GotIsFresh
  <1>8. StoredTokenUsable'
    <2> SUFFICES ASSUME reloads = 0, store # NoToken, row[store].revoked
                 PROVE  \E d \in Callers : call'[d].given = store
      BY DEF StoredTokenUsable
    <2>1. CASE store = call[c].given
      BY <1>2, <2>1
    <2>2. CASE store # call[c].given
      <3>1. row[store] = token[store]
        BY <2>2 DEF StoreIssued
      <3>2. QED
        BY <1>2, <3>1 DEF StoredTokenUsable
    <2>3. QED
      BY <2>1, <2>2
  <1>9. QED
    BY <1>4, <1>5, <1>6, <1>7, <1>8

\* What the server does to a call, whatever the tabs are at.
LEMMA ServerKeeps ==
  ASSUME SharedInv, NEW c \in Callers, ServerStep(c)
  PROVE  SharedInv' /\ call'[c].op = call[c].op
  <1> USE DEF SharedInv
  <1>1. /\ call[c] \in Server!Call /\ call \in [Callers -> Server!Call]
        /\ token \in [Server!Tokens -> Server!Row] /\ UNCHANGED client
    BY DEF ServerStep, Server!TokensTypeOK
  <1>2. \A x \in Issued : x \in Server!Tokens
    BY DEF Issued, Server!Issued
  <1>3. CASE Server!Issue(c)
    <2>1. /\ token' = [token EXCEPT ![nextToken] = Server!NewRow(nextToken)]
          /\ call'[c].op = call[c].op /\ nextToken <= MaxToken
      BY <1>1, <1>3 DEF Server!Issue, Server!Call
    <2>2. nextToken \in Server!Tokens /\ nextToken \notin Issued
      BY <2>1, FreshId
    <2>3. /\ token' \in [Server!Tokens -> Server!Row] /\ ~token'[nextToken].revoked
          /\ \A x \in Issued : token'[x] = token[x]
      BY <1>1, <1>2, <2>1, <2>2 DEF Server!NewRow, Server!Row, Server!NoToken
    <2>4. QED
      BY <1>1, <1>3, <2>1, <2>3, GrantKeeps DEF client
  <1>4. CASE Server!ExchangeCommit(c)
    <2> DEFINE old == call[c].given
    <2>1. /\ token' = [token EXCEPT ![nextToken] = Server!NewRow(token[old].login),
                                    ![old].revoked = TRUE, ![old].heir = nextToken]
          /\ call'[c].op = call[c].op /\ nextToken <= MaxToken
      BY <1>1, <1>4 DEF Server!ExchangeCommit, Server!Call
    <2>2. nextToken \in Server!Tokens /\ nextToken \notin Issued
      BY <2>1, FreshId
    <2>3. old \in Issued /\ old \in Server!Tokens /\ old # nextToken
      BY <1>2, <1>4, <2>2 DEF Server!ExchangeCommit, CallsOK
    <2>4. /\ token' \in [Server!Tokens -> Server!Row] /\ ~token'[nextToken].revoked
          /\ \A x \in Issued : x # old => token'[x] = token[x]
      BY <1>1, <1>2, <2>1, <2>2, <2>3 DEF Server!NewRow, Server!Row, Server!NoToken
    <2>5. QED
      BY <1>1, <1>4, <2>1, <2>4, GrantKeeps DEF client
  <1>5. CASE Server!ExchangeCheck(c)
    <2> DEFINE pc1 == IF Server!Exchangeable(call[c].given) THEN "checked" ELSE "refused"
               call1 == [call[c] EXCEPT !.pc = pc1]
    <2>1. call' = [call EXCEPT ![c] = call1] /\ call[c].op = "refresh"
      BY <1>5 DEF Server!ExchangeCheck, Server!Asks
    <2>2. /\ call1 \in Server!Call /\ call1.pc # "none" /\ call1.op = call[c].op
          /\ call1.given = call[c].given /\ call1.got = call[c].got
      BY <1>1 DEF Server!Call
    <2>3. call'[c].op = call[c].op
      BY <1>1, <2>1, <2>2
    <2>4. UNCHANGED <<token, nextToken, store, reloads>>
      BY <1>1, <1>5 DEF Server!ExchangeCheck, client
    <2> HIDE DEF call1
    <2>5. SharedInv'
      BY <1>1, <2>1, <2>2, <2>4, AdvanceKeeps
    <2>6. QED
      BY <2>3, <2>5
  <1>6. CASE Server!Revoke(c)
    <2> DEFINE call1 == [call[c] EXCEPT !.pc = "granted"]
    <2>1. /\ call' = [call EXCEPT ![c] = call1] /\ call[c].op = "logout"
          /\ token' = [token EXCEPT ![call[c].given].revoked = TRUE]
      BY <1>6 DEF Server!Revoke, Server!Asks
    <2>2. /\ call1 \in Server!Call /\ call1.pc = "granted" /\ call1.op = call[c].op
          /\ call1.given = call[c].given /\ call1.got = call[c].got
      BY <1>1 DEF Server!Call
    <2>3. call'[c].op = call[c].op
      BY <1>1, <2>1, <2>2
    <2>4. /\ token' \in [Server!Tokens -> Server!Row]
          /\ \A x \in Issued : x # call[c].given => token'[x] = token[x]
      BY <1>1, <1>2, <2>1 DEF Server!Row
    <2>5. QED
      BY <1>1, <1>6, <2>1, <2>2, <2>3, <2>4, AdvanceKeeps DEF Server!Revoke, client
  <1>7. CASE Server!Fail(c)
    <2> DEFINE call1 == [call[c] EXCEPT !.pc = "failed", !.got = Server!NoToken]
    <2>1. call' = [call EXCEPT ![c] = call1]
      BY <1>7 DEF Server!Fail
    <2>2. /\ call1 \in Server!Call /\ call1.pc = "failed" /\ call1.op = call[c].op
          /\ call1.given = call[c].given /\ call1.got = NoToken
      BY <1>1 DEF Server!Call, NoToken, Server!NoToken
    <2>3. call'[c].op = call[c].op
      BY <1>1, <2>1, <2>2
    <2>4. QED
      BY <1>1, <1>7, <2>1, <2>2, <2>3, AdvanceKeeps DEF Server!Fail, client
  <1>8. QED
    BY <1>3, <1>4, <1>5, <1>6, <1>7 DEF ServerStep, Server!Serve
-----------------------------------------------------------------------------
(* The tabs.                                                               *)

\* The client of a tab that was just loaded, and its queries.
LEMMA ClientTypes ==
  /\ NewClient \in ApiClient /\ NewClient.refresher = NoQuery
  /\ IdleQuery \in Query
  BY DEF NewClient, ApiClient, IdleQuery, Query

\* A request of a tab moves on to another state of a request.
LEMMA QueryMoves ==
  ASSUME TabsTypeOK, NEW t \in Tabs, NEW q \in Queries, NEW new \in Query,
         query' = [query EXCEPT ![t][q] = new]
  PROVE  query' \in [Tabs -> [Queries -> Query]]
  BY DEF TabsTypeOK

\* A query asks, is answered, and waits for or starts a refresh.
LEMMA RequestsKeep ==
  ASSUME IInv, NEW t \in Tabs, NEW q \in Queries, QueryStep(t, q)
  PROVE  IInv'
  <1> USE DEF IInv
  <1>1. ASSUME Request(t, q) \/ Answered(t, q) PROVE IInv'
    <2>1. UNCHANGED <<token, nextToken, call, store, tab, reloads>>
      BY <1>1 DEF Request, Answered, server
    <2> DEFINE sent == [pc |-> "sent", valid |-> tab[t].access = "valid"]
    <2>2. sent \in Query
      BY DEF Query
    <2>3. \/ query' = [query EXCEPT ![t][q] = sent]
          \/ query' = [query EXCEPT ![t][q] = IdleQuery]
      BY <1>1 DEF Request, Answered
    <2> HIDE DEF sent
    <2>4. TabsTypeOK'
      BY <2>1, <2>2, <2>3, QueryMoves, ClientTypes DEF TabsTypeOK
    <2>5. SharedInv' /\ RefresherRefreshes'
      BY <2>1 DEF SharedInv, RefresherRefreshes, Server!TokensTypeOK, CallsOK, StoreIssued,
                  GotIsFresh, StoredTokenUsable, Issued, Server!Issued
    <2>6. QED
      BY <2>1, <2>4, <2>5
  <1>2. ASSUME NEW pc \in {"waiting", "restoring"}, Refresh(t, q, pc),
               UNCHANGED <<token, nextToken, store, reloads>>
        PROVE  IInv'
    <2> DEFINE waits == [query[t][q] EXCEPT !.pc = pc]
    <2>1. waits \in Query
      <3>1. query[t][q] \in Query
        BY DEF TabsTypeOK
      <3>2. QED
        BY <3>1 DEF Query
    <2>2. \/ query' = [query EXCEPT ![t][q] = waits]
          \/ query' = [query EXCEPT ![t][q] = IdleQuery]
      BY <1>2 DEF Refresh
    <2> HIDE DEF waits
    <2>3. query' \in [Tabs -> [Queries -> Query]]
      BY <2>1, <2>2, QueryMoves, ClientTypes
    <2>4. CASE Server!Present(<<t, q>>, "refresh", store)
               /\ tab' = [tab EXCEPT ![t].refresher = q] /\ store # NoToken
      <3>1. SharedInv'
        BY <1>2, <2>4, CallersAre, PresentKeeps
      <3>2. TabsTypeOK'
        BY <2>3, <2>4 DEF TabsTypeOK, ApiClient
      <3>3. \A u \in Tabs : tab'[u].refresher = IF u = t THEN q ELSE tab[u].refresher
        BY <2>4 DEF TabsTypeOK, ApiClient
      <3>4. /\ call'[<<t, q>>].op = "refresh"
            /\ \A d \in Callers : d # <<t, q>> => call'[d] = call[d]
        BY <2>4, CallersAre DEF Server!Present, SharedInv, Server!TokensTypeOK
      <3>5. RefresherRefreshes'
        <4> SUFFICES ASSUME NEW u \in Tabs, tab'[u].refresher # NoQuery
                     PROVE  call'[<<u, tab'[u].refresher>>].op = "refresh"
          BY DEF RefresherRefreshes
        <4>1. CASE u = t
          BY <3>3, <3>4, <4>1
        <4>2. CASE u # t
          <5>1. tab[u].refresher \in Queries /\ tab'[u].refresher = tab[u].refresher
            BY <3>3, <4>2 DEF TabsTypeOK, ApiClient
          <5>2. <<u, tab[u].refresher>> \in Callers /\ <<u, tab[u].refresher>> # <<t, q>>
            BY <4>2, <5>1, CallersAre
          <5>3. QED
            BY <3>4, <5>1, <5>2 DEF RefresherRefreshes
        <4>3. QED
          BY <4>1, <4>2
      <3>6. QED
        BY <1>2, <3>1, <3>2, <3>5
    <2>5. CASE UNCHANGED <<call, tab>>
      <3>1. SharedInv' /\ RefresherRefreshes'
        BY <1>2, <2>5
        DEF SharedInv, RefresherRefreshes, Server!TokensTypeOK, CallsOK, StoreIssued,
            GotIsFresh, StoredTokenUsable, Issued, Server!Issued
      <3>2. QED
        BY <1>2, <2>3, <2>5, <3>1 DEF TabsTypeOK
    <2>6. store # NoToken \/ UNCHANGED <<call, tab>>
      BY <1>2 DEF Refresh
    <2>7. QED
      BY <1>2, <2>4, <2>5, <2>6 DEF Refresh
  <1>3. QED
    BY <1>1, <1>2 DEF QueryStep, Unauthorized, Restore

\* A tab's own call, besides its refresh: the refreshes of the tabs go on.
LEMMA SignLeavesRefreshers ==
  ASSUME SharedInv, TabsTypeOK, RefresherRefreshes, NEW t \in Tabs,
         \A d \in Callers : d # <<t, "sign">> => call'[d].op = call[d].op,
         \A u \in Tabs : tab'[u].refresher = tab[u].refresher
  PROVE  RefresherRefreshes'
  <1> SUFFICES ASSUME NEW u \in Tabs, tab'[u].refresher # NoQuery
               PROVE  call'[<<u, tab'[u].refresher>>].op = "refresh"
    BY DEF RefresherRefreshes
  <1>1. tab[u].refresher \in Queries /\ tab'[u].refresher = tab[u].refresher
    BY DEF TabsTypeOK, ApiClient
  <1>2. <<u, tab[u].refresher>> \in Callers /\ <<u, tab[u].refresher>> # <<t, "sign">>
    BY <1>1, CallersAre
  <1>3. QED
    BY <1>1, <1>2 DEF RefresherRefreshes

\* The refresh of a tab ends, as it may.
LEMMA RefreshDoneKeeps ==
  ASSUME IInv, NEW t \in Tabs, RefreshDone(t)
  PROVE  IInv'
  <1> USE DEF IInv
  <1> DEFINE c == <<t, tab[t].refresher>>
  <1>1. tab[t].refresher \in Queries /\ tab[t].refresher # NoQuery /\ c \in Callers
    BY CallersAre DEF RefreshDone, TabsTypeOK, ApiClient
  <1>2. /\ Server!Hangup(c) /\ UNCHANGED <<token, nextToken, reloads>>
        /\ store' = NoToken \/ store' = call[c].got
    BY DEF RefreshDone
  <1>3. SharedInv'
    BY <1>1, <1>2, HangupKeeps
  <1>4. PICK a \in {"valid", "none"} :
          tab' = [tab EXCEPT ![t] = [access |-> a, refresher |-> NoQuery]]
    BY DEF RefreshDone
  <1>5. query' \in [Tabs -> [Queries -> Query]]
    <2> DEFINE new(q) == [pc |-> IF query[t][q].pc = "waiting" THEN "resent" ELSE "sent",
                          valid |-> TRUE]
    <2>1. \A q \in Queries : new(q) \in Query /\ query[t][q] \in Query
      BY DEF Query, TabsTypeOK
    <2>2. Resume(t, call[c].pc = "granted")
      BY DEF RefreshDone
    <2>3. \A granted \in BOOLEAN :
            [q \in Queries |-> IF ~Waits(t, q) THEN query[t][q]
                               ELSE IF ~granted THEN IdleQuery ELSE new(q)]
              \in [Queries -> Query]
      BY <2>1, ClientTypes
    <2>4. QED
      BY <2>2, <2>3 DEF Resume, TabsTypeOK
  <1>6. TabsTypeOK'
    BY <1>4, <1>5 DEF TabsTypeOK, ApiClient
  <1>7. RefresherRefreshes'
    <2> SUFFICES ASSUME NEW u \in Tabs, tab'[u].refresher # NoQuery
                 PROVE  call'[<<u, tab'[u].refresher>>].op = "refresh"
      BY DEF RefresherRefreshes
    <2>1. u # t /\ tab'[u] = tab[u]
      BY <1>4 DEF TabsTypeOK
    <2>2. tab[u].refresher \in Queries
      BY <2>1 DEF TabsTypeOK, ApiClient
    <2>3. <<u, tab[u].refresher>> \in Callers /\ <<u, tab[u].refresher>> # c
      BY <1>1, <2>1, <2>2, CallersAre
    <2>4. call'[<<u, tab[u].refresher>>] = call[<<u, tab[u].refresher>>]
      BY <1>2, <2>3 DEF Server!Hangup, SharedInv, Server!TokensTypeOK
    <2>5. QED
      BY <2>1, <2>4 DEF RefresherRefreshes
  <1>8. QED
    BY <1>2, <1>3, <1>6, <1>7

\* A change of a tab's access token.
LEMMA AccessChanges ==
  ASSUME TabsTypeOK, NEW t \in Tabs, NEW a \in {"none", "valid", "stale"},
         tab' = [tab EXCEPT ![t].access = a]
  PROVE  /\ tab' \in [Tabs -> ApiClient]
         /\ \A u \in Tabs : tab'[u].refresher = tab[u].refresher
  BY DEF TabsTypeOK, ApiClient

\* A tab signs in or out: its sign call comes or goes, beside all refreshes.
LEMMA SigningKeeps ==
  ASSUME IInv, NEW t \in Tabs,
         Login(t) \/ LoginDone(t) \/ Logout(t) \/ LogoutDone(t)
  PROVE  IInv'
  <1> USE DEF IInv
  <1> DEFINE c == <<t, "sign">>
  <1>1. c \in Callers /\ call \in [Callers -> Server!Call]
    BY CallersAre DEF SharedInv, Server!TokensTypeOK
  <1>2. UNCHANGED <<token, nextToken, query, reloads>>
    BY DEF Login, LoginDone, Logout, LogoutDone, client
  <1>3. /\ tab' \in [Tabs -> ApiClient]
        /\ \A u \in Tabs : tab'[u].refresher = tab[u].refresher
    <2>1. \/ UNCHANGED tab
          \/ tab' = [tab EXCEPT ![t].access = "valid"]
          \/ tab' = [tab EXCEPT ![t].access = "none"]
      BY DEF Login, LoginDone, Logout, LogoutDone, SignOut, client
    <2>2. QED
      BY <2>1, AccessChanges DEF TabsTypeOK
  <1>4. \A d \in Callers : d # c => call'[d].op = call[d].op
    BY <1>1 DEF Login, LoginDone, Logout, LogoutDone, client, Server!Present, Server!Hangup
  <1>5. RefresherRefreshes'
    BY <1>3, <1>4, SignLeavesRefreshers
  <1>6. SharedInv'
    <2>1. CASE Login(t)
      <3>1. Server!Present(c, "login", NoToken) /\ UNCHANGED store
        BY <2>1 DEF Login, client
      <3>2. QED
        BY <1>1, <1>2, <3>1, PresentKeeps
    <2>2. CASE LoginDone(t)
      <3>1. /\ Server!Hangup(c) /\ call[c].op = "login"
            /\ store' = call[c].got \/ store' = store
        BY <2>2 DEF LoginDone
      <3>2. QED
        BY <1>1, <1>2, <3>1, HangupKeeps
    <2>3. CASE Logout(t)
      <3>1. CASE store = NoToken
        <4>1. UNCHANGED <<call, store>>
          BY <2>3, <3>1 DEF Logout, SignOut
        <4>2. QED
          BY <1>2, <4>1
          DEF SharedInv, Server!TokensTypeOK, CallsOK, StoreIssued, GotIsFresh,
              StoredTokenUsable, Issued, Server!Issued
      <3>2. CASE store # NoToken
        <4>1. Server!Present(c, "logout", store) /\ UNCHANGED store
          BY <2>3, <3>2 DEF Logout
        <4>2. QED
          BY <1>1, <1>2, <3>2, <4>1, PresentKeeps
      <3>3. QED
        BY <3>1, <3>2
    <2>4. CASE LogoutDone(t)
      <3>1. Server!Hangup(c) /\ store' = NoToken
        BY <2>4 DEF LogoutDone, SignOut
      <3>2. QED
        BY <1>1, <1>2, <3>1, HangupKeeps
    <2>5. QED
      BY <2>1, <2>2, <2>3, <2>4
  <1>7. QED
    BY <1>2, <1>3, <1>5, <1>6 DEF TabsTypeOK

\* What happens to a tab from outside.
LEMMA EnvironmentKeeps ==
  ASSUME IInv, NEW t \in Tabs, Reload(t) \/ ExpireAccess(t)
  PROVE  IInv'
  <1> USE DEF IInv
  <1>1. CASE Reload(t)
    <2>1. SharedInv' /\ reloads' \in Nat
      <3>1. SharedInv'
        BY <1>1, ReloadKeeps
      <3>2. QED
        BY <1>1, <3>1 DEF Reload
    <2>2. TabsTypeOK'
      BY <1>1, ClientTypes DEF Reload, TabsTypeOK
    <2>3. RefresherRefreshes'
      <3> SUFFICES ASSUME NEW u \in Tabs, tab'[u].refresher # NoQuery
                   PROVE  call'[<<u, tab'[u].refresher>>].op = "refresh"
        BY DEF RefresherRefreshes
      <3>1. u # t /\ tab'[u] = tab[u]
        BY <1>1, ClientTypes DEF Reload, TabsTypeOK
      <3>2. <<u, tab[u].refresher>> \in Callers
        BY <3>1, CallersAre DEF TabsTypeOK, ApiClient
      <3>3. call'[<<u, tab[u].refresher>>] = call[<<u, tab[u].refresher>>]
        BY <1>1, <3>1, <3>2 DEF Reload
      <3>4. QED
        BY <3>1, <3>3 DEF RefresherRefreshes
    <2>4. QED
      BY <2>1, <2>2, <2>3
  <1>2. CASE ExpireAccess(t)
    <2>1. UNCHANGED <<token, nextToken, call, store, reloads>>
      BY <1>2 DEF ExpireAccess, server
    <2>2. /\ tab' \in [Tabs -> ApiClient]
          /\ \A u \in Tabs : tab'[u].refresher = tab[u].refresher
      BY <1>2, AccessChanges DEF ExpireAccess
    <2>3. query' \in [Tabs -> [Queries -> Query]]
      <3>1. \A q \in Queries : query[t][q] \in Query
        BY DEF TabsTypeOK
      <3>2. \A q \in Queries : [query[t][q] EXCEPT !.valid = FALSE] \in Query
        BY <3>1 DEF Query
      <3>3. QED
        BY <1>2, <3>2 DEF ExpireAccess, TabsTypeOK
    <2>4. SharedInv' /\ RefresherRefreshes'
      BY <2>1, <2>2
      DEF SharedInv, RefresherRefreshes, Server!TokensTypeOK, CallsOK, StoreIssued,
          GotIsFresh, StoredTokenUsable, Issued, Server!Issued
    <2>5. QED
      BY <2>1, <2>2, <2>3, <2>4 DEF TabsTypeOK
  <1>3. QED
    BY <1>1, <1>2

\* What the server does is not seen by the tabs.
LEMMA ServerStepKeeps ==
  ASSUME IInv, NEW c \in Callers, ServerStep(c)
  PROVE  IInv'
  <1> USE DEF IInv
  <1>1. SharedInv' /\ call'[c].op = call[c].op
    BY ServerKeeps
  <1>2. UNCHANGED client
    BY DEF ServerStep
  <1>3. \A d \in Callers : d # c => call'[d] = call[d]
    BY DEF ServerStep, Server!Serve, Server!Fail, Server!Issue, Server!ExchangeCheck,
           Server!ExchangeCommit, Server!Revoke, SharedInv, Server!TokensTypeOK
  <1>4. RefresherRefreshes'
    <2> SUFFICES ASSUME NEW u \in Tabs, tab[u].refresher # NoQuery
                 PROVE  call'[<<u, tab[u].refresher>>].op = "refresh"
      BY <1>2 DEF RefresherRefreshes, client
    <2>1. <<u, tab[u].refresher>> \in Callers
      BY CallersAre DEF TabsTypeOK, ApiClient
    <2>2. QED
      BY <1>1, <1>3, <2>1 DEF RefresherRefreshes
  <1>5. QED
    BY <1>1, <1>2, <1>4 DEF client, TabsTypeOK

\* Every step of a tab, the server and the user keeps it.
LEMMA NextIInv == IInv /\ [Next]_vars => IInv'
  <1> SUFFICES ASSUME IInv, [Next]_vars PROVE IInv'
    OBVIOUS
  <1>1. ASSUME NEW t \in Tabs, TabStep(t) PROVE IInv'
    BY <1>1, RefreshDoneKeeps, SigningKeeps, EnvironmentKeeps DEF TabStep
  <1>2. ASSUME NEW t \in Tabs, NEW q \in Queries, QueryStep(t, q) PROVE IInv'
    BY <1>2, RequestsKeep
  <1>3. ASSUME NEW c \in Callers, ServerStep(c) PROVE IInv'
    BY <1>3, ServerStepKeeps
  <1>4. CASE UNCHANGED vars
    BY <1>4 DEF vars, server, client, IInv, TabsTypeOK, SharedInv, RefresherRefreshes,
                Server!TokensTypeOK, CallsOK, StoreIssued, GotIsFresh, StoredTokenUsable,
                Issued, Server!Issued
  <1>5. QED
    BY <1>1, <1>2, <1>3, <1>4 DEF Next

\* However many tabs refresh, sign in and sign out at the same time over one
\* localStorage, with answers lost and out of order: until a page is reloaded, the
\* stored refresh token is one that the server accepts, or a call that presented
\* it is still under way.
THEOREM StoredTokenWorks == Spec => []SessionInv
  <1>1. QED
    BY InitIInv, NextIInv, IInvImplies, PTL DEF Spec
-----------------------------------------------------------------------------
(* One tab.                                                                *)

OneTab == \A t, u \in Tabs : t = u

\* A tab has one refresh in flight, that of its refresher, whatever happens: a
\* reload forgets both.
SingleFlight ==
  /\ \A t \in Tabs, q \in Queries :
       call[<<t, q>>].pc # "none" => tab[t].refresher = q
  /\ \A t \in Tabs : call[<<t, "sign">>].op # "refresh"

RotatedAreRevoked == \A x \in Issued : token[x].heir # NoToken => token[x].revoked

Rotated == {x \in Issued : token[x].heir # NoToken}

\* What one tab presents has not been rotated, and the stored token has been only
\* if the refresh that did it has not been answered.
NothingReplayed ==
  reloads = 0 =>
    /\ \A c \in Callers :
         call[c].op = "refresh" /\ call[c].pc \in {"sent", "checked", "refused"}
           => call[c].given \notin Rotated
    /\ store \in Rotated => \E c \in Callers : call[c].op = "refresh" /\ call[c].given = store

FlightInv == IInv /\ SingleFlight /\ RotatedAreRevoked
OneTabInv == FlightInv /\ NothingReplayed

\* A tab that has asked for nothing.
LEMMA InitOneTabInv == Init => OneTabInv
  <1> SUFFICES ASSUME Init PROVE OneTabInv
    OBVIOUS
  <1>1. \A c \in Callers : call[c] = Server!NoCall
    BY DEF Init, Server!Init
  <1>2. SingleFlight
    BY <1>1, CallersAre DEF SingleFlight, Server!NoCall
  <1>3. Issued = {} /\ store = NoToken
    BY SessionConstantsOK DEF Init, Server!Init, Issued, Server!Issued, Server!Tokens
  <1>4. RotatedAreRevoked /\ NothingReplayed
    BY <1>1, <1>3 DEF RotatedAreRevoked, NothingReplayed, Rotated, Server!NoCall
  <1>5. QED
    BY <1>2, <1>4, InitIInv DEF OneTabInv, FlightInv

\* A caller is a request of a tab, or its sign call; only the first kind refreshes,
\* for the tab's refresher.
LEMMA RefreshersOnly ==
  ASSUME FlightInv, NEW c \in Callers, call[c].op = "refresh"
  PROVE  \E t \in Tabs : tab[t].refresher \in Queries /\ c = <<t, tab[t].refresher>>
  <1>1. PICK t \in Tabs, q \in Queries \cup {"sign"} : c = <<t, q>>
    BY DEF Callers
  <1>2. q \in Queries
    BY <1>1 DEF FlightInv, SingleFlight
  <1>3. call[c].pc # "none"
    BY DEF FlightInv, IInv, SharedInv, CallsOK, Server!NoCall
  <1>4. QED
    BY <1>1, <1>2, <1>3 DEF FlightInv, SingleFlight

\* Two refreshes of one tab are the same one: the others wait for it.
LEMMA OneRefresh ==
  ASSUME OneTab, FlightInv, NEW c \in Callers, NEW d \in Callers,
         call[c].op = "refresh", call[d].op = "refresh"
  PROVE  c = d
  <1>1. PICK t \in Tabs : tab[t].refresher \in Queries /\ c = <<t, tab[t].refresher>>
    BY RefreshersOnly
  <1>2. PICK u \in Tabs : tab[u].refresher \in Queries /\ d = <<u, tab[u].refresher>>
    BY RefreshersOnly
  <1>3. QED
    BY <1>1, <1>2 DEF OneTab

\* A server step moves one call on; none begins and none ends by it.
LEMMA ServerMoves ==
  ASSUME IInv, NEW c \in Callers, ServerStep(c)
  PROVE  /\ call[c].pc # "none" /\ call'[c].pc # "none"
         /\ call'[c].op = call[c].op /\ call'[c].given = call[c].given
         /\ \A d \in Callers : d # c => call'[d] = call[d]
  <1>1. call \in [Callers -> Server!Call] /\ call[c] \in Server!Call
    BY DEF IInv, SharedInv, Server!TokensTypeOK
  <1>2. QED
    BY <1>1 DEF ServerStep, Server!Serve, Server!Fail, Server!Issue, Server!ExchangeCheck,
                Server!ExchangeCommit, Server!Revoke, Server!Asks, Server!Call

\* Of the refreshes of a tab none starts before the last one has ended.
LEMMA SingleFlightKept ==
  ASSUME IInv, SingleFlight, Next
  PROVE  SingleFlight'
  <1> USE DEF IInv
  <1>0. /\ call \in [Callers -> Server!Call]
        /\ \A t \in Tabs : tab[t].refresher \in Queries \cup {NoQuery}
        /\ NoQuery \notin Queries
    BY SessionConstantsOK DEF SharedInv, Server!TokensTypeOK, TabsTypeOK, ApiClient, NoQuery
  <1>1. ASSUME NEW t \in Tabs, NEW q \in Queries, QueryStep(t, q) PROVE SingleFlight'
    <2>1. \/ UNCHANGED <<call, tab>>
          \/ /\ Server!Present(<<t, q>>, "refresh", store) /\ tab[t].refresher = NoQuery
             /\ tab' = [tab EXCEPT ![t].refresher = q]
      BY <1>1 DEF QueryStep, Request, Answered, Unauthorized, Restore, Refresh, server
    <2>2. CASE UNCHANGED <<call, tab>>
      BY <2>2 DEF SingleFlight
    <2>3. CASE /\ Server!Present(<<t, q>>, "refresh", store) /\ tab[t].refresher = NoQuery
               /\ tab' = [tab EXCEPT ![t].refresher = q]
      <3>1. \A d \in Callers : d # <<t, q>> => call'[d] = call[d]
        BY <1>0, <2>3 DEF Server!Present
      <3>2. \A u \in Tabs : tab'[u].refresher = IF u = t THEN q ELSE tab[u].refresher
        BY <2>3 DEF TabsTypeOK, ApiClient
      <3>3. \A r \in Queries : r # q => call'[<<t, r>>].pc = "none"
        BY <1>0, <2>3, <3>1, CallersAre DEF SingleFlight
      <3>4. \A u \in Tabs, r \in Queries : u # t => call'[<<u, r>>] = call[<<u, r>>]
        BY <3>1, CallersAre
      <3>5. \A u \in Tabs : call'[<<u, "sign">>] = call[<<u, "sign">>]
        BY <3>1, CallersAre
      <3>6. QED
        BY <3>2, <3>3, <3>4, <3>5 DEF SingleFlight
    <2>4. QED
      BY <2>1, <2>2, <2>3
  <1>2. ASSUME NEW t \in Tabs, RefreshDone(t) PROVE SingleFlight'
    <2> DEFINE c == <<t, tab[t].refresher>>
    <2>1. c \in Callers /\ tab[t].refresher \in Queries
      BY <1>0, <1>2, CallersAre DEF RefreshDone
    <2>2. /\ call'[c].pc = "none"
          /\ \A d \in Callers : d # c => call'[d] = call[d]
      BY <1>0, <1>2, <2>1 DEF RefreshDone, Server!Hangup, Server!NoCall
    <2>3. \A u \in Tabs : u # t => tab'[u] = tab[u]
      BY <1>2 DEF RefreshDone, TabsTypeOK
    <2>4. \A r \in Queries : call'[<<t, r>>].pc = "none"
      BY <2>1, <2>2, CallersAre DEF SingleFlight
    <2>5. \A u \in Tabs, r \in Queries : u # t => call'[<<u, r>>] = call[<<u, r>>]
      BY <2>1, <2>2, CallersAre
    <2>6. \A u \in Tabs : call'[<<u, "sign">>] = call[<<u, "sign">>]
      BY <2>1, <2>2, CallersAre
    <2>7. QED
      BY <2>3, <2>4, <2>5, <2>6 DEF SingleFlight
  <1>3. ASSUME NEW t \in Tabs, Login(t) \/ LoginDone(t) \/ Logout(t) \/ LogoutDone(t)
        PROVE  SingleFlight'
    <2> DEFINE c == <<t, "sign">>
    <2>1. c \in Callers
      BY CallersAre
    <2>2. \A d \in Callers : d # c => call'[d] = call[d]
      BY <1>0, <1>3, <2>1
      DEF Login, LoginDone, Logout, LogoutDone, client, Server!Present, Server!Hangup
    <2>3. call'[c] = call[c] \/ call'[c].op \in {"login", "logout", "none"}
      BY <1>0, <1>3, <2>1
      DEF Login, LoginDone, Logout, LogoutDone, client, Server!Present, Server!Hangup,
          Server!NoCall
    <2>4. \A u \in Tabs : tab'[u].refresher = tab[u].refresher
      BY <1>3 DEF Login, LoginDone, Logout, LogoutDone, SignOut, client, TabsTypeOK, ApiClient
    <2>5. \A u \in Tabs, r \in Queries : call'[<<u, r>>] = call[<<u, r>>]
      BY <2>2, CallersAre
    <2>6. \A u \in Tabs : u # t => call'[<<u, "sign">>] = call[<<u, "sign">>]
      BY <2>2, CallersAre
    <2>7. QED
      BY <2>3, <2>4, <2>5, <2>6 DEF SingleFlight
  <1>4. ASSUME NEW t \in Tabs, Reload(t) PROVE SingleFlight'
    <2>1. \A u \in Tabs : u # t => tab'[u] = tab[u]
      BY <1>4 DEF Reload, TabsTypeOK
    <2>2. \A u \in Tabs, r \in Queries \cup {"sign"} : 
            call'[<<u, r>>] = IF u = t THEN Server!NoCall ELSE call[<<u, r>>]
      BY <1>4, CallersAre DEF Reload
    <2>3. QED
      BY <2>1, <2>2 DEF SingleFlight, Server!NoCall
  <1>5. ASSUME NEW t \in Tabs, ExpireAccess(t) PROVE SingleFlight'
    <2>1. \A u \in Tabs : tab'[u].refresher = tab[u].refresher
      BY <1>5 DEF ExpireAccess, TabsTypeOK, ApiClient
    <2>2. QED
      BY <1>5, <2>1 DEF ExpireAccess, server, SingleFlight
  <1>6. ASSUME NEW c \in Callers, ServerStep(c) PROVE SingleFlight'
    <2>1. \A d \in Callers : /\ call'[d].op = call[d].op
                             /\ call'[d].pc # "none" => call[d].pc # "none"
      BY <1>6, ServerMoves
    <2>2. UNCHANGED tab
      BY <1>6 DEF ServerStep, client
    <2>3. QED
      BY <2>1, <2>2, CallersAre DEF SingleFlight
  <1>7. QED
    BY <1>1, <1>2, <1>3, <1>4, <1>5, <1>6 DEF Next, TabStep

\* Which tokens are rotated changes by one action.
LEMMA OnlyCommitRotates ==
  ASSUME IInv, RotatedAreRevoked, Next
  PROVE  /\ RotatedAreRevoked'
         /\ \A x : x \in Rotated' => \/ x \in Rotated
                                  \/ \E c \in Callers : /\ Server!ExchangeCommit(c)
                                                        /\ x = call[c].given
  <1> USE DEF IInv, SharedInv
  <1> DEFINE Rotates == \A x : x \in Rotated' =>
                          \/ x \in Rotated
                          \/ \E c \in Callers : Server!ExchangeCommit(c) /\ x = call[c].given
  <1>1. CASE UNCHANGED <<token, nextToken>>
    BY <1>1 DEF RotatedAreRevoked, Rotated, Issued, Server!Issued
  <1>2. ASSUME NEW c \in Callers, Server!Issue(c) PROVE RotatedAreRevoked' /\ Rotates
    <2>1. nextToken <= MaxToken /\ nextToken' = nextToken + 1
      BY <1>2 DEF Server!Issue
    <2>2. /\ nextToken \in Server!Tokens /\ nextToken \notin Issued
          /\ Issued' = Issued \cup {nextToken}
      BY <2>1, FreshId DEF Issued, Server!Issued
    <2>3. /\ token' = [token EXCEPT ![nextToken] = Server!NewRow(nextToken)]
          /\ token \in [Server!Tokens -> Server!Row]
      BY <1>2 DEF Server!Issue, Server!TokensTypeOK
    <2>4. token'[nextToken].heir = NoToken /\ \A x \in Issued : token'[x] = token[x]
      BY <2>2, <2>3 DEF Issued, Server!Issued, Server!NewRow, NoToken
    <2>5. QED
      BY <2>2, <2>4 DEF RotatedAreRevoked, Rotated
  <1>3. ASSUME NEW c \in Callers, Server!ExchangeCommit(c) PROVE RotatedAreRevoked' /\ Rotates
    <2> DEFINE old == call[c].given
    <2>1. nextToken <= MaxToken /\ nextToken' = nextToken + 1
      BY <1>3 DEF Server!ExchangeCommit
    <2>2. /\ nextToken \in Server!Tokens /\ nextToken \notin Issued
          /\ Issued' = Issued \cup {nextToken}
      BY <2>1, FreshId DEF Issued, Server!Issued
    <2>3. old \in Issued /\ old \in Server!Tokens /\ old # nextToken
      BY <1>3, <2>2 DEF Server!ExchangeCommit, CallsOK, Issued, Server!Issued
    <2>4. /\ token' = [token EXCEPT ![nextToken] = Server!NewRow(token[old].login),
                                    ![old].revoked = TRUE, ![old].heir = nextToken]
          /\ token \in [Server!Tokens -> Server!Row]
      BY <1>3 DEF Server!ExchangeCommit, Server!TokensTypeOK
    <2>5. /\ token'[nextToken].heir = NoToken /\ token'[old].revoked
          /\ \A x \in Issued : x # old => token'[x] = token[x]
      BY <2>2, <2>3, <2>4 DEF Issued, Server!Issued, Server!NewRow, Server!Row, NoToken
    <2>6. RotatedAreRevoked'
      BY <2>2, <2>5 DEF RotatedAreRevoked
    <2>7. \A x : x \in Rotated' => x \in Rotated \/ x = old
      BY <2>2, <2>5 DEF Rotated
    <2>8. QED
      BY <1>3, <2>6, <2>7
  <1>4. ASSUME NEW c \in Callers, Server!Revoke(c) PROVE RotatedAreRevoked' /\ Rotates
    <2>1. /\ token' = [token EXCEPT ![call[c].given].revoked = TRUE]
          /\ token \in [Server!Tokens -> Server!Row]
      BY <1>4 DEF Server!Revoke, Server!TokensTypeOK
    <2>2. Issued' = Issued /\ \A x \in Issued : x \in Server!Tokens
      BY <1>4 DEF Server!Revoke, Issued, Server!Issued
    <2>3. \A x \in Issued : /\ token'[x].heir = token[x].heir
                            /\ token[x].revoked => token'[x].revoked
      BY <2>1, <2>2 DEF Server!Row
    <2>4. QED
      BY <2>2, <2>3 DEF RotatedAreRevoked, Rotated
  <1>5. \/ UNCHANGED <<token, nextToken>>
        \/ \E c \in Callers : Server!Issue(c) \/ Server!ExchangeCommit(c) \/ Server!Revoke(c)
    BY DEF Next, TabStep, QueryStep, ServerStep, Server!Serve, Server!ExchangeCheck,
           Server!Fail, Request, Answered, Unauthorized, Restore, RefreshDone, Login,
           LoginDone, Logout, LogoutDone, Reload, ExpireAccess, server
  <1>6. QED
    BY <1>1, <1>2, <1>3, <1>4, <1>5

\* A token that was granted and is not stored yet is not rotated.
LEMMA GotIsNotRotated ==
  ASSUME FlightInv, NEW c \in Callers
  PROVE  call[c].got \notin Rotated
  BY DEF FlightInv, IInv, SharedInv, GotIsFresh, RotatedAreRevoked, Rotated, Issued,
         Server!Issued, Server!Tokens, NoToken, Server!NoToken

\* With one tab no token is presented that was exchanged before.
LEMMA NothingReplayedKept ==
  ASSUME OneTab, OneTabInv, Next
  PROVE  NothingReplayed'
  <1> USE DEF OneTabInv
  <1>0. call \in [Callers -> Server!Call]
    BY DEF FlightInv, IInv, SharedInv, Server!TokensTypeOK
  <1> SUFFICES ASSUME reloads' = 0
               PROVE  /\ \A c \in Callers :
                           call'[c].op = "refresh"
                             /\ call'[c].pc \in {"sent", "checked", "refused"}
                           => call'[c].given \notin Rotated'
                      /\ store' \in Rotated' =>
                           \E c \in Callers : call'[c].op = "refresh" /\ call'[c].given = store'
    BY DEF NothingReplayed, Rotated
  <1> DEFINE Goal == /\ \A c \in Callers :
                          call'[c].op = "refresh"
                            /\ call'[c].pc \in {"sent", "checked", "refused"}
                          => call'[c].given \notin Rotated'
                     /\ store' \in Rotated' =>
                          \E c \in Callers : call'[c].op = "refresh" /\ call'[c].given = store'
  <1>1. reloads = 0
    <2>1. reloads' = reloads \/ reloads' = reloads + 1
      BY DEF Next, TabStep, QueryStep, ServerStep, Request, Answered, Unauthorized, Restore,
             RefreshDone, Login, LoginDone, Logout, LogoutDone, Reload, ExpireAccess, client
    <2>2. reloads \in Nat
      BY DEF FlightInv, IInv
    <2>3. QED
      BY <2>1, <2>2
  <1>2. ASSUME UNCHANGED <<token, nextToken>> PROVE \A x : x \in Rotated' <=> x \in Rotated
    BY <1>2 DEF Rotated, Issued, Server!Issued
  <1>3. ASSUME UNCHANGED <<token, nextToken, call, store>> PROVE Goal
    BY <1>1, <1>2, <1>3 DEF NothingReplayed, Rotated
  <1>4. ASSUME NEW t \in Tabs, NEW q \in Queries, QueryStep(t, q) PROVE Goal
    <2>1. \/ UNCHANGED <<token, nextToken, call, store>>
          \/ /\ Server!Present(<<t, q>>, "refresh", store) /\ tab[t].refresher = NoQuery
             /\ UNCHANGED <<token, nextToken, store>>
      BY <1>4 DEF QueryStep, Request, Answered, Unauthorized, Restore, Refresh, server
    <2>2. CASE /\ Server!Present(<<t, q>>, "refresh", store) /\ tab[t].refresher = NoQuery
               /\ UNCHANGED <<token, nextToken, store>>
      <3>1. \A d \in Callers : call[d].op # "refresh"
        BY <2>2, SessionConstantsOK, RefreshersOnly DEF OneTab, NoQuery
      <3>2. store \notin Rotated
        BY <1>1, <3>1 DEF NothingReplayed
      <3>3. \A d \in Callers : d # <<t, q>> => call'[d] = call[d]
        BY <1>0, <2>2 DEF Server!Present
      <3>4. call'[<<t, q>>].given = store
        BY <1>0, <2>2, CallersAre DEF Server!Present
      <3>5. store' \notin Rotated' /\ store' = store
        BY <1>2, <2>2, <3>2 DEF Rotated
      <3>6. \A c \in Callers : call'[c].op = "refresh" => call'[c].given \notin Rotated'
        BY <3>1, <3>3, <3>4, <3>5 DEF Rotated
      <3>7. QED
        BY <3>5, <3>6
    <2>3. QED
      BY <1>3, <2>1, <2>2
  <1>5. ASSUME NEW c \in Callers, Server!Hangup(c), UNCHANGED <<token, nextToken>>,
               \/ store' = NoToken \/ store' = call[c].got
               \/ store' = store /\ call[c].op = "login"
        PROVE  Goal
    <2>1. /\ call'[c].op = "none"
          /\ \A d \in Callers : d # c => call'[d] = call[d]
      BY <1>0, <1>5 DEF Server!Hangup, Server!NoCall
    <2>2. ASSUME NEW d \in Callers, call'[d].op = "refresh",
                 call'[d].pc \in {"sent", "checked", "refused"}
          PROVE  call'[d].given \notin Rotated'
      <3>1. call'[d] = call[d]
        BY <2>1, <2>2
      <3>2. call[d].given \notin Rotated
        BY <1>1, <2>2, <3>1 DEF NothingReplayed
      <3>3. QED
        BY <1>5, <3>1, <3>2 DEF Rotated, Issued, Server!Issued
    <2>3. ASSUME store' \in Rotated'
          PROVE  \E d \in Callers : call'[d].op = "refresh" /\ call'[d].given = store'
      <3>1. store' \in Rotated
        BY <1>5, <2>3 DEF Rotated, Issued, Server!Issued
      <3>2. NoToken \notin Rotated
        BY DEF Rotated, Issued, Server!Issued, Server!Tokens, NoToken, Server!NoToken
      <3>3. store' = store /\ call[c].op = "login"
        BY <1>5, <3>1, <3>2, GotIsNotRotated
      <3>4. QED
        BY <1>1, <2>1, <3>1, <3>3 DEF NothingReplayed
    <2>4. QED
      BY <2>2, <2>3
  <1>6. ASSUME NEW c \in Callers, NEW op \in {"login", "logout"}, NEW x,
               Server!Present(c, op, x), UNCHANGED <<token, nextToken, store>>
        PROVE  Goal
    <2>1. /\ call'[c].op = op /\ call[c].op # "refresh"
          /\ \A d \in Callers : d # c => call'[d] = call[d]
      BY <1>0, <1>6 DEF Server!Present, FlightInv, IInv, SharedInv, CallsOK, Server!NoCall
    <2>2. \A d \in Callers : call'[d].op = "refresh" => call'[d] = call[d]
      BY <2>1
    <2>3. \A d \in Callers : call[d].op = "refresh" => call'[d] = call[d]
      BY <2>1
    <2>4. \A y : y \in Rotated' <=> y \in Rotated
      BY <1>2, <1>6
    <2>5. QED
      BY <1>1, <1>6, <2>2, <2>3 DEF NothingReplayed, Rotated, Issued, Server!Issued
  <1>7. ASSUME NEW t \in Tabs, TabStep(t) PROVE Goal
    <2>1. CASE RefreshDone(t)
      <3>1. <<t, tab[t].refresher>> \in Callers
        BY <2>1, CallersAre DEF RefreshDone, FlightInv, IInv, TabsTypeOK, ApiClient
      <3>2. QED
        BY <1>5, <2>1, <3>1 DEF RefreshDone
    <2>2. CASE Login(t)
      BY <1>6, <2>2, CallersAre DEF Login, client
    <2>3. CASE LoginDone(t)
      BY <1>5, <2>3, CallersAre DEF LoginDone
    <2>4. CASE Logout(t)
      <3>1. CASE store = NoToken
        BY <1>3, <2>4, <3>1 DEF Logout, SignOut
      <3>2. CASE store # NoToken
        BY <1>6, <2>4, <3>2, CallersAre DEF Logout
      <3>3. QED
        BY <3>1, <3>2
    <2>5. CASE LogoutDone(t)
      BY <1>5, <2>5, CallersAre DEF LogoutDone, SignOut
    <2>6. CASE Reload(t)
      BY <1>1, <2>6 DEF Reload
    <2>7. CASE ExpireAccess(t)
      BY <1>3, <2>7 DEF ExpireAccess, server
    <2>8. QED
      BY <1>7, <2>1, <2>2, <2>3, <2>4, <2>5, <2>6, <2>7 DEF TabStep
  <1>8. ASSUME NEW c \in Callers, ServerStep(c) PROVE Goal
    <2>1. /\ call'[c].op = call[c].op /\ call'[c].given = call[c].given
          /\ \A d \in Callers : d # c => call'[d] = call[d]
          /\ store' = store
      BY <1>8, ServerMoves DEF ServerStep, client, FlightInv
    <2>2. call'[c].pc \in {"checked", "refused"} => call[c].pc = "sent"
      BY <1>0, <1>8
      DEF ServerStep, Server!Serve, Server!Fail, Server!Issue, Server!ExchangeCheck,
          Server!ExchangeCommit, Server!Revoke, Server!Asks, Server!Call
    <2>3. call'[c].pc # "sent"
      BY <1>0, <1>8
      DEF ServerStep, Server!Serve, Server!Fail, Server!Issue, Server!ExchangeCheck,
          Server!ExchangeCommit, Server!Revoke, Server!Asks, Server!Call
    <2>4. ASSUME NEW e \in Callers, Server!ExchangeCommit(e)
          PROVE  call[e].op = "refresh" /\ call'[e].pc = "granted"
      BY <1>0, <2>4 DEF Server!ExchangeCommit, FlightInv, IInv, SharedInv, CallsOK, Server!Call
    <2>5. \A x : x \in Rotated' =>
            x \in Rotated \/ \E e \in Callers : Server!ExchangeCommit(e) /\ x = call[e].given
      BY OnlyCommitRotates DEF FlightInv
    <2>6. ASSUME NEW d \in Callers, call'[d].op = "refresh",
                 call'[d].pc \in {"sent", "checked", "refused"}
          PROVE  call'[d].given \notin Rotated'
      <3>1. call[d].op = "refresh" /\ call[d].pc \in {"sent", "checked", "refused"}
        BY <2>1, <2>2, <2>3, <2>6
      <3>2. call'[d].given = call[d].given /\ call[d].given \notin Rotated
        BY <1>1, <2>1, <3>1 DEF NothingReplayed
      <3>3. ASSUME NEW e \in Callers, Server!ExchangeCommit(e) PROVE FALSE
        BY <2>4, <2>6, <3>1, <3>3, OneRefresh
      <3>4. QED
        BY <2>5, <3>2, <3>3
    <2>7. ASSUME store' \in Rotated'
          PROVE  \E d \in Callers : call'[d].op = "refresh" /\ call'[d].given = store'
      <3>1. \E d \in Callers : call[d].op = "refresh" /\ call[d].given = store
        BY <1>1, <2>1, <2>4, <2>5, <2>7 DEF NothingReplayed
      <3>2. QED
        BY <2>1, <3>1
    <2>8. QED
      BY <2>6, <2>7
  <1>9. QED
    BY <1>4, <1>7, <1>8 DEF Next

\* The requests of a tab that meet a 401 at the same time share one refresh, and
\* what the tab is granted replaces what it presented before it presents anything
\* again: with one tab, until it is reloaded, no refresh is refused because its
\* token had been exchanged.  (Of two tabs, both may present the shared token.)
THEOREM OneTabNeverReplays == OneTab => (Spec => []NoSelfReplay)
  <1>1. SUFFICES ASSUME OneTab PROVE Spec => []NoSelfReplay
    OBVIOUS
  <1>2. OneTabInv /\ [Next]_vars => OneTabInv'
    <2> SUFFICES ASSUME OneTabInv, [Next]_vars PROVE OneTabInv'
      OBVIOUS
    <2>1. CASE Next
      BY <1>1, <2>1, NextIInv, SingleFlightKept, OnlyCommitRotates, NothingReplayedKept
      DEF OneTabInv, FlightInv
    <2>2. CASE UNCHANGED vars
      <3>1. IInv'
        BY <2>2, NextIInv DEF OneTabInv, FlightInv
      <3>2. QED
        BY <2>2, <3>1 DEF OneTabInv, FlightInv, vars, server, client, SingleFlight,
                          RotatedAreRevoked, NothingReplayed, Rotated, Issued, Server!Issued
    <2>3. QED
      BY <2>1, <2>2
  <1>3. OneTabInv => NoSelfReplay
    <2> SUFFICES ASSUME OneTabInv, NEW c \in Callers, reloads = 0, call[c].pc = "refused"
                 PROVE  token[call[c].given].heir = NoToken
      BY DEF NoSelfReplay
    <2>1. call[c].op = "refresh" /\ call[c].given \in Issued
      BY DEF OneTabInv, FlightInv, IInv, SharedInv, CallsOK
    <2>2. QED
      BY <2>1 DEF OneTabInv, NothingReplayed, Rotated
  <1>4. QED
    BY InitOneTabInv, <1>2, <1>3, PTL DEF Spec
=============================================================================
