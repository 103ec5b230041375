--------------------------- MODULE ClientSession ---------------------------
(***************************************************************************)
(* The browser's side of a session (ApiClient and WebTokenStore) over the  *)
(* server's RefreshTokens.  Every tab has an ApiClient of its own, with an *)
(* access token in memory; all tabs share one refresh token in             *)
(* localStorage.  A request that gets a 401 waits for the tab's one        *)
(* refresh in flight and is then sent once more.                           *)
(*                                                                         *)
(* JavaScript runs to its next await: each action is one such stretch, and *)
(* the awaits of localStorage are not interleaved (it is synchronous).     *)
(***************************************************************************)
EXTENDS Naturals, FiniteSets

CONSTANTS Tabs,       \* browser tabs of one user
          Queries,    \* the requests one tab can have in flight
          MaxToken,   \* bound: the largest id of refresh_tokens
          MaxReloads  \* bound: how often tabs are reloaded

\* A request is not mistaken for a sign-in, nor for no request at all.
ASSUME SessionConstantsOK ==
  /\ MaxToken \in Nat /\ MaxReloads \in Nat
  /\ {"sign", "none"} \cap Queries = {}

VARIABLES token, nextToken, call,   \* the server, see RefreshTokens
          store,    \* the refresh token in localStorage
          tab,      \* the fields of each tab's ApiClient
          query,    \* the requests of each tab
          reloads   \* how many reloads there have been

\* A tab signs in or out one at a time.
Callers == Tabs \X (Queries \cup {"sign"})

Server == INSTANCE RefreshTokens

server == <<token, nextToken, call>>
client == <<store, tab, query, reloads>>
vars   == <<server, client>>

NoToken == Server!NoToken
NoQuery == "none"

\* refresher: the request on whose behalf the refresh in flight was started
\* (refreshing = null when there is none).
ApiClient == [access : {"none", "valid", "stale"}, refresher : Queries \cup {NoQuery}]
NewClient == [access |-> "none", refresher |-> NoQuery]

\* valid: the access token the request carries has not expired.
Query == [pc : {"idle", "sent", "waiting", "resent", "restoring"}, valid : BOOLEAN]
IdleQuery == [pc |-> "idle", valid |-> FALSE]

Waits(t, q) == query[t][q].pc \in {"waiting", "restoring"}
-----------------------------------------------------------------------------
(* Requests.                                                               *)

\* A page that needs a session; without an access token see Restore.
Request(t, q) ==
  /\ query[t][q].pc = "idle"
  /\ tab[t].access # "none"
  /\ query' = [query EXCEPT ![t][q] = [pc |-> "sent", valid |-> tab[t].access = "valid"]]
  /\ UNCHANGED <<server, store, tab, reloads>>

\* Answered, or failed with anything but a 401.
Answered(t, q) ==
  /\ query[t][q].pc \in {"sent", "resent"}
  /\ query' = [query EXCEPT ![t][q] = IdleQuery]
  /\ UNCHANGED <<server, store, tab, reloads>>

\* Mutant of Refresh: no single-flight guard.
RefreshEach(t, q, pc) ==
  IF store = NoToken
  THEN /\ query' = [query EXCEPT ![t][q] = IdleQuery]
       /\ UNCHANGED <<call, tab>>
  ELSE /\ Server!Present(<<t, q>>, "refresh", store)
       /\ tab' = [tab EXCEPT ![t].refresher = q]
       /\ query' = [query EXCEPT ![t][q].pc = pc]

\* refresh and the first half of doRefresh: join the refresh in flight, give up
\* without a stored token, or start one.
Refresh(t, q, pc) ==
  IF tab[t].refresher = NoQuery /\ store = NoToken
  THEN /\ query' = [query EXCEPT ![t][q] = IdleQuery]
       /\ UNCHANGED <<call, tab>>
  ELSE /\ query' = [query EXCEPT ![t][q].pc = pc]
       /\ IF tab[t].refresher # NoQuery
          THEN UNCHANGED <<call, tab>>
          ELSE /\ Server!Present(<<t, q>>, "refresh", store)
               /\ tab' = [tab EXCEPT ![t].refresher = q]

\* A 401: refresh and retry, once.
Unauthorized(t, q) ==
  /\ query[t][q].pc = "sent" /\ ~query[t][q].valid
  /\ Refresh(t, q, "waiting")
  /\ UNCHANGED <<token, nextToken, store, reloads>>

\* meOrNull on a fresh page: restore the session before the first request.
Restore(t, q) ==
  /\ query[t][q].pc = "idle"
  /\ tab[t].access = "none" /\ store # NoToken
  /\ Refresh(t, q, "restoring")
  /\ UNCHANGED <<token, nextToken, store, reloads>>

\* What the end of a refresh does to the requests that waited for it.
Resume(t, granted) ==
  query' = [query EXCEPT ![t] = [q \in Queries |->
              IF ~Waits(t, q) THEN query[t][q]
              ELSE IF ~granted THEN IdleQuery
              ELSE [pc |-> IF query[t][q].pc = "waiting" THEN "resent" ELSE "sent",
                    valid |-> TRUE]]]

\* Mutant of RefreshDone: the guard is not reset after a failure.
RefreshDoneNoFinally(t) ==
  /\ tab[t].refresher # NoQuery
  /\ Server!Settled(<<t, tab[t].refresher>>)
  /\ LET c == <<t, tab[t].refresher>>
         granted == call[c].pc = "granted"
     IN /\ tab' = [tab EXCEPT ![t].access = IF granted THEN "valid" ELSE "none",
                              ![t].refresher = IF granted THEN NoQuery ELSE @]
        /\ store' = IF granted THEN call[c].got ELSE NoToken
        /\ Resume(t, granted)
        /\ Server!Hangup(c)
  /\ UNCHANGED <<token, nextToken, reloads>>

\* Mutant of RefreshDone: the rotated token is not stored.
RefreshDoneNotStored(t) ==
  /\ tab[t].refresher # NoQuery
  /\ Server!Settled(<<t, tab[t].refresher>>)
  /\ LET c == <<t, tab[t].refresher>>
         granted == call[c].pc = "granted"
     IN /\ tab' = [tab EXCEPT ![t] = [access |-> IF granted THEN "valid" ELSE "none",
                                      refresher |-> NoQuery]]
        /\ store' = IF granted THEN store ELSE NoToken
        /\ Resume(t, granted)
        /\ Server!Hangup(c)
  /\ UNCHANGED <<token, nextToken, reloads>>

\* The second half of doRefresh: any error clears the stored token, whichever
\* token that is by now.
RefreshDone(t) ==
  /\ tab[t].refresher # NoQuery
  /\ Server!Settled(<<t, tab[t].refresher>>)
  /\ LET c == <<t, tab[t].refresher>>
         granted == call[c].pc = "granted"
     IN /\ tab' = [tab EXCEPT ![t] = [access |-> IF granted THEN "valid" ELSE "none",
                                      refresher |-> NoQuery]]
        /\ store' = IF granted THEN call[c].got ELSE NoToken
        /\ Resume(t, granted)
        /\ Server!Hangup(c)
  /\ UNCHANGED <<token, nextToken, reloads>>
-----------------------------------------------------------------------------
(* Signing in and out.                                                     *)

\* The login page is there once the tab knows it has no session.
Login(t) ==
  /\ tab[t].access = "none"
  /\ \A q \in Queries : query[t][q].pc # "restoring"
  /\ Server!Present(<<t, "sign">>, "login", NoToken)
  /\ UNCHANGED <<token, nextToken, client>>

LoginDone(t) ==
  LET c == <<t, "sign">> IN
  /\ call[c].op = "login" /\ Server!Settled(c)
  /\ IF call[c].pc = "granted"
     THEN /\ tab' = [tab EXCEPT ![t].access = "valid"]
          /\ store' = call[c].got
     ELSE UNCHANGED <<tab, store>>
  /\ Server!Hangup(c)
  /\ UNCHANGED <<token, nextToken, query, reloads>>

SignOut(t) == /\ tab' = [tab EXCEPT ![t].access = "none"]
              /\ store' = NoToken

Logout(t) ==
  /\ tab[t].access # "none"
  /\ call[<<t, "sign">>].pc = "none"
  /\ IF store = NoToken
     THEN SignOut(t) /\ UNCHANGED call
     ELSE Server!Present(<<t, "sign">>, "logout", store) /\ UNCHANGED <<tab, store>>
  /\ UNCHANGED <<token, nextToken, query, reloads>>

\* Whatever the server said.
LogoutDone(t) ==
  /\ call[<<t, "sign">>].op = "logout" /\ Server!Settled(<<t, "sign">>)
  /\ SignOut(t)
  /\ Server!Hangup(<<t, "sign">>)
  /\ UNCHANGED <<token, nextToken, query, reloads>>
-----------------------------------------------------------------------------
(* The environment.                                                        *)

\* A reload, a crash, a closed and reopened tab: what was in memory is gone and
\* nobody waits for the answers any more.
Reload(t) ==
  /\ reloads < MaxReloads
  /\ reloads' = reloads + 1
  /\ tab' = [tab EXCEPT ![t] = NewClient]
  /\ query' = [query EXCEPT ![t] = [q \in Queries |-> IdleQuery]]
  /\ call' = [c \in Callers |-> IF c[1] = t THEN Server!NoCall ELSE call[c]]
  /\ UNCHANGED <<token, nextToken, store>>

ExpireAccess(t) ==
  /\ tab[t].access = "valid"
  /\ tab' = [tab EXCEPT ![t].access = "stale"]
  /\ query' = [query EXCEPT ![t] = [q \in Queries |-> [query[t][q] EXCEPT !.valid = FALSE]]]
  /\ UNCHANGED <<server, store, reloads>>

\* To a client an expired token looks like any other failure, so Expire is left
\* out.
ServerStep(c) == (Server!Serve(c) \/ Server!Fail(c)) /\ UNCHANGED client
-----------------------------------------------------------------------------
Init == /\ Server!Init
        /\ store = NoToken
        /\ tab = [t \in Tabs |-> NewClient]
        /\ query = [t \in Tabs |-> [q \in Queries |-> IdleQuery]]
        /\ reloads = 0

QueryStep(t, q) ==
  Request(t, q) \/ Answered(t, q) \/ Unauthorized(t, q) \/ Restore(t, q)

TabStep(t) ==
  \/ RefreshDone(t)
  \/ Login(t) \/ LoginDone(t) \/ Logout(t) \/ LogoutDone(t)
  \/ Reload(t) \/ ExpireAccess(t)

Next == \/ \E t \in Tabs : TabStep(t) \/ \E q \in Queries : QueryStep(t, q)
        \/ \E c \in Callers : ServerStep(c)

Spec == Init /\ [][Next]_vars

\* Every HTTP exchange ends, with an answer or with an error, and the promise
\* that waits for it is resumed.
FairSpec == /\ Spec
            /\ \A c \in Callers : WF_vars(ServerStep(c))
            /\ \A t \in Tabs : WF_vars(RefreshDone(t))
-----------------------------------------------------------------------------
\* Types, and what the refresher stands for.
SessionTypeOK ==
  /\ Server!TokensTypeOK
  /\ store \in Server!Tokens \cup {NoToken}
  /\ tab \in [Tabs -> ApiClient]
  /\ query \in [Tabs -> [Queries -> Query]]
  /\ \A t \in Tabs : tab[t].refresher # NoQuery =>
       call[<<t, tab[t].refresher>>].op = "refresh"

\* Tabs that refresh, sign in and sign out at the same time, with answers lost
\* or out of order, never leave a token in localStorage that was exchanged or
\* revoked: the next refresh of the next tab works.  (Until a page is reloaded:
\* one that goes away between the rotation and the answer strands the old token
\* there.)
StoredTokenUsable ==
  reloads = 0 /\ store # NoToken /\ token[store].revoked =>
    \E c \in Callers : call[c].given = store

\* The main invariant of the tabs: their types, and the stored token works.
SessionInv == SessionTypeOK /\ StoredTokenUsable

\* The requests of one tab that all get a 401 do not exchange the same token
\* twice: with one tab, and until it is reloaded, a refresh is refused only
\* because its token was logged out.
NoSelfReplay ==
  \A c \in Callers :
    reloads = 0 /\ call[c].pc = "refused" => token[call[c].given].heir = NoToken

\* Requests that share a refresh are never left waiting for it.
WaitersResume ==
  \A t \in Tabs, q \in Queries : Waits(t, q) ~> ~Waits(t, q)
-----------------------------------------------------------------------------
(* What comments of the code say and the code does not do.                 *)

\* Between sign-ins, nothing puts a refresh token back into localStorage.
SignedOutStaysOut ==
  [][store = NoToken /\ store' # NoToken =>
       \E t \in Tabs : store' = call[<<t, "sign">>].got]_vars

\* A refresh that fails clears a token that is dead.
ClearsOnlyDeadToken ==
  [][\A t \in Tabs : tab[t].refresher # NoQuery /\ tab'[t].refresher = NoQuery
       /\ tab'[t].access = "none" /\ store # NoToken /\ store' = NoToken
       => ~Server!Live(store)]_vars
=============================================================================
