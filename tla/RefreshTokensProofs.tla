------------------------- MODULE RefreshTokensProofs -------------------------
(***************************************************************************)
(* Theorems about RefreshTokens, for every bound on the ids.  They are     *)
(* proved for any set of callers, so for exchanges that overlap in every   *)
(* way; only OneWorkingEnd, the strict form the comments promise, needs    *)
(* OneAtATime.                                                             *)
(*                                                                         *)
(* WorkingEndsAccountedFor is not inductive: a commit makes an unrevoked   *)
(* token out of a revoked one when a logout came between, so what is       *)
(* counted is the tokens without an heir, each of them being the end of    *)
(* what a displaced token or the login began.                              *)
(***************************************************************************)
EXTENDS RefreshTokens, FiniteSetTheorems, TLAPS

\* Requests that do not overlap.
OneAtATime == \A c, d \in Callers : c = d

\* A call that names a token names one that was issued.
CallsNameIssued ==
  \A c \in Callers : (call[c].op \in {"refresh", "logout"} /\ call[c].pc = "sent")
                       \/ call[c].pc = "checked" => call[c].given \in Issued

\* A chain is named by its first token, so that a new login founds a new one.
ChainsAreNamed == \A t \in Issued : token[t].login \in 1..t

\* What only holds when requests take turns: the check still stands.
CheckStands ==
  \A c \in Callers : call[c].pc = "checked" => ~token[call[c].given].revoked

Inv  == TokensTypeOK /\ CallsNameIssued /\ ChainsAreNamed
IInv == Inv /\ CheckStands /\ OneLivePerLogin
-----------------------------------------------------------------------------
(* The rows.                                                               *)

LEMMA NewRowType == \A login \in Tokens \cup {NoToken} : NewRow(login) \in Row
  BY DEF NewRow, Row, NoToken, Tokens

\* The three ways the code writes the table keep it a table.
LEMMA TableType ==
  ASSUME token \in [Tokens -> Row], NEW t \in Tokens
  PROVE  /\ \A row \in Row : [token EXCEPT ![t] = row] \in [Tokens -> Row]
         /\ [token EXCEPT ![t].revoked = TRUE] \in [Tokens -> Row]
         /\ [token EXCEPT ![t].expired = TRUE] \in [Tokens -> Row]
  BY DEF Row

\* A fresh id is an id, and is not issued yet.
LEMMA FreshId ==
  ASSUME TokensTypeOK, nextToken <= MaxToken
  PROVE  /\ nextToken \in Tokens /\ nextToken \notin Issued /\ nextToken # NoToken
         /\ nextToken + 1 \in 1..(MaxToken + 1)
         /\ \A t \in Issued : t < nextToken
         /\ \A n : n = nextToken + 1 => {t \in Tokens : t < n} = Issued \cup {nextToken}
  BY TokenConstantsOK DEF TokensTypeOK, Tokens, Issued, NoToken
-----------------------------------------------------------------------------
(* Any number of requests.                                                 *)

\* The table is well-typed, every call names tokens that were issued, and every
\* chain is named by a token at or before each of its members.
LEMMA InitInv == Init => Inv
  <1> SUFFICES ASSUME Init PROVE Inv
    OBVIOUS
  <1>1. TokensTypeOK
    BY TokenConstantsOK, NewRowType DEF Init, TokensTypeOK, Call, NoCall, NoToken
  <1>2. Issued = {}
    BY DEF Init, Issued, Tokens
  <1>3. QED
    BY <1>1, <1>2 DEF Inv, CallsNameIssued, ChainsAreNamed, Init, NoCall

\* A row that is written under a fresh id of its own chain, whatever happens to
\* the flags of the rows before it.
LEMMA ExtendInv ==
  ASSUME Inv, nextToken <= MaxToken, nextToken' = nextToken + 1,
         NEW c \in Callers, NEW got, got \in Tokens,
         call' = [call EXCEPT ![c].pc = "granted", ![c].got = got],
         token' \in [Tokens -> Row],
         token'[nextToken].login \in 1..nextToken,
         \A t \in Issued : token'[t].login = token[t].login
  PROVE  Inv'
  <1>1. Issued' = Issued \cup {nextToken}
    BY FreshId DEF Inv, Issued
  <1>2. TokensTypeOK'
    BY FreshId DEF Inv, TokensTypeOK, Call
  <1>3. ChainsAreNamed'
    BY <1>1 DEF Inv, ChainsAreNamed
  <1>4. CallsNameIssued'
    <2> SUFFICES ASSUME NEW d \in Callers,
                        (call'[d].op \in {"refresh", "logout"} /\ call'[d].pc = "sent")
                          \/ call'[d].pc = "checked"
                 PROVE  call'[d].given \in Issued'
      BY DEF CallsNameIssued
    <2>1. d # c /\ call'[d] = call[d]
      BY DEF Inv, TokensTypeOK, Call
    <2>2. QED
      BY <2>1, <1>1 DEF Inv, CallsNameIssued
  <1>5. QED
    BY <1>2, <1>3, <1>4 DEF Inv

\* A step that issues nothing and leaves each token in its chain.
LEMMA KeepInv ==
  ASSUME Inv, UNCHANGED nextToken,
         token' \in [Tokens -> Row], call' \in [Callers -> Call],
         \A t \in Issued : token'[t].login = token[t].login,
         CallsNameIssued'
  PROVE  Inv'
  <1>1. Issued' = Issued
    BY DEF Issued
  <1>2. QED
    BY <1>1 DEF Inv, TokensTypeOK, ChainsAreNamed

LEMMA ServeInv ==
  ASSUME Inv, NEW c \in Callers, Serve(c)
  PROVE  Inv'
  <1> USE DEF Inv, TokensTypeOK
  <1>1. CASE Issue(c)
    <2>1. nextToken \in Tokens
      BY <1>1, FreshId DEF Issue
    <2>2. NewRow(nextToken) \in Row
      BY <2>1, NewRowType
    <2>3. token' \in [Tokens -> Row] /\ token'[nextToken] = NewRow(nextToken)
      BY <1>1, <2>1, <2>2 DEF Issue
    <2>4. \A t \in Issued : token'[t].login = token[t].login
      BY <1>1, FreshId DEF Issue, Issued
    <2>5. token'[nextToken].login \in 1..nextToken
      BY <2>1, <2>3 DEF NewRow, Tokens
    <2>6. QED
      BY <1>1, <2>1, <2>3, <2>4, <2>5, ExtendInv DEF Issue
  <1>2. CASE ExchangeCheck(c)
    <2>1. call' \in [Callers -> Call]
      BY <1>2 DEF ExchangeCheck, Call
    <2>2. CallsNameIssued'
      BY <1>2 DEF ExchangeCheck, Asks, CallsNameIssued, Issued, Call
    <2>3. QED
      BY <1>2, <2>1, <2>2, KeepInv DEF ExchangeCheck
  <1>3. CASE ExchangeCommit(c)
    <2> DEFINE old == call[c].given
    <2>1. old \in Issued /\ old \in Tokens
      BY <1>3 DEF ExchangeCommit, CallsNameIssued, Issued
    <2>2. nextToken \in Tokens /\ nextToken \notin Issued
      BY <1>3, FreshId DEF ExchangeCommit
    <2>3. token' = [token EXCEPT ![nextToken] = NewRow(token[old].login),
                                 ![old].revoked = TRUE, ![old].heir = nextToken]
      BY <1>3 DEF ExchangeCommit
    <2>4. NewRow(token[old].login) \in Row
      BY <2>1, NewRowType DEF Row
    <2>5. token' \in [Tokens -> Row]
      BY <2>1, <2>2, <2>3, <2>4 DEF Row
    <2>6. token'[nextToken] = NewRow(token[old].login)
      BY <2>1, <2>2, <2>3
    <2>7. \A t \in Issued : token'[t].login = token[t].login
      BY <2>1, <2>2, <2>3 DEF Issued, Row
    <2>8. token'[nextToken].login \in 1..nextToken
      BY <2>1, <2>2, <2>6, FreshId DEF ChainsAreNamed, NewRow, Tokens, Issued
    <2>9. QED
      BY <1>3, <2>2, <2>5, <2>7, <2>8, ExtendInv DEF ExchangeCommit
  <1>4. CASE Revoke(c)
    <2>1. call[c].given \in Tokens
      BY <1>4 DEF Revoke, Asks, CallsNameIssued, Issued
    <2>2. token' \in [Tokens -> Row] /\ \A t \in Tokens : token'[t].login = token[t].login
      BY <1>4, <2>1 DEF Revoke, Row
    <2>3. call' \in [Callers -> Call]
      BY <1>4 DEF Revoke, Call
    <2>4. CallsNameIssued'
      BY <1>4 DEF Revoke, CallsNameIssued, Issued, Call
    <2>5. QED
      BY <1>4, <2>2, <2>3, <2>4, KeepInv DEF Revoke, Issued
  <1>5. QED
    BY <1>1, <1>2, <1>3, <1>4 DEF Serve

\* Every step keeps it, however the requests interleave.
LEMMA NextInv == Inv /\ [Next]_vars => Inv'
  <1> SUFFICES ASSUME Inv, [Next]_vars PROVE Inv'
    OBVIOUS
  <1> USE DEF Inv, TokensTypeOK
  <1>1. ASSUME NEW c \in Callers, Serve(c) PROVE Inv'
    BY <1>1, ServeInv
  <1>2. ASSUME NEW c \in Callers, Fail(c) PROVE Inv'
    <2>1. call' \in [Callers -> Call] /\ CallsNameIssued'
      BY <1>2 DEF Fail, Call, NoToken, CallsNameIssued, Issued
    <2>2. QED
      BY <1>2, <2>1, KeepInv DEF Fail
  <1>3. ASSUME NEW c \in Callers, Arrive(c) PROVE Inv'
    <2>1. call' \in [Callers -> Call] /\ CallsNameIssued'
      BY <1>3 DEF Arrive, Present, Call, NoToken, CallsNameIssued, Issued
    <2>2. QED
      BY <1>3, <2>1, KeepInv DEF Arrive
  <1>4. ASSUME NEW c \in Callers, Depart(c) PROVE Inv'
    <2>1. call' \in [Callers -> Call] /\ CallsNameIssued'
      BY <1>4 DEF Depart, Hangup, NoCall, Call, NoToken, CallsNameIssued, Issued
    <2>2. QED
      BY <1>4, <2>1, KeepInv DEF Depart
  <1>5. ASSUME NEW t \in Tokens, Expire(t) PROVE Inv'
    <2>1. token' \in [Tokens -> Row] /\ \A u \in Tokens : token'[u].login = token[u].login
      BY <1>5 DEF Expire, Row
    <2>2. CallsNameIssued'
      BY <1>5 DEF Expire, CallsNameIssued, Issued
    <2>3. QED
      BY <1>5, <2>1, <2>2, KeepInv DEF Expire, Issued
  <1>6. CASE UNCHANGED vars
    BY <1>6 DEF vars, CallsNameIssued, ChainsAreNamed, Issued
  <1>7. QED
    BY <1>1, <1>2, <1>3, <1>4, <1>5, <1>6 DEF Next

\* The refresh_tokens table is well-typed whatever the requests do, the ids a
\* call works on are of rows that exist, and the chain of a token is named by a
\* token that is no younger than it.
THEOREM TokensSafe == Spec => []Inv
  <1>1. QED
    BY InitInv, NextInv, PTL DEF Spec
-----------------------------------------------------------------------------
(* Rotation, however the requests overlap.                                 *)

\* A token that was replaced is revoked, and its heir is a younger token of the
\* same login.
HeirsFollow ==
  \A t \in Issued : token[t].heir # NoToken =>
    /\ token[t].heir \in Issued /\ token[t].heir > t /\ token[t].revoked
    /\ token[token[t].heir].login = token[t].login

\* A token is the heir of one token at most.
HeirsDiffer ==
  \A t, u \in Issued : token[t].heir # NoToken /\ token[t].heir = token[u].heir => t = u

ChainEnds(login) == {t \in Of(login) : token[t].heir = NoToken}

EndsCounted ==
  \A login \in Tokens :
    Cardinality(ChainEnds(login)) <= 1 + Cardinality(Displaced(login))

ChainInv == Inv /\ HeirsFollow /\ HeirsDiffer /\ EndsCounted

LEMMA SetsFinite ==
  ASSUME TokensTypeOK
  PROVE  /\ IsFiniteSet(Issued)
         /\ \A login : /\ IsFiniteSet(ChainEnds(login)) /\ IsFiniteSet(Displaced(login))
                       /\ IsFiniteSet(WorkingEnds(login))
<1>1. IsFiniteSet(Tokens)
  BY TokenConstantsOK, FS_Interval DEF Tokens
<1>2. Issued \subseteq Tokens
  BY DEF Issued
<1>3. IsFiniteSet(Issued)
  BY <1>1, <1>2, FS_Subset
<1>4. ASSUME NEW login
      PROVE  /\ ChainEnds(login) \subseteq Issued /\ Displaced(login) \subseteq Issued
             /\ WorkingEnds(login) \subseteq Issued
  BY DEF ChainEnds, Displaced, WorkingEnds, Of
<1> QED BY <1>3, <1>4, FS_Subset

\* A step that issues nothing and leaves logins and heirs alone leaves the
\* chains alone.
LEMMA SameChains ==
  ASSUME ChainInv, Inv', UNCHANGED nextToken,
         \A t \in Issued : /\ token'[t].login = token[t].login
                           /\ token'[t].heir = token[t].heir
                           /\ token[t].revoked => token'[t].revoked
  PROVE  ChainInv'
<1>1. Issued' = Issued
  BY DEF Issued
<1>2. HeirsFollow' /\ HeirsDiffer'
  BY <1>1 DEF ChainInv, HeirsFollow, HeirsDiffer
<1>3. ASSUME NEW login PROVE Of(login)' = Of(login)
  BY <1>1 DEF Of
<1>4. ASSUME NEW login
      PROVE  ChainEnds(login)' = ChainEnds(login) /\ Displaced(login)' = Displaced(login)
  <2>1. \A t : t \in Of(login) => t \in Issued
    BY DEF Of
  <2> QED BY <1>1, <1>3, <2>1 DEF ChainEnds, Displaced
<1> QED BY <1>2, <1>4 DEF ChainInv, EndsCounted

\* A login founds a chain of its own.
LEMMA IssueChains ==
  ASSUME ChainInv, Inv', NEW c \in Callers, Issue(c)
  PROVE  ChainInv'
<1> PICK n : n = nextToken
  OBVIOUS
<1>1. /\ n \in Tokens /\ n \notin Issued /\ n # NoToken
      /\ Issued' = Issued \cup {n} /\ \A t \in Issued : t < n
  BY FreshId DEF Issue, Issued, ChainInv, Inv
<1>2. /\ token'[n].login = n /\ token'[n].heir = NoToken
      /\ \A t \in Issued : token'[t] = token[t]
  BY <1>1 DEF Issue, ChainInv, Inv, TokensTypeOK, NewRow, Issued
<1>3. \A t \in Issued : token[t].login # n
  BY <1>1 DEF ChainInv, Inv, ChainsAreNamed, Issued, Tokens
<1>4. HeirsFollow' /\ HeirsDiffer'
  BY <1>1, <1>2 DEF ChainInv, HeirsFollow, HeirsDiffer
<1>5. \A t \in Issued : token[t].heir # n
  BY <1>1 DEF ChainInv, HeirsFollow, NoToken
<1>6. ASSUME NEW login \in Tokens, login # n
      PROVE  ChainEnds(login)' = ChainEnds(login) /\ Displaced(login)' = Displaced(login)
  <2>1. Of(login)' = Of(login)
    BY <1>1, <1>2, <1>6 DEF Of
  <2>2. \A t : t \in Of(login) => t \in Issued /\ t # NoToken
    BY DEF Of, Issued, Tokens, NoToken
  <2> QED BY <1>1, <1>2, <2>1, <2>2 DEF ChainEnds, Displaced
<1>7. ChainEnds(n)' = {n} /\ Displaced(n)' = {}
  <2>1. Of(n)' = {n}
    BY <1>1, <1>2, <1>3 DEF Of
  <2> QED BY <1>2, <2>1 DEF ChainEnds, Displaced
<1>8. EndsCounted'
  <2>1. Cardinality({n}) = 1 /\ Cardinality({}) = 0
    BY FS_Singleton, FS_EmptySet
  <2> QED BY <1>6, <1>7, <2>1 DEF ChainInv, EndsCounted
<1> QED BY <1>4, <1>8 DEF ChainInv

\* Rotation moves the end of a chain to the successor.  When the token had been
\* replaced already, that successor is displaced and its chain is one more.
LEMMA CommitChains ==
  ASSUME ChainInv, Inv', NEW c \in Callers, ExchangeCommit(c)
  PROVE  ChainInv'
<1> PICK n, old, l0, x :
       /\ n = nextToken /\ old = call[c].given
       /\ l0 = token[old].login /\ x = token[old].heir
  OBVIOUS
<1>0. TokensTypeOK
  BY DEF ChainInv, Inv
<1>1. old \in Issued /\ old \in Tokens
  BY DEF ChainInv, Inv, ExchangeCommit, CallsNameIssued, Issued
<1>2. /\ n \in Tokens /\ n \notin Issued /\ n # NoToken
      /\ Issued' = Issued \cup {n} /\ \A t \in Issued : t < n
  BY <1>0, FreshId DEF ExchangeCommit, Issued
<1>3. token' = [token EXCEPT ![n] = NewRow(l0), ![old].revoked = TRUE, ![old].heir = n]
  BY DEF ExchangeCommit
<1>4. /\ token'[n].login = l0 /\ token'[n].heir = NoToken
      /\ \A t \in Issued : t # old => token'[t] = token[t]
  BY <1>0, <1>1, <1>2, <1>3 DEF TokensTypeOK, NewRow, Issued
<1>5. token'[old].login = l0 /\ token'[old].heir = n /\ token'[old].revoked
  BY <1>0, <1>1, <1>2, <1>3 DEF TokensTypeOK, Row, Issued
<1>6. \A t \in Issued : token[t].heir # n
  BY <1>2 DEF ChainInv, HeirsFollow, NoToken
<1>7. HeirsFollow'
  <2> SUFFICES ASSUME NEW t \in Issued', token'[t].heir # NoToken
               PROVE  /\ token'[t].heir \in Issued' /\ token'[t].heir > t
                      /\ token'[t].revoked
                      /\ token'[token'[t].heir].login = token'[t].login
    BY DEF HeirsFollow
  <2>1. CASE t = old
    BY <1>1, <1>2, <1>4, <1>5, <2>1
  <2>2. CASE t # old
    <3>1. t \in Issued /\ token'[t] = token[t]
      BY <1>2, <1>4, <2>2
    <3>2. /\ token[t].heir \in Issued /\ token[t].heir > t /\ token[t].revoked
          /\ token[token[t].heir].login = token[t].login
      BY <3>1 DEF ChainInv, HeirsFollow
    <3>3. token'[token[t].heir].login = token[token[t].heir].login
      BY <1>4, <1>5, <3>2
    <3> QED BY <1>2, <3>1, <3>2, <3>3
  <2> QED BY <2>1, <2>2
<1>8. HeirsDiffer'
  BY <1>2, <1>4, <1>5, <1>6 DEF ChainInv, HeirsDiffer
<1>9. ASSUME NEW login \in Tokens, login # l0
      PROVE  ChainEnds(login)' = ChainEnds(login) /\ Displaced(login)' = Displaced(login)
  <2>1. Of(login)' = Of(login)
    BY <1>1, <1>2, <1>4, <1>5, <1>9 DEF Of
  <2>2. \A t \in Of(login) : t \in Issued /\ t # old /\ t # n /\ t # NoToken /\ x # t
    BY <1>1, <1>2, <1>9 DEF Of, Issued, Tokens, NoToken, ChainInv, HeirsFollow
  <2> QED BY <1>1, <1>2, <1>4, <1>5, <2>1, <2>2 DEF ChainEnds, Displaced
<1>10. l0 \in Tokens /\ l0 <= old
  BY <1>1, TokenConstantsOK DEF ChainInv, Inv, ChainsAreNamed, Issued, Tokens
<1>11. Of(l0)' = Of(l0) \cup {n} /\ old \in Of(l0) /\ n \notin Of(l0)
  BY <1>1, <1>2, <1>4, <1>5 DEF Of
<1>12. ChainEnds(l0)' = (ChainEnds(l0) \ {old}) \cup {n}
  <2>1. \A t : t \in Of(l0) => t \in Issued
    BY DEF Of
  <2> QED BY <1>2, <1>4, <1>5, <1>11, <2>1 DEF ChainEnds
<1>13. /\ IsFiniteSet(ChainEnds(l0)) /\ IsFiniteSet(Displaced(l0))
       /\ n \notin ChainEnds(l0) \ {old}
  BY <1>0, <1>11, SetsFinite DEF ChainEnds
<1>14. Cardinality(ChainEnds(l0)) \in Nat /\ Cardinality(Displaced(l0)) \in Nat
  BY <1>13, FS_CardinalityType
<1>15. Cardinality(ChainEnds(l0)) <= 1 + Cardinality(Displaced(l0))
  BY <1>10 DEF ChainInv, EndsCounted
<1>16. IsFiniteSet(ChainEnds(l0) \ {old})
  BY <1>13, FS_Subset
<1>17. Cardinality(ChainEnds(l0)') = Cardinality(ChainEnds(l0) \ {old}) + 1
  <2>1. Cardinality((ChainEnds(l0) \ {old}) \cup {n})
          = Cardinality(ChainEnds(l0) \ {old}) + 1
    BY <1>13, <1>16, FS_AddElement
  <2> QED BY <1>12, <2>1
<1>18. n \notin Displaced(l0)'
  BY <1>1, <1>2, <1>5 DEF Displaced
<1>19. CASE x = NoToken
  <2>1. old \in ChainEnds(l0)
    BY <1>11, <1>19 DEF ChainEnds
  <2>2. Cardinality(ChainEnds(l0)') = Cardinality(ChainEnds(l0))
    <3>1. Cardinality(ChainEnds(l0) \ {old}) = Cardinality(ChainEnds(l0)) - 1
      BY <1>13, <2>1, FS_RemoveElement
    <3> QED BY <1>14, <1>17, <3>1
  <2>3. Displaced(l0)' = Displaced(l0)
    <3>1. \A t \in Of(l0) : t # n /\ t # NoToken /\ t \in Issued
      BY <1>11 DEF Of, Issued, Tokens, NoToken
    <3>2. ASSUME NEW t \in Of(l0)
          PROVE  (\A u \in Issued' : token'[u].heir # t)
                   <=> (\A u \in Issued : token[u].heir # t)
      BY <1>1, <1>2, <1>4, <1>5, <1>19, <3>1
    <3> QED BY <1>11, <1>18, <3>1, <3>2 DEF Displaced
  <2> QED BY <1>7, <1>8, <1>9, <1>15, <2>2, <2>3 DEF ChainInv, EndsCounted
<1>20. CASE x # NoToken
  <2>1. x \in Issued /\ x > old /\ token[x].login = l0
    BY <1>1, <1>20 DEF ChainInv, HeirsFollow
  <2>2. x \in Of(l0) /\ x # l0
    BY <1>1, <1>10, <2>1 DEF Of, Tokens, Issued
  <2>3. x \notin Displaced(l0)
    BY <1>1 DEF Displaced
  <2>4. Displaced(l0)' = Displaced(l0) \cup {x}
    <3>1. \A t \in Of(l0) : t # n /\ t \in Issued
      BY <1>11 DEF Of
    <3>2. ASSUME NEW t \in Of(l0), t # x
          PROVE  (\A u \in Issued' : token'[u].heir # t)
                   <=> (\A u \in Issued : token[u].heir # t)
      <4>1. t # NoToken
        BY <3>2 DEF Of, Issued, Tokens, NoToken
      <4> QED BY <1>1, <1>2, <1>4, <1>5, <3>1, <3>2, <4>1
    <3>3. \A u \in Issued' : token'[u].heir # x
      <4>1. \A u \in Issued : u # old => token[u].heir # x
        BY <1>1, <1>20 DEF ChainInv, HeirsDiffer
      <4> QED BY <1>2, <1>4, <1>5, <1>20, <2>1, <4>1
    <3> QED BY <1>11, <1>18, <2>2, <3>1, <3>2, <3>3 DEF Displaced
  <2>5. Cardinality(Displaced(l0)') = Cardinality(Displaced(l0)) + 1
    <3>1. Cardinality(Displaced(l0) \cup {x}) = Cardinality(Displaced(l0)) + 1
      BY <1>13, <2>3, FS_AddElement
    <3> QED BY <2>4, <3>1
  <2>6. old \notin ChainEnds(l0)
    BY <1>20 DEF ChainEnds
  <2>7. ChainEnds(l0) \ {old} = ChainEnds(l0)
    BY <2>6
  <2> QED BY <1>7, <1>8, <1>9, <1>14, <1>15, <1>17, <2>5, <2>7 DEF ChainInv, EndsCounted
<1> QED BY <1>19, <1>20

LEMMA ChainNext == ChainInv /\ [Next]_vars => ChainInv'
<1> SUFFICES ASSUME ChainInv, [Next]_vars PROVE ChainInv'
  OBVIOUS
<1>0. Inv'
  BY NextInv DEF ChainInv
<1>1. ASSUME NEW c \in Callers, Issue(c) PROVE ChainInv'
  BY <1>0, <1>1, IssueChains
<1>2. ASSUME NEW c \in Callers, ExchangeCommit(c) PROVE ChainInv'
  BY <1>0, <1>2, CommitChains
<1>3. ASSUME NEW c \in Callers, Revoke(c) PROVE ChainInv'
  <2>1. call[c].given \in Tokens
    BY <1>3 DEF ChainInv, Inv, Revoke, Asks, CallsNameIssued, Issued
  <2>2. \A t \in Issued : /\ token'[t].login = token[t].login
                          /\ token'[t].heir = token[t].heir
                          /\ token[t].revoked => token'[t].revoked
    BY <1>3, <2>1 DEF ChainInv, Inv, TokensTypeOK, Revoke, Row, Issued
  <2> QED BY <1>0, <1>3, <2>2, SameChains DEF Revoke
<1>4. ASSUME NEW c \in Callers, ExchangeCheck(c) \/ Fail(c) \/ Arrive(c) \/ Depart(c)
      PROVE  ChainInv'
  BY <1>0, <1>4, SameChains DEF ExchangeCheck, Fail, Arrive, Depart
<1>5. ASSUME NEW t \in Tokens, Expire(t) PROVE ChainInv'
  <2>1. \A u \in Issued : /\ token'[u].login = token[u].login
                          /\ token'[u].heir = token[u].heir
                          /\ token[u].revoked => token'[u].revoked
    BY <1>5 DEF ChainInv, Inv, TokensTypeOK, Expire, Row, Issued
  <2> QED BY <1>0, <1>5, <2>1, SameChains DEF Expire
<1>6. CASE UNCHANGED vars
  BY <1>0, <1>6, SameChains DEF vars
<1> QED BY <1>1, <1>2, <1>3, <1>4, <1>5, <1>6 DEF Next, Serve

\* However many exchanges, logins and logouts overlap, a login has one working
\* end, and one more for each time one of its tokens was exchanged twice.
THEOREM WorkingEndsCounted == Spec => []WorkingEndsAccountedFor
<1>1. Init => ChainInv
  <2> SUFFICES ASSUME Init PROVE ChainInv
    OBVIOUS
  <2>1. Inv
    BY InitInv
  <2>2. Issued = {}
    BY DEF Init, Issued, Tokens
  <2>3. ASSUME NEW login PROVE ChainEnds(login) = {} /\ Displaced(login) = {}
    BY <2>2 DEF ChainEnds, Displaced, Of
  <2>4. Cardinality({}) = 0
    BY FS_EmptySet
  <2> QED BY <2>1, <2>2, <2>3, <2>4 DEF ChainInv, HeirsFollow, HeirsDiffer, EndsCounted
<1>2. ChainInv => WorkingEndsAccountedFor
  <2> SUFFICES ASSUME ChainInv, NEW t \in Issued
               PROVE  Cardinality(WorkingEnds(token[t].login))
                        <= 1 + Cardinality(Displaced(token[t].login))
    BY DEF WorkingEndsAccountedFor
  <2> PICK l : l = token[t].login
    OBVIOUS
  <2>1. l \in Tokens
    BY TokenConstantsOK DEF ChainInv, Inv, ChainsAreNamed, Issued, Tokens
  <2>2. WorkingEnds(l) \subseteq ChainEnds(l)
    BY DEF ChainInv, HeirsFollow, WorkingEnds, ChainEnds, Of
  <2>3. IsFiniteSet(ChainEnds(l)) /\ IsFiniteSet(Displaced(l)) /\ IsFiniteSet(WorkingEnds(l))
    BY SetsFinite DEF ChainInv, Inv
  <2>4. Cardinality(WorkingEnds(l)) <= Cardinality(ChainEnds(l))
    BY <2>2, <2>3, FS_Subset
  <2>5. /\ Cardinality(WorkingEnds(l)) \in Nat /\ Cardinality(ChainEnds(l)) \in Nat
        /\ Cardinality(Displaced(l)) \in Nat
    BY <2>3, FS_CardinalityType
  <2>6. Cardinality(ChainEnds(l)) <= 1 + Cardinality(Displaced(l))
    BY <2>1 DEF ChainInv, EndsCounted
  <2> QED BY <2>4, <2>5, <2>6
<1> QED BY <1>1, <1>2, ChainNext, PTL DEF Spec
-----------------------------------------------------------------------------
(* Sessions that are over.                                                 *)

\* A step that issues nothing, un-revokes nothing and lets no further call pass
\* its check leaves what is over as it is.
LEMMA RevokingKeepsOver ==
  ASSUME Inv, UNCHANGED nextToken,
         \A t \in Issued : /\ token'[t].login = token[t].login
                           /\ token[t].revoked => token'[t].revoked,
         \A c \in Callers : call'[c].pc = "checked" =>
            call[c].pc = "checked" /\ call'[c].given = call[c].given
  PROVE  \A t \in Issued : Over(token[t].login) => Over(token[t].login)'
<1>1. Issued' = Issued
  BY DEF Issued
<1> SUFFICES ASSUME NEW t \in Issued, Over(token[t].login) PROVE Over(token[t].login)'
  OBVIOUS
<1>2. token'[t].login = token[t].login
  OBVIOUS
<1>3. Dead(token[t].login)'
  BY <1>1, <1>2 DEF Over, Dead, WorkingEnds, Of
<1>4. ASSUME NEW c \in Callers, call'[c].pc = "checked"
      PROVE  token'[call'[c].given].login # token'[t].login
  <2>1. call[c].given \in Issued
    BY <1>4 DEF Inv, CallsNameIssued
  <2> QED BY <1>2, <1>4, <2>1 DEF Over
<1> QED BY <1>3, <1>4 DEF Over

\* A session of which no token works, and no exchange is past its check, never
\* works again: the check refuses every token it went through, whatever else is
\* served at the same time.
THEOREM DeadStaysDead == Spec => DeadSessionsStayDead
<1> DEFINE OverStays == \A t \in Issued : Over(token[t].login) => Over(token[t].login)'
<1>1. ASSUME Inv, Next PROVE OverStays
  <2> USE <1>1 DEF Inv, TokensTypeOK
  <2>1. ASSUME NEW c \in Callers, Issue(c) PROVE OverStays
    <3>1. /\ nextToken \in Tokens /\ nextToken \notin Issued
          /\ Issued' = Issued \cup {nextToken} /\ \A t \in Issued : t < nextToken
      BY <2>1, FreshId DEF Issue, Issued
    <3>2. /\ \A t \in Issued : token'[t] = token[t] /\ token[t].login # nextToken
          /\ token'[nextToken].login = nextToken
      BY <2>1, <3>1 DEF Issue, ChainsAreNamed, Issued, Tokens, NewRow
    <3>3. \A d \in Callers : call'[d].pc = "checked" => call'[d] = call[d]
      BY <2>1 DEF Issue
    <3> SUFFICES ASSUME NEW t \in Issued, Over(token[t].login)
                 PROVE  Over(token[t].login)'
      OBVIOUS
    <3>4. Dead(token[t].login)'
      BY <3>1, <3>2 DEF Over, Dead, WorkingEnds, Of
    <3>5. ASSUME NEW d \in Callers, call'[d].pc = "checked"
          PROVE  token'[call'[d].given].login # token'[t].login
      <4>1. call[d].given \in Issued
        BY <3>3, <3>5 DEF CallsNameIssued
      <4> QED BY <3>2, <3>3, <3>5, <4>1 DEF Over
    <3> QED BY <3>4, <3>5 DEF Over
  <2>2. ASSUME NEW c \in Callers, ExchangeCommit(c) PROVE OverStays
    <3> DEFINE old == call[c].given
    <3>1. old \in Issued /\ old \in Tokens /\ call[c].pc = "checked"
      BY <2>2 DEF ExchangeCommit, CallsNameIssued, Issued
    <3>2. /\ nextToken \in Tokens /\ nextToken \notin Issued
          /\ Issued' = Issued \cup {nextToken}
      BY <2>2, FreshId DEF ExchangeCommit, Issued
    <3>3. token' = [token EXCEPT ![nextToken] = NewRow(token[old].login),
                                 ![old].revoked = TRUE, ![old].heir = nextToken]
      BY <2>2 DEF ExchangeCommit
    <3>4. \A t \in Issued : /\ token'[t].login = token[t].login
                            /\ token[t].revoked => token'[t].revoked
      BY <3>1, <3>2, <3>3 DEF Row, Issued
    <3>5. token'[nextToken].login = token[old].login
      BY <3>1, <3>2, <3>3 DEF NewRow
    <3>6. \A d \in Callers : call'[d].pc = "checked" => call'[d] = call[d]
      BY <2>2 DEF ExchangeCommit
    <3> SUFFICES ASSUME NEW t \in Issued, Over(token[t].login)
                 PROVE  Over(token[t].login)'
      OBVIOUS
    <3>7. token[t].login # token[old].login
      BY <3>1 DEF Over
    <3>8. Dead(token[t].login)'
      BY <3>2, <3>4, <3>5, <3>7 DEF Over, Dead, WorkingEnds, Of
    <3>9. ASSUME NEW d \in Callers, call'[d].pc = "checked"
          PROVE  token'[call'[d].given].login # token'[t].login
      <4>1. call[d].given \in Issued
        BY <3>6, <3>9 DEF CallsNameIssued
      <4> QED BY <3>4, <3>6, <3>9, <4>1 DEF Over
    <3> QED BY <3>8, <3>9 DEF Over
  <2>3. ASSUME NEW c \in Callers, ExchangeCheck(c) PROVE OverStays
    <3>1. token' = token /\ Issued' = Issued
      BY <2>3 DEF ExchangeCheck, Issued
    <3>2. \A d \in Callers : call'[d].given = call[d].given
      BY <2>3 DEF ExchangeCheck, Call
    <3>3. \A d \in Callers : call'[d].pc = "checked" =>
             call[d].pc = "checked" \/ (d = c /\ ~token[call[c].given].revoked)
      BY <2>3 DEF ExchangeCheck, Exchangeable, Live, Call
    <3>4. call[c].given \in Issued
      BY <2>3 DEF ExchangeCheck, Asks, CallsNameIssued
    <3> SUFFICES ASSUME NEW t \in Issued, Over(token[t].login)
                 PROVE  Over(token[t].login)'
      OBVIOUS
    <3>5. Dead(token[t].login)'
      BY <3>1 DEF Over, Dead, WorkingEnds, Of
    <3>6. ~token[call[c].given].revoked => token[call[c].given].login # token[t].login
      BY <3>4 DEF Over, Dead, WorkingEnds, Of
    <3>7. ASSUME NEW d \in Callers, call'[d].pc = "checked"
          PROVE  token'[call'[d].given].login # token'[t].login
      BY <3>1, <3>2, <3>3, <3>6, <3>7 DEF Over
    <3> QED BY <3>5, <3>7 DEF Over
  <2>4. ASSUME NEW c \in Callers, Revoke(c) PROVE OverStays
    <3>1. call[c].given \in Tokens
      BY <2>4 DEF Revoke, Asks, CallsNameIssued, Issued
    <3>2. \A t \in Issued : /\ token'[t].login = token[t].login
                            /\ token[t].revoked => token'[t].revoked
      BY <2>4, <3>1 DEF Revoke, Row, Issued
    <3>3. \A d \in Callers : call'[d].pc = "checked" => call'[d] = call[d]
      BY <2>4 DEF Revoke
    <3> QED BY <2>4, <3>2, <3>3, RevokingKeepsOver DEF Revoke
  <2>5. ASSUME NEW c \in Callers, Fail(c) \/ Arrive(c) \/ Depart(c) PROVE OverStays
    <3>1. \A d \in Callers : call'[d].pc = "checked" => call'[d] = call[d]
      BY <2>5 DEF Fail, Arrive, Present, Depart, Hangup, NoCall, Call
    <3> QED BY <2>5, <3>1, RevokingKeepsOver DEF Fail, Arrive, Depart
  <2>6. ASSUME NEW t \in Tokens, Expire(t) PROVE OverStays
    <3>1. \A u \in Issued : /\ token'[u].login = token[u].login
                            /\ token[u].revoked => token'[u].revoked
      BY <2>6 DEF Expire, Row, Issued
    <3> QED BY <2>6, <3>1, RevokingKeepsOver DEF Expire
  <2> QED BY <2>1, <2>2, <2>3, <2>4, <2>5, <2>6 DEF Next, Serve
<1>2. Inv /\ [Next]_vars => [OverStays]_vars
  BY <1>1
<1> QED BY <1>2, InitInv, NextInv, PTL DEF Spec, DeadSessionsStayDead
-----------------------------------------------------------------------------
(* Requests that take turns.                                               *)

LEMMA InitIInv == Init => IInv
  <1>1. Init => Issued = {}
    BY DEF Init, Issued, Tokens
  <1>2. QED
    BY <1>1, InitInv DEF IInv, CheckStands, OneLivePerLogin, Init, NoCall

\* A step that revokes at most, and issues nothing, leaves at most one end.
LEMMA RevokingKeepsOne ==
  ASSUME Inv, OneLivePerLogin, UNCHANGED nextToken,
         \A t \in Issued : /\ token'[t].login = token[t].login
                           /\ token[t].revoked => token'[t].revoked,
         token' \in [Tokens -> Row]
  PROVE  OneLivePerLogin'
  <1>1. Issued' = Issued
    BY DEF Issued
  <1>2. \A t \in Issued : token[t].revoked \in BOOLEAN /\ token'[t].revoked \in BOOLEAN
    BY DEF Inv, TokensTypeOK, Issued, Row
  <1>3. QED
    BY <1>1, <1>2 DEF OneLivePerLogin

\* Rotation replaces the end of a chain by the successor; a login founds a chain
\* of its own; nothing else makes a token work.
LEMMA NextIInv == OneAtATime /\ IInv /\ [Next]_vars => IInv'
  <1> SUFFICES ASSUME OneAtATime, IInv, [Next]_vars PROVE IInv'
    OBVIOUS
  <1> USE DEF IInv, Inv, TokensTypeOK
  <1>0. Inv'
    BY NextInv
  <1>1. ASSUME NEW c \in Callers, Issue(c)
        PROVE  CheckStands' /\ OneLivePerLogin'
    <2>1. /\ nextToken \in Tokens /\ nextToken \notin Issued
          /\ Issued' = Issued \cup {nextToken} /\ \A t \in Issued : t < nextToken
      BY <1>1, FreshId DEF Issue, Issued
    <2>2. token' = [token EXCEPT ![nextToken] = NewRow(nextToken)]
      BY <1>1 DEF Issue
    <2>3. CheckStands'
      BY <1>1 DEF Issue, OneAtATime, CheckStands
    <2>4. \A t \in Issued : token'[t] = token[t] /\ token'[t].login # nextToken
      BY <2>1, <2>2 DEF ChainsAreNamed, Issued
    <2>5. token'[nextToken].login = nextToken
      BY <2>1, <2>2 DEF NewRow
    <2>6. OneLivePerLogin'
      BY <2>1, <2>4, <2>5 DEF OneLivePerLogin
    <2>7. QED
      BY <2>3, <2>6
  <1>2. ASSUME NEW c \in Callers, ExchangeCheck(c)
        PROVE  CheckStands' /\ OneLivePerLogin'
    <2>1. CheckStands'
      BY <1>2 DEF ExchangeCheck, OneAtATime, CheckStands, Exchangeable, Live, Call
    <2>2. QED
      BY <1>2, <2>1 DEF ExchangeCheck, OneLivePerLogin, Issued
  <1>3. ASSUME NEW c \in Callers, ExchangeCommit(c)
        PROVE  CheckStands' /\ OneLivePerLogin'
    <2> DEFINE old == call[c].given
    <2>1. old \in Issued /\ old \in Tokens /\ ~token[old].revoked
      BY <1>3 DEF ExchangeCommit, CallsNameIssued, Issued, CheckStands
    <2>2. /\ nextToken \in Tokens /\ nextToken \notin Issued
          /\ Issued' = Issued \cup {nextToken}
      BY <1>3, FreshId DEF ExchangeCommit, Issued
    <2>3. token' = [token EXCEPT ![nextToken] = NewRow(token[old].login),
                                 ![old].revoked = TRUE, ![old].heir = nextToken]
      BY <1>3 DEF ExchangeCommit
    <2>4. CheckStands'
      BY <1>3 DEF ExchangeCommit, OneAtATime, CheckStands
    <2>5. \A t \in Issued : t # old => token'[t] = token[t]
      BY <2>1, <2>2, <2>3 DEF Issued
    <2>6. token'[old].revoked = TRUE
      BY <2>1, <2>2, <2>3 DEF Row
    <2>7. token'[nextToken].login = token[old].login
      BY <2>1, <2>2, <2>3 DEF NewRow
    <2>8. ASSUME NEW t \in Issued, token'[t].login = token[old].login
          PROVE  token'[t].revoked
      BY <2>1, <2>5, <2>6, <2>8 DEF OneLivePerLogin
    <2>9. OneLivePerLogin'
      <3> SUFFICES ASSUME NEW t \in Issued', NEW u \in Issued',
                          token'[t].login = token'[u].login,
                          ~token'[t].revoked, ~token'[u].revoked
                   PROVE  t = u
        BY DEF OneLivePerLogin
      <3>1. CASE t = nextToken \/ u = nextToken
        BY <2>2, <2>7, <2>8, <3>1
      <3>2. CASE t # nextToken /\ u # nextToken
        BY <2>2, <2>5, <2>6, <3>2 DEF OneLivePerLogin
      <3>3. QED
        BY <3>1, <3>2
    <2>10. QED
      BY <2>4, <2>9
  <1>4. ASSUME NEW c \in Callers, Revoke(c)
        PROVE  CheckStands' /\ OneLivePerLogin'
    <2>1. call[c].given \in Tokens
      BY <1>4 DEF Revoke, Asks, CallsNameIssued, Issued
    <2>2. /\ token' \in [Tokens -> Row]
          /\ \A t \in Tokens : /\ token'[t].login = token[t].login
                               /\ token[t].revoked => token'[t].revoked
      BY <1>4, <2>1 DEF Revoke, Row
    <2>3. CheckStands'
      BY <1>4 DEF Revoke, OneAtATime, CheckStands
    <2>4. QED
      BY <1>4, <2>2, <2>3, RevokingKeepsOne DEF Revoke, Issued
  <1>5. ASSUME NEW c \in Callers, Fail(c) \/ Arrive(c) \/ Depart(c)
        PROVE  CheckStands' /\ OneLivePerLogin'
    <2>1. CheckStands'
      BY <1>5 DEF Fail, Arrive, Depart, Present, Hangup, NoCall, Call, OneAtATime, CheckStands
    <2>2. QED
      BY <1>5, <2>1 DEF Fail, Arrive, Depart, OneLivePerLogin, Issued
  <1>6. ASSUME NEW t \in Tokens, Expire(t)
        PROVE  CheckStands' /\ OneLivePerLogin'
    <2>1. /\ token' \in [Tokens -> Row]
          /\ \A u \in Tokens : /\ token'[u].login = token[u].login
                               /\ token'[u].revoked = token[u].revoked
      BY <1>6 DEF Expire, Row
    <2>2. CheckStands'
      BY <1>6, <2>1 DEF Expire, CheckStands, CallsNameIssued, Issued
    <2>3. QED
      BY <1>6, <2>1, <2>2, RevokingKeepsOne DEF Expire, Issued
  <1>7. CASE UNCHANGED vars
    BY <1>0, <1>7 DEF vars, CheckStands, OneLivePerLogin, Issued
  <1>8. QED
    BY <1>0, <1>1, <1>2, <1>3, <1>4, <1>5, <1>6, <1>7 DEF Next, Serve

\* Served one after the other, the requests of /auth keep each login a single
\* chain: at most one token of it is not revoked, whatever is lost or fails.
THEOREM OneWorkingEnd == OneAtATime => (Spec => []OneLivePerLogin)
  <1>1. SUFFICES ASSUME OneAtATime PROVE Spec => []OneLivePerLogin
    OBVIOUS
  <1>2. IInv /\ [Next]_vars => IInv'
    BY <1>1, NextIInv
  <1>3. IInv => OneLivePerLogin
    BY DEF IInv
  <1>4. QED
    BY InitIInv, <1>2, <1>3, PTL DEF Spec
=============================================================================
