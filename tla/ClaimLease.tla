----------------------------- MODULE ClaimLease -----------------------------
(***************************************************************************)
(* What the claim on a thread promises to its graders, apart from the rest *)
(* of the thread: a lease of Term ticks that one grader holds, that the    *)
(* holder may extend while it is live, that anyone may take over once it   *)
(* has expired, and that every other way of losing it leaves the thread    *)
(* free.  A live lease never moves from one grader to another: a second    *)
(* grader cannot start on a thread somebody is grading.  HomeworkThread    *)
(* implements this specification.                                          *)
(***************************************************************************)
EXTENDS Integers

CONSTANTS Graders,  \* everyone who may claim
          Nobody,   \* the value of holder when the thread is free
          Term      \* length of a lease, in ticks

VARIABLES holder,   \* claim_holder_user_id
          left      \* claim_expires_at minus NOW(), -1 once it is past

vars == <<holder, left>>
-----------------------------------------------------------------------------
\* TryClaim: free, expired (strictly), or already the caller's.
Take(g) == /\ holder = Nobody \/ left < 0 \/ holder = g
           /\ holder' = g
           /\ left' = Term

\* HeartbeatClaim: the caller's own, and still live.
Extend(g) == /\ holder = g
             /\ left > 0
             /\ left' = Term
             /\ UNCHANGED holder

\* The holder releases it or lands a grade, or an offline accept clears it.
Drop == /\ holder # Nobody
        /\ holder' = Nobody
        /\ left' = -1

\* The expiry is compared with the database's NOW(): no sweeper has to run.
Pass == /\ left >= 0
        /\ left' = left - 1
        /\ UNCHANGED holder
-----------------------------------------------------------------------------
Init == holder = Nobody /\ left = -1

Next == \/ \E g \in Graders : Take(g) \/ Extend(g)
        \/ Drop \/ Pass

Spec == Init /\ [][Next]_vars
=============================================================================
