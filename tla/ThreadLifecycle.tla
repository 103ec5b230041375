-------------------------- MODULE ThreadLifecycle --------------------------
(***************************************************************************)
(* The life of a thread as its readers think of it: one atomic step per    *)
(* event, no requests, no ids, no claims.  The transition table and the    *)
(* offline rules decide every step.  HomeworkThread implements this        *)
(* specification as long as the requests on the thread do not overlap.     *)
(***************************************************************************)
EXTENDS HomeworkRules

VARIABLES status,   \* current_status
          attempt,  \* kind of the current attempt, or "none"
          source    \* where the current verdict came from

vars == <<status, attempt, source>>

LifecycleTypeOK == /\ status \in Statuses
                   /\ attempt \in AttemptKinds \cup {"none"}
                   /\ source \in {"none", "online", "offline"}

Attempted(kind) == /\ CanTransition(status, kind)
                   /\ status' = kind
                   /\ attempt' = kind
                   /\ UNCHANGED source

Graded(verdict) == /\ CanTransition(status, "graded")
                   /\ status' = verdict
                   /\ source' = "online"
                   /\ UNCHANGED attempt

\* The statuses of a pending thread are the kinds of its attempts.
Retracted == /\ CanTransition(status, "retracted")
             /\ attempt # "none"
             /\ status' = attempt
             /\ source' = "none"
             /\ UNCHANGED attempt

\* Also the re-crediting of an offline accept.
AcceptedOffline == /\ \/ CanTransition(status, "accepted_offline")
                      \/ source = "offline"
                   /\ status' = "accepted"
                   /\ source' = "offline"
                   /\ UNCHANGED attempt

OfflineRetracted == /\ CanTransition(status, "offline_retracted")
                    /\ source = "offline"
                    /\ status' = IF attempt = "none" THEN "ungraded" ELSE attempt
                    /\ source' = "none"
                    /\ UNCHANGED attempt

Init == status = "ungraded" /\ attempt = "none" /\ source = "none"

Next == \/ \E kind \in AttemptKinds : Attempted(kind)
        \/ \E verdict \in Verdicts : Graded(verdict)
        \/ Retracted \/ AcceptedOffline \/ OfflineRetracted

Spec == Init /\ [][Next]_vars
=============================================================================
