---------------------------- MODULE RequestContract ----------------------------
(***************************************************************************)
(* What the gateway promises about one inference request, independently of *)
(* how it is served: the calls an observer sees and their order, that      *)
(* everything a request takes is given back before its completion is       *)
(* announced, and that no attempt begins once the response has begun       *)
(* (ADR-012).  RequestPath is shown to implement it.                       *)
(*                                                                         *)
(* The order is the one the code keeps.  The comment of Observer           *)
(* (internal/gateway/observer.go) gives another in two places: it puts     *)
(* the refusals of validation and of the rate limit after RequestAdmitted, *)
(* where the code (and shedding at the global cap, which it does not name) *)
(* refuses before it, and it says that QueueWaited is not fired yet.       *)
(***************************************************************************)
EXTENDS Naturals

VARIABLES
  phase,     \* how far the request's announcements have come
  waited,    \* QueueWaited was announced
  attempts,  \* attempts announced so far
  open,      \* the announced attempts that have not ended
  first,     \* FirstToken was announced
  answered,  \* the response has begun
  holding    \* the request holds something of the gateway

contractVars == <<phase, waited, attempts, open, first, answered, holding>>

CInit ==
  /\ phase = "idle" /\ waited = FALSE /\ attempts = 0 /\ open = {} /\ first = FALSE
  /\ answered = FALSE /\ holding = FALSE

CStart ==
  /\ phase = "idle" /\ phase' = "started"
  /\ UNCHANGED <<waited, attempts, open, first, answered, holding>>

CAdmit ==
  /\ phase = "started" /\ phase' = "admitted"
  /\ UNCHANGED <<waited, attempts, open, first, answered>> /\ holding' \in BOOLEAN

\* A refusal answers at once, before or after the admission; only a request that never reached a worker is refused.
CReject ==
  /\ phase \in {"started", "admitted"} /\ attempts = 0 /\ ~answered
  /\ phase' = "rejected" /\ answered' = TRUE
  /\ UNCHANGED <<waited, attempts, open, first, holding>>

CWaited ==
  /\ phase = "admitted" /\ attempts = 0 /\ ~waited /\ waited' = TRUE
  /\ holding' \in BOOLEAN
  /\ UNCHANGED <<phase, attempts, open, first, answered>>

\* An attempt may begin while the one it replaces is still open, but never a third.
CAttempt ==
  /\ phase = "admitted" /\ ~answered
  /\ open \subseteq {attempts}
  /\ attempts' = attempts + 1 /\ open' = open \cup {attempts + 1}
  /\ UNCHANGED <<phase, waited, first, answered>> /\ holding' \in BOOLEAN

CEnd ==
  /\ \E gone \in (SUBSET open) \ {{}} : open' = open \ gone
  /\ UNCHANGED <<phase, waited, attempts, first, answered>> /\ holding' \in BOOLEAN

\* The first chunk of an event stream, which is the last attempt's: once, while that attempt is open.
CFirst ==
  /\ phase = "admitted" /\ answered /\ attempts \in open /\ ~first /\ first' = TRUE
  /\ UNCHANGED <<phase, waited, attempts, open, answered, holding>>

CAnswer ==
  /\ phase # "completed" /\ ~answered /\ answered' = TRUE
  /\ UNCHANGED <<phase, waited, attempts, open, first>> /\ holding' \in BOOLEAN

CHold ==
  /\ phase \notin {"idle", "completed"} /\ holding' = ~holding
  /\ UNCHANGED <<phase, waited, attempts, open, first, answered>>

\* Last, once, with every attempt ended and nothing held.
CComplete ==
  /\ phase \in {"started", "admitted", "rejected"} /\ open = {} /\ ~holding
  /\ phase' = "completed" /\ answered' \in {answered, TRUE}
  /\ UNCHANGED <<waited, attempts, open, first, holding>>

CNext ==
  \/ CStart \/ CAdmit \/ CReject \/ CWaited \/ CAttempt
  \/ CEnd \/ CFirst \/ CAnswer \/ CHold \/ CComplete

CSpec == CInit /\ [][CNext]_contractVars
=============================================================================
