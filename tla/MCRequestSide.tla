--------------------------- MODULE MCRequestSide ---------------------------
(***************************************************************************)
(* One request on its way through the gateway, and the queue of breaker    *)
(* changes that request goroutines deliver, side by side: a behaviour      *)
(* picks one of them and only that one moves.                              *)
(***************************************************************************)
EXTENDS BreakerEvents, RequestPath

VARIABLE part  \* the component of this behaviour

-----------------------------------------------------------------------------
MCInit ==
  /\ part \in {"events", "request"}
  /\ BevInit /\ ReqInit
  /\ part = "request" \/ mode = "static"

MCNext ==
  /\ UNCHANGED part
  /\ \/ part = "events" /\ BevNext /\ UNCHANGED reqVars
     \/ part = "request" /\ ReqNext /\ UNCHANGED bevVars

(* The fairness of each component, in the behaviours that are its own. *)
MCFairness ==
  /\ \A p \in BevProcs : WF_bevVars(part = "events" /\ (BevPushes(p) \/ BevFlushes(p) \/ BevSyncStores(p)))
  /\ WF_bevVars(part = "events" /\ \E p \in BevProcs : BevSyncCounts(p))
  /\ WF_reqVars(part = "request" /\ ReqHandler) /\ WF_reqVars(part = "request" /\ OnIdle)
  /\ SF_reqVars(part = "request" /\ ReadCut)

MCSpec == MCInit /\ [][MCNext]_<<part, bevVars, reqVars>> /\ MCFairness
=============================================================================
