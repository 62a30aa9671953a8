---------------------------- MODULE MCLifetimes ----------------------------
(***************************************************************************)
(* Components with a life of their own, side by side: what they start must *)
(* also end.  The rate limiter's leases, the event publisher, the usage    *)
(* consumers, the span batcher, the simulated engine and the gateway's     *)
(* process.  A behaviour picks one of them and only that one moves; the    *)
(* fairness of the others is then idle.                                    *)
(***************************************************************************)
EXTENDS RateLimiter, EventPublisher, UsageConsumer, SpanBatcher, SimEngine, GatewayProcess

VARIABLE part  \* the component of this behaviour

(* Two requests of one gateway: one that is limited in every way, one only *)
(* in how many run.                                                        *)
LimMCHome == 1 :> "a" @@ 2 :> "a"
LimMCActive == 1 :> {"buckets", "concurrency"} @@ 2 :> {"concurrency"}

(* One event of the second handler cannot be encoded. *)
PubMCUnencodable == {<<"h2", 1>>}

(* Of one partition: a request's row twice, a record that no row can be    *)
(* made of, a row the database refuses, and one that is not a row.         *)
UseMCLog ==
  << [kind |-> "row", req |-> 1], [kind |-> "poison", req |-> 0], [kind |-> "bad", req |-> 2],
     [kind |-> "row", req |-> 1], [kind |-> "skip", req |-> 0] >>

(* A short answer, a long prompt, and one that cannot fit beside another. *)
SimMCInput == "r1" :> 1 @@ "r2" :> 2 @@ "r3" :> 2
SimMCTarget == "r1" :> 2 @@ "r2" :> 2 @@ "r3" :> 4

(* The control plane, and gateways with nothing, everything, and parts of  *)
(* what can be switched on.                                                *)
PrcMCConfigs ==
  { {"metrics"}, {}, {"registry", "limit", "tracing", "events", "metrics", "drain"}, {"auth", "limit", "events"},
    {"registry", "metadata", "metrics"} }

-----------------------------------------------------------------------------
MCInit ==
  /\ part \in {"limiter", "publisher", "consumers", "batcher", "engine", "process"}
  /\ LimInit /\ PubInit /\ UseInit /\ BatInit /\ SimInit /\ PrcInit
  /\ part = "process" \/ prcOn = {}

MCNext ==
  /\ UNCHANGED part
  /\ \/ part = "limiter" /\ LimNext /\ UNCHANGED <<pubVars, useVars, batVars, simVars, prcVars>>
     \/ part = "publisher" /\ PubNext /\ UNCHANGED <<limVars, useVars, batVars, simVars, prcVars>>
     \/ part = "consumers" /\ UseNext /\ UNCHANGED <<limVars, pubVars, batVars, simVars, prcVars>>
     \/ part = "batcher" /\ BatNext /\ UNCHANGED <<limVars, pubVars, useVars, simVars, prcVars>>
     \/ part = "engine" /\ SimNext /\ UNCHANGED <<limVars, pubVars, useVars, batVars, prcVars>>
     \/ part = "process" /\ PrcNext /\ UNCHANGED <<limVars, pubVars, useVars, batVars, simVars>>

MCVars == <<part, limVars, pubVars, useVars, batVars, simVars, prcVars>>

(* The fairness of each component, in the behaviours that are its own. *)
MCFairness ==
  /\ WF_limVars(part = "limiter" /\ LimTick)
  /\ WF_pubVars(part = "publisher" /\ PubClosure) /\ WF_pubVars(part = "publisher" /\ PubDrain)
  /\ \A h \in PubHandlers : WF_pubVars(part = "publisher" /\ PubOffer(h))
  /\ \A m \in UseMembers : WF_useVars(part = "consumers" /\ UseStep(m))
  /\ WF_batVars(part = "batcher" /\ BatWorker) /\ WF_batVars(part = "batcher" /\ BatDeadline)
  /\ WF_batVars(part = "batcher" /\ batShut # "idle" /\ BatShutdown)
  /\ WF_simVars(part = "engine" /\ (SimAdvance \/ SimCall))
  /\ \A r \in SimRequests : WF_simVars(part = "engine" /\ SimHandler(r))
  /\ WF_prcVars(part = "process" /\ PrcWatch)
  /\ WF_prcVars(part = "process" /\ (PrcStartup \/ PrcServe \/ PrcEnd))

MCSpec == MCInit /\ [][MCNext]_MCVars /\ MCFairness

-----------------------------------------------------------------------------
(* Properties of several components. *)

(* Every shutdown comes to an end, stuck sinks, exporters and handlers     *)
(* notwithstanding: Publisher.Close, the span processor's Shutdown, and    *)
(* the process itself after one signal or two.                             *)
ShutdownsEnd == PubCloseReturns /\ BatShutdownEnds /\ PrcSecondForces /\ PrcFirstEnds

(* Whatever was begun is finished: a lease comes back (release, expiry), a *)
(* partition drains (Run), an engine serves what it took (step).           *)
WorkCompletes == LimSlotFreed /\ UseDrains /\ SimServed
=============================================================================
