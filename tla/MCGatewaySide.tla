--------------------------- MODULE MCGatewaySide ---------------------------
(***************************************************************************)
(* Components that are checked for safety only, side by side: a behaviour  *)
(* picks one of them and only that one moves.  The names of the instance   *)
(* of a component begin with the component's prefix.                       *)
(***************************************************************************)
EXTENDS TLC, TokenBuckets, Migrator, MetricSeries, Observers, MockWorker, CapacityPeaks, WorkerChoice,
        Configuration

VARIABLE part  \* the component of this behaviour

(* Two requests that share a bucket and the one lease; the second is       *)
(* limited in every way and costs more than its bucket holds.              *)
TokMCActive == 1 :> {"requests", "concurrency"} @@ 2 :> {"requests", "model", "tokens", "concurrency"}
TokMCCost == 1 :> 1 @@ 2 :> 5
TokMCQuota == "requests" :> 2 @@ "tokens" :> 1 @@ "model" :> 1

(* An old and a new binary, and one whose second file was edited. *)
MigMCFiles == "old" :> <<"v1", "v2">> @@ "new" :> <<"v1", "v2", "v3">> @@ "drift" :> <<"v1", "w2">>
MigMCReader == <<"v1", "v2">>

(* One steady worker, one slower, one that may report an absurd rate. *)
CapMCRates == "a" :> {100} @@ "b" :> {60} @@ "c" :> {100, 5000}

(* What a snapshot may say of a worker: busy or idle, with and without a   *)
(* queue, a ledger, a rate or a report, full, not offered, or of another   *)
(* model.                                                                  *)
SelView(active, queued, ahead, rate, ledger, tracked) ==
  [serves |-> TRUE, offered |-> TRUE, active |-> active, limit |-> 2, queued |-> queued, ahead |-> ahead,
   rate |-> rate, ledger |-> ledger, tracked |-> tracked]
SelMCViews ==
  { SelView(0, 1, 0, 2, TRUE, TRUE), SelView(0, 0, 8, 4, TRUE, TRUE), SelView(1, 0, 8, 2, TRUE, TRUE), SelView(1, 0, 9, 0, TRUE, TRUE),
    SelView(1, 0, -1, 2, TRUE, TRUE), SelView(0, 0, 0, 0, FALSE, TRUE), SelView(1, 0, 0, 0, TRUE, FALSE),
    SelView(2, 0, 0, 2, TRUE, TRUE), [SelView(0, 0, 2, 2, TRUE, TRUE) EXCEPT !.offered = FALSE],
    [SelView(0, 0, 2, 2, TRUE, TRUE) EXCEPT !.serves = FALSE] }

(* Files that change up to two settings, under environments that change    *)
(* up to two; a word is the same in both.                                  *)
CfgSays(section, key, value) == <<section, key>> :> value
CfgMCChoices ==
  { CfgSays("gateway", "source", "registry"), CfgSays("gateway", "shutdown", 4000), CfgSays("gateway", "header", 2000),
    CfgSays("gateway", "idle", 0), CfgSays("gateway", "stale", 1500), CfgSays("gateway", "refresh", 3000),
    CfgSays("gateway", "attempts", 6), CfgSays("worker", "suspect", 4000), CfgSays("worker", "suspect", 3000),
    CfgSays("worker", "beat", 3000), CfgSays("worker", "unhealthy", 5000), CfgSays("plane", "max", 0),
    CfgSays("redis", "metadata", TRUE), CfgSays("redis", "timeout", 5000), CfgSays("redis", "backoff", 5),
    CfgSays("rate", "mode", "required"), CfgSays("rate", "caps", 1), CfgSays("rate", "lease", 12000),
    CfgSays("auth", "mode", "required"), CfgSays("auth", "neg", 40000), CfgSays("postgres", "conns", 3), CfgSays("postgres", "dsn", "later"), CfgSays("postgres", "dsn", "bad"),
    CfgSays("redis", "addr", "later"),
    CfgSays("events", "mode", "on"), CfgSays("events", "conn", "good"), CfgSays("events", "conn", "later"), CfgSays("events", "flush", 35000),
    CfgSays("events", "compression", "other"), CfgSays("tracing", "enabled", TRUE), CfgSays("tracing", "queue", 256),
    CfgSays("metrics", "models", 0), CfgSays("resilience", "mode", "off"), CfgSays("resilience", "grace", 4000),
    CfgSays("resilience", "maxWait", 50000), CfgSays("resilience", "deadline", 2000),
    CfgSays("resilience", "header", 70000), CfgSays("scheduler", "strategy", "least-work"),
    CfgSays("scheduler", "overlay", "ledger"), CfgSays("scheduler", "halflife", 10) }
CfgMCFiles == {<<>>} \cup {f @@ g : f \in CfgMCChoices, g \in CfgMCChoices}
CfgVar(section, key, ok, value) == <<section, key>> :> [ok |-> ok, val |-> value]
CfgMCEnvs ==
  {a @@ b : a \in {CfgVar("gateway", "source", TRUE, "registry"), CfgVar("events", "mode", TRUE, "on"), <<>>},
            b \in {CfgVar("resilience", "mode", FALSE, "offf"), CfgVar("worker", "suspect", TRUE, 6000),
                   CfgVar("gateway", "shutdown", FALSE, 0), CfgVar("events", "conn", TRUE, "good"), <<>>}}
CfgMCBad ==
  "redis" :> (CfgSays("redis", "addr", "bad") @@ CfgSays("redis", "timeout", 0) @@ CfgSays("redis", "onFailure", "maybe")) @@
  "events" :> (CfgSays("events", "conn", "bad") @@ CfgSays("events", "buffer", 0)) @@
  "tracing" :> (CfgSays("tracing", "endpoint", "bad") @@ CfgSays("tracing", "queue", 0)) @@
  "resilience" :> (CfgSays("resilience", "faults", 0) @@ CfgSays("resilience", "grace", 400000) @@
                   CfgSays("resilience", "shares", "bad")) @@
  "scheduler" :> (CfgSays("scheduler", "weights", "bad") @@ CfgSays("scheduler", "halflife", 0))

-----------------------------------------------------------------------------
MCParts == {"buckets", "migrations", "series", "observers", "worker", "capacities", "choice", "config"}

(* Every component but p stands still. *)
MCOthersStill(p) ==
  /\ IF p = "buckets" THEN TRUE ELSE UNCHANGED tokVars
  /\ IF p = "migrations" THEN TRUE ELSE UNCHANGED migVars
  /\ IF p = "series" THEN TRUE ELSE UNCHANGED serVars
  /\ IF p = "observers" THEN TRUE ELSE UNCHANGED obsVars
  /\ IF p = "worker" THEN TRUE ELSE UNCHANGED wrkVars
  /\ IF p = "capacities" THEN TRUE ELSE UNCHANGED capVars
  /\ IF p = "choice" THEN TRUE ELSE UNCHANGED selVars
  /\ IF p = "config" THEN TRUE ELSE UNCHANGED cfgVars

MCInit ==
  /\ part \in MCParts
  /\ TokInit /\ MigInit /\ SerInit /\ ObsInit /\ WrkInit 
  /\ CapInit /\ SelInit /\ CfgInit
  (* one initial state of each component that stands still *)
  /\ part = "observers" \/ (obsRegistry /\ obsSampled)
  /\ part = "worker" \/ wrkState = "ready"
  /\ part = "config" \/ cfgEnv = <<>>

MCNext ==
  /\ UNCHANGED part
  /\ \/ part = "buckets" /\ TokNext
     \/ part = "migrations" /\ MigNext
     \/ part = "series" /\ SerNext
     \/ part = "observers" /\ ObsNext
     \/ part = "worker" /\ WrkNext
     \/ part = "capacities" /\ CapNext
     \/ part = "choice" /\ SelNext
     \/ part = "config" /\ CfgNext
  /\ MCOthersStill(part)

MCVars ==
  <<part, tokVars, migVars, serVars, obsVars, wrkVars, capVars, selVars, cfgVars>>

MCSpec == MCInit /\ [][MCNext]_MCVars
=============================================================================
