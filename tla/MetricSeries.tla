---------------------------- MODULE MetricSeries ----------------------------
(***************************************************************************)
(* How the gateway bounds the label values of its metrics: the LabelGuards *)
(* that admit the first few models and workers (telemetry/labelguard.go),  *)
(* and the global budget of scheduler_selections_total, one series for a   *)
(* pair of model and worker (gateway/metrics.go, counterCache.budgeted).   *)
(* Request goroutines meet in it between every two critical sections.      *)
(***************************************************************************)
EXTENDS Integers, FiniteSets, TLC

CONSTANTS SerCallers,             \* goroutines in AttemptStarted
          SerModels, SerWorkers,  \* raw values
          SerModelCap, SerWorkerCap, SerBudget,
          SerMaxCalls             \* a bound on the calls of a behaviour

ASSUME SerAssumption == SerModelCap \in Nat \ {0} /\ SerWorkerCap \in Nat \ {0} /\ SerBudget \in Nat /\ SerMaxCalls \in Nat

VARIABLES serSeen,    \* the values each of the two guards admitted
          serUsed,    \* selectionsUsed
          serKey,     \* each model's cache: worker label -> label of its child
          serSeries,  \* the children that exist
          serLock,    \* the cache locks that are held
          serCall, serCalls

serVars == <<serSeen, serUsed, serKey, serSeries, serLock, serCall, serCalls>>

SerNone == [at |-> "idle", model |-> "", worker |-> "", adds |-> 0]
SerRaw == "model" :> SerModels @@ "worker" :> SerWorkers
SerCap == "model" :> SerModelCap @@ "worker" :> SerWorkerCap
SerLabels(k) == SerRaw[k] \cup {"other"}

SerInit ==
  /\ serSeen = [k \in {"model", "worker"} |-> {}] /\ serUsed = 0
  /\ serKey = [m \in SerLabels("model") |-> [w \in {} |-> w]] /\ serSeries = {} /\ serLock = {}
  /\ serCall = [g \in SerCallers |-> SerNone] /\ serCalls = 0

SerSet(g, c) == serCall' = [serCall EXCEPT ![g] = c]

SerAttemptStarted(g) ==
  /\ serCall[g].at = "idle" /\ serCalls < SerMaxCalls /\ serCalls' = serCalls + 1
  /\ \E m \in SerModels, w \in SerWorkers : SerSet(g, [at |-> "model", model |-> m, worker |-> w, adds |-> 0])
  /\ UNCHANGED <<serSeen, serUsed, serKey, serSeries, serLock>>

\* LabelGuard.Value under the read lock: known, full, or to be admitted.
SerPeeked(k, raw) ==
  CASE raw \in serSeen[k] -> raw
    [] raw \notin serSeen[k] /\ Cardinality(serSeen[k]) >= SerCap[k] -> "other"
    [] OTHER -> ""

\* LabelGuard.Value under the write lock: both questions are asked again.
SerAdmitted(k, raw) ==
  CASE raw \in serSeen[k] \/ Cardinality(serSeen[k]) < SerCap[k] -> [label |-> raw, seen |-> serSeen[k] \cup {raw}]
    [] OTHER -> [label |-> "other", seen |-> serSeen[k]]

SerAfter(k) == IF k = "model" THEN "worker" ELSE "load"
SerAdmitting(k) == IF k = "model" THEN "admit_model" ELSE "admit_worker"
SerLabelled(c, k, label) ==
  [c EXCEPT !.at = SerAfter(k), !.model = IF k = "model" THEN label ELSE @, !.worker = IF k = "worker" THEN label ELSE @]
SerField(c, k) == IF k = "model" THEN c.model ELSE c.worker

SerValue(g, k) ==
  LET c == serCall[g]
      raw == SerField(c, k)
      a == SerAdmitted(k, raw)
  IN \/ /\ c.at = k
        /\ SerSet(g, IF SerPeeked(k, raw) = "" THEN [c EXCEPT !.at = SerAdmitting(k)] ELSE SerLabelled(c, k, SerPeeked(k, raw)))
        /\ UNCHANGED <<serSeen, serUsed, serKey, serSeries, serLock, serCalls>>
     \/ /\ c.at = SerAdmitting(k)
        /\ SerSet(g, SerLabelled(c, k, a.label)) /\ serSeen' = [serSeen EXCEPT ![k] = a.seen]
        /\ UNCHANGED <<serUsed, serKey, serSeries, serLock, serCalls>>

(* Mutant: the slot is taken without the cache's lock. *)
SerLoadUnlocked(g) ==
  LET c == serCall[g] IN
  /\ c.at \in {"load", "lock"}
  /\ \/ c.worker \in DOMAIN serKey[c.model] /\ SerSet(g, SerNone) /\ UNCHANGED serLock
     \/ c.at = "load" /\ c.worker \notin DOMAIN serKey[c.model] /\ SerSet(g, [c EXCEPT !.at = "lock"]) /\ UNCHANGED serLock
     \/ /\ c.at = "lock" /\ c.worker \notin DOMAIN serKey[c.model]
        /\ SerSet(g, [c EXCEPT !.at = "take"]) /\ serLock' = serLock \cup {c.model}
  /\ UNCHANGED <<serSeen, serUsed, serKey, serSeries, serCalls>>

\* counterCache.load, and without a child the cache's lock and the second look.
SerLoad(g) ==
  LET c == serCall[g] IN
  /\ c.at \in {"load", "lock"}
  /\ \/ c.worker \in DOMAIN serKey[c.model] /\ SerSet(g, SerNone) /\ UNCHANGED serLock
     \/ c.at = "load" /\ c.worker \notin DOMAIN serKey[c.model] /\ SerSet(g, [c EXCEPT !.at = "lock"]) /\ UNCHANGED serLock
     \/ /\ c.at = "lock" /\ c.model \notin serLock /\ c.worker \notin DOMAIN serKey[c.model]
        /\ SerSet(g, [c EXCEPT !.at = "take"]) /\ serLock' = serLock \cup {c.model}
  /\ UNCHANGED <<serSeen, serUsed, serKey, serSeries, serCalls>>

\* The slot of the budget, given back when the budget is over: two atomic additions, shared by all the caches.
SerTake(g) ==
  /\ serCall[g].at \in {"take", "back"}
  /\ \/ /\ serCall[g].at = "take" /\ serUsed' = serUsed + 1
        /\ SerSet(g, [serCall[g] EXCEPT !.at = IF serUsed + 1 > SerBudget THEN "back" ELSE "own", !.adds = 1])
     \/ serCall[g].at = "back" /\ serUsed' = serUsed - 1 /\ SerSet(g, [serCall[g] EXCEPT !.at = "shared", !.adds = 0])
  /\ UNCHANGED <<serSeen, serKey, serSeries, serLock, serCalls>>

\* The child of the pair, or the model's "other" one; the lock is released.
SerCreate(g) ==
  LET c == serCall[g]
      key == IF c.at = "own" THEN c.worker ELSE "other"
  IN /\ c.at \in {"own", "shared"}
     /\ serKey' = [serKey EXCEPT ![c.model] = (c.worker :> key @@ key :> key) @@ @]
     /\ serSeries' = IF key \in DOMAIN serKey[c.model] THEN serSeries ELSE serSeries \cup {<<c.model, key, c.at>>}
     /\ serLock' = serLock \ {c.model} /\ SerSet(g, SerNone)
     /\ UNCHANGED <<serSeen, serUsed, serCalls>>

SerNext ==
  \E g \in SerCallers : SerAttemptStarted(g) \/ SerValue(g, "model") \/ SerValue(g, "worker") \/ SerLoad(g) \/ SerTake(g) \/ SerCreate(g)

SerSpec == SerInit /\ [][SerNext]_serVars

-----------------------------------------------------------------------------
(* Properties. *)

\* The family stays within the budget plus one shared child for each model label, however the goroutines race.
SerBounded ==
  /\ Cardinality({s \in serSeries : s[3] = "own"}) <= SerBudget
  /\ Cardinality({<<s[1], s[2]>> : s \in serSeries}) <= SerBudget + SerModelCap + 1

\* "Goroutines racing on the same new value take one slot between them": used counts the children created with a slot,
\* and the additions a goroutine is in the middle of.
SerSlotsExact ==
  serUsed = Cardinality({s \in serSeries : s[3] = "own"}) + Cardinality({g \in SerCallers : serCall[g].adds = 1})

\* "A burst of cold requests cannot exhaust the budget for a fleet that fits in it": a worker of an admitted label is
\* counted under "other" only once the budget is really spent, each slot on a pair of its own.
SerFleetFits ==
  (\E m \in DOMAIN serKey : \E w \in DOMAIN serKey[m] \ {"other"} : serKey[m][w] = "other")
    => Cardinality({<<s[1], s[2]>> : s \in {t \in serSeries : t[3] = "own"}}
                   \cup {<<serCall[g].model, serCall[g].worker>> : g \in {h \in SerCallers : serCall[h].at = "own"}}) = SerBudget

\* A pair never moves to another series: what was counted for it stays the series' own past.
SerPairStays == [][\A m \in DOMAIN serKey : \A w \in DOMAIN serKey[m] : serKey'[m][w] = serKey[m][w]]_serVars

\* The selections family (budgeted) spends its budget once for each pair, is bounded, and keeps a pair where it is.
SerBudgetKept == [](SerBounded /\ SerSlotsExact /\ SerFleetFits) /\ SerPairStays
=============================================================================
