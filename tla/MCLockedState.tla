--------------------------- MODULE MCLockedState ---------------------------
(***************************************************************************)
(* The structures that concurrent handlers share behind a lock, side by    *)
(* side: the admission queue, the retry budget, the key cache and the load *)
(* tracker.  A behaviour picks one of them and only that one moves.        *)
(***************************************************************************)
EXTENDS AdmissionQueue, RetryBudget, KeyCache, LoadTracker

CONSTANT MaxWakeups  \* bound: wake-ups outstanding per model

VARIABLE part  \* the component of this behaviour

(* Four requests compete for the first model, whose queue is deep enough   *)
(* for three; two of them share a tenant with room for one.  A fifth asks  *)
(* for another model, which gets a queue only while the first has none.    *)
MCModelOf == "r1" :> "m1" @@ "r2" :> "m1" @@ "r3" :> "m1" @@ "r4" :> "m1" @@ "r5" :> "m2"
MCTenantOf == "r1" :> "acme" @@ "r2" :> "acme" @@ "r3" :> "" @@ "r4" :> "" @@ "r5" :> ""

(* The second request may ask for a key that does not exist yet. *)
MCAsks == 1 :> {"k1"} @@ 2 :> {"k1", "k2"}

MCCost == "r1" :> 1 @@ "r2" :> 2

-----------------------------------------------------------------------------
MCInit ==
  /\ part \in {"queue", "budget", "keys", "loads"}
  /\ Init /\ BudInit /\ KeyInit /\ TrkInit

MCWakeupsBounded == \A m \in Models : Wakeups(m)' <= MaxWakeups

MCNext ==
  /\ UNCHANGED part
  /\ \/ part = "queue" /\ Next /\ MCWakeupsBounded /\ UNCHANGED <<budVars, keyVars, trkVars>>
     \/ part = "budget" /\ BudNext /\ UNCHANGED <<queueVars, keyVars, trkVars>>
     \/ part = "keys" /\ KeyNext /\ UNCHANGED <<queueVars, budVars, trkVars>>
     \/ part = "loads" /\ TrkNext /\ UNCHANGED <<queueVars, budVars, keyVars>>

MCSpec == MCInit /\ [][MCNext]_<<part, queueVars, budVars, keyVars, trkVars>>
=============================================================================
