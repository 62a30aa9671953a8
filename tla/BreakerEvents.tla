---------------------------- MODULE BreakerEvents ----------------------------
(***************************************************************************)
(* How breaker transitions reach the observers, and how the router's       *)
(* shortcut counter follows them: Breakers.unlock, and push, flush and     *)
(* sync of internal/gateway/resilience.go.                                 *)
(*                                                                         *)
(* A transition happens under the breakers' mutex; its hook (push) runs    *)
(* after that mutex is dropped: first the counter, then, under qmu, the    *)
(* queue.  flush is the only reader of the queue.                          *)
(***************************************************************************)
EXTENDS Integers, Sequences, FiniteSets

CONSTANTS BevProcs,       \* goroutines: requests, the refresher, a scrape
          BevWorkers,
          BevMaxPending,  \* maxPendingChanges
          BevMaxChanges   \* bound: transitions of one worker

ASSUME EventsAssumption ==
    /\ IsFiniteSet(BevProcs) /\ IsFiniteSet(BevWorkers)
    /\ BevMaxPending \in Nat \ {0}
    /\ BevMaxChanges \in Nat

VARIABLES bevEjected,    \* workers whose breaker is not closed
          bevSerial,     \* worker -> transitions so far
          bevPc,         \* process -> where it is
          bevChange,     \* process -> the transition it carries to the queue
          bevQueue, bevFlushing, bevDropped,
          bevBatch,      \* process -> what it took from the queue
          bevNonClosed,  \* the router's shortcut counter
          bevSnap,       \* process -> the count its sync has read
          bevDelivered,  \* history: what observers were told, in order
          bevReported    \* history: how many drops were logged

bevFlushVars == <<bevQueue, bevFlushing, bevDropped, bevBatch, bevDelivered, bevReported>>
bevVars == <<bevEjected, bevSerial, bevPc, bevChange, bevNonClosed, bevSnap, bevFlushVars>>

BevNoChange == [w |-> "none", n |-> 0, opens |-> FALSE, own |-> FALSE]

BevInit ==
    /\ bevEjected = {}
    /\ bevSerial = [w \in BevWorkers |-> 0]
    /\ bevPc = [p \in BevProcs |-> "idle"]
    /\ bevChange = [p \in BevProcs |-> BevNoChange]
    /\ bevQueue = <<>> /\ bevFlushing = FALSE /\ bevDropped = 0
    /\ bevBatch = [p \in BevProcs |-> <<>>]
    /\ bevNonClosed = 0
    /\ bevSnap = [p \in BevProcs |-> 0]
    /\ bevDelivered = <<>>
    /\ bevReported = 0

BevGo(p, from, to) == bevPc[p] = from /\ bevPc' = [bevPc EXCEPT ![p] = to]

(* A call of Breakers moves one worker to or from Closed.  own: its caller *)
(* flushes afterwards (routings and verdicts do; a metrics scrape and      *)
(* wakeWaiters leave the event to the next flush).                         *)
BevTransition(p, w, own) ==
    /\ bevSerial[w] < BevMaxChanges
    /\ BevGo(p, "idle", "hook")
    /\ bevEjected' = IF w \in bevEjected THEN bevEjected \ {w} ELSE bevEjected \cup {w}
    /\ bevSerial' = [bevSerial EXCEPT ![w] = @ + 1]
    /\ bevChange' = [bevChange EXCEPT ![p] =
                    [w |-> w, n |-> bevSerial[w] + 1, opens |-> w \notin bevEjected, own |-> own]]
    /\ UNCHANGED <<bevNonClosed, bevSnap, bevFlushVars>>

(* push: the counter, *)
BevPushCounts(p) ==
    /\ BevGo(p, "hook", "push")
    /\ bevNonClosed' = bevNonClosed + (IF bevChange[p].opens THEN 1 ELSE -1)
    /\ UNCHANGED <<bevEjected, bevSerial, bevChange, bevSnap, bevFlushVars>>

(* then the bounded queue. *)
BevPushQueues(p) ==
    /\ BevGo(p, "push", IF bevChange[p].own THEN "flush" ELSE "idle")
    /\ IF Len(bevQueue) >= BevMaxPending
       THEN bevDropped' = bevDropped + 1 /\ UNCHANGED bevQueue
       ELSE bevQueue' = Append(bevQueue, bevChange[p]) /\ UNCHANGED bevDropped
    /\ bevChange' = [bevChange EXCEPT ![p] = BevNoChange]
    /\ UNCHANGED <<bevEjected, bevSerial, bevNonClosed, bevSnap, bevFlushing, bevBatch, bevDelivered, bevReported>>

(* flush: the CompareAndSwap; somebody else is delivering, or I am. *)
BevFlushEnters(p) ==
    /\ BevGo(p, "flush", IF bevFlushing THEN "idle" ELSE "take")
    /\ bevFlushing' = TRUE
    /\ UNCHANGED <<bevEjected, bevSerial, bevChange, bevNonClosed, bevSnap, bevQueue, bevDropped, bevBatch, bevDelivered, bevReported>>

BevFlushTakes(p) ==
    /\ BevGo(p, "take", IF bevQueue = <<>> THEN "leave" ELSE "dispatch")
    /\ bevBatch' = [bevBatch EXCEPT ![p] = bevQueue]
    /\ bevQueue' = <<>>
    /\ UNCHANGED <<bevEjected, bevSerial, bevChange, bevNonClosed, bevSnap, bevFlushing, bevDropped, bevDelivered, bevReported>>

BevFlushDispatches(p) ==
    /\ BevGo(p, "dispatch", IF Len(bevBatch[p]) = 1 THEN "take" ELSE "dispatch")
    /\ bevDelivered' = Append(bevDelivered, Head(bevBatch[p]))
    /\ bevBatch' = [bevBatch EXCEPT ![p] = Tail(@)]
    /\ UNCHANGED <<bevEjected, bevSerial, bevChange, bevNonClosed, bevSnap, bevQueue, bevFlushing, bevDropped, bevReported>>

BevFlushLeaves(p) ==
    /\ BevGo(p, "leave", "warn")
    /\ bevFlushing' = FALSE
    /\ UNCHANGED <<bevEjected, bevSerial, bevChange, bevNonClosed, bevSnap, bevQueue, bevDropped, bevBatch, bevDelivered, bevReported>>

BevFlushWarns(p) ==
    /\ BevGo(p, "warn", "recheck")
    /\ bevDropped' = 0
    /\ bevReported' = bevReported + bevDropped
    /\ UNCHANGED <<bevEjected, bevSerial, bevChange, bevNonClosed, bevSnap, bevQueue, bevFlushing, bevBatch, bevDelivered>>

(* Mutant: flush returns without looking again. *)
BevFlushReturns(p) ==
    /\ BevGo(p, "recheck", "idle")
    /\ UNCHANGED <<bevEjected, bevSerial, bevChange, bevNonClosed, bevSnap, bevFlushVars>>

(* What was pushed between the last take and the Store must not wait. *)
BevFlushRechecks(p) ==
    /\ BevGo(p, "recheck", IF bevQueue = <<>> THEN "idle" ELSE "flush")
    /\ UNCHANGED <<bevEjected, bevSerial, bevChange, bevNonClosed, bevSnap, bevFlushVars>>

(* sync: the Snapshot of the breakers is counted, *)
BevSyncCounts(p) ==
    /\ BevGo(p, "idle", "store")
    /\ \A q \in BevProcs : bevPc[q] # "store"   \* syncMu
    /\ bevSnap' = [bevSnap EXCEPT ![p] = Cardinality(bevEjected)]
    /\ UNCHANGED <<bevEjected, bevSerial, bevChange, bevNonClosed, bevFlushVars>>

(* Mutant: the counter is only ever corrected upwards. *)
BevSyncRaises(p) ==
    /\ BevGo(p, "store", "flush")
    /\ bevNonClosed' = IF bevSnap[p] > bevNonClosed THEN bevSnap[p] ELSE bevNonClosed
    /\ bevSnap' = [bevSnap EXCEPT ![p] = 0]
    /\ UNCHANGED <<bevEjected, bevSerial, bevChange, bevFlushVars>>

(* and stored in a later step. *)
BevSyncStores(p) ==
    /\ BevGo(p, "store", "flush")
    /\ bevNonClosed' = bevSnap[p]
    /\ bevSnap' = [bevSnap EXCEPT ![p] = 0]
    /\ UNCHANGED <<bevEjected, bevSerial, bevChange, bevFlushVars>>

BevPushes(p) == BevPushCounts(p) \/ BevPushQueues(p)
BevFlushes(p) ==
    \/ BevFlushEnters(p) \/ BevFlushTakes(p) \/ BevFlushDispatches(p)
    \/ BevFlushLeaves(p) \/ BevFlushWarns(p) \/ BevFlushRechecks(p)
BevSyncs(p) == BevSyncCounts(p) \/ BevSyncStores(p)

BevNext ==
    \E p \in BevProcs :
        \/ \E w \in BevWorkers, own \in BOOLEAN : BevTransition(p, w, own)
        \/ BevPushes(p) \/ BevFlushes(p) \/ BevSyncs(p)

BevSpec == BevInit /\ [][BevNext]_bevVars

(* Goroutines that have begun go on, and the refresh loop keeps syncing. *)
BevFairSpec ==
    /\ BevSpec
    /\ \A p \in BevProcs : WF_bevVars(BevPushes(p) \/ BevFlushes(p) \/ BevSyncStores(p))
    /\ WF_bevVars(\E p \in BevProcs : BevSyncCounts(p))

-----------------------------------------------------------------------------
(* Properties *)

BevDelivering == {"take", "dispatch", "leave"}

(* Every variable holds a value of its kind; the queue keeps its bound.    *)
BevTypeOK ==
    /\ bevEjected \subseteq BevWorkers
    /\ bevSerial \in [BevWorkers -> 0 .. BevMaxChanges]
    /\ bevPc \in [BevProcs -> {"idle", "hook", "push", "flush", "warn", "recheck", "store"} \cup BevDelivering]
    /\ Len(bevQueue) <= BevMaxPending
    /\ bevFlushing \in BOOLEAN
    /\ bevNonClosed \in Int
    /\ bevDropped \in Nat

(* flush's comment: only one goroutine delivers at a time, and the flag    *)
(* says exactly whether one does.                                          *)
OneDeliverer ==
    LET busy == {p \in BevProcs : bevPc[p] \in BevDelivering}
    IN  Cardinality(busy) = (IF bevFlushing THEN 1 ELSE 0)

(* flush's comment: "the others return at once and the running one picks   *)
(* their transitions up".  A transition whose own goroutine flushes is     *)
(* never left in the queue with nobody on the way to it, although the flag *)
(* is cleared after the queue was seen empty.                              *)
NoEventStranded ==
    (\E i \in DOMAIN bevQueue : bevQueue[i].own)
        => \E p \in BevProcs : bevPc[p] \in BevDelivering \cup {"flush", "warn", "recheck"}

(* Every transition reaches the observers once or is counted as dropped at *)
(* the bound: none is delivered twice and none vanishes on its way through *)
(* the hook, the queue and a batch.                                        *)
EveryEventAccounted ==
    LET carried == {p \in BevProcs : bevPc[p] \in {"hook", "push"}}
        Events(seq) == {<<seq[i].w, seq[i].n>> : i \in DOMAIN seq}
        batched == UNION {Events(bevBatch[p]) : p \in BevProcs}
        known == Events(bevDelivered) \cup Events(bevQueue) \cup batched
    IN  /\ Cardinality(Events(bevDelivered)) = Len(bevDelivered)
        /\ Cardinality(known) + Cardinality(carried) + bevDropped + bevReported
             = Cardinality({e \in BevWorkers \X (1 .. BevMaxChanges) : e[2] <= bevSerial[e[1]]})

(* The shortcut counter is only approximate (its Add and a sync's Store    *)
(* race), but once transitions stop, the syncs make it right for good:     *)
(* the router does not go on skipping the breakers of ejected workers.     *)
CounterConverges == <>[](bevNonClosed = Cardinality(bevEjected))

(* flush's comment: "events of a worker never overtake each other". *)
EventsInOrder ==
    \A i, j \in DOMAIN bevDelivered :
        i < j /\ bevDelivered[i].w = bevDelivered[j].w => bevDelivered[i].n < bevDelivered[j].n

(* Delivery of breaker events (push, flush): one goroutine at a time, and  *)
(* every event delivered once, dropped and counted, or on its way.         *)
BevSafe == BevTypeOK /\ OneDeliverer /\ NoEventStranded /\ EveryEventAccounted
=============================================================================
