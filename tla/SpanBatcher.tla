---------------------------- MODULE SpanBatcher -----------------------------
(***************************************************************************)
(* The span processor of the gateway's tracing (tracing/processor.go):     *)
(* request goroutines end spans and never block, one worker goroutine      *)
(* batches and exports them, ForceFlush and Shutdown talk to the worker    *)
(* through channels, and the collector may fail. Spans are alike, and the  *)
(* queue is first in, first out, so counts stand for them.                 *)
(***************************************************************************)
EXTENDS Naturals, FiniteSets

CONSTANTS BatEnders, BatSpans,  \* the goroutines that end spans, and how many each ends
          BatQueueSize, BatMaxBatch

ASSUME BatAssumption ==
  /\ IsFiniteSet(BatEnders) /\ BatSpans \in Nat /\ BatQueueSize \in Nat \ {0} /\ BatMaxBatch \in Nat \ {0}

VARIABLES
  batEnder,                                     \* each goroutine: between spans, or past the check of closed
  batQueue, batBatch, batRun, batDrain,         \* the channel, the worker's batch, where it is, and what it drains for
  batClosed, batStop, batLate,                  \* closed, stop, and whether the shutdown's deadline has passed
  batFlush, batShut,                            \* the callers of ForceFlush and Shutdown
  batEnded, batExported, batFailed, batDropped, \* the counters
  batIn,                                        \* history: how many spans entered the queue
  batClosedAt                                   \* history: how many had when Shutdown set closed

batVars == <<batEnder, batQueue, batBatch, batRun, batDrain, batClosed, batStop, batLate, batFlush, batShut, batEnded,
             batExported, batFailed, batDropped, batIn, batClosedAt>>
batCounters == <<batEnded, batExported, batFailed, batDropped>>
batControl == <<batClosed, batStop, batLate, batFlush, batShut, batClosedAt>>

BatInit ==
  /\ batEnder = [g \in BatEnders |-> [at |-> "idle", left |-> BatSpans]]
  /\ batQueue = 0 /\ batBatch = 0 /\ batRun = "select" /\ batDrain = "none"
  /\ batClosed = FALSE /\ batStop = FALSE /\ batLate = FALSE
  /\ batFlush = [at |-> "idle", mark |-> 0] /\ batShut = "idle"
  /\ batEnded = 0 /\ batExported = 0 /\ batFailed = 0 /\ batDropped = 0 /\ batIn = 0 /\ batClosedAt = 0

\* OnEnd up to the check of closed: counted as ended, and dropped when closed.
BatOnEnd(g) ==
  /\ batEnder[g].at = "idle" /\ batEnder[g].left > 0 /\ batEnded' = batEnded + 1
  /\ batEnder' = [batEnder EXCEPT ![g] = [at |-> IF batClosed THEN "idle" ELSE "send", left |-> @.left - 1]]
  /\ batDropped' = IF batClosed THEN batDropped + 1 ELSE batDropped
  /\ UNCHANGED <<batQueue, batBatch, batRun, batDrain, batControl, batExported, batFailed, batIn>>

\* The send that never blocks.
BatEnqueue(g) ==
  /\ batEnder[g].at = "send" /\ batEnder' = [batEnder EXCEPT ![g].at = "idle"]
  /\ IF batQueue < BatQueueSize
     THEN batQueue' = batQueue + 1 /\ batIn' = batIn + 1 /\ UNCHANGED batDropped
     ELSE batDropped' = batDropped + 1 /\ UNCHANGED <<batQueue, batIn>>
  /\ UNCHANGED <<batBatch, batRun, batDrain, batControl, batEnded, batExported, batFailed>>

\* run's select: a span, the timer, a flush request, or stop.
BatReceive ==
  /\ batRun = "select" /\ batQueue > 0 /\ batQueue' = batQueue - 1 /\ batBatch' = batBatch + 1
  /\ batRun' = IF batBatch + 1 >= BatMaxBatch THEN "export" ELSE "select"
  /\ UNCHANGED <<batEnder, batDrain, batControl, batCounters, batIn>>

BatTimer ==
  /\ batRun = "select" /\ batBatch > 0 /\ batRun' = "export"
  /\ UNCHANGED <<batEnder, batQueue, batBatch, batDrain, batControl, batCounters, batIn>>

BatFlushAsked ==
  /\ batRun = "select" /\ batFlush.at = "asking"
  /\ batFlush' = [batFlush EXCEPT !.at = "waiting"] /\ batRun' = "drain" /\ batDrain' = "flush"
  /\ UNCHANGED <<batEnder, batQueue, batBatch, batClosed, batClosedAt, batStop, batLate, batShut, batCounters, batIn>>

(* Mutant: stop is looked at only while a batch is being collected. *)
BatStopSeenEmpty ==
  /\ batRun = "select" /\ batStop /\ batBatch > 0 /\ batRun' = "drain" /\ batDrain' = "stop"
  /\ UNCHANGED <<batEnder, batQueue, batBatch, batControl, batCounters, batIn>>

BatStopSeen ==
  /\ batRun = "select" /\ batStop /\ batRun' = "drain" /\ batDrain' = "stop"
  /\ UNCHANGED <<batEnder, batQueue, batBatch, batControl, batCounters, batIn>>

\* drain: fill a batch, then export it, or drop it once the shutdown's context is over; return when there is none.
BatFill ==
  /\ batRun = "drain" /\ batBatch < BatMaxBatch /\ batQueue > 0
  /\ batQueue' = batQueue - 1 /\ batBatch' = batBatch + 1
  /\ UNCHANGED <<batEnder, batRun, batDrain, batControl, batCounters, batIn>>

(* Mutant: a flush is acknowledged after its first batch was collected. *)
BatFilledOnce ==
  /\ batRun = "drain" /\ (batBatch = BatMaxBatch \/ batQueue = 0)
  /\ LET over == batDrain = "stop" /\ batLate IN
     /\ batRun' = CASE batBatch = 0 -> IF batDrain = "stop" THEN "sweep" ELSE "select"
                    [] batBatch > 0 /\ over -> "drain"
                    [] OTHER -> "export"
     /\ batDropped' = IF over THEN batDropped + batBatch ELSE batDropped
     /\ batBatch' = IF over THEN 0 ELSE batBatch
     /\ batFlush' = IF batDrain = "flush" /\ batFlush.at = "waiting" THEN [batFlush EXCEPT !.at = "flushed"] ELSE batFlush
     /\ batDrain' = IF batBatch = 0 THEN "none" ELSE batDrain
  /\ UNCHANGED <<batEnder, batQueue, batClosed, batClosedAt, batStop, batLate, batShut, batEnded, batExported, batFailed, batIn>>

BatFilled ==
  /\ batRun = "drain" /\ (batBatch = BatMaxBatch \/ batQueue = 0)
  /\ LET over == batDrain = "stop" /\ batLate IN
     /\ batRun' = CASE batBatch = 0 -> IF batDrain = "stop" THEN "sweep" ELSE "select"
                    [] batBatch > 0 /\ over -> "drain"
                    [] OTHER -> "export"
     /\ batDropped' = IF over THEN batDropped + batBatch ELSE batDropped
     /\ batBatch' = IF over THEN 0 ELSE batBatch
     /\ batFlush' = IF batBatch = 0 /\ batDrain = "flush" /\ batFlush.at = "waiting" THEN [batFlush EXCEPT !.at = "flushed"] ELSE batFlush
     /\ batDrain' = IF batBatch = 0 THEN "none" ELSE batDrain
  /\ UNCHANGED <<batEnder, batQueue, batClosed, batClosedAt, batStop, batLate, batShut, batEnded, batExported, batFailed, batIn>>

\* export: the exporter answers before its timeout.
BatExport ==
  /\ batRun = "export" /\ batBatch' = 0 /\ batRun' = IF batDrain = "none" THEN "select" ELSE "drain"
  /\ \/ batExported' = batExported + batBatch /\ UNCHANGED batFailed
     \/ batFailed' = batFailed + batBatch /\ UNCHANGED batExported
  /\ UNCHANGED <<batEnder, batQueue, batDrain, batControl, batEnded, batDropped, batIn>>

\* The end of run: whatever raced in is dropped, then done is closed.
BatSweep ==
  /\ batRun = "sweep"
  /\ IF batQueue > 0
     THEN batQueue' = batQueue - 1 /\ batDropped' = batDropped + 1 /\ UNCHANGED batRun
     ELSE batRun' = "done" /\ UNCHANGED <<batQueue, batDropped>>
  /\ UNCHANGED <<batEnder, batBatch, batDrain, batControl, batEnded, batExported, batFailed, batIn>>

\* ForceFlush: nothing, and nil, when closed; otherwise the request, the worker's exit or the caller's context.
BatForceFlush ==
  /\ \/ batFlush.at = "idle" /\ batFlush' = [at |-> IF batClosed THEN "nothing" ELSE "asking", mark |-> batIn]
     \/ batFlush.at = "asking" /\ batRun = "done" /\ batFlush' = [batFlush EXCEPT !.at = "flushed"]
     \/ batFlush.at \in {"asking", "waiting"} /\ batFlush' = [batFlush EXCEPT !.at = "canceled"]
  /\ UNCHANGED <<batEnder, batQueue, batBatch, batRun, batDrain, batClosed, batClosedAt, batStop, batLate, batShut, batCounters, batIn>>

\* Shutdown: closed, then the deadline and stop; it returns when the worker has exited or its context is over.
BatShutdown ==
  /\ \/ batShut = "idle" /\ batShut' = "closing" /\ batClosed' = TRUE /\ batClosedAt' = batIn /\ UNCHANGED batStop
     \/ batShut = "closing" /\ batShut' = "waiting" /\ batStop' = TRUE /\ UNCHANGED <<batClosed, batClosedAt>>
     \/ batShut = "waiting" /\ (batRun = "done" \/ batLate) /\ batShut' = "returned" /\ UNCHANGED <<batClosed, batClosedAt, batStop>>
  /\ UNCHANGED <<batEnder, batQueue, batBatch, batRun, batDrain, batLate, batFlush, batCounters, batIn>>

BatDeadline ==
  /\ batShut \in {"closing", "waiting"} /\ ~batLate /\ batLate' = TRUE
  /\ UNCHANGED <<batEnder, batQueue, batBatch, batRun, batDrain, batClosed, batClosedAt, batStop, batFlush, batShut, batCounters, batIn>>

BatWorker == BatReceive \/ BatTimer \/ BatFlushAsked \/ BatStopSeen \/ BatFill \/ BatFilled \/ BatExport \/ BatSweep

BatNext ==
  \/ \E g \in BatEnders : BatOnEnd(g) \/ BatEnqueue(g)
  \/ BatWorker \/ BatForceFlush \/ BatShutdown \/ BatDeadline

\* The worker runs, Shutdown goes on once called, and its context has a deadline; nobody has to end spans or shut down.
BatFairness == WF_batVars(BatWorker) /\ WF_batVars(batShut # "idle" /\ BatShutdown) /\ WF_batVars(BatDeadline)

BatSpec == BatInit /\ [][BatNext]_batVars /\ BatFairness

-----------------------------------------------------------------------------
(* Properties. *)

\* Stats: every span that ended is exported, failed, dropped or still waiting, at every step, across a shutdown too.
BatAccounted ==
  batEnded = batExported + batFailed + batDropped + batQueue + batBatch + Cardinality({g \in BatEnders : batEnder[g].at = "send"})

\* ForceFlush "exports what is queued now": once it returns nil with the worker's answer, or because the worker had exited
\* under it, no span that was queued when it was called is still in the queue or in the batch. On a processor that is
\* closed already it returns nil at once and exports nothing, which its comment does not say; the spans queued by then
\* are Shutdown's, and those queued before it closed the processor are out of the queue when the worker has exited.
BatFlushCovers ==
  LET out == batIn - (batQueue + batBatch) IN
  /\ batFlush.at = "flushed" => batFlush.mark <= out
  /\ batRun = "done" => batClosedAt <= out

\* The worker never exports more than a batch, and nothing is dropped for the shutdown before it was asked for.
BatBounded == batBatch <= BatMaxBatch /\ batQueue <= BatQueueSize /\ (batRun \in {"sweep", "done"} => batStop /\ batBatch = 0)

\* A shutdown ends the worker, whatever the exporter answers and the goroutines still do, and Shutdown returns.
BatShutdownEnds == batShut # "idle" ~> (batRun = "done" /\ batShut = "returned")

\* Spans are accounted for, flushed when asked and batched within bounds (OnEnd, fill, ForceFlush, Shutdown).
BatSafe == BatAccounted /\ BatFlushCovers /\ BatBounded
=============================================================================
