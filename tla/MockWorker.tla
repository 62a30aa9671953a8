----------------------------- MODULE MockWorker -----------------------------
(***************************************************************************)
(* The mock worker's HTTP server (mockworker/server.go): the chat handler, *)
(* the generation slots with their bounded queue (mockworker/engine.go),   *)
(* run-time faults (mockworker/faults.go) and Serve, which drains the      *)
(* worker while handlers are at every possible point. Shared words are     *)
(* atomics, so each read and write of one is a step.                       *)
(***************************************************************************)
EXTENDS Integers, Sequences, FiniteSets, SequencesExt

CONSTANTS WrkRequests, WrkMaxActive, WrkMaxQueue, WrkAnnounce,
          WrkMaxFaults  \* bound: faults injected and clients that go away, together

ASSUME WrkAssumption == WrkMaxActive \in Nat \ {0} /\ WrkMaxQueue \in Nat /\ WrkAnnounce \in BOOLEAN /\ WrkMaxFaults \in Nat

VARIABLES
  wrkState, wrkAnnouncing, wrkInflight,  \* the server's atomics
  wrkServe,                              \* where Serve is
  wrkUp,                                 \* a listener is open (FALSE after a crash)
  wrkAt, wrkGone,                        \* each handler, and whether its client has gone
  wrkActive, wrkQueue, wrkGranted,       \* the Engine
  wrkHole, wrkFaults,                    \* the blackhole fault; faults injected and clients gone so far
  wrkCounted                             \* the Engine's counters, by request: how it was counted

wrkHandlers == <<wrkAt, wrkGone>>
wrkEngine == <<wrkActive, wrkQueue, wrkGranted>>
wrkServer == <<wrkState, wrkAnnouncing, wrkServe, wrkUp>>
wrkVars == <<wrkServer, wrkInflight, wrkHandlers, wrkEngine, wrkHole, wrkFaults, wrkCounted>>

WrkInit ==
  /\ wrkState \in {"starting", "ready"} /\ wrkAnnouncing = FALSE /\ wrkInflight = 0 /\ wrkServe = "serving" /\ wrkUp = TRUE
  /\ wrkAt = [r \in WrkRequests |-> "new"] /\ wrkGone = [r \in WrkRequests |-> FALSE]
  /\ wrkActive = 0 /\ wrkQueue = <<>> /\ wrkGranted = {} /\ wrkHole = FALSE /\ wrkFaults = 0
  /\ wrkCounted = [r \in WrkRequests |-> <<>>]

WrkGo(r, at) == wrkAt' = [wrkAt EXCEPT ![r] = at]
WrkCount(r, how) == wrkCounted' = [wrkCounted EXCEPT ![r] = Append(@, how)]

\* StartupDelay over: only a worker that is still starting becomes ready.
WrkReadyTimer ==
  /\ wrkServe \in {"serving", "unheld", "announcing"} /\ wrkState' = (IF wrkState = "starting" THEN "ready" ELSE wrkState) /\ wrkState # wrkState'
  /\ UNCHANGED <<wrkAnnouncing, wrkServe, wrkUp, wrkInflight, wrkHandlers, wrkEngine, wrkHole, wrkFaults, wrkCounted>>

-----------------------------------------------------------------------------
(* handleChat. *)

\* The request is counted before readiness is checked.
WrkArrive(r) ==
  /\ wrkAt[r] = "new" /\ wrkUp /\ WrkGo(r, "check") /\ wrkInflight' = wrkInflight + 1
  /\ UNCHANGED <<wrkServer, wrkGone, wrkEngine, wrkHole, wrkFaults, wrkCounted>>

(* Mutant: a draining worker serves whatever it announced. *)
WrkCheckCached(r) ==
  /\ \/ wrkAt[r] = "check" /\ WrkGo(r, CASE wrkState = "ready" -> "body" [] wrkState = "draining" -> "announced" [] OTHER -> "leave")
     \/ wrkAt[r] = "announced" /\ WrkGo(r, IF WrkAnnounce THEN "body" ELSE "leave")
  /\ UNCHANGED <<wrkServer, wrkInflight, wrkGone, wrkEngine, wrkHole, wrkFaults, wrkCounted>>

WrkCheck(r) ==
  /\ \/ wrkAt[r] = "check" /\ WrkGo(r, CASE wrkState = "ready" -> "body" [] wrkState = "draining" -> "announced" [] OTHER -> "leave")
     \/ wrkAt[r] = "announced" /\ WrkGo(r, IF wrkAnnouncing THEN "body" ELSE "leave")
  /\ UNCHANGED <<wrkServer, wrkInflight, wrkGone, wrkEngine, wrkHole, wrkFaults, wrkCounted>>

\* The body is read and parsed, or refused; then the blackhole.
WrkBody(r) ==
  /\ wrkAt[r] = "body" /\ (WrkGo(r, "leave") \/ WrkGo(r, IF wrkHole THEN "held" ELSE "roll"))
  /\ UNCHANGED <<wrkServer, wrkInflight, wrkGone, wrkEngine, wrkHole, wrkFaults, wrkCounted>>

WrkHeldGivesUp(r) ==
  /\ wrkAt[r] = "held" /\ wrkGone[r] /\ WrkGo(r, "leave")
  /\ UNCHANGED <<wrkServer, wrkInflight, wrkGone, wrkEngine, wrkHole, wrkFaults, wrkCounted>>

\* Failure injection: an error or a drop now, a midstream failure later, or none.
WrkRoll(r) ==
  /\ wrkAt[r] = "roll"
  /\ \/ WrkCount(r, "failed") /\ WrkGo(r, "leave")
     \/ WrkGo(r, "acquire") /\ UNCHANGED wrkCounted
  /\ UNCHANGED <<wrkServer, wrkInflight, wrkGone, wrkEngine, wrkHole, wrkFaults>>

\* Acquire under the Engine's lock: a slot, a place in the queue, or refused.
WrkAcquire(r) ==
  /\ wrkAt[r] = "acquire"
  /\ CASE wrkActive < WrkMaxActive /\ wrkQueue = <<>> ->
            wrkActive' = wrkActive + 1 /\ WrkGo(r, "run") /\ UNCHANGED <<wrkQueue, wrkCounted>>
       [] ~(wrkActive < WrkMaxActive /\ wrkQueue = <<>>) /\ Len(wrkQueue) >= WrkMaxQueue ->
            WrkCount(r, "rejected") /\ WrkGo(r, "leave") /\ UNCHANGED <<wrkActive, wrkQueue>>
       [] OTHER -> wrkQueue' = Append(wrkQueue, r) /\ WrkGo(r, "wait") /\ UNCHANGED <<wrkActive, wrkCounted>>
  /\ UNCHANGED <<wrkServer, wrkInflight, wrkGone, wrkGranted, wrkHole, wrkFaults>>

\* releaseLocked: the slot goes straight to the oldest waiter.
WrkReleaseLocked ==
  /\ wrkActive' = IF wrkQueue = <<>> THEN wrkActive - 1 ELSE wrkActive
  /\ wrkQueue' = IF wrkQueue = <<>> THEN wrkQueue ELSE Tail(wrkQueue)

WrkGranted(r) ==
  /\ wrkAt[r] = "wait" /\ r \in wrkGranted /\ WrkGo(r, "run") /\ wrkGranted' = wrkGranted \ {r}
  /\ UNCHANGED <<wrkServer, wrkInflight, wrkGone, wrkActive, wrkQueue, wrkHole, wrkFaults, wrkCounted>>

\* abandon: leave the queue, or pass on a slot handed over at the same moment.
WrkAbandon(r) ==
  /\ wrkAt[r] = "wait" /\ wrkGone[r] /\ WrkGo(r, "leave") /\ WrkCount(r, "cancelled")
  /\ IF r \in wrkGranted
     THEN WrkReleaseLocked /\ wrkGranted' = (wrkGranted \ {r}) \cup (IF wrkQueue = <<>> THEN {} ELSE {Head(wrkQueue)})
     ELSE wrkQueue' = SelectSeq(wrkQueue, LAMBDA x : x # r) /\ UNCHANGED <<wrkActive, wrkGranted>>
  /\ UNCHANGED <<wrkServer, wrkInflight, wrkGone, wrkHole, wrkFaults>>

\* The extra delay, the tokens and the record of the outcome: the client leaves during the delay (nothing is recorded) or
\* during generation, the midstream failure strikes, or the response is complete.
WrkGenerate(r) ==
  /\ wrkAt[r] = "run" /\ WrkGo(r, "release")
  /\ \/ wrkGone[r] /\ UNCHANGED wrkCounted
     \/ wrkGone[r] /\ WrkCount(r, "cancelled")
     \/ WrkCount(r, "completed") \/ WrkCount(r, "failed")
  /\ UNCHANGED <<wrkServer, wrkInflight, wrkGone, wrkEngine, wrkHole, wrkFaults>>

WrkRelease(r) ==
  /\ wrkAt[r] = "release" /\ WrkGo(r, "leave") /\ WrkReleaseLocked
  /\ wrkGranted' = wrkGranted \cup (IF wrkQueue = <<>> THEN {} ELSE {Head(wrkQueue)})
  /\ UNCHANGED <<wrkServer, wrkInflight, wrkGone, wrkHole, wrkFaults, wrkCounted>>

WrkLeave(r) ==
  /\ wrkAt[r] = "leave" /\ WrkGo(r, "ended") /\ wrkInflight' = wrkInflight - 1
  /\ UNCHANGED <<wrkServer, wrkGone, wrkEngine, wrkHole, wrkFaults, wrkCounted>>

WrkClientGone(r) ==
  /\ wrkAt[r] \notin {"new", "ended"} /\ ~wrkGone[r] /\ wrkGone' = [wrkGone EXCEPT ![r] = TRUE]
  /\ wrkFaults < WrkMaxFaults /\ wrkFaults' = wrkFaults + 1
  /\ UNCHANGED <<wrkServer, wrkInflight, wrkAt, wrkEngine, wrkHole, wrkCounted>>

-----------------------------------------------------------------------------
(* Faults and Serve. *)

WrkUnheld == [r \in WrkRequests |-> IF wrkAt[r] = "held" THEN "roll" ELSE wrkAt[r]]

\* SetBlackhole: clearing it lets the held requests go on.
WrkSetBlackhole ==
  /\ wrkFaults < WrkMaxFaults /\ wrkFaults' = wrkFaults + 1 /\ wrkHole' = ~wrkHole /\ wrkAt' = IF wrkHole THEN WrkUnheld ELSE wrkAt
  /\ UNCHANGED <<wrkServer, wrkInflight, wrkGone, wrkEngine, wrkCounted>>

\* Every open connection is reset.
WrkReset == wrkGone' = [r \in WrkRequests |-> wrkGone[r] \/ wrkAt[r] \notin {"new", "ended"}]

\* Crash resets every connection; Restart listens again.
WrkCrash ==
  /\ wrkServe = "serving" /\ wrkUp /\ wrkFaults < WrkMaxFaults /\ wrkFaults' = wrkFaults + 1 /\ wrkUp' = FALSE
  /\ WrkReset
  /\ UNCHANGED <<wrkState, wrkAnnouncing, wrkServe, wrkInflight, wrkAt, wrkEngine, wrkHole, wrkCounted>>

WrkRestart ==
  /\ wrkServe = "serving" /\ ~wrkUp /\ wrkUp' = TRUE
  /\ UNCHANGED <<wrkState, wrkAnnouncing, wrkServe, wrkInflight, wrkHandlers, wrkEngine, wrkHole, wrkFaults, wrkCounted>>

\* Serve after its context ended: the blackhole off, announcing on, then draining, the announce period, and the wait for
\* the handlers, which the drain timeout bounds.
WrkDrainBegins ==
  /\ wrkServe = "serving" /\ wrkServe' = "unheld" /\ wrkHole' = FALSE /\ wrkAt' = WrkUnheld /\ wrkAnnouncing' = WrkAnnounce
  /\ UNCHANGED <<wrkState, wrkUp, wrkInflight, wrkGone, wrkEngine, wrkFaults, wrkCounted>>

WrkDraining ==
  /\ wrkServe = "unheld" /\ wrkServe' = "announcing" /\ wrkState' = "draining"
  /\ UNCHANGED <<wrkAnnouncing, wrkUp, wrkInflight, wrkHandlers, wrkEngine, wrkHole, wrkFaults, wrkCounted>>

WrkAnnounceOver ==
  /\ wrkServe = "announcing" /\ wrkServe' = "waiting" /\ wrkAnnouncing' = FALSE
  /\ UNCHANGED <<wrkState, wrkUp, wrkInflight, wrkHandlers, wrkEngine, wrkHole, wrkFaults, wrkCounted>>

WrkDrained ==
  /\ wrkServe = "waiting" /\ wrkInflight = 0 /\ wrkServe' = "stopped"
  /\ UNCHANGED <<wrkState, wrkAnnouncing, wrkUp, wrkInflight, wrkHandlers, wrkEngine, wrkHole, wrkFaults, wrkCounted>>

\* The listener and what connections are left are closed: after a clean drain, or when the timeout cuts the requests off.
WrkClose ==
  /\ \/ wrkServe = "stopped" /\ wrkServe' = "clean"
     \/ wrkServe = "waiting" /\ wrkInflight > 0 /\ wrkServe' = "cut"
  /\ wrkUp' = FALSE /\ WrkReset
  /\ UNCHANGED <<wrkState, wrkAnnouncing, wrkInflight, wrkAt, wrkEngine, wrkHole, wrkFaults, wrkCounted>>

WrkHandler(r) ==
  \/ WrkCheck(r) \/ WrkBody(r) \/ WrkHeldGivesUp(r) \/ WrkRoll(r) \/ WrkAcquire(r) \/ WrkGranted(r) \/ WrkAbandon(r)
  \/ WrkGenerate(r) \/ WrkRelease(r) \/ WrkLeave(r)

WrkDrain == WrkDraining \/ WrkAnnounceOver \/ WrkDrained \/ WrkClose

WrkNext ==
  \/ \E r \in WrkRequests : WrkArrive(r) \/ WrkHandler(r) \/ WrkClientGone(r)
  \/ WrkReadyTimer \/ WrkSetBlackhole \/ WrkCrash \/ WrkRestart \/ WrkDrainBegins \/ WrkDrain

WrkSpec == WrkInit /\ [][WrkNext]_wrkVars

-----------------------------------------------------------------------------
(* Properties. *)

WrkAdmitted == {r \in WrkRequests : wrkAt[r] \in {"body", "held", "roll", "acquire", "wait", "run", "release"}}

\* Acquire, abandon and release lose no slot and make none: the slots in use are those of running handlers and of waiters
\* that were just handed one, nobody waits beside a free slot, and the queue is bounded.
WrkSlotsExact ==
  /\ wrkActive = Cardinality({r \in WrkRequests : wrkAt[r] \in {"run", "release"}} \cup wrkGranted) /\ wrkActive <= WrkMaxActive
  /\ (wrkActive < WrkMaxActive => wrkQueue = <<>>) /\ Len(wrkQueue) <= WrkMaxQueue
  /\ \A r \in wrkGranted \cup ToSet(wrkQueue) : wrkAt[r] = "wait"

\* "Once Serve sees zero it is safe to stop, because any later arrival sees draining and is refused": a clean drain cuts
\* off no admitted request, whatever the handlers read before and after.
WrkCleanDrain == wrkServe \in {"stopped", "clean"} => WrkAdmitted = {}

\* A request shows up at most once in completed, failed, rejected and cancelled.
WrkCountedOnce == \A r \in WrkRequests : Len(wrkCounted[r]) <= 1

\* Draining is for good, though the startup timer may fire after it.
WrkDrainSticks == [][wrkState = "draining" => wrkState' = "draining"]_wrkVars

\* A worker's slots, counters and drain (acquire, abandon, release, Serve): no slot is lost, nothing is counted twice,
\* and a drain is clean and for good.
WrkSafe == [](WrkSlotsExact /\ WrkCleanDrain /\ WrkCountedOnce) /\ WrkDrainSticks
=============================================================================
