----------------------------- MODULE SimEngine ------------------------------
(***************************************************************************)
(* The mock worker's simulator: the continuous-batching engine             *)
(* (sim/engine/engine.go), a state machine over virtual time, and its      *)
(* real-time driver (mockworker/sim.go), in which the request handlers     *)
(* themselves advance the engine and take the events addressed to them.    *)
(* How long an iteration takes is left out; that it ends is not. Request   *)
(* names stand for the engine's sequence numbers.                          *)
(***************************************************************************)
EXTENDS Integers, Sequences, FiniteSets, FiniteSetsExt, SequencesExt

CONSTANTS SimRequests, SimInput, SimTarget,  \* the requests, their prompt tokens and the output drawn for them
          SimMaxSeqs, SimMaxQueue, SimBudget, SimChunk,  \* SimChunk 0: prefills are not chunked
          SimMaxLag  \* a bound on the events a slow handler has not taken when the engine goes on

\* Config.Validate
SimValid == SimMaxSeqs \in Nat \ {0} /\ SimMaxQueue \in Nat /\ SimBudget \in Nat /\ SimChunk \in Nat

ASSUME SimAssumption ==
  SimValid /\ SimInput \in [SimRequests -> Nat \ {0}] /\ SimTarget \in [SimRequests -> Nat \ {0}] /\ SimMaxLag \in Nat

VARIABLES
  simWaiting, simPrefilling, simRunning,  \* the engine's lists
  simSeq,      \* each request's sequence: tokens generated, KV tokens held, tokens to prefill, prefilled, started
  simIter,     \* the iteration under way
  simPhase,    \* "free", or where the call that holds the driver's lock is
  simTodo, simGuard,
  simStream,   \* the driver's streams: each live request's events not yet taken
  simHandler   \* each handler: where it is, the tokens it got, and how the request ended

simLists == <<simWaiting, simPrefilling, simRunning>>
simVars == <<simLists, simSeq, simIter, simPhase, simTodo, simGuard, simStream, simHandler>>

SimNoSeq == [gen |-> 0, held |-> 0, goal |-> 0, done |-> 0, started |-> FALSE]
SimIdle == [busy |-> FALSE, prefill |-> "none", chunk |-> 0, decode |-> <<>>]
SimNoHandler == [at |-> "new", got |-> 0, end |-> "none"]

SimInit ==
  /\ simWaiting = <<>> /\ simPrefilling = <<>> /\ simRunning = <<>> /\ simSeq = [r \in SimRequests |-> SimNoSeq]
  /\ simIter = SimIdle /\ simPhase = "free" /\ simTodo = <<>> /\ simGuard = 0
  /\ simStream = [r \in {} |-> <<>>] /\ simHandler = [r \in SimRequests |-> SimNoHandler]

SimLive == ToSet(simWaiting) \cup ToSet(simPrefilling) \cup ToSet(simRunning)
SimWithout(list, r) == SelectSeq(list, LAMBDA x : x # r)
simKV == MapThenSumSet(LAMBDA r : simSeq[r].held, SimRequests)

\* dispatchLocked: an event goes to its request's stream, if that exists.
SimSay(r, evs) == simStream' = IF r \in DOMAIN simStream THEN [simStream EXCEPT ![r] = @ \o evs] ELSE simStream
SimEv(kind, index) == [kind |-> kind, index |-> index]

\* emitToken of a request now in the given running list: the next token, and with the last one the end of the request.
SimEmit(r, running) ==
  LET n == simSeq[r].gen
      last == n + 1 >= SimTarget[r]
  IN /\ SimSay(r, <<SimEv("token", n)>> \o IF last THEN <<SimEv("done", n + 1)>> ELSE <<>>)
     /\ simSeq' = [simSeq EXCEPT ![r].gen = n + 1, ![r].held = IF last THEN 0 ELSE @]
     /\ simRunning' = IF last THEN SimWithout(running, r) ELSE running

-----------------------------------------------------------------------------
(* A call of the engine, made under the driver's lock, in the steps it takes. *)

\* advanceTo past the end of an iteration: some handler in next() is waiting for it.
SimAdvance ==
  /\ simPhase = "free" /\ simIter.busy /\ \E r \in SimRequests : simHandler[r].at \in {"queued", "serving"}
  /\ \A r \in DOMAIN simStream : Len(simStream[r]) <= SimMaxLag
  /\ simPhase' = "decode" /\ simTodo' = simIter.decode
  /\ UNCHANGED <<simLists, simSeq, simIter, simGuard, simStream, simHandler>>

\* finishIteration: a token for every decoded sequence that is still running, then the prefill.
SimDecoded ==
  /\ simPhase = "decode" /\ simTodo # <<>> /\ simTodo' = Tail(simTodo)
  /\ IF Head(simTodo) \in ToSet(simRunning) THEN SimEmit(Head(simTodo), simRunning) ELSE UNCHANGED <<simRunning, simSeq, simStream>>
  /\ UNCHANGED <<simWaiting, simPrefilling, simIter, simPhase, simGuard, simHandler>>

SimGuard0 == 4 * SimMaxSeqs + 8

SimPrefilled ==
  LET p == simIter.prefill IN
  /\ simPhase = "decode" /\ simTodo = <<>> /\ simPhase' = "admit" /\ simGuard' = SimGuard0 /\ simIter' = SimIdle
  /\ IF p = "none" \/ p \notin ToSet(simPrefilling) THEN UNCHANGED <<simPrefilling, simRunning, simSeq, simStream>>
     ELSE IF simSeq[p].done + simIter.chunk < simSeq[p].goal
          THEN simSeq' = [simSeq EXCEPT ![p].done = @ + simIter.chunk] /\ UNCHANGED <<simPrefilling, simRunning, simStream>>
          ELSE simPrefilling' = SimWithout(simPrefilling, p) /\ SimEmit(p, Append(simRunning, p))
  /\ UNCHANGED <<simWaiting, simTodo, simHandler>>

\* startIteration, admit: the head of the queue, while a slot and its KV tokens are free; nothing passes a head that does not fit.
SimFits ==
  /\ simWaiting # <<>> /\ Len(simPrefilling) + Len(simRunning) < SimMaxSeqs
  /\ simKV + simSeq[Head(simWaiting)].goal + 1 <= SimBudget

SimAdmit ==
  LET r == Head(simWaiting) IN
  /\ simPhase = "admit" /\ SimFits
  /\ simWaiting' = Tail(simWaiting) /\ simPrefilling' = Append(simPrefilling, r)
  /\ simSeq' = [simSeq EXCEPT ![r].held = simSeq[r].goal + 1, ![r].done = 0, ![r].started = TRUE]
  /\ SimSay(r, IF simSeq[r].started THEN <<>> ELSE <<SimEv("start", 0)>>)
  /\ UNCHANGED <<simRunning, simIter, simPhase, simTodo, simGuard, simHandler>>

\* reserveDecodeKV: while the decode step cannot get its tokens, the last sequence to start loses its own and goes to the
\* head of the queue, or ends when it is alone. Then admission is tried again.
SimDecoding == simRunning # <<>> /\ (simPrefilling = <<>> \/ SimChunk > 0)
SimShort == simRunning # <<>> /\ simKV + Len(simRunning) > SimBudget

(* Mutant: a preempted sequence generates its tokens again. *)
SimReserveAfresh ==
  LET v == Last(simRunning)
      alone == Len(simRunning) = 1 /\ simPrefilling = <<>>
  IN /\ simPhase = "reserve" \/ (simPhase = "admit" /\ ~SimFits /\ SimDecoding /\ simGuard > 0)
     /\ SimShort /\ simPhase' = "reserve"
     /\ simRunning' = Front(simRunning)
     /\ simSeq' = [simSeq EXCEPT ![v].held = 0, ![v].gen = 0, ![v].done = 0, ![v].goal = IF alone THEN @ ELSE SimInput[v] + simSeq[v].gen]
     /\ simWaiting' = IF alone THEN simWaiting ELSE <<v>> \o simWaiting
     /\ SimSay(v, <<SimEv(IF alone THEN "exhausted" ELSE "preempt", simSeq[v].gen)>>)
     /\ UNCHANGED <<simPrefilling, simIter, simTodo, simGuard, simHandler>>

(* Mutant: a sequence that is alone is preempted like any other. *)
SimReserveAlone ==
  LET v == Last(simRunning)
      alone == FALSE
  IN /\ simPhase = "reserve" \/ (simPhase = "admit" /\ ~SimFits /\ SimDecoding /\ simGuard > 0)
     /\ SimShort /\ simPhase' = "reserve"
     /\ simRunning' = Front(simRunning)
     /\ simSeq' = [simSeq EXCEPT ![v].held = 0, ![v].done = 0, ![v].goal = IF alone THEN @ ELSE SimInput[v] + simSeq[v].gen]
     /\ simWaiting' = IF alone THEN simWaiting ELSE <<v>> \o simWaiting
     /\ SimSay(v, <<SimEv(IF alone THEN "exhausted" ELSE "preempt", simSeq[v].gen)>>)
     /\ UNCHANGED <<simPrefilling, simIter, simTodo, simGuard, simHandler>>

SimReserve ==
  LET v == Last(simRunning)
      alone == Len(simRunning) = 1 /\ simPrefilling = <<>>
  IN /\ simPhase = "reserve" \/ (simPhase = "admit" /\ ~SimFits /\ SimDecoding /\ simGuard > 0)
     /\ SimShort /\ simPhase' = "reserve"
     /\ simRunning' = Front(simRunning)
     /\ simSeq' = [simSeq EXCEPT ![v].held = 0, ![v].done = 0, ![v].goal = IF alone THEN @ ELSE SimInput[v] + simSeq[v].gen]
     /\ simWaiting' = IF alone THEN simWaiting ELSE <<v>> \o simWaiting
     /\ SimSay(v, <<SimEv(IF alone THEN "exhausted" ELSE "preempt", simSeq[v].gen)>>)
     /\ UNCHANGED <<simPrefilling, simIter, simTodo, simGuard, simHandler>>

SimReserved ==
  /\ simPhase = "reserve" /\ ~SimShort /\ simPhase' = "admit" /\ simGuard' = simGuard - 1
  /\ UNCHANGED <<simLists, simSeq, simIter, simTodo, simStream, simHandler>>

\* The iteration: a prefill of one request, a decode step of the running ones (both, with chunking), or nothing to do.
SimLaunch ==
  LET p == Head(simPrefilling)
      left == simSeq[p].goal - simSeq[p].done
      some == simPrefilling # <<>>
  IN /\ simPhase = "admit" /\ ~SimFits /\ ~(SimDecoding /\ SimShort /\ simGuard > 0) /\ simPhase' = "free" /\ simGuard' = 0
     /\ simIter' = [busy |-> some \/ simRunning # <<>>, prefill |-> IF some THEN p ELSE "none",
                    chunk |-> IF ~some THEN 0 ELSE IF SimChunk > 0 /\ left > SimChunk THEN SimChunk ELSE left,
                    decode |-> IF SimDecoding THEN simRunning ELSE <<>>]
     /\ simSeq' = [r \in SimRequests |-> IF SimDecoding /\ r \in ToSet(simRunning) THEN [simSeq[r] EXCEPT !.held = @ + 1] ELSE simSeq[r]]
     /\ UNCHANGED <<simLists, simTodo, simStream, simHandler>>

SimCall == SimDecoded \/ SimPrefilled \/ SimAdmit \/ SimReserve \/ SimReserved \/ SimLaunch

-----------------------------------------------------------------------------
(* The driver. *)

SimSet(r, h) == simHandler' = [simHandler EXCEPT ![r] = h]

\* Submit refuses a prompt that can never fit, and any when the queue is full.
SimRefused(r) ==
  LET free == SimMaxSeqs - Len(simPrefilling) - Len(simRunning) IN
  SimInput[r] > SimBudget - 1 \/ Len(simWaiting) >= SimMaxQueue + free

\* An accepted request queues, and an idle engine starts at once.
SimSubmit(r) ==
  /\ simPhase = "free" /\ simHandler[r].at = "new"
  /\ IF SimRefused(r)
     THEN SimSet(r, [SimNoHandler EXCEPT !.at = "gone", !.end = "refused"]) /\ UNCHANGED <<simLists, simSeq, simIter, simPhase, simGuard, simStream>>
     ELSE /\ SimSet(r, [SimNoHandler EXCEPT !.at = "queued"])
          /\ simWaiting' = Append(simWaiting, r) /\ simSeq' = [simSeq EXCEPT ![r].goal = SimInput[r]]
          /\ simStream' = [s \in DOMAIN simStream \cup {r} |-> IF s = r THEN <<>> ELSE simStream[s]]
          /\ simPhase' = (IF simIter.busy THEN "free" ELSE "admit") /\ simGuard' = (IF simIter.busy THEN 0 ELSE SimGuard0)
          /\ UNCHANGED <<simPrefilling, simRunning, simIter>>
  /\ UNCHANGED simTodo

\* The handler's next event. A preemption only delays the tokens; with the end of the request it is released.
SimTake(r) ==
  /\ simPhase = "free" /\ simHandler[r].at \in {"queued", "serving"} /\ simStream[r] # <<>>
  /\ LET v == Head(simStream[r])
         h == simHandler[r]
     IN SimSet(r, CASE v.kind = "start" -> [h EXCEPT !.at = "serving"]
                    [] v.kind = "token" /\ h.at = "serving" -> [h EXCEPT !.got = IF v.index = @ THEN @ + 1 ELSE -1]
                    [] v.kind \in {"done", "exhausted"} /\ h.at = "serving" -> [h EXCEPT !.at = "release", !.end = v.kind]
                    [] OTHER -> h)
  /\ simStream' = [simStream EXCEPT ![r] = Tail(@)]
  /\ UNCHANGED <<simLists, simSeq, simIter, simPhase, simTodo, simGuard>>

\* The client left, or a midstream failure was injected.
SimLeave(r) ==
  /\ simHandler[r].at \in {"queued", "serving"} /\ SimSet(r, [simHandler[r] EXCEPT !.at = "release", !.end = "left"])
  /\ UNCHANGED <<simLists, simSeq, simIter, simPhase, simTodo, simGuard, simStream>>

\* Cancel: the request is removed wherever it is. A launched iteration still takes its time.
SimCancel(r) ==
  /\ simWaiting' = SimWithout(simWaiting, r) /\ simPrefilling' = SimWithout(simPrefilling, r)
  /\ simRunning' = SimWithout(simRunning, r) /\ simSeq' = [simSeq EXCEPT ![r].held = 0]

\* release: Cancel if it is still live, and the stream is forgotten.
SimRelease(r) ==
  /\ simPhase = "free" /\ simHandler[r].at = "release" /\ SimSet(r, [simHandler[r] EXCEPT !.at = "gone"])
  /\ SimCancel(r)
  /\ simStream' = [s \in DOMAIN simStream \ {r} |-> simStream[s]]
  /\ UNCHANGED <<simIter, simPhase, simTodo, simGuard>>

SimHandler(r) == SimTake(r) \/ SimRelease(r)

SimNext == SimAdvance \/ SimCall \/ \E r \in SimRequests : SimSubmit(r) \/ SimHandler(r) \/ SimLeave(r)

\* A waiting handler's timer fires at the engine's next event, and handlers run; no client has to come or to leave.
SimSpec ==
  /\ SimInit /\ [][SimNext]_simVars
  /\ WF_simVars(SimAdvance \/ SimCall) /\ \A r \in SimRequests : WF_simVars(SimHandler(r))

\* CheckInvariants, which the tests call after every step.
SimCheckInvariants ==
  LET lists == simWaiting \o simPrefilling \o simRunning IN
  /\ Len(lists) = Cardinality(SimLive) /\ Len(simPrefilling) + Len(simRunning) <= SimMaxSeqs
  /\ simKV <= SimBudget /\ \A r \in SimRequests \ (ToSet(simPrefilling) \cup ToSet(simRunning)) : simSeq[r].held = 0
  /\ \A r \in ToSet(simRunning) :
       simSeq[r].held = SimInput[r] + simSeq[r].gen + IF r \in ToSet(simIter.decode) THEN 1 ELSE 0

-----------------------------------------------------------------------------
(* Properties. *)

\* CheckInvariants: the KV tokens held add up and stay within the budget, no request is in two lists, the slots are not
\* exceeded, and a running request holds exactly its context, plus the token of the step under way.
SimConsistent == simPhase = "free" => SimCheckInvariants

\* "An idle engine with a live request cannot happen": the head of the queue fits an empty engine, preempted or not.
SimNeverStuck == simPhase = "free" /\ SimLive # {} => simIter.busy

\* "A preemption only delays tokens": a handler gets each token once and in order, and the end of its request after
\* exactly the tokens it was promised, or fewer only if the KV cache was exhausted.
SimStreamWhole ==
  \A r \in SimRequests :
    /\ simHandler[r].got >= 0
    /\ simHandler[r].end = "done" => simHandler[r].got = SimTarget[r]
    /\ simHandler[r].end = "exhausted" => simHandler[r].got < SimTarget[r]

\* Preemptions do not go on for ever: once a request is submitted, the engine is in the end without any. (A request is
\* submitted once, so one that never ended would keep the engine busy for ever.)
SimServed == (\E r \in SimRequests : simHandler[r].at = "queued") ~> (\A r \in SimRequests : simHandler[r].at \in {"new", "gone"})

\* The simulated engine keeps its own invariants, never idles beside a live request, and delivers each stream whole
\* (step, preempt, Advance).
SimSafe == SimConsistent /\ SimNeverStuck /\ SimStreamWhole
=============================================================================
