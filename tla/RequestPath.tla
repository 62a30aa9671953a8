------------------------------ MODULE RequestPath ------------------------------
(***************************************************************************)
(* One inference request on its way through the gateway: the middleware    *)
(* and authentication (middleware.go, auth.go), the chat handler           *)
(* (handlers.go), the shedding and rate limit decisions (ratelimit.go,     *)
(* resilience_queue.go), the attempts and their retries (attempt.go,       *)
(* resilience_attempt.go, retry.go) and the clean-up that every way out    *)
(* shares.  Beside the request's goroutine there are the client, who may   *)
(* leave between any two steps, the worker, the timers of an attempt, the  *)
(* goroutine that peeks at a 503, and one panic of code the path calls.    *)
(*                                                                         *)
(* The router, the queue, the breakers and the budget are environment      *)
(* here: each may give any answer of its own modules.                      *)
(***************************************************************************)
EXTENDS Naturals, Sequences, FiniteSets

CONSTANTS
  MaxAttempts,  \* retryPolicy.max
  GlobalCap,    \* Admission.max
  PathModes     \* a subset of {"static", "plain", "resilient"}

ASSUME RequestPathAssumption ==
  /\ MaxAttempts \in Nat \ {0} /\ GlobalCap \in Nat \ {0}
  /\ PathModes \subseteq {"static", "plain", "resilient"}

VARIABLES
  at,      \* where the request's goroutine is
  mode,    \* how the server was built: no router, a router, or a router with resilience
  client,  \* "here" or "gone": r.Context()
  held,    \* what the handler's defers will give back: a global place, a limiter lease
  runs,    \* the attempts tracked by the attemptGuard, in order
  cur,     \* attemptGuard.cur
  info,    \* reqInfo, and the recorder's status
  told,    \* what the observers were told, in order
  used,    \* this request's part of the retry budget: reserved and not refunded
  peek,    \* the peek of a held 503: "none", "reading", "done"
  idle,    \* the current attempt's idle clock runs
  panicked \* "no", "abort" (http.ErrAbortHandler) or "panic"

reqVars == <<at, mode, client, held, runs, cur, info, told, used, peek, idle, panicked>>

-----------------------------------------------------------------------------
\* What a worker's attempt can come back with.
Statuses == {"200", "503", "502", "5xx", "4xx", "3xx"}
TransportErrors == {"connect", "timeout", "canceled"}
Failures == TransportErrors \cup {"odd", "empty", "stall", "deadline"}

NewRun(probe) ==
  [slot |-> TRUE, settled |-> 0, started |-> FALSE, ended |-> FALSE, probe |-> probe, got |-> "nothing",
   retryable |-> FALSE, body |-> "none", ahead |-> FALSE, cut |-> "none", guard |-> "off", header |-> "off", verdict |-> "none"]

Event(what, n, how) == [what |-> what, n |-> n, how |-> how]

Resilient == mode = "resilient"

Run == runs[cur]

\* multiObserver: every observer is told, a panicking one included, in the order of the calls.
Tell(events) == told' = told \o events

\* The observers have been told this of attempt n (0 for the request).
Said(what, n) == \E i \in DOMAIN told : told[i].what = what /\ told[i].n = n

\* Server.fail and reject: the error code is noted and the error written.
Fail(code, status) ==
  info' = [info EXCEPT !.code = code, !.status = IF @ = "none" THEN status ELSE @]

ReqInit ==
  /\ at = "new" /\ mode \in PathModes /\ client = "here" /\ held = {} /\ runs = <<>> /\ cur = 1
  /\ info = [code |-> "", status |-> "none", closed |-> FALSE, late |-> FALSE, want |-> FALSE, sse |-> FALSE, final |-> "none"]
  /\ told = <<>> /\ used = 0 /\ peek = "none" /\ idle = FALSE /\ panicked = "no"

Goto(from, to) == at = from /\ at' = to

-----------------------------------------------------------------------------
\* Before the worker: authentication, the cap, the body, the model, the limits.

\* withRequest, up to the handler.
ReqBegin ==
  /\ Goto("new", "auth") /\ Tell(<<Event("started", 0, "")>>)
  /\ UNCHANGED <<mode, client, held, runs, cur, info, used, peek, idle, panicked>>

\* A refusal that is told and answered: rejected or rejectedAPI, then fail.
Refuse(code, status) ==
  /\ Tell(<<Event("rejected", 0, code)>>) /\ Fail(code, status) /\ at' = "unwind"

\* shed and refuseNoWorker: a client that has left is recorded as closed and nobody is told.
RefuseOrGone(code, status) ==
  \/ client = "gone" /\ info' = [info EXCEPT !.closed = TRUE] /\ at' = "unwind" /\ UNCHANGED told
  \/ client = "here" /\ Refuse(code, status)

\* authenticate: the key is good, or the request is refused before its body is read.
Authenticate ==
  /\ at = "auth"
  /\ \/ at' = (IF Resilient THEN "cap" ELSE "body") /\ UNCHANGED <<info, told>>
     \/ Refuse("auth", "4xx")
  /\ UNCHANGED <<mode, client, held, runs, cur, used, peek, idle, panicked>>

\* A limiter is required and none was wired. Serve does not start such a server; its Handler alone fails closed.
LimiterMissing ==
  /\ at \in {"cap", "body"} /\ held = {} /\ Refuse("internal", "5xx")
  /\ UNCHANGED <<mode, client, held, runs, cur, used, peek, idle, panicked>>

\* Admission.Acquire with others places taken.
PlaceLeft(others) == others < GlobalCap

\* acquireGlobal: others is how many other requests hold a place.
AcquireGlobal ==
  /\ at = "cap"
  /\ \E others \in 0 .. GlobalCap :
       \/ /\ PlaceLeft(others)
          /\ at' = "body" /\ held' = held \cup {"global"} /\ UNCHANGED <<info, told>>
       \/ /\ ~PlaceLeft(others)
          /\ RefuseOrGone("overload", "5xx") /\ UNCHANGED held
  /\ UNCHANGED <<mode, client, runs, cur, used, peek, idle, panicked>>

\* Reading and parsing the body: a failure of either (a client that left included) is a validation refusal.
ReadBody ==
  /\ at = "body"
  /\ \/ at' = (IF mode = "static" THEN "limit" ELSE "precheck") /\ UNCHANGED <<info, told>>
     \/ Refuse("validation", "4xx")
  /\ UNCHANGED <<mode, client, held, runs, cur, used, peek, idle, panicked>>

\* refuseUnknownModel: the registry does not serve the model. The admission is announced, then refused.
CheckModel ==
  /\ at = "precheck"
  /\ \/ at' = (IF Resilient THEN "shedcheck" ELSE "limit") /\ UNCHANGED told
     \/ at' = "no model" /\ Tell(<<Event("admitted", 0, "")>>)
  /\ UNCHANGED <<mode, client, held, runs, cur, info, used, peek, idle, panicked>>

\* shedBeforeLimiter: the model's queue has waiters and no room for this one.
CheckQueue ==
  /\ at = "shedcheck"
  /\ \/ at' = "limit" /\ UNCHANGED told
     \/ at' = "shed" /\ Tell(<<Event("admitted", 0, "")>>)
  /\ UNCHANGED <<mode, client, held, runs, cur, info, used, peek, idle, panicked>>

\* refuseNoWorker for an unknown model, and shed.
RefuseAdmitted ==
  /\ \/ at = "no model" /\ RefuseOrGone("model", "4xx")
     \/ at = "shed" /\ RefuseOrGone("overload", "5xx")
  /\ UNCHANGED <<mode, client, held, runs, cur, used, peek, idle, panicked>>

\* admit: refused (429, or 503 when the check could not be made), or allowed with or without a lease.
Admit ==
  /\ at = "limit"
  /\ \/ Refuse("rate_limit", "4xx") /\ UNCHANGED held
     \/ /\ held' \in {held, held \cup {"lease"}}
        /\ Tell(<<Event("admitted", 0, "")>>) /\ at' = "route" /\ UNCHANGED info
  /\ UNCHANGED <<mode, client, runs, cur, used, peek, idle, panicked>>

-----------------------------------------------------------------------------
\* The first worker.

NoWorker == RefuseOrGone("capacity", "5xx") /\ UNCHANGED runs

\* The one attempt of static mode: no worker, so no slot and no ticket.
StaticRun == [NewRun(FALSE) EXCEPT !.slot = FALSE]

\* reserveFirstAttempt without a wait, or the static upstream.
RouteFirst ==
  /\ at = "route"
  /\ \/ mode = "static" /\ runs' = <<StaticRun>> /\ at' = "record" /\ UNCHANGED <<info, told>>
     \/ /\ mode # "static"
        /\ \/ \E probe \in {FALSE, Resilient} : runs' = <<NewRun(probe)>> /\ at' = "start" /\ UNCHANGED <<info, told>>
           \/ NoWorker
           \/ Resilient /\ at' = "queued" /\ UNCHANGED <<runs, info, told>>
  /\ UNCHANGED <<mode, client, held, cur, used, peek, idle, panicked>>

\* awaitSlot: a slot was handed over or found.
Served ==
  /\ at = "queued" /\ at' = "start"
  /\ \E probe \in BOOLEAN : runs' = <<NewRun(probe)>>
  /\ Tell(<<Event("waited", 0, "served")>>)
  /\ UNCHANGED <<mode, client, held, cur, info, used, peek, idle, panicked>>

\* awaitSlot: max_wait passed or the queue was flushed, and the request will be shed; or the client left.
WaitTimesOut ==
  /\ Goto("queued", "shed")
  /\ \E how \in {"timeout", "drained"} : Tell(<<Event("waited", 0, how)>>)
  /\ UNCHANGED <<mode, client, held, runs, cur, info, used, peek, idle, panicked>>

WaitAbandoned ==
  /\ at = "queued" /\ client = "gone" /\ at' = "unwind"
  /\ info' = [info EXCEPT !.closed = TRUE] /\ Tell(<<Event("waited", 0, "client_gone")>>)
  /\ UNCHANGED <<mode, client, held, runs, cur, used, peek, idle, panicked>>

\* startAttempt of the run tracked last: from here it owes an AttemptEnded, and its timers run.
StartAttempt ==
  /\ at = "start"
  /\ LET n == Len(runs) IN
       /\ runs' = [runs EXCEPT ![n].started = TRUE, ![n].guard = IF Resilient THEN "armed" ELSE "off",
                               ![n].header = IF runs[n].probe THEN "armed" ELSE "off"]
       /\ Tell(<<Event("attempt", n, "")>>)
       /\ at' = IF n > 1 THEN "swap" ELSE IF mode = "static" THEN "send" ELSE "record"
  /\ UNCHANGED <<mode, client, held, cur, info, used, peek, idle, panicked>>

-----------------------------------------------------------------------------
\* Closing an attempt.

EndGuard(g) == IF g = "armed" THEN "done" ELSE g

\* returnTicket: unless a verdict took it.
ReturnTicket(settled) == IF Resilient /\ settled = 0 THEN 1 ELSE settled

\* abandonAttempt: the timers stop, the call is cancelled, the body closed, the ticket and the slot given back.
Abandoned(run) ==
  IF run.ended THEN run
  ELSE [run EXCEPT !.ended = TRUE, !.slot = FALSE, !.cut = "end", !.guard = EndGuard(@), !.header = EndGuard(@),
                   !.body = IF @ = "open" THEN "closed" ELSE @,
                   !.settled = ReturnTicket(@)]

EndEvents(n, run, how) == IF run.ended \/ ~run.started THEN <<>> ELSE <<Event("ended", n, how)>>

\* The rest of forwardRegistry's loop body once the next attempt has started: the old one is abandoned as retried.
Swap ==
  /\ Goto("swap", "record")
  /\ runs' = [runs EXCEPT ![cur] = Abandoned(@)] /\ cur' = Len(runs)
  /\ Tell(EndEvents(cur, Run, "retried"))
  /\ peek' = "none" /\ idle' = FALSE
  /\ UNCHANGED <<mode, client, held, info, used, panicked>>

\* recordWorker: after the attempt was announced, or before it in static mode.
RecordWorker ==
  /\ at = "record" /\ at' = IF Run.started THEN "send" ELSE "start"
  /\ UNCHANGED <<mode, client, held, runs, cur, info, told, used, peek, idle, panicked>>

-----------------------------------------------------------------------------
\* sendOnce: the call, and for a 200 the wait for its first byte.

GoesOn == <<mode, client, held, cur, info, told, used, peek, panicked>>

\* The response headers arrive, or the call fails. Only a registered worker's status outside 200..599 is special.
WorkerAnswers ==
  /\ Goto("send", "headers")
  /\ \E got \in Statuses \cup {"connect"} \cup (IF mode = "static" THEN {} ELSE {"odd"}) :
       runs' = [runs EXCEPT ![cur].got = got, ![cur].body = IF got = "connect" THEN "none" ELSE "open"]
  /\ UNCHANGED <<GoesOn, idle>>

\* The transport's ResponseHeaderTimeout, or a context that was cancelled: by a timer or by the client leaving.
CallCut ==
  /\ Goto("send", "headers")
  /\ \E got \in {"timeout", "canceled"} :
       /\ got = "canceled" => Run.cut # "none" \/ client = "gone"
       /\ runs' = [runs EXCEPT ![cur].got = got]
  /\ UNCHANGED <<GoesOn, idle>>

\* retryPolicy.status, transportError: what may be tried on another worker.
Retryable(got) == mode # "static" /\ got \in {"503", "502", "connect", "empty"}

\* headersDone and what follows up to the first read.
TakeHeaders ==
  /\ at = "headers"
  /\ LET late == Run.header = "hit" /\ client = "here"
         got == IF late THEN "timeout" ELSE Run.got
         failed == got \in Failures
         held200 == got = "200" /\ mode # "static"
     IN /\ runs' = [runs EXCEPT ![cur] =
             [@ EXCEPT !.got = got, !.header = EndGuard(@),
                       !.body = IF failed /\ @ = "open" THEN "closed" ELSE @,
                       !.retryable = Retryable(got) /\ (failed => client = "here"),
                       !.guard = IF failed \/ held200 THEN @ ELSE EndGuard(@)]]
        /\ at' = (IF held200 THEN "first" ELSE "phase") /\ idle' = held200
  /\ UNCHANGED GoesOn

\* The first body byte of a 200: arrived() disarms the deadline under the guard's lock.
FirstByte ==
  /\ Goto("first", "phase")
  /\ runs' = [runs EXCEPT ![cur].guard = EndGuard(@), ![cur].ahead = TRUE] /\ idle' = FALSE
  /\ UNCHANGED GoesOn

\* The body ends or fails before its first byte.
FirstReadFails(got) ==
  /\ Goto("first", "phase")
  /\ runs' = [runs EXCEPT ![cur].got = got, ![cur].body = "closed",
                          ![cur].retryable = Retryable(got) /\ client = "here"]
  /\ idle' = FALSE /\ UNCHANGED GoesOn

EmptyBody == at = "first" /\ Run.cut = "none" /\ FirstReadFails("empty")

\* A cancelled call ends the wait for the first byte: by the idle clock, the deadline, or the client.
FirstReadCut == at = "first" /\ (Run.cut # "none" \/ client = "gone") /\ FirstReadFails("stall")

-----------------------------------------------------------------------------
\* The timers of the attempt (phaseGuard): each decides under the guard's lock.

DeadlinePasses ==
  /\ Resilient /\ runs # <<>> /\ ~info.late /\ at \notin {"unwind", "complete", "done"}
  /\ info' = [info EXCEPT !.late = TRUE]
  /\ UNCHANGED <<at, mode, client, held, runs, cur, told, used, peek, idle, panicked>>

(* Mutant: the deadline cancels the call without recording that it did. *)
OnDeadlineUnrecorded ==
  /\ info.late
  /\ \E n \in DOMAIN runs : runs[n].guard = "armed" /\ runs' = [runs EXCEPT ![n].guard = "done", ![n].cut = "guard"]
  /\ UNCHANGED <<at, mode, client, held, cur, info, told, used, peek, idle, panicked>>

OnDeadline ==
  /\ info.late
  /\ \E n \in DOMAIN runs :
       /\ runs[n].guard = "armed"
       /\ runs' = [runs EXCEPT ![n].guard = "hit", ![n].cut = "guard"]
  /\ UNCHANGED <<at, mode, client, held, cur, info, told, used, peek, idle, panicked>>

OnHeader ==
  /\ \E n \in DOMAIN runs :
       /\ runs[n].header = "armed" /\ runs[n].guard # "done"
       /\ runs' = [runs EXCEPT ![n].header = "hit", ![n].cut = "guard"]
  /\ UNCHANGED <<at, mode, client, held, cur, info, told, used, peek, idle, panicked>>

\* The idle clock, armed by idleReader around a read and by peekIsNeutral: it cancels the call, which ends a peek.
OnIdle ==
  /\ idle /\ idle' = FALSE
  /\ runs' = [runs EXCEPT ![cur].cut = IF @ = "none" THEN "idle" ELSE @]
  /\ peek' = IF peek = "reading" THEN "done" ELSE peek
  /\ UNCHANGED <<at, mode, client, held, cur, info, told, used, panicked>>

-----------------------------------------------------------------------------
\* The retry decision.

MarkDeadline(run) ==
  [run EXCEPT !.got = "deadline", !.retryable = FALSE, !.body = IF @ = "open" THEN "closed" ELSE @]

\* endPhase: a deadline that fired before the phase ended turns the attempt into the deadline's.
EndPhase ==
  /\ Goto("phase", "decide")
  /\ runs' = [runs EXCEPT ![cur] =
       IF @.guard = "hit" /\ client = "here" THEN MarkDeadline(@)
       ELSE [@ EXCEPT !.guard = EndGuard(@)]]
  /\ UNCHANGED <<GoesOn, idle>>

WantRetry == client = "here" /\ Run.retryable /\ Len(runs) < MaxAttempts

\* permitRetry: time left first, then the budget, which may refuse.
Decide ==
  /\ Goto("decide", "verdict")
  /\ \E granted \in BOOLEAN :
       /\ granted => WantRetry /\ (Resilient => ~info.late)
       /\ ~granted => ~WantRetry \/ Resilient
       /\ info' = [info EXCEPT !.want = granted]
       /\ used' = IF granted /\ Resilient THEN used + 1 ELSE used
  /\ UNCHANGED <<mode, client, held, runs, cur, told, peek, idle, panicked>>

\* verdictOf: the failure taxonomy; a retryable 503 about to be retried is peeked first.
VerdictOf(got, busy) ==
  IF client = "gone" \/ got = "deadline" THEN "neutral"
  ELSE IF got \in Failures THEN "fault"
  ELSE CASE got = "200" -> "ok"
         [] got = "503" -> IF busy THEN "neutral" ELSE "fault"
         [] got = "4xx" -> "neutral"
         [] OTHER -> "fault"

\* peekIsNeutral: what a look at the start of a held 503 gives; "reading" is a wait that ran out.
Seen ==
  IF client = "here" /\ Run.got = "503" /\ info.want /\ ~info.late THEN {"busy", "broken", "reading"} ELSE {"none"}

(* Mutant: a peek that outlives its wait leaves the idle clock stopped. *)
SettleVerdictNoClock ==
  /\ at = "verdict" /\ at' = IF info.want THEN "next" ELSE "answer"
  /\ \/ /\ ~Resilient /\ UNCHANGED <<runs, peek>>
     \/ /\ Resilient
        /\ \E seen \in Seen :
             /\ runs' = [runs EXCEPT ![cur].verdict = VerdictOf(Run.got, seen = "busy"),
                                     ![cur].settled = IF @ = 0 THEN 1 ELSE @]
             /\ peek' = IF seen = "reading" THEN "reading" ELSE peek
  /\ UNCHANGED <<mode, client, held, cur, info, told, used, idle, panicked>>

\* settleVerdict: the breaker is told once, and the ticket goes back with the verdict.
SettleVerdict ==
  /\ at = "verdict" /\ at' = IF info.want THEN "next" ELSE "answer"
  /\ \/ /\ ~Resilient /\ UNCHANGED <<runs, peek, idle>>
     \/ /\ Resilient
        /\ \E seen \in Seen :
             /\ runs' = [runs EXCEPT ![cur].verdict = VerdictOf(Run.got, seen = "busy"),
                                     ![cur].settled = IF @ = 0 THEN 1 ELSE @]
             /\ IF seen = "reading" THEN peek' = "reading" /\ idle' = TRUE ELSE UNCHANGED <<peek, idle>>
  /\ UNCHANGED <<mode, client, held, cur, info, told, used, panicked>>

\* reserveAttempt: another worker is found, or the held response stays the client's and the budget is refunded.
RouteNext ==
  /\ at = "next"
  /\ \/ \E probe \in {FALSE, Resilient} : runs' = Append(runs, NewRun(probe)) /\ at' = "start" /\ UNCHANGED used
     \/ at' = "answer" /\ used' = (IF Resilient THEN used - 1 ELSE used) /\ UNCHANGED runs
  /\ UNCHANGED <<mode, client, held, cur, info, told, peek, idle, panicked>>

-----------------------------------------------------------------------------
\* The answer.

\* The switch that ends forwardRegistry: the client left, the attempt failed, or its response is relayed. Static mode
\* looks at the client only when the attempt failed.
Answer ==
  /\ at = "answer"
  /\ IF client = "gone" /\ (mode = "static" => Run.got \in Failures)
     THEN /\ info' = [info EXCEPT !.closed = TRUE] /\ at' = "cleanup"
          /\ runs' = [runs EXCEPT ![cur].body = IF @ = "open" THEN "closed" ELSE @]
     ELSE /\ IF Run.got \in Failures THEN Fail("upstream", "5xx") /\ at' = "cleanup"
             ELSE UNCHANGED info /\ at' = "join"
          /\ UNCHANGED runs
  /\ UNCHANGED <<mode, client, held, cur, told, used, peek, idle, panicked>>

\* The peek's read ends by itself, after its wait ran out.
PeekReads ==
  /\ peek = "reading" /\ peek' = "done"
  /\ UNCHANGED <<at, mode, client, held, runs, cur, info, told, used, idle, panicked>>

\* joinPeek, then relay up to the status line; a redirect is never relayed. The first read begins.
Relay ==
  /\ at = "join" /\ peek # "reading"
  /\ IF Run.got = "3xx"
     THEN /\ Fail("failed", "5xx") /\ at' = "cleanup" /\ idle' = FALSE
          /\ runs' = [runs EXCEPT ![cur].body = "closed"]
     ELSE /\ \E sse \in BOOLEAN :
               info' = [info EXCEPT !.status = IF Run.got = "200" THEN "2xx" ELSE IF Run.got = "4xx" THEN "4xx" ELSE "5xx",
                                    !.sse = sse]
          /\ at' = "read" /\ idle' = TRUE /\ UNCHANGED runs
  /\ UNCHANGED <<mode, client, held, cur, told, used, peek, panicked>>

-----------------------------------------------------------------------------
\* The body: pump, one read and one write at a time; the idle clock runs during a read (idleReader).

\* A read returned bytes. Those of an event stream are told of once, before the first of them is written.
Chunk ==
  /\ Goto("read", "write") /\ idle' = FALSE
  /\ runs' = [runs EXCEPT ![cur].ahead = FALSE]
  /\ Tell(IF info.sse /\ ~Said("first", cur) THEN <<Event("first", cur, "")>> ELSE <<>>)
  /\ UNCHANGED <<mode, client, held, cur, info, used, peek, panicked>>

\* The byte that ended the wait of sendOnce was put back in front of the body: the read of it does not wait.
ReadHeld == at = "read" /\ Run.ahead /\ Chunk

\* The worker sends more, which a call that was just cancelled may still read.
WorkerSends == at = "read" /\ ~Run.ahead /\ Chunk

Written ==
  /\ Goto("write", "read") /\ idle' = TRUE
  /\ UNCHANGED <<mode, client, held, runs, cur, info, told, used, peek, panicked>>

EndBody(closed, code, abort) ==
  /\ at' = "cleanup" /\ runs' = [runs EXCEPT ![cur].body = "closed"] /\ idle' = FALSE
  /\ info' = [info EXCEPT !.closed = closed, !.code = code] /\ panicked' = abort
  /\ UNCHANGED <<mode, client, held, cur, told, used, peek>>

\* The client is gone, or did not take a write within clientWriteTimeout.
WriteFails == at = "write" /\ EndBody(TRUE, info.code, panicked)

\* The body ends. The response is complete, also for a client that has left meanwhile.
BodyEnds == at = "read" /\ ~Run.ahead /\ EndBody(FALSE, info.code, panicked)

\* The upstream fails. A client that has left is the reason; otherwise a broken event stream ends with an error event,
\* and a broken plain body aborts the connection.
BodyBreaks ==
  /\ at = "read" /\ ~Run.ahead
  /\ IF client = "gone" THEN EndBody(TRUE, info.code, panicked)
     ELSE EndBody(FALSE, "failed", IF info.sse THEN panicked ELSE "abort")

\* The read of a cancelled call fails: the idle clock or the client cancelled it.
ReadCut == at = "read" /\ (Run.cut # "none" \/ client = "gone") /\ BodyBreaks

-----------------------------------------------------------------------------
\* The way out.

\* finishAttempt's outcome.
Outcome(run) ==
  IF panicked = "panic" THEN "failed"
  ELSE IF info.closed THEN "client_closed"
  ELSE IF info.code # "" \/ run.got \in Failures \cup {"503", "502", "5xx"} THEN "failed" ELSE "ok"

\* recordAfterRelay: a stream that broke takes its ok back.
AfterRelay(run) ==
  IF Resilient /\ panicked # "panic" /\ run.verdict = "ok" /\ ~info.closed /\ info.code = "failed"
  THEN [run EXCEPT !.verdict = "fault"] ELSE run

(* Mutant: only the current attempt is closed. *)
CloseCurrent ==
  /\ Goto("cleanup", "unwind")
  /\ runs' = [runs EXCEPT ![cur] = Abandoned(AfterRelay(@))]
  /\ Tell(EndEvents(cur, Run, Outcome(Run)))
  /\ peek' = "none" /\ idle' = FALSE
  /\ UNCHANGED <<mode, client, held, cur, info, used, panicked>>

\* closeAttempts: every tracked run that is still open is closed, the current one by its own outcome.
CloseAttempts ==
  /\ Goto("cleanup", "unwind")
  /\ runs' = [n \in DOMAIN runs |-> Abandoned(IF n = cur /\ ~runs[n].ended THEN AfterRelay(runs[n]) ELSE runs[n])]
  /\ LET how(n) == IF n = cur THEN Outcome(runs[n]) ELSE "failed"
         ends(n) == EndEvents(n, runs[n], how(n))
     IN Tell(IF Len(runs) = 1 THEN ends(1) ELSE ends(Len(runs) - 1) \o ends(Len(runs)))
  /\ peek' = "none" /\ idle' = FALSE
  /\ UNCHANGED <<mode, client, held, cur, info, used, panicked>>

\* The handler's defers: the limiter's release, then the global slot's.
Unwind ==
  /\ Goto("unwind", "complete") /\ held' = {}
  /\ UNCHANGED <<mode, client, runs, cur, info, told, used, peek, idle, panicked>>

\* withRequest after the handler: the status that is reported, and the completion.
Complete ==
  /\ Goto("complete", "done")
  /\ LET wrote == IF panicked = "panic" /\ info.status = "none" THEN "5xx" ELSE info.status
         final == IF panicked = "panic" THEN wrote ELSE IF panicked = "abort" THEN "5xx"
                  ELSE IF info.closed THEN "499" ELSE IF wrote = "none" THEN "2xx" ELSE wrote
     IN /\ info' = [info EXCEPT !.status = wrote, !.final = final,
                                !.code = IF panicked = "panic" THEN "internal" ELSE @]
        /\ Tell(<<Event("completed", 0, final)>>)
  /\ UNCHANGED <<mode, client, held, runs, cur, used, peek, idle, panicked>>

\* The client goes away.
ClientLeaves ==
  /\ client = "here" /\ at \notin {"new", "done"} /\ client' = "gone"
  /\ UNCHANGED <<at, mode, held, runs, cur, info, told, used, peek, idle, panicked>>

\* Code the path calls panics: the limiter, the router, then the recorder, the upstream, an ID source, the body or the
\* response writer. A panic in awaitSlot leaves the queue and gives back a slot that had come, and no wait is told.
Panic ==
  /\ panicked = "no" /\ at \in {"limit", "route", "queued", "start", "swap", "record", "send", "read", "write"}
  /\ mode = "static" => at \notin {"route", "start"}
  /\ panicked' = "panic"
  /\ at' = IF at \in {"limit", "route", "queued"} \/ (mode = "static" /\ at = "record") THEN "unwind" ELSE "cleanup"
  /\ UNCHANGED <<mode, client, held, runs, cur, info, told, used, peek, idle>>

-----------------------------------------------------------------------------
\* The request's own steps: each wait among them ends by its timeout, or is for a call that was cancelled.
ReqHandler ==
  \/ ReqBegin \/ Authenticate \/ LimiterMissing \/ AcquireGlobal \/ ReadBody \/ CheckModel \/ CheckQueue \/ RefuseAdmitted \/ Admit \/ RouteFirst
  \/ WaitTimesOut \/ StartAttempt \/ Swap \/ RecordWorker \/ CallCut \/ TakeHeaders \/ FirstReadCut
  \/ EndPhase \/ Decide \/ SettleVerdict \/ RouteNext \/ Answer \/ Relay
  \/ ReadHeld \/ Written \/ WriteFails \/ ReadCut
  \/ CloseAttempts \/ Unwind \/ Complete

ReqEnvironment ==
  \/ Served \/ WaitAbandoned \/ WorkerAnswers \/ FirstByte \/ EmptyBody \/ WorkerSends \/ BodyEnds \/ BodyBreaks
  \/ DeadlinePasses \/ OnDeadline \/ OnHeader \/ OnIdle \/ PeekReads \/ ClientLeaves \/ Panic

ReqNext == ReqHandler \/ ReqEnvironment

\* The goroutine runs, and the timeouts of net/http and the idle clock fire. A cancelled call has only what it had
\* buffered, so one of its reads fails. The worker owes nothing: neither an answer, nor a byte, nor an end.
ReqFairness == WF_reqVars(ReqHandler) /\ WF_reqVars(OnIdle) /\ SF_reqVars(ReadCut)

ReqSpec == ReqInit /\ [][ReqNext]_reqVars /\ ReqFairness

-----------------------------------------------------------------------------
(* Properties. *)

ReqTypeOK ==
  /\ mode \in PathModes /\ client \in {"here", "gone"} /\ held \subseteq {"global", "lease"}
  /\ Len(runs) <= MaxAttempts /\ cur \in 1 .. MaxAttempts /\ used \in 0 .. MaxAttempts
  /\ peek \in {"none", "reading", "done"} /\ idle \in BOOLEAN /\ panicked \in {"no", "abort", "panic"}
  /\ info.status \in {"none", "2xx", "4xx", "5xx"} /\ info.final \in {"none", "2xx", "4xx", "5xx", "499"}
  /\ \A n \in DOMAIN runs :
       /\ runs[n].got \in Statuses \cup Failures \cup {"nothing"}
       /\ runs[n].verdict \in {"none", "ok", "fault", "neutral"}
       /\ runs[n].guard \in {"off", "armed", "hit", "done"}

OpenAttempts == {n \in DOMAIN runs : Said("attempt", n) /\ ~Said("ended", n)}

ToldWrong ==
  \/ \E i, j \in DOMAIN told : i < j /\ told[i].what = told[j].what /\ told[i].n = told[j].n
  \/ \E n \in DOMAIN runs : Said("ended", n) /\ ~Said("attempt", n)

ToldPhase ==
  IF ToldWrong THEN "wrong"
  ELSE IF Said("completed", 0) THEN "completed"
  ELSE IF Said("rejected", 0) THEN "rejected"
  ELSE IF Said("admitted", 0) THEN "admitted"
  ELSE IF Said("started", 0) THEN "started" ELSE "idle"

Holds(run) == run.slot \/ run.body = "open" \/ (Resilient /\ run.settled = 0)

Contract == INSTANCE RequestContract WITH
  phase <- ToldPhase,
  waited <- Said("waited", 0),
  attempts <- Cardinality({n \in DOMAIN runs : Said("attempt", n)}),
  open <- OpenAttempts,
  first <- \E n \in DOMAIN runs : Said("first", n),
  answered <- info.status # "none",
  holding <- held # {} \/ \E n \in DOMAIN runs : Holds(runs[n])

\* The request path implements RequestContract, the order of calls an observer can rely on (which is not in every line
\* the one in Observer's comment, see there): every AttemptStarted has exactly one AttemptEnded even when the request
\* panics in the middle of a swap, a first token belongs to the last attempt and is told once, no attempt begins after
\* the response has, and the completion is told last, when the slot, the ticket, the body, the lease and the place
\* under the cap have all been given back.
ReqKeepsContract == Contract!CSpec

\* A breaker ticket is settled exactly once, by a verdict or by a release (returnTicket), and the retry budget ends
\* charged with exactly the retries that were started: a refund that is missed or doubled shows here.
ReqSettledOnce ==
  /\ \A n \in DOMAIN runs : runs[n].settled <= 1 /\ (runs[n].ended /\ Resilient => runs[n].settled = 1)
  /\ at = "done" /\ Resilient /\ panicked # "panic" =>
       used = Cardinality({n \in DOMAIN runs : n > 1 /\ runs[n].started})

\* The first-byte deadline and a probe's header timeout have no effect after the response was taken: a response that
\* is being relayed to a client that is still there belongs to a call no timer has cancelled (phaseGuard).
ReqStreamNotCut ==
  at \in {"join", "read", "write"} /\ client = "here" => Run.cut # "guard"

\* A deadline that cut the attempt says nothing about the worker: no attempt whose deadline fired is ever a fault for
\* its breaker, and none is retried (markDeadline, verdictOf).
ReqDeadlineBlameless ==
  \A n \in DOMAIN runs : runs[n].guard = "hit" /\ runs[n].verdict # "none" => runs[n].verdict = "neutral" /\ n = Len(runs)

\* What is reported agrees: a request completed as a success with no error code ended its last attempt as ok, and
\* that attempt's breaker heard ok; one that completed 499 did not end its last attempt as ok.
ReqOutcomeAgrees ==
  at = "done" =>
    LET ended(n, how) == \E i \in DOMAIN told : told[i] = Event("ended", n, how) IN
    /\ info.final = "2xx" /\ info.code = "" =>
         runs # <<>> /\ ended(Len(runs), "ok") /\ (Resilient => runs[Len(runs)].verdict = "ok")
    /\ info.final = "499" /\ runs # <<>> => ended(Len(runs), "client_closed")

\* A request is completed, unless its worker goes on sending to a client that goes on reading: each wait of the path
\* (the queue, the headers, the first byte, the join with a peek that is still reading, a read, a write) is bounded by a
\* timer the path armed, but the length of a body is not (Serve sets no WriteTimeout), until the client leaves.
ReqCompletes == <>[](at \in {"new", "done"}) \/ []<>(at = "write" /\ client = "here")

\* What a request path does at its ends is right on every way through it (returnTicket, phaseGuard, verdictOf and the
\* completion): tickets and budget are settled once, deadlines neither cut a stream nor blame a worker, reports agree.
ReqSafe == ReqTypeOK /\ ReqSettledOnce /\ ReqStreamNotCut /\ ReqDeadlineBlameless /\ ReqOutcomeAgrees
=============================================================================
