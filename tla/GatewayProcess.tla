--------------------------- MODULE GatewayProcess ---------------------------
(***************************************************************************)
(* The life of a gateway process: main (cmd/gateway) opens what its        *)
(* configuration asks for, in order, Server.Serve serves and drains        *)
(* (gateway/server.go), and main closes everything again; signals arrive   *)
(* at any moment (internal/shutdown).  A step of the startup can fail, the *)
(* listener can fail, handlers can outlive the drain, main can hang, and   *)
(* nobody waits for the background goroutines that Serve started.          *)
(***************************************************************************)
EXTENDS Naturals, Sequences, FiniteSets, SequencesExt

CONSTANTS PrcRequests, PrcConfigs,  \* a configuration is the set of features that are on
          PrcMaxSignals

VARIABLES
  prcOn,              \* the configuration
  prcAt, prcTodo,     \* main: its phase, and what it opens or closes next
  prcOpen,            \* what is open
  prcErr,             \* Serve returned an error
  prcBack,            \* the background goroutines that run
  prcReq,             \* each request: "none", "handling", "told" (its terminal event was taken) or "untold"
  prcSig,             \* shutdown.NotifyContext: the channel, its goroutine, the context, and stop
  prcSignals, prcExit,
  prcLate             \* history: what a handler used after it was closed

prcMain == <<prcAt, prcTodo, prcOpen, prcErr>>
prcVars == <<prcOn, prcMain, prcBack, prcReq, prcSig, prcSignals, prcExit, prcLate>>

\* The parts of a process, in the order main opens them.
PrcParts == <<"store", "redis", "limiter", "tracing", "sink", "events", "listener", "server", "metrics">>

PrcNeeds ==
  {"listener", "server"} \cup (prcOn \cap {"metrics", "tracing"}) \cup (IF "auth" \in prcOn THEN {"store"} ELSE {})
    \cup (IF "limit" \in prcOn THEN {"limiter"} ELSE {}) \cup (IF prcOn \cap {"limit", "metadata"} # {} THEN {"redis"} ELSE {})
    \cup (IF "events" \in prcOn THEN {"sink", "events"} ELSE {})

\* The goroutines Serve starts: the registry refresh, key usage, lease renewal and release, and the request records.
PrcBackground ==
  (prcOn \cap {"registry"}) \cup (IF "auth" \in prcOn THEN {"usage"} ELSE {}) \cup (IF "limit" \in prcOn THEN {"renewal"} ELSE {})
    \cup (IF "metadata" \in prcOn THEN {"records"} ELSE {})

PrcOnly(parts) == SelectSeq(parts, LAMBDA x : x \in PrcNeeds)

PrcInit ==
  /\ prcOn \in PrcConfigs /\ prcAt = "starting" /\ prcTodo = PrcOnly(PrcParts) /\ prcOpen = {} /\ prcErr = FALSE /\ prcBack = {}
  /\ prcReq = [r \in PrcRequests |-> "none"] /\ prcSig = [chan |-> 0, at |-> "first", ctx |-> FALSE, stop |-> FALSE]
  /\ prcSignals = 0 /\ prcExit = "no" /\ prcLate = {}

PrcAlive == prcExit = "no"

-----------------------------------------------------------------------------
(* main: the startup. *)

\* A part is opened when its turn comes; one that cannot be ends the process at once (os.Exit: nothing deferred runs).
PrcOpening(parts) ==
  /\ PrcAlive /\ prcAt = "starting" /\ prcTodo # <<>> /\ Head(prcTodo) \in parts
  /\ \/ prcOpen' = prcOpen \cup {Head(prcTodo)} /\ prcTodo' = Tail(prcTodo) /\ UNCHANGED prcExit
     \/ prcExit' = "failed" /\ UNCHANGED <<prcOpen, prcTodo>>
  /\ UNCHANGED <<prcOn, prcBack, prcAt, prcErr, prcReq, prcSig, prcSignals, prcLate>>

PrcOpenAuthStore == PrcOpening({"store"})

PrcOpenRedis == PrcOpening({"redis", "limiter"})

PrcSetupTracing == PrcOpening({"tracing"})

PrcOpenEvents == PrcOpening({"sink", "events"})

\* The port, and the server built for the configuration: fails on an unusable strategy or network, or on wiring that
\* does not match the configuration.
PrcBuildServer == PrcOpening({"listener", "server"})

PrcListenMetrics == PrcOpening({"metrics"})

PrcStartup == PrcOpenAuthStore \/ PrcOpenRedis \/ PrcSetupTracing \/ PrcOpenEvents \/ PrcBuildServer \/ PrcListenMetrics

PrcServe ==
  /\ PrcAlive /\ prcAt = "starting" /\ prcTodo = <<>> /\ prcAt' = "serving" /\ prcBack' = PrcBackground
  /\ UNCHANGED <<prcOn, prcTodo, prcOpen, prcErr, prcReq, prcSig, prcSignals, prcExit, prcLate>>

-----------------------------------------------------------------------------
(* Server.Serve and the handlers. *)

PrcServing == prcAt \in {"serving", "grace", "shutdown"}

(* Mutant: the context of the background work ends with the signal's, drain or not. *)
PrcBackgroundOverAtSignal == ~PrcServing \/ prcSig.ctx

\* bctx: with the drain feature it ends when Serve returns, without it with the context of the signals.
PrcBackgroundOver == ~PrcServing \/ ("drain" \notin prcOn /\ prcSig.ctx)

\* A background goroutine sees the end of its context, in its own time.
PrcBackgroundEnds(b) ==
  /\ PrcAlive /\ b \in prcBack /\ PrcBackgroundOver /\ prcBack' = prcBack \ {b}
  /\ UNCHANGED <<prcOn, prcMain, prcReq, prcSig, prcSignals, prcExit, prcLate>>

PrcAccept(r) ==
  /\ PrcAlive /\ prcAt \in {"serving", "grace"} /\ prcReq[r] = "none" /\ prcReq' = [prcReq EXCEPT ![r] = "handling"]
  /\ UNCHANGED <<prcOn, prcBack, prcMain, prcSig, prcSignals, prcExit, prcLate>>

\* A handler ends: its lease is released, its spans end and its terminal event is offered.
PrcHandlerEnds(r) ==
  /\ PrcAlive /\ prcReq[r] = "handling"
  /\ LET closed == (PrcNeeds \cap {"store", "redis", "limiter", "tracing", "events"}) \ prcOpen IN
     /\ prcLate' = prcLate \cup closed
     /\ prcReq' = [prcReq EXCEPT ![r] = IF "events" \in closed THEN "untold" ELSE "told"]
  /\ UNCHANGED <<prcOn, prcBack, prcMain, prcSig, prcSignals, prcExit>>

\* Serve returns to main, which closes the tracer, the metrics listener, the event observer and its sink, in this order.
PrcReturn(err) ==
  /\ prcAt' = "closing" /\ prcErr' = err /\ prcOpen' = prcOpen \ {"listener"}
  /\ prcTodo' = PrcOnly(<<"tracing", "metrics", "events", "sink">>)

PrcListenerFails ==
  /\ PrcAlive /\ prcAt \in {"serving", "grace"} /\ PrcReturn(TRUE)
  /\ UNCHANGED <<prcOn, prcBack, prcReq, prcSig, prcSignals, prcExit, prcLate>>

\* The context ended: with the drain feature a grace during which requests are served, then Shutdown, which closes the
\* listener first.
PrcSignalled ==
  /\ PrcAlive /\ prcAt = "serving" /\ prcSig.ctx
  /\ IF "drain" \in prcOn THEN prcAt' = "grace" /\ UNCHANGED prcOpen ELSE prcAt' = "shutdown" /\ prcOpen' = prcOpen \ {"listener"}
  /\ UNCHANGED <<prcOn, prcBack, prcTodo, prcErr, prcReq, prcSig, prcSignals, prcExit, prcLate>>

PrcGraceOver ==
  /\ PrcAlive /\ prcAt = "grace" /\ prcAt' = "shutdown" /\ prcOpen' = prcOpen \ {"listener"}
  /\ UNCHANGED <<prcOn, prcBack, prcTodo, prcErr, prcReq, prcSig, prcSignals, prcExit, prcLate>>

\* Shutdown returns when the handlers have ended, or at the end of the budget: then Close cuts the connections, and the
\* handlers find out in their own time. A listener that had failed just before is an error too.
PrcDrained ==
  /\ PrcAlive /\ prcAt = "shutdown"
  /\ \E failed \in BOOLEAN : PrcReturn(failed \/ \E r \in PrcRequests : prcReq[r] = "handling")
  /\ UNCHANGED <<prcOn, prcBack, prcReq, prcSig, prcSignals, prcExit, prcLate>>

-----------------------------------------------------------------------------
(* main: the end. *)

PrcCloseNext ==
  /\ PrcAlive /\ prcAt \in {"closing", "deferred"} /\ prcTodo # <<>> /\ prcOpen' = prcOpen \ {Head(prcTodo)} /\ prcTodo' = Tail(prcTodo)
  /\ UNCHANGED <<prcOn, prcBack, prcAt, prcErr, prcReq, prcSig, prcSignals, prcExit, prcLate>>

\* An error of Serve is an exit without the deferred functions; otherwise they run, last first.
PrcVerdict ==
  /\ PrcAlive /\ prcAt = "closing" /\ prcTodo = <<>>
  /\ IF prcErr THEN prcExit' = "failed" /\ UNCHANGED <<prcAt, prcTodo>>
     ELSE prcAt' = "deferred" /\ prcTodo' = PrcOnly(<<"limiter", "redis", "store">>) /\ UNCHANGED prcExit
  /\ UNCHANGED <<prcOn, prcBack, prcOpen, prcErr, prcReq, prcSig, prcSignals, prcLate>>

\* stop, the first function deferred, and the return of main.
PrcMainReturns ==
  /\ PrcAlive
  /\ \/ /\ prcAt = "deferred" /\ prcTodo = <<>> /\ prcAt' = "stopped"
        /\ prcSig' = [prcSig EXCEPT !.stop = TRUE, !.ctx = TRUE] /\ UNCHANGED prcExit
     \/ prcAt = "stopped" /\ prcExit' = "ok" /\ UNCHANGED <<prcAt, prcSig>>
  /\ UNCHANGED <<prcOn, prcBack, prcTodo, prcOpen, prcErr, prcReq, prcSignals, prcLate>>

\* A close that never comes back.
PrcHang ==
  /\ PrcAlive /\ prcAt \in {"closing", "deferred"} /\ prcTodo # <<>> /\ prcAt' = "stuck"
  /\ UNCHANGED <<prcOn, prcBack, prcTodo, prcOpen, prcErr, prcReq, prcSig, prcSignals, prcExit, prcLate>>

-----------------------------------------------------------------------------
(* shutdown.NotifyContext. *)

\* The runtime delivers a signal: the channel holds two, and more are dropped.
PrcSignal ==
  /\ PrcAlive /\ prcSignals < PrcMaxSignals /\ prcSignals' = prcSignals + 1
  /\ prcSig' = [prcSig EXCEPT !.chan = IF prcSig.stop \/ @ = 2 THEN @ ELSE @ + 1]
  /\ UNCHANGED <<prcOn, prcBack, prcMain, prcReq, prcExit, prcLate>>

\* The goroutine: the first signal cancels, stop ends it, the second forces the exit.
PrcWatch ==
  /\ PrcAlive
  /\ \/ prcSig.at = "first" /\ prcSig.chan > 0 /\ prcSig' = [prcSig EXCEPT !.chan = @ - 1, !.ctx = TRUE, !.at = "check"] /\ UNCHANGED prcExit
     \/ prcSig.at = "first" /\ prcSig.ctx /\ prcSig' = [prcSig EXCEPT !.at = "check"] /\ UNCHANGED prcExit
     \/ prcSig.at = "check" /\ prcSig' = [prcSig EXCEPT !.at = IF prcSig.stop THEN "gone" ELSE "second"] /\ UNCHANGED prcExit
     \/ prcSig.at = "second" /\ prcSig.chan > 0 /\ prcExit' = "forced" /\ UNCHANGED prcSig
     \/ prcSig.at = "second" /\ prcSig.stop /\ prcSig' = [prcSig EXCEPT !.at = "gone"] /\ UNCHANGED prcExit
  /\ UNCHANGED <<prcOn, prcBack, prcMain, prcReq, prcSignals, prcLate>>

PrcEnd == PrcSignalled \/ PrcGraceOver \/ PrcDrained \/ PrcCloseNext \/ PrcVerdict \/ PrcMainReturns

PrcNext ==
  \/ PrcStartup \/ PrcServe \/ PrcListenerFails \/ PrcEnd \/ PrcHang \/ PrcSignal \/ PrcWatch
  \/ \E r \in PrcRequests : PrcAccept(r) \/ PrcHandlerEnds(r)
  \/ \E b \in PrcBackground : PrcBackgroundEnds(b)

\* The goroutine of the signals runs; so does main, whose timers fire. No handler has to end and no signal has to come.
PrcSpec == PrcInit /\ [][PrcNext]_prcVars /\ WF_prcVars(PrcWatch) /\ WF_prcVars(PrcStartup \/ PrcServe \/ PrcEnd)

-----------------------------------------------------------------------------
(* Properties. *)

PrcHandling == \E r \in PrcRequests : prcReq[r] = "handling"

\* "Never a half-started process": a request is taken only when everything configured is open; while it is handled and
\* Serve has not given up, all of it stays open but the port, and /metrics "outlives the shutdown signal".
PrcServesWhole ==
  PrcAlive /\ PrcHandling /\ PrcServing => prcOpen = PrcNeeds \ (IF prcAt = "shutdown" THEN {"listener"} ELSE {})

\* "What the background work keeps alive must keep running until the server has stopped": no goroutine is gone while Serve
\* serves, nor, with the drain feature, during the grace and the drain, however early the signal came.
PrcKeptAlive ==
  PrcAlive /\ PrcServing /\ ("drain" \in prcOn \/ ~prcSig.ctx) => prcBack = PrcBackground

\* Nothing is closed under what is built on it: the limiter sends its last releases over Redis, the observer hands its
\* last events to the sink.
PrcReverseOrder ==
  prcAt # "starting" /\ PrcAlive =>
    /\ "limiter" \in prcOpen => "redis" \in prcOpen
    /\ "events" \in prcOpen => "sink" \in prcOpen

\* "The HTTP server has drained, so every in-flight request has emitted its terminal event", for a drain that succeeded:
\* no handler meets a closed part, and a clean exit has offered the terminal event of every request and closed everything.
PrcDrainIsClean ==
  /\ prcLate # {} => prcErr
  /\ prcExit = "ok" => (prcOpen \subseteq {"server"} /\ \A r \in PrcRequests : prcReq[r] \in {"none", "told"})

\* "The second one is read and acted on, so there is no gap": a signal that arrives once the context is cancelled ends
\* the process, whatever main is stuck in.
PrcSecondForces == prcSig.ctx /\ prcSig.chan > 0 ~> ~PrcAlive

\* One signal is enough: the process ends, whatever the handlers do, unless a close hangs.
PrcFirstEnds == prcSig.ctx ~> (~PrcAlive \/ prcAt = "stuck")

\* A request is handled by a whole gateway whose background work goes on, what is open is closed in an order its users
\* survive, and a clean exit has told of every request (main, Serve, the deferred closes). What only the background
\* goroutines hold, such as request records still queued, goes with them.
PrcSafe == PrcServesWhole /\ PrcKeptAlive /\ PrcReverseOrder /\ PrcDrainIsClean
=============================================================================
