----------------------------- MODULE Observers ------------------------------
(***************************************************************************)
(* The gateway's three observers of one inference request: metrics         *)
(* (gateway/metrics.go), lifecycle events (events/observer.go) and spans   *)
(* (tracing/gwtrace/observer.go). The request behaves as RequestContract   *)
(* allows and no better: every announcement of the contract is fanned out  *)
(* to the three in one step, as multiObserver does, with any content the   *)
(* gateway can put in it.                                                  *)
(***************************************************************************)
EXTENDS Integers, Sequences, FiniteSets, SequencesExt

CONSTANTS ObsMaxAttempts,   \* gateway.max_attempts
          ObsEventAttempts  \* protocol.MaxEventAttempts

ASSUME ObsAssumption == ObsMaxAttempts \in Nat \ {0} /\ ObsEventAttempts \in Nat /\ ObsMaxAttempts <= ObsEventAttempts

VARIABLES
  obsPhase, obsWaited, obsAttempts, obsOpen, obsFirst, obsAnswered, obsHolding,  \* the request, as its contract sees it
  obsRegistry, obsSampled,  \* registry mode, and a trace that records
  obsKind,                  \* the kind of its rejection
  obsEv, obsEvents,         \* the events observer: its reqState, and what it gave to the publisher
  obsMet,                   \* the metrics this request moved
  obsSpan                   \* the tracing observer: its reqState, spans started and how often each was ended

obsContract == <<obsPhase, obsWaited, obsAttempts, obsOpen, obsFirst, obsAnswered, obsHolding>>
obsFixed == <<obsRegistry, obsSampled>>
obsVars == <<obsContract, obsFixed, obsKind, obsEv, obsEvents, obsMet, obsSpan>>

C == INSTANCE RequestContract WITH
       phase <- obsPhase, waited <- obsWaited, attempts <- obsAttempts, open <- obsOpen, first <- obsFirst, answered <- obsAnswered, holding <- obsHolding

\* The metrics of a model label, as far as one request moves them.
MetZero == [active |-> 0, requests |-> 0, failures |-> 0, ended |-> 0, selected |-> 0, refused |-> 0, shed |-> 0, waits |-> 0]

ObsInit ==
  /\ C!CInit /\ obsRegistry \in BOOLEAN /\ obsSampled \in BOOLEAN /\ obsKind = "none"
  /\ obsEv = [admitted |-> FALSE, atts |-> <<>>, first |-> FALSE] /\ obsEvents = <<>>
  /\ obsMet = MetZero
  /\ obsSpan = [root |-> "none", open |-> <<>>, ends |-> <<>>]

\* The fate of the spans is a function on the spans started so far.
ObsStartSpan(ends, s) == [t \in DOMAIN ends \cup {s} |-> IF t = s THEN 0 ELSE ends[t]]
ObsEndSpan(ends, s) == [ends EXCEPT ![s] = @ + 1]
ObsBrief(ends, s) == ObsEndSpan(ObsStartSpan(ends, s), s)  \* a span started and ended in one call

ObsEvent(typ, att) == [type |-> typ, attempt |-> att, atts |-> <<>>, class |-> "", source |-> "", tokens |-> {}]

-----------------------------------------------------------------------------
(* The three observers, one operator for each announcement they hear. *)

EvAttemptStarted(n) ==
  IF ~obsEv.admitted THEN UNCHANGED <<obsEv, obsEvents>>
  ELSE /\ obsEv' = IF Len(obsEv.atts) < ObsEventAttempts
                   THEN [obsEv EXCEPT !.atts = Append(@, [number |-> n, outcome |-> ""])] ELSE obsEv
       /\ obsEvents' = Append(obsEvents, ObsEvent("routed", n))

EvFirstToken(n) ==
  IF ~obsEv.admitted \/ obsEv.first THEN UNCHANGED <<obsEv, obsEvents>>
  ELSE obsEv' = [obsEv EXCEPT !.first = TRUE] /\ obsEvents' = Append(obsEvents, ObsEvent("first_token", n))

(* Mutant: only the newest attempt is looked at. *)
EvAttemptEndedLast(n, outcome) ==
  /\ obsEv' = [obsEv EXCEPT !.atts = [i \in DOMAIN @ |-> IF @[i].number = n /\ i = Len(obsEv.atts) THEN [@[i] EXCEPT !.outcome = outcome] ELSE @[i]]]
  /\ UNCHANGED obsEvents

EvAttemptEnded(n, outcome) ==
  /\ obsEv' = [obsEv EXCEPT !.atts = [i \in DOMAIN @ |-> IF @[i].number = n THEN [@[i] EXCEPT !.outcome = outcome] ELSE @[i]]]
  /\ UNCHANGED obsEvents

\* classify: the failure class of a completion, "" for a success.
ObsClassify(status, code) ==
  CASE code = "NO_CAPACITY" -> "no_capacity"
    [] code = "WORKER_UNAVAILABLE" -> "worker_unavailable"
    [] code = "UPSTREAM_TIMEOUT" -> "timeout"
    [] code = "INFERENCE_FAILED" -> "worker_error"
    [] code \notin {"", "NO_CAPACITY", "WORKER_UNAVAILABLE", "UPSTREAM_TIMEOUT", "INFERENCE_FAILED"} -> "internal"
    [] code = "" /\ status = 499 -> "client_closed"
    [] code = "" /\ status \in 200..299 -> ""
    [] code = "" /\ status >= 400 /\ status # 499 -> "worker_error"
    [] OTHER -> "internal"

EvRequestCompleted(status, code, source) ==
  LET class == ObsClassify(status, code)
      atts == [i \in DOMAIN obsEv.atts |-> [obsEv.atts[i] EXCEPT !.outcome = IF @ = "" THEN "unknown" ELSE @]]
  IN /\ obsEvents' = IF ~obsEv.admitted THEN obsEvents
                     ELSE Append(obsEvents,
                            [type |-> IF class = "" THEN "completed" ELSE "failed",
                             attempt |-> IF atts = <<>> THEN 0 ELSE Last(atts).number, atts |-> atts, class |-> class,
                             source |-> IF source = "" THEN "estimate" ELSE source,
                             tokens |-> CASE source = "usage" -> {"in", "out"} [] source = "chunks" -> {"out"} [] OTHER -> {}])
     /\ UNCHANGED obsEv

\* RequestRejected of the metrics: a scheduling refusal or shed load; authentication and rate limits have counters of their own.
MetRequestRejected(kind) ==
  obsMet' = CASE kind \in {"capacity", "model", "internal"} /\ obsRegistry -> [obsMet EXCEPT !.refused = @ + 1]
              [] kind = "overload" -> [obsMet EXCEPT !.shed = @ + 1]
              [] OTHER -> obsMet

\* A static-mode attempt has no worker and is not counted.
MetAttemptStarted == obsMet' = IF obsRegistry THEN [obsMet EXCEPT !.selected = @ + 1] ELSE obsMet
MetAttemptEnded(nextRefused) ==
  obsMet' = IF obsRegistry THEN [obsMet EXCEPT !.ended = @ + 1, !.refused = IF nextRefused THEN @ + 1 ELSE @] ELSE obsMet

MetRequestCompleted(code, handled) ==
  obsMet' = [obsMet EXCEPT !.active = @ - 1, !.requests = IF handled THEN @ + 1 ELSE @,
                           !.failures = IF handled /\ code # "" THEN @ + 1 ELSE @]

TrRequestStarted == obsSpan' = IF obsSampled THEN [obsSpan EXCEPT !.root = "open"] ELSE obsSpan

TrLive == obsSampled /\ obsSpan.root = "open"

\* A checked rate limit has a span of its own, and so has a refusal that came from selection; both are over when told.
TrRequestAdmitted(checked) ==
  obsSpan' = IF TrLive /\ checked THEN [obsSpan EXCEPT !.ends = ObsBrief(@, <<"rate", 0>>)] ELSE obsSpan

TrRequestRejected(kind) ==
  obsSpan' = CASE TrLive /\ kind = "rate_limit" -> [obsSpan EXCEPT !.ends = ObsBrief(@, <<"rate", 0>>)]
               [] TrLive /\ kind \in {"capacity", "model"} /\ obsPhase = "admitted" -> [obsSpan EXCEPT !.ends = ObsBrief(@, <<"select", 0>>)]
               [] OTHER -> obsSpan

TrAttemptStarted(n) ==
  obsSpan' = IF ~TrLive THEN obsSpan
             ELSE [obsSpan EXCEPT !.open = Append(@, n),
                     !.ends = ObsStartSpan(IF obsRegistry THEN ObsBrief(@, <<"select", n>>) ELSE @, <<"forward", n>>)]

TrFirstToken(n) ==
  obsSpan' = IF ~obsSampled \/ n \notin ToSet(obsSpan.open) \/ <<"completion", n>> \in DOMAIN obsSpan.ends THEN obsSpan
             ELSE [obsSpan EXCEPT !.ends = ObsStartSpan(ObsBrief(@, <<"first_token", n>>), <<"completion", n>>)]

\* endAttempt: once, off the list of open attempts, the completion span before the attempt's own.
TrEnd(span, n) ==
  IF n \notin ToSet(span.open) THEN span
  ELSE [span EXCEPT !.open = SelectSeq(@, LAMBDA m : m # n),
          !.ends = ObsEndSpan(IF <<"completion", n>> \in DOMAIN @ THEN ObsEndSpan(@, <<"completion", n>>) ELSE @, <<"forward", n>>)]

TrAttemptEnded(n) == obsSpan' = IF obsSampled THEN TrEnd(obsSpan, n) ELSE obsSpan

TrRequestCompleted ==
  obsSpan' = IF ~TrLive THEN obsSpan ELSE [FoldLeft(TrEnd, obsSpan, obsSpan.open) EXCEPT !.root = "ended"]

-----------------------------------------------------------------------------
(* The announcements: a step of the contract, and the three observers hear of it. *)

ObsRequestStarted ==
  /\ C!CStart /\ obsMet' = [obsMet EXCEPT !.active = @ + 1] /\ TrRequestStarted
  /\ UNCHANGED <<obsFixed, obsKind, obsEv, obsEvents>>

ObsRequestAdmitted ==
  /\ C!CAdmit /\ obsEv' = [obsEv EXCEPT !.admitted = TRUE] /\ obsEvents' = Append(obsEvents, ObsEvent("received", 0))
  /\ \E checked \in BOOLEAN : TrRequestAdmitted(checked)
  /\ UNCHANGED <<obsFixed, obsKind, obsMet>>

ObsRequestRejected ==
  /\ \E kind \in IF obsPhase = "started" THEN {"auth", "validation", "rate_limit", "model", "overload", "internal"} ELSE {"model", "capacity", "internal", "overload"} :
        obsKind' = kind /\ MetRequestRejected(kind) /\ TrRequestRejected(kind)
  /\ C!CReject /\ UNCHANGED <<obsFixed, obsEv, obsEvents>>

ObsQueueWaited == C!CWaited /\ obsMet' = [obsMet EXCEPT !.waits = @ + 1] /\ UNCHANGED <<obsFixed, obsKind, obsEv, obsEvents, obsSpan>>

ObsAttemptStarted ==
  /\ obsAttempts < ObsMaxAttempts /\ C!CAttempt
  /\ EvAttemptStarted(obsAttempts + 1) /\ MetAttemptStarted /\ TrAttemptStarted(obsAttempts + 1)
  /\ UNCHANGED <<obsFixed, obsKind>>

\* The first chunk of the last attempt's stream is about to be written to the client.
ObsFirstToken ==
  /\ C!CFirst /\ EvFirstToken(obsAttempts) /\ TrFirstToken(obsAttempts)
  /\ UNCHANGED <<obsFixed, obsKind, obsMet>>

ObsAttemptEnded ==
  /\ \E n \in obsOpen, outcome \in {"ok", "failed", "retried", "client_closed"}, refused \in BOOLEAN :
       /\ obsOpen' = obsOpen \ {n} /\ (refused => n = obsAttempts)
       /\ EvAttemptEnded(n, outcome) /\ MetAttemptEnded(refused) /\ TrAttemptEnded(n)
  /\ C!CEnd /\ UNCHANGED <<obsFixed, obsKind>>

\* What a completion can say: a status and an error code. A refused authentication was not handled.
ObsResults ==
  {<<200, "">>, <<200, "INFERENCE_FAILED">>, <<200, "UPSTREAM_TIMEOUT">>, <<499, "">>, <<422, "">>, <<502, "">>, <<400, "INVALID_REQUEST">>,
   <<503, "NO_CAPACITY">>, <<503, "WORKER_UNAVAILABLE">>, <<504, "UPSTREAM_TIMEOUT">>, <<502, "INFERENCE_FAILED">>, <<500, "INTERNAL_ERROR">>}

ObsRequestCompleted ==
  /\ C!CComplete
  /\ \E r \in ObsResults, source \in {"", "usage", "chunks"} :
       /\ (obsPhase = "rejected" => r[2] # "") /\ (source # "" => obsAttempts > 0)
       /\ EvRequestCompleted(r[1], r[2], source) /\ MetRequestCompleted(r[2], obsKind # "auth") /\ TrRequestCompleted
  /\ UNCHANGED <<obsFixed, obsKind>>

\* The steps of the request nobody is told of.
ObsQuiet == (C!CAnswer \/ C!CHold) /\ UNCHANGED <<obsFixed, obsKind, obsEv, obsEvents, obsMet, obsSpan>>

ObsNext ==
  \/ ObsRequestStarted \/ ObsRequestAdmitted \/ ObsRequestRejected \/ ObsQueueWaited \/ ObsAttemptStarted
  \/ ObsFirstToken \/ ObsAttemptEnded \/ ObsRequestCompleted \/ ObsQuiet

ObsSpec == ObsInit /\ [][ObsNext]_obsVars

\* Event.Validate and validateTerminal: what a consumer demands of an event.
ObsFailureClasses == {"no_capacity", "worker_unavailable", "worker_error", "timeout", "client_closed", "internal"}
ObsValidate(e) ==
  /\ e.type = "routed" => e.attempt >= 1
  /\ e.type \in {"completed", "failed"} =>
       /\ e.source \in {"usage", "chunks", "estimate"} /\ (e.source = "estimate" => e.tokens = {})
       /\ IF e.type = "failed" THEN e.class \in ObsFailureClasses ELSE e.class = ""
       /\ Len(e.atts) <= ObsEventAttempts
       /\ \A i \in DOMAIN e.atts : e.atts[i].number >= 1 /\ e.atts[i].outcome # ""

-----------------------------------------------------------------------------
(* Properties. *)

ObsTerminals == {i \in DOMAIN obsEvents : obsEvents[i].type \in {"completed", "failed"}}

\* "Exactly one terminal event for an admitted request", which comes last, after a received; none for any other request.
ObsOneTerminal ==
  /\ obsEvents # <<>> <=> obsEv.admitted
  /\ obsEv.admitted => obsEvents[1].type = "received"
  /\ ObsTerminals = IF obsPhase = "completed" /\ obsEv.admitted THEN {Len(obsEvents)} ELSE {}

\* The usage record tells the whole story of the attempts: all of them, in order, each with the outcome it ended with.
ObsHistoryComplete ==
  \A i \in ObsTerminals :
    /\ Len(obsEvents[i].atts) = obsAttempts
    /\ \A n \in DOMAIN obsEvents[i].atts : obsEvents[i].atts[n].number = n /\ obsEvents[i].atts[n].outcome # "unknown"

\* No two events of a request share an event ID (a function of type and attempt), and none is refused by Encode: the
\* store keeps one row for an ID, and an event that cannot be encoded is lost.
ObsEventsStorable ==
  /\ \A i, j \in DOMAIN obsEvents : obsEvents[i].type = obsEvents[j].type /\ obsEvents[i].attempt = obsEvents[j].attempt => i = j
  /\ \A i \in DOMAIN obsEvents : ObsValidate(obsEvents[i])

\* A completed request leaves the gauge where it found it, is counted once if it was handled, and every worker the
\* scheduler selected for it shows up as one attempt.
ObsCountersBalance ==
  /\ obsMet.active = IF obsPhase \in {"idle", "completed"} THEN 0 ELSE 1
  /\ obsPhase = "completed" => obsMet.ended = obsMet.selected /\ obsMet.requests = IF obsKind = "auth" THEN 0 ELSE 1

\* Every span is ended at most once, and once the request is complete all of them exactly once.
ObsSpansClosed ==
  /\ \A s \in DOMAIN obsSpan.ends : obsSpan.ends[s] <= 1
  /\ obsPhase = "completed" => obsSpan.root # "open" /\ \A s \in DOMAIN obsSpan.ends : obsSpan.ends[s] = 1

\* The three observers of a request (events, metrics, traces) tell the whole story of it once, in every order of calls
\* the contract allows.
ObsStoryWhole == ObsOneTerminal /\ ObsHistoryComplete /\ ObsEventsStorable /\ ObsCountersBalance /\ ObsSpansClosed
=============================================================================
