----------------------------- MODULE SlotRouter -----------------------------
(***************************************************************************)
(* How requests come by worker slots: internal/gateway/router.go and the   *)
(* wait loop of resilience_queue.go, on top of the admission queue.        *)
(*                                                                         *)
(* Three kinds of goroutine interleave: requests (route, wait, run, retry, *)
(* release), the snapshot refresher (which wakes waiters), and the drain.  *)
(* route reads the registry view and the breakers BEFORE it takes the      *)
(* router's mutex; what it decides under the mutex (reserve) uses that     *)
(* older view but the current inflight counts.  The wake-up a release owes *)
(* happens after the mutex is dropped.                                     *)
(*                                                                         *)
(* The breakers are here only the set of workers that refuse a ticket; the *)
(* module Breakers models them.                                            *)
(***************************************************************************)
EXTENDS AdmissionQueue

CONSTANTS Workers,
          WorkerModel,   \* the model a worker serves
          Gens,          \* registrations of a worker: 0 .. MaxGen
          Capacity,      \* max_concurrency of every worker
          MaxAttempts,   \* retry.max: attempts of one request
          MaxChurn,      \* bound: changes of the view and the breakers
          MaxArrivals,   \* bound: requests that arrive in all
          Timeouts,      \* whether max_wait may pass
          Cancels,       \* whether clients may go away
          Panics,        \* whether a routing may panic
          Drains         \* whether the gateway may be told to stop

ASSUME RouterAssumption ==
    /\ IsFiniteSet(Workers)
    /\ WorkerModel \in [Workers -> Models]
    /\ Gens \subseteq Nat /\ 0 \in Gens
    /\ Slots = Workers \X Gens
    /\ Capacity \in Nat \ {0}
    /\ {MaxAttempts, MaxChurn, MaxArrivals} \subseteq Nat
    /\ {Timeouts, Cancels, Panics, Drains} \subseteq BOOLEAN

VARIABLES view,     \* worker -> schedulable?, reported load, registration
          ejected,  \* workers whose breaker refuses a ticket
          inflight, \* worker -> slots this gateway has taken on it
          held,     \* request -> the slots it holds (two while it swaps)
          stage,    \* request -> where its goroutine is
          seen,     \* request -> the view its routing read
          tried,    \* request -> workers it has been sent to
          gone,     \* requests whose context is cancelled
          owing,    \* requests that still owe the Wake of a release
          refresher,\* [at, todo, n]: the refresh loop
          churn,    \* view and breaker changes so far
          arrivals, \* requests so far
          cut       \* history: waiters whose last routing the context cut short

routerVars == <<view, ejected, inflight, held, stage, seen, tried, gone,
                owing, refresher, churn, arrivals, cut>>
vars == <<queueVars, routerVars>>

Stages == {"idle", "arriving", "queued", "rerouting", "took", "failed",
           "running", "retrying", "swapping", "ending"}

Views == [Workers -> [up : BOOLEAN, reported : 0 .. Capacity, gen : Gens]]

InitialView == [w \in Workers |-> [up |-> TRUE, reported |-> 0, gen |-> 0]]

RouterInit ==
    /\ Init
    /\ view = InitialView
    /\ ejected = {}
    /\ inflight = [w \in Workers |-> 0]
    /\ held = [r \in Requests |-> {}]
    /\ stage = [r \in Requests |-> "idle"]
    /\ seen = [r \in Requests |-> InitialView]
    /\ tried = [r \in Requests |-> {}]
    /\ gone = {}
    /\ owing = {}
    /\ refresher = [at |-> "idle", todo |-> {}, n |-> 0]
    /\ churn = 0
    /\ arrivals = 0
    /\ cut = {}

-----------------------------------------------------------------------------
(* Routing: what a request sees and what it may take *)

(* The load the scheduler is shown: the larger of what the worker reported *)
(* and what this gateway has in flight on it.                              *)
Overlay(v, w) == IF v[w].reported > inflight[w] THEN v[w].reported ELSE inflight[w]

HasRoom(v, w) == Overlay(v, w) < Capacity

(* What the registry says once the fleet is well and its reports are in. *)
Recovered == [w \in Workers |-> [view[w] EXCEPT !.up = TRUE, !.reported = 0]]

(* The view with the workers the breakers do not admit marked ineligible. *)
Filtered == [w \in Workers |-> [view[w] EXCEPT !.up = @ /\ w \notin ejected]]

Offered(r) ==
    {w \in Workers \ tried[r] : WorkerModel[w] = ModelOf[r] /\ seen[r][w].up}

(* What the select-then-Acquire loop of reserve can end on. *)
Candidates(r) == {w \in Offered(r) : HasRoom(seen[r], w) /\ w \notin ejected}

(* Nothing to take, and what is left of the offer is full. *)
AllFull(r) ==
    /\ Candidates(r) = {}
    /\ \E w \in Offered(r) : ~HasRoom(seen[r], w)

(* Mutant: an arrival never looks for waiters first. *)
NeverMustJoin(r) == FALSE

(* The request must queue without being routed. *)
MustJoin(r) == Offered(r) # {} /\ Busy(ModelOf[r])

(* reserve ends with a slot on w. *)
Reserve(r, w) ==
    /\ r \notin gone
    /\ w \in Candidates(r)
    /\ inflight' = [inflight EXCEPT ![w] = @ + 1]
    /\ held' = [held EXCEPT ![r] = @ \cup {<<w, seen[r][w].gen>>}]

(* reserve ends with an error: SelectWorker looks at the context first. *)
ReserveFails(r) == r \in gone \/ Candidates(r) = {}

At(r, s) == stage[r] = s /\ r \notin owing

(* The goroutine moves on; the view it had read is forgotten, *)
GoTo(r, s) ==
    /\ stage' = [stage EXCEPT ![r] = s]
    /\ seen' = [seen EXCEPT ![r] = InitialView]

(* or it reads the view to route, and asks the breakers unless the         *)
(* approximate counter nonClosed reads zero (see BreakerEvents).           *)
ReadAndGoTo(r, s) ==
    /\ stage' = [stage EXCEPT ![r] = s]
    /\ \E v \in {Filtered, view} : seen' = [seen EXCEPT ![r] = v]

-----------------------------------------------------------------------------
(* A request arrives: RouteOrWait *)

Arrive(r) ==
    /\ At(r, "idle")
    /\ arrivals < MaxArrivals
    /\ arrivals' = arrivals + 1
    /\ ReadAndGoTo(r, "arriving")
    /\ UNCHANGED <<queueVars, view, ejected, inflight, held, tried, gone,
                   owing, refresher, churn, cut>>

(* It finds waiters, or every worker full, and the queue takes it. *)
ArriveQueued(r) ==
    /\ At(r, "arriving")
    /\ MustJoin(r) \/ (r \notin gone /\ AllFull(r))
    /\ Enqueue(r)
    /\ GoTo(r, "queued")
    /\ UNCHANGED <<view, ejected, inflight, held, tried, gone, owing,
                   refresher, churn, arrivals, cut>>

ArriveServed(r, w) ==
    /\ At(r, "arriving")
    /\ ~MustJoin(r)
    /\ Reserve(r, w)
    /\ GoTo(r, "running")
    /\ UNCHANGED <<queueVars, view, ejected, tried, gone, owing, refresher,
                   churn, arrivals, cut>>

(* The queue refuses it, nobody is eligible, its client left, or every     *)
(* worker is full while the registry is unreachable (Degraded).            *)
ArriveRefused(r) ==
    /\ At(r, "arriving")
    /\ IF MustJoin(r) THEN Refusal(ModelOf[r], TenantOf[r]) # ""
                      ELSE ReserveFails(r)
    /\ GoTo(r, "idle")
    /\ gone' = gone \ {r}
    /\ UNCHANGED <<queueVars, view, ejected, inflight, held, tried, owing,
                   refresher, churn, arrivals, cut>>

-----------------------------------------------------------------------------
(* A request waits: awaitSlot *)

(* A slot is handed over (even to one whose client has left or whose timer *)
(* fired, when Leave finds it in the channel).                             *)
HandoffReceived(r) ==
    /\ At(r, "queued")
    /\ ch[r] \in Slots
    /\ ReceiveFinal(r)
    /\ held' = [held EXCEPT ![r] = {ch[r]}]
    /\ GoTo(r, "running")
    /\ UNCHANGED <<view, ejected, inflight, tried, gone, owing, refresher,
                   churn, arrivals, cut>>

FlushReceived(r) ==
    /\ At(r, "queued")
    /\ ch[r] = Flushed
    /\ ReceiveFinal(r)
    /\ GoTo(r, "idle")
    /\ gone' = gone \ {r}
    /\ cut' = cut \ {r}
    /\ UNCHANGED <<view, ejected, inflight, held, tried, owing, refresher,
                   churn, arrivals>>

RerouteReceived(r) ==
    /\ At(r, "queued")
    /\ ReceiveReroute(r)
    /\ UNCHANGED routerVars

(* Mutant: the wait loop returns on a timeout and forgets Leave. *)
GiveUpWithoutLeave(r) ==
    /\ At(r, "queued")
    /\ phase[r] = "waiting"
    /\ Timeouts \/ r \in gone
    /\ phase' = [phase EXCEPT ![r] = "out"]
    /\ GoTo(r, "idle")
    /\ gone' = gone \ {r}
    /\ cut' = cut \ {r}
    /\ UNCHANGED <<queue, woken, credit, tenants, ch, closed, view, ejected,
                   inflight, held, tried, owing, refresher, churn, arrivals>>

(* max_wait passes, or the context ends, while the request is in Wait. *)
GiveUp(r) ==
    /\ At(r, "queued")
    /\ phase[r] = "waiting"
    /\ Timeouts \/ r \in gone
    /\ Leave(r) \/ LeaveAgain(r)
    /\ GoTo(r, "idle")
    /\ gone' = gone \ {r}
    /\ cut' = cut \ {r}
    /\ UNCHANGED <<view, ejected, inflight, held, tried, owing, refresher,
                   churn, arrivals>>

(* Route of a woken waiter: the view is read, then reserve, then Done or   *)
(* Park; the queue and the counts may change between any two of these.     *)
RerouteReadsView(r) ==
    /\ At(r, "queued")
    /\ phase[r] = "routing"
    /\ ReadAndGoTo(r, "rerouting")
    /\ UNCHANGED <<queueVars, view, ejected, inflight, held, tried, gone,
                   owing, refresher, churn, arrivals, cut>>

RerouteReserves(r, w) ==
    /\ At(r, "rerouting")
    /\ Reserve(r, w)
    /\ GoTo(r, "took")
    /\ UNCHANGED <<queueVars, view, ejected, tried, gone, owing, refresher,
                   churn, arrivals, cut>>

RerouteFails(r) ==
    /\ At(r, "rerouting")
    /\ ReserveFails(r)
    /\ GoTo(r, "failed")
    /\ cut' = IF r \in gone THEN cut \cup {r} ELSE cut \ {r}
    /\ UNCHANGED <<queueVars, view, ejected, inflight, held, tried, gone,
                   owing, refresher, churn, arrivals>>

RerouteDone(r) ==
    /\ At(r, "took")
    /\ Done(r)
    /\ GoTo(r, "running")
    /\ UNCHANGED <<view, ejected, inflight, held, tried, gone, owing,
                   refresher, churn, arrivals, cut>>

RerouteParks(r) ==
    /\ At(r, "failed")
    /\ Park(r)
    /\ GoTo(r, "queued")
    /\ UNCHANGED <<view, ejected, inflight, held, tried, gone, owing,
                   refresher, churn, arrivals, cut>>

(* The scheduler panics inside Route; the deferred cleanup leaves. *)
ReroutePanics(r) ==
    /\ Panics
    /\ At(r, "rerouting")
    /\ Leave(r) \/ LeaveAgain(r)
    /\ GoTo(r, "idle")
    /\ gone' = gone \ {r}
    /\ cut' = cut \ {r}
    /\ UNCHANGED <<view, ejected, inflight, held, tried, owing, refresher,
                   churn, arrivals>>

-----------------------------------------------------------------------------
(* A request runs on a worker: the slot part of forwardRegistry *)

(* Mutant: a slot handed over is counted down as well. *)
ReleaseAlwaysFrees(w, g, owed) ==
    LET m == WorkerModel[w]
        usable == view[w].up /\ view[w].gen = g /\ w \notin ejected
    IN  /\ inflight' = [inflight EXCEPT ![w] = @ - 1]
        /\ \/ ~Busy(m) /\ ~owed /\ UNCHANGED queueVars
           \/ Busy(m) /\ ~usable /\ owed /\ UNCHANGED queueVars
           \/ usable /\ ~owed /\ HandoffGiven(m, <<w, g>>)
           \/ usable /\ ~owed /\ HandoffDeclined(m)

(* releaseSlot of a slot on w taken at registration g.  Under the router's *)
(* mutex the slot goes to the head waiter if the worker may still be used, *)
(* else inflight drops; owed says a Wake(model, 1) is due after it.        *)
ReleaseSlot(w, g, owed) ==
    LET m == WorkerModel[w]
        free == inflight' = [inflight EXCEPT ![w] = @ - 1]
        usable == view[w].up /\ view[w].gen = g /\ w \notin ejected
    IN  \/ ~Busy(m) /\ ~owed /\ free /\ UNCHANGED queueVars
        \/ Busy(m) /\ ~usable /\ owed /\ free /\ UNCHANGED queueVars
        \/ usable /\ ~owed /\ HandoffGiven(m, <<w, g>>) /\ UNCHANGED inflight
        \/ usable /\ ~owed /\ HandoffDeclined(m) /\ free

Owe(r, owed) == owing' = IF owed THEN owing \cup {r} ELSE owing

(* The attempt ends (relayed, failed, cancelled, panicked) and with it the *)
(* request.                                                                *)
Finish(r) ==
    \E s \in held[r], owed \in BOOLEAN :
        /\ At(r, "running") \/ At(r, "ending")
        /\ ReleaseSlot(s[1], s[2], owed)
        /\ Owe(r, owed)
        /\ held' = [held EXCEPT ![r] = {}]
        /\ tried' = [tried EXCEPT ![r] = {}]
        /\ gone' = gone \ {r}
        /\ GoTo(r, "idle")
        /\ UNCHANGED <<view, ejected, refresher, churn, arrivals, cut>>

(* The attempt failed before output began: look for another worker while   *)
(* the old slot is still held.  A retry's Route never waits.               *)
Retry(r) ==
    \E s \in held[r] :
        /\ At(r, "running")
        /\ Cardinality(tried[r]) + 1 < MaxAttempts
        /\ r \notin gone
        /\ tried' = [tried EXCEPT ![r] = @ \cup {s[1]}]
        /\ ReadAndGoTo(r, "retrying")
        /\ UNCHANGED <<queueVars, view, ejected, inflight, held, gone, owing,
                       refresher, churn, arrivals, cut>>

RetryReserves(r, w) ==
    /\ At(r, "retrying")
    /\ Reserve(r, w)
    /\ GoTo(r, "swapping")
    /\ UNCHANGED <<queueVars, view, ejected, tried, gone, owing, refresher,
                   churn, arrivals, cut>>

(* No other worker: the failed response is what the client gets. *)
RetryFails(r) ==
    /\ At(r, "retrying")
    /\ ReserveFails(r)
    /\ GoTo(r, "ending")
    /\ UNCHANGED <<queueVars, view, ejected, inflight, held, tried, gone,
                   owing, refresher, churn, arrivals, cut>>

(* abandonAttempt of the attempt that was replaced. *)
Swap(r) ==
    \E s \in held[r], owed \in BOOLEAN :
        /\ At(r, "swapping")
        /\ s[1] \in tried[r]
        /\ ReleaseSlot(s[1], s[2], owed)
        /\ Owe(r, owed)
        /\ held' = [held EXCEPT ![r] = @ \ {s}]
        /\ GoTo(r, "running")
        /\ UNCHANGED <<view, ejected, tried, gone, refresher, churn, arrivals,
                       cut>>

(* The Wake that follows releaseSlot once the mutex is dropped. *)
PayWake(r) ==
    /\ r \in owing
    /\ Wake(ModelOf[r], 1)
    /\ owing' = owing \ {r}
    /\ UNCHANGED <<view, ejected, inflight, held, stage, seen, tried, gone,
                   refresher, churn, arrivals, cut>>

-----------------------------------------------------------------------------
(* The refresh loop: store the view, list the queued models, and for each  *)
(* count the free slots (under the router's mutex) and wake as many.       *)

Refresh ==
    /\ refresher.at = "idle"
    /\ IF churn < MaxChurn
       THEN /\ churn' = churn + 1
            /\ \E v \in Views :
                /\ \A w \in Workers : v[w].gen >= view[w].gen
                /\ view' = v
       ELSE /\ view' = Recovered
            /\ UNCHANGED churn
    /\ refresher' = [refresher EXCEPT !.at = "list"]
    /\ UNCHANGED <<queueVars, ejected, inflight, held, stage, seen, tried,
                   gone, owing, arrivals, cut>>

ListQueued ==
    /\ refresher.at = "list"
    /\ refresher' = [refresher EXCEPT
                        !.todo = QueuedModels,
                        !.at = IF QueuedModels = {} THEN "idle" ELSE "count"]
    /\ UNCHANGED <<queueVars, view, ejected, inflight, held, stage, seen,
                   tried, gone, owing, churn, arrivals, cut>>

(* Mutant: one slot of every worker is not counted. *)
FreeSlotsShort(m) ==
    Cardinality({s \in Workers \X (1 .. Capacity) :
                    /\ WorkerModel[s[1]] = m
                    /\ view[s[1]].up /\ s[1] \notin ejected
                    /\ s[2] > Overlay(view, s[1]) + 1})

(* freeSlots: schedulable and admissible workers, and of each the places   *)
(* above its overlaid load.                                                *)
FreeSlots(m) ==
    Cardinality({s \in Workers \X (1 .. Capacity) :
                    /\ WorkerModel[s[1]] = m
                    /\ view[s[1]].up /\ s[1] \notin ejected
                    /\ s[2] > Overlay(view, s[1])})

CountFree(m) ==
    /\ refresher.at = "count"
    /\ m \in refresher.todo
    /\ refresher' = [at |-> "wake", todo |-> refresher.todo, n |-> FreeSlots(m)]
    /\ UNCHANGED <<queueVars, view, ejected, inflight, held, stage, seen,
                   tried, gone, owing, churn, arrivals, cut>>

(* Wake(m, n) for the model counted; n = 0 wakes nobody. *)
WakeCounted(m) ==
    LET left == refresher.todo \ {m} IN
    /\ refresher.at = "wake"
    /\ m \in refresher.todo
    /\ Wake(m, refresher.n)
    /\ refresher' = [at |-> IF left = {} THEN "idle" ELSE "count",
                     todo |-> left, n |-> 0]
    /\ UNCHANGED <<view, ejected, inflight, held, stage, seen, tried, gone,
                   owing, churn, arrivals, cut>>

-----------------------------------------------------------------------------
(* What happens around the router *)

(* Time passes over the snapshot: a worker turns suspect before a refresh. *)
Age(w) ==
    /\ view[w].up
    /\ churn < MaxChurn
    /\ view' = [view EXCEPT ![w].up = FALSE]
    /\ churn' = churn + 1
    /\ UNCHANGED <<queueVars, ejected, inflight, held, stage, seen, tried,
                   gone, owing, refresher, arrivals, cut>>

(* A breaker opens or runs out of probes; nobody is told. *)
Eject(w) ==
    /\ w \notin ejected
    /\ churn < MaxChurn
    /\ ejected' = ejected \cup {w}
    /\ churn' = churn + 1
    /\ UNCHANGED <<queueVars, view, inflight, held, stage, seen, tried, gone,
                   owing, refresher, arrivals, cut>>

(* It admits requests again; nobody is told. *)
Readmit(w) ==
    /\ w \in ejected
    /\ ejected' = ejected \ {w}
    /\ UNCHANGED <<queueVars, view, inflight, held, stage, seen, tried, gone,
                   owing, refresher, churn, arrivals, cut>>

ClientLeaves(r) ==
    /\ Cancels
    /\ stage[r] # "idle"
    /\ r \notin gone
    /\ gone' = gone \cup {r}
    /\ UNCHANGED <<queueVars, view, ejected, inflight, held, stage, seen,
                   tried, owing, refresher, churn, arrivals, cut>>

(* beginDrain closes the queue at once and flushes it near the end of the  *)
(* shutdown budget.                                                        *)
BeginDrain ==
    /\ Drains
    /\ ~closed
    /\ Close
    /\ UNCHANGED routerVars

DrainFlush ==
    /\ closed
    /\ QueuedModels # {}
    /\ Flush
    /\ UNCHANGED routerVars

-----------------------------------------------------------------------------
WaitStep(r) ==
    \/ HandoffReceived(r)
    \/ FlushReceived(r)
    \/ RerouteReceived(r)
    \/ RerouteReadsView(r)
    \/ \E w \in Workers : RerouteReserves(r, w)
    \/ RerouteFails(r)
    \/ RerouteDone(r)
    \/ RerouteParks(r)

(* The steps a request's goroutine takes by itself once it is in. *)
Proceed(r) ==
    \/ WaitStep(r)
    \/ ArriveQueued(r)
    \/ \E w \in Workers : ArriveServed(r, w)
    \/ ArriveRefused(r)
    \/ \E w \in Workers : RetryReserves(r, w)
    \/ RetryFails(r)
    \/ Swap(r)
    \/ PayWake(r)

RefreshStep ==
    \/ Refresh
    \/ ListQueued
    \/ \E m \in Models : CountFree(m) \/ WakeCounted(m)

RouterNext ==
    \/ \E r \in Requests :
        \/ Arrive(r)
        \/ Proceed(r)
        \/ Finish(r)
        \/ Retry(r)
        \/ GiveUp(r)
        \/ ReroutePanics(r)
        \/ ClientLeaves(r)
    \/ RefreshStep
    \/ \E w \in Workers : Age(w) \/ Eject(w) \/ Readmit(w)
    \/ BeginDrain
    \/ DrainFlush

RouterSpec == RouterInit /\ [][RouterNext]_vars

(* Goroutines that can run do run; every attempt ends (the idle and        *)
(* first-byte timers cut a silent worker); the refresh loop ticks; an open *)
(* breaker lets somebody in again after its cool-down; the drain's flush   *)
(* timer fires.  Nothing is assumed of arrivals, retries, clients or time  *)
(* outs.                                                                   *)
Fairness ==
    /\ \A r \in Requests : WF_vars(Proceed(r)) /\ WF_vars(Finish(r))
    /\ WF_vars(RefreshStep)
    /\ \A w \in Workers : WF_vars(Readmit(w))
    /\ WF_vars(DrainFlush)

FairSpec == RouterSpec /\ Fairness

-----------------------------------------------------------------------------
(* Properties *)

(* Every variable of the router holds a value of its kind. *)
RouterTypeOK ==
    /\ TypeOK
    /\ view \in Views
    /\ ejected \subseteq Workers
    /\ inflight \in [Workers -> Nat]
    /\ held \in [Requests -> SUBSET Slots]
    /\ stage \in [Requests -> Stages]
    /\ seen \in [Requests -> Views]
    /\ tried \in [Requests -> SUBSET Workers]
    /\ gone \subseteq Requests
    /\ owing \subseteq Requests
    /\ refresher \in [at : {"idle", "list", "count", "wake"},
                      todo : SUBSET Models, n : Nat]
    /\ churn \in 0 .. MaxChurn
    /\ arrivals \in 0 .. MaxArrivals
    /\ cut \subseteq Requests

(* Slots on w that somebody holds, or that sit in a waiter's channel. *)
Holders(w) == {r \in Requests : \E s \in held[r] : s[1] = w}
Promised(w) == {r \in Requests : ch[r] \in Slots /\ ch[r][1] = w}

(* inflight counts each slot once, through reservations, hand-offs, swaps  *)
(* and releases: a slot is neither leaked (inflight would stay up for      *)
(* good) nor given back twice.                                             *)
SlotsAccounted ==
    \A w \in Workers :
        inflight[w] = Cardinality(Holders(w)) + Cardinality(Promised(w))

(* reserve decides and counts in one critical section, and a hand-off      *)
(* keeps the count: no worker is given more requests than it declared,     *)
(* however stale the view a routing started from.                          *)
NoOverCommit == \A w \in Workers : inflight[w] <= Capacity

(* A request stands in the admission queue only while its goroutine is in  *)
(* awaitSlot, and holds a slot only outside it (or on the way out, before  *)
(* its Done): no waiter keeps a worker busy.                               *)
WaitersHoldNothing ==
    \A r \in Requests :
        /\ InQueue(r) => stage[r] \in {"queued", "rerouting", "took", "failed"}
        /\ InQueue(r) /\ held[r] # {} => stage[r] = "took"

(* The router, its wait loop and its drain use the queue only as its       *)
(* protocol allows (one Wait at a time, Done and Park only while routing). *)
QueueProtocolKept == Spec

(* Strict queueing: an arrival gets a slot by its own routing only when    *)
(* nobody waits for the model, whatever the view it read said.             *)
NoQueueJump ==
    [][\A r \in Requests :
          stage[r] = "arriving" /\ held[r]' # {} => ~Busy(ModelOf[r])]_vars

(* With no timeouts, cancels or panics, and arrivals and a fleet that come *)
(* to rest, every queued request is served unless the gateway drains:      *)
(* hand-offs, credit, owed wake-ups and refreshes together lose no waiter. *)
WaiterServed ==
    \A r \in Requests : phase[r] # "out" ~> (held[r] # {} \/ closed)

(* Once the gateway drains, every wait ends and none begins again. *)
DrainEndsWaits == closed ~> [](\A r \in Requests : phase[r] = "out")

(* ADR-020: a waiter that leaves without having used its wake-up (timeout, *)
(* cancel) gives that wake-up back as credit.  Here a slot is free, nobody *)
(* else is about to be woken, and the wake-up is unused because the        *)
(* cancelled context ended the routing before it looked at a worker.       *)
UnusedWakeupGivenBack ==
    [][\A r \in cut :
          LET m == ModelOf[r]
              leaves == InQueue(r) /\ ~InQueue(r)' /\ Busy(m)'
              unwatched == refresher.at = "idle" /\ owing = {}
          IN  leaves /\ unwatched /\ FreeSlots(m) > 0
                => Wakeups(m)' > Wakeups(m) - (IF r \in woken THEN 1 ELSE 0)]_vars

(* What the router's bookkeeping promises at every step, with the refresher, *)
(* releases, hand-offs, retries and cancels between route's read of the    *)
(* view and reserve: the counts are exact, no worker is over-committed and *)
(* no waiter keeps a worker busy.                                          *)
SlotsSafe == RouterTypeOK /\ SlotsAccounted /\ NoOverCommit /\ WaitersHoldNothing
=============================================================================
