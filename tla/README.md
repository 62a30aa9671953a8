# ServerFlow: TLA+ verification

ServerFlow is a gateway in front of LLM inference workers. A request is
authenticated, admitted, rate limited, routed to a worker (or queued until one has
room), sent, retried if that is safe, and relayed; what it used is published and
stored. This directory models that path and what surrounds it, wherever concurrency,
time or failures meet. It checks the models with TLC on small instances and proves the central ones with
TLAPS for every size. `PROJECT.json` maps every definition to the source lines it models.

## 1. The system and its parts

| Part (source under `src/internal/`) | State | Operations | Talks to |
|---|---|---|---|
| Admission queue (`resilience/queue.go`) | per model: waiters in order, woken flags, credit, tenant counts; per waiter a one-place channel | Enqueue, Handoff, Wake, Wait, Leave, Done, Park, Flush, Close | router |
| Router (`gateway/router.go`, `gateway/resilience_queue.go`) | `inflight` per worker, who holds what | route, reserve, releaseSlot, wakeWaiters, awaitSlot, drain | queue, snapshot, breakers, scheduler |
| Circuit breakers (`resilience/breaker.go`, `breakers.go`) | per worker: state, epoch, tickets, window, streak, level | Acquire, Record, RecordAbort, Release, Sync | router, attempts, snapshot |
| Breaker events (`gateway/resilience.go`) | bounded event list, `flushing`, `nonClosed` | push, flush, sync | breakers, observers, router |
| Retry budget (`resilience/budget.go`) | per model: window of first attempts and retries | NoteFirst, Reserve, Refund, Prune | attempts |
| Chat handler (`gateway/handlers.go`, `middleware.go`, `auth.go`, `ratelimit.go`, `resilience/admission.go`) | what the request holds: place under the cap, lease, slot, ticket, body | authenticate, admit, route, relay, clean up | everything |
| Attempts (`gateway/attempt.go`, `resilience_attempt.go`, `retry.go`) | attempt phase, timers, slot, ticket, verdict | start, send, peek, abandon, end, retry | all of the above |
| Observers (`gateway/metrics.go`, `events/observer.go`, `tracing/gwtrace/`) | counters, the event of the request, spans | one method per announcement | chat handler, publisher, span batcher |
| Snapshot cache (`gateway/snapshot.go`) | last view, its age | Refresh, Sync, age | registry, router, breakers |
| Schedulers (`scheduler/`, `scheduler/signals/`) | rotor; ledger and history per worker; decayed peaks | SelectWorker; Begin, AddCost, End, Sync, Overlay | router |
| Registry, client, agent (`registry/`, `worker/`) | registrations, heartbeats, drained flags | register, heartbeat, deregister, sweep; agent step, shutdown | each other, snapshot |
| Rate limiter (`ratelimit/`, `redis/`) | buckets and leases in Redis, tracked leases and queued releases in the gateway | Allow, Release, Renew, fail open/closed | chat handler |
| API keys (`auth/`, `postgres/keys.go`) | LRU with positive and negative entries, flights | Authenticate, fetch, lookup | PostgreSQL, operator |
| Usage (`events/`, `kafka/`, `usage/`, `postgres/usage.go`) | queue, in-flight records, offsets, rows | Enqueue, deliver, Close; poll, insert, commit | broker, database |
| Migrations (`postgres/migrate.go`) | lock, applied migrations | MigrateUp, Status | database, usage consumer |
| Mock worker, simulation (`mockworker/`, `sim/`) | slots, queue, KV budget, batches | serve, drain; submit, step, cancel | gateway |
| Telemetry (`telemetry/`, `tracing/processor.go`) | admitted labels, series, span queue and batch | Value, budgeted; OnEnd, ForceFlush, Shutdown | observers |
| Process and configuration (`cmd/gateway/`, `shutdown/`, `config/`) | what is open; the sections | start, serve, drain, close; load, validate | everything |

What makes it hard, and what must hold all the same:

- The router reads the view and the breakers *before* it takes its mutex. No worker may
  get more than its capacity and no arrival may pass a queue, however old that reading.
- A slot is in exactly one place: free, held by an attempt, or in a waiter's channel.
  Hand-offs race time-outs, cancels, panics and the drain.
- Wake-ups are hints. Every queued request must end served or refused all the same.
- Verdicts of attempts arrive late: after the breaker opened, closed or was replaced.
  Old evidence may not trip or close it. Ejections may never exceed the cap.
- Hooks run after locks are dropped; a shared counter is both added to and overwritten.
- Budgets, windows and refunds share one-second buckets with a moving clock.
- Calls between processes time out and are still carried out later (registry, limiter,
  usage). A process dies between two of its steps.
- Everything a request takes comes back on every way out, early returns, deadlines,
  departures and panics included, and observers hear of it in one order only.
- What is started must also end: publishers, consumers, batchers, engines, the process.

`PROJECT.json` lists each hazard at its line with the properties aimed at it.

## 2. Modules

| Module | Models |
|---|---|
| `AdmissionQueue` | `queue.go`: the queue as such; every caller that keeps its protocol |
| `SlotRouter` | `router.go`, `resilience_queue.go`, the slot side of `attempt.go`; extends `AdmissionQueue` and uses its operations inside larger steps |
| `SlidingWindow` | `doc.go`: one-second buckets, shared by `Breakers` and `RetryBudget` |
| `Breakers` | `breaker.go`, `breakers.go`, the verdict side of `resilience_attempt.go` |
| `BreakerEvents` | `gateway/resilience.go`: push, flush, sync |
| `RetryBudget` | `budget.go` |
| `Registry` | `registry.go` and the state rules of `pkg/protocol/worker.go` |
| `WorkerAgents` | `worker/agent.go`, the control plane's handlers and client between them; extends `Registry` |
| `RequestContract` | what one request announces, holds and gives back, as an abstract specification |
| `RequestPath` | one request through `middleware.go`, `handlers.go`, `attempt.go`, `resilience_attempt.go`, `retry.go`; refines `RequestContract` |
| `Observers` | `metrics.go`, `events/observer.go`, `gwtrace/observer.go`, driven by the actions of `RequestContract` |
| `TokenBuckets` | `ratelimit/model.go` and the script it mirrors |
| `RateLimiter` | `ratelimit/redis.go` over `redis/client.go` |
| `KeyCache` | `auth/authenticator.go`, `auth/lru.go` over `postgres/keys.go`, `tenants.go` |
| `EventPublisher` | `events/publisher.go` over `kafka/producer.go` |
| `UsageConsumer` | `usage/consumer.go` over `kafka/consumer.go` and `postgres/usage.go` |
| `Migrator` | `postgres/migrate.go` |
| `MetricSeries` | `telemetry/labelguard.go`, the series budget of `gateway/metrics.go` |
| `SpanBatcher` | `tracing/processor.go` |
| `SimEngine` | `sim/engine/engine.go` and its driver `mockworker/sim.go` |
| `MockWorker` | `mockworker/server.go`, `engine.go`, `faults.go` |
| `LoadTracker` | `scheduler/signals/tracker.go` |
| `CapacityPeaks` | `scheduler/signals/capacity.go` |
| `WorkerChoice` | `scheduler/scheduler.go`, `workaware.go` |
| `GatewayProcess` | `cmd/gateway/main.go`, `gateway/server.go`, `shutdown/` |
| `Configuration` | `config/`, and the periods of `gateway/snapshot.go` and `worker/agent.go` that it sets |
| `AdmissionQueue_proofs`, `RouterStages_proofs` and `SlotRouter_proofs` (of `SlotRouter`), `Breakers_proofs`, `Guards_proofs` (of `TokenBuckets` and `BreakerEvents`), `ControlPlane_proofs` (of `Registry`, `WorkerAgents` and `UsageConsumer`), `Startup_proofs` (of `Configuration` and `Migrator`), `Telemetry_proofs` (of `EventPublisher` and `SpanBatcher`) | the theorems (section 4) |
| `MCSlotRouter`, `MCBreakers`, `MCBreakerEvents`, `MCWorkerAgents` | model values, symmetry and functions for TLC |
| `MCLockedState`, `MCGatewaySide`, `MCLifetimes`, `MCRequestSide` | several components side by side (section 3) |

Names of a component's module begin with its prefix (`Lim`, `Key`, `Pub`, ...) where it
is checked beside others.

### AdmissionQueue

`queue`, `woken`, `credit`, `tenants` and `closed` are the fields of `Queue`; `ch[r]`
is a waiter's channel (`None`, `Reroute`, `Flushed` or a slot) and `phase[r]` what its
goroutine does (`out`, `waiting`, `routing`). Each method is one action, as each runs
under the queue's mutex. `Settle` is `settleLocked`: credit is spent on the first
waiters, in order, that are not woken. Receiving from the channel is a step of its own,
so a grant may sit there while the timer fires: `Leave` then returns it. Estimates for
`Retry-After` are left out.

### SlotRouter

A routing is two steps, as in the code: it reads the view (`seen[r]`), and later, under
the mutex, `reserve` decides with that reading and the current `inflight`. `stage[r]`
follows the goroutine through arrival, queue, re-routing, holding, retry. `held[r]` is a
set of (worker, registration) pairs since a retry takes its new slot before it gives the
old one back. `ReleaseSlot` hands over or frees under the mutex; the wake that follows
outside it is owed (`owing`) and paid later by `PayWake`, and a refresh counts free
slots and wakes in separate steps. Views change by `Refresh`, `Age`, `Eject`,
`Readmit`. `ReadAndGoTo` may read the unfiltered view: the `nonClosed` shortcut can be
stale (see `BreakerEvents`). Which candidate is chosen is left open, so the results
cover every scheduling policy. `QueueProtocolKept` states that all of this, with queue
variables only, is a behaviour of `AdmissionQueue`.

### Breakers

`br[w]` is one breaker, `att[a]` an attempt with its ticket, `listed` the stored view and
`book` the history that properties compare with (never read by an action). A cool-down
has jitter, so its length is chosen from a range. The first byte and the recording of
the ok are separate steps (`SeesFirstByte`, `RecordsOK`), since the code reads the clock
twice. `Sync` applies the stored view and relaxes the cap.

### BreakerEvents

Each goroutine's path through change, push, flush and sync is cut where the code drops a
lock: `nonClosed` is added to in the hook, after the breakers' mutex; the observers are
called with no lock held; `flush` re-checks after clearing `flushing`.

### RetryBudget

A reservation remembers its key and its second. `Refund` looks the key up again later,
when the bucket or the whole window may be gone. `Prune` gets any set of served models.

### Registry and WorkerAgents

`workers[id]` is the entry of a worker ID (`reg = 0`: none), with the registration, the
last reported state, the `drained` flag and the age of the report. Registration IDs are
random in the code and numbered here, since all that matters is that they are fresh.
`drains` is history. Each method is one action, as each runs under the registry's mutex.
The age replaces the clock: `Tick` moves one entry's age, which allows more than one
clock for all would.

An agent's `step` is cut at its calls: `Probe` sends one, the control plane serves it
(`Serve`), the agent handles the answer (`RegisterAnswered`, `BeatAnswered`,
`DeregisterAnswered`). `TimesOut` ends a call whose request or answer was lost, or
which is still on its way: then `ServeLate` carries it out later, as the handlers do not
look at the request's context. `Shutdown` and `Leaves` are the graceful end, `Crash` the
other one. The code keeps `regID` after a registration became void; it is never used
again before a new registration, and the model resets it.

### RequestContract, RequestPath and Observers

`RequestContract` is the abstract side: the phase an observer knows of, the open
attempts, whether the first token was announced, whether a response has begun and whether
the request still holds anything. Its actions are the announcements of `Observer`, in the
order the code keeps; the order in the comment of `Observer` is another (section 3).
`RequestPath` is the code: `at` is where the handler's goroutine is, `held` the place under
the cap and the lease, `runs[n]` the attempts with slot, ticket, body, guard and verdict,
`info` what the access log will say, `told` the announcements. A body is relayed chunk by
chunk: a read (`ReadHeld` of what the first-byte wait already holds, `WorkerSends`,
`BodyEnds`, `BodyBreaks`, `ReadCut` by the idle timer or a cancelled call), then a write
that succeeds (`Written`, with `FirstToken` on the first chunk of an event stream) or fails
(`WriteFails`). The client, the worker, the two timers of the guard, the idle timer and
the goroutine that peeks at a 503 move between any two steps.
Router, queue, breakers, limiter and budget may answer anything their own modules allow.
The mode is `static`, `plain` or `resilient`, as the configuration selects.
`ReqKeepsContract` instantiates the contract with `ToldPhase` and the like, computed from
`told`, `runs` and `held`; every step of the path is a step of the contract or a stutter.

`Observers` then uses the contract as its environment: each announcement the contract
allows, with any content, is delivered to the three observers in one step, as
`multiObserver` does. What holds there holds of every gateway that keeps the contract,
and so of `RequestPath`.

### TokenBuckets and RateLimiter

`TokenBuckets` keeps the scaled integers of the Go model and of the script, the stamp and
the two divisions. The clock may step back. Keys expire as the script's `PEXPIRE` says
(the Go model has no expiry): a bucket two windows after its last charge, the lease set
(`tokUntil`) two TTLs after its last grant or renewal. Redis may delete an expired key at
any later moment, and a read never sees one. `tokTop` (the clock's maximum), `tokSpent` and
`tokFar` (the clock was ever behind `tokTop` by more than half a window) are history.
`RateLimiter` is the gateway's side. A script call is sent, executed by Redis, and
answered; a call that timed out may be executed later (`LimScriptLate`). `limLease[c]` is
the time to live of a lease in Redis, `limLocal` what the gateway tracks and renews,
`limQueue` the releases on their way. Whether the buckets admit a request is open here.

### KeyCache

The database row of a prefix and the tenant's state change by an operator's action. A
request goes through the caches, joins or starts a lookup or is shed. A lookup reads the
row at one moment and its result is recorded at a later one, which is what makes absence
and revocation stale. Ages are counted up to where they no longer matter; `late` and
`later` are history set when a request begins.

### EventPublisher and UsageConsumer

`EventPublisher` has one step for every atomic operation another goroutine can observe:
the closed check and the channel send of `Enqueue`, the increments around `Produce`, the
two halves of `delivered`, the phases of `Close`. `UsageConsumer` has two members of a
group over one partition. Every call to the database may fail with or without effect, a
commit may fail, a member may crash between any two steps, and the partition moves when
the client allows it or when the member held the rebalance back for too long.

### Migrator, MetricSeries, SpanBatcher

`Migrator`: one session per process, which dies with it and frees the advisory lock; a
migration and its record are one transaction. `MetricSeries`: the steps between the read
lock, the write lock, the re-check and the two additions to the budget. `SpanBatcher`: a
span passes the closed check and is queued in two steps; `ForceFlush`, which gives up at
once on a closed processor, and `Shutdown` are goroutines of their own; the deadline of
the drain is a step. `batClosedAt` remembers what was queued when the processor closed.

### MockWorker and SimEngine

`MockWorker` follows a handler from its increment of `inflight` through the state check,
the body, the fault roll and the slot, with each atomic word read in its own step, and
`Serve` from announcement to the wait for zero. `SimEngine` is the continuous-batching
engine on KV tokens: lists of waiting, prefilling and running requests, chunked prefill,
preemption of the most recently started, exhaustion; `SimCheckInvariants` is the code's
own check. Handlers call it under one lock and take the events addressed to them.

### LoadTracker, CapacityPeaks, WorkerChoice

`LoadTracker` keeps cumulative totals per bucket and trims them as the code does, and
`trkLog` keeps every event for comparison. Callers hold an instant for up to `TrkSkew`
before they get the lock. `CapacityPeaks` is one refresh per step, in integers (quotients
round down). `WorkerChoice` selects on any view with any strategy, scores being tied
within `tieEps` as in the code; the only state is the rotor and the history the two
properties need. `SelTurnsTaken` is about workers that tie at every selection in between
(section 3). These are pure algorithms, compared with
reference definitions.

### GatewayProcess and Configuration

`GatewayProcess` runs main's list of parts forward and backward (`PrcParts`), with Serve
in between, the watcher of `NotifyContext` beside it, and handlers that may outlive the
drain. `prcBack` holds the background goroutines Serve starts (registry refresh, key usage,
lease renewal, request records); they end with their context and nobody waits for them.
`Configuration` overlays defaults, a file and the environment, validates by section, lets
the constructors refuse what `Validate` leaves to them (`unbuilt`) and then lets an
accepted gateway poll: `cfgSnap` is the age of the snapshot and of the heartbeat in it,
under the configured periods.

## 3. Runs

`router`, `router_live` and `registry` check deadlock. The others may stop: time, calls
or requests are bounded.

Four runs hold several components side by side. Their module extends them all and has
one more variable, `part`: a behaviour picks a component at the start and only that one
moves, the others stay in their initial state. So such a run is the union of the state
spaces and asks each component's question about that component alone; nothing is
composed. Fairness is attached to the steps of the chosen part, and the liveness
properties begin with something only the chosen part can do (the limiter's half of
`WorkCompletes`, which does not, holds trivially of the others).

| Run | Question | Bounds | Distinct states |
|---|---|---|---|
| `router` | Does the composition of router and queue account for every slot, respect capacity and arrival order, and keep the queue's protocol? | 2 workers of capacity 1, 3 requests of up to 2 attempts, depth 2, 3 arrivals, 1 fleet change, time-outs, cancels, panics | 220,009 |
| `router_live` | Is every waiter served, and does a drain end every wait? | 1 worker, 3 requests, 3 arrivals, 1 fleet change, drain; no time-outs, cancels or panics | 35,845 |
| `breakers` | Do tickets come back, and does a trip rest on distinct current evidence? | 1 worker, 2 attempts at once, 4 in all, window 1, 3 seconds | 295,320 |
| `breakers_cap` | Does the ejection cap hold after every step, and is the newest ejection relaxed first? | 3 workers, cap one half, 2 attempts, 1 view change | 580,842 |
| `registry` | Are drains one-way, is the registry bounded, do two owners of one ID stop fighting, is a ready worker offered again and a dead one forgotten? | room for 1 worker, 2 agents of one ID or two, 2 faults (time-outs, crashes, restarts, stalls, backend changes), registrations that are carried out late (late reports are steps of `Registry`, and proved), 12 registrations | 436,216 |
| `request_side` | Does one request keep the contract on every path, and complete unless its worker feeds a reading client for ever? Are breaker events delivered once, by one goroutine, and does the counter converge? | 2 attempts, a cap of 1, three modes, one panic, bodies of any number of chunks; 3 goroutines, a list of 1, 2 changes | 300,621 |
| `locked_state` | Do the admission queue, the retry budget, the key cache and the load tracker keep their promises under any interleaving of callers? | queue: 2 models (one beyond `MaxModels`), 5 requests, depth 3, a tenant with a third, 3 wake-ups; budget: 2 models, 1 tracked, 2 requests, 3 calls, 3 seconds, window 2; keys: 2 prefixes, 2 requests, caches of 1, 2 lookups, 1 change; tracker: 2 incarnations, room for 1, 2 requests, clock 5, 1 changing refresh | 628,185 |
| `gateway_side` | Do eight parts keep what their comments promise, whatever the order of their calls? | buckets: 2 requests, 1 lease, window and TTL of 2, clock 6, 2 steps back, 5 grants; migrator: 3 binaries, 2 faults; series: 2 goroutines, 3 calls, budget 2; observers: 3 attempts; mock worker: 3 requests, 1 slot, queue 1, 1 fault or departure; peaks: 3 workers, 3 refreshes; choice: 3 workers, 10 views each; configuration: files that set up to 2 of 40 values under 15 environments | 706,234 |
| `lifetimes` | What was accepted is not lost, and what was begun ends: limiter, publisher, consumer, batcher, engine, process | limiter: 2 requests, 1 slot, TTL 2, 1 tracked lease, queue 1, 1 fault; publisher: 2 handlers of 2 events, buffers of 2; consumers: 2 members, 5 records, batches of 2, 2 faults; batcher: 3 spans, queue and batch of 2; engine: 3 requests, 2 at once, queue 1, 5 KV tokens; process: 5 configurations, 2 requests, 3 signals | 241,866 |

Why the bounds are enough to be interesting. Three requests on one slot give a holder, a
head and a waiter behind it, which is what hand-off, credit and strict order need; depth
2 makes a third one refused. With two workers a retry takes its new slot before it gives
the old one back. Three workers under a cap of one half allow one ejection, so an
eligibility change forces a relaxation. A budget window of 2 in 3 seconds lets a bucket
expire while its request is still open. Four attempts let a breaker open, probe and close
while a verdict from before is still on its way. A list of 1 overflows at the second
event. Two attempts are enough for a swap with two open attempts, the only place where a
request holds two of anything. A lease that lives for two ticks is kept by a renewal between
them and lost without one. A request for one token from a bucket that gains half of one
per tick waits for two ticks, a clock of 6 reaches past the expiry of a bucket that was
charged early, and two steps back show both sides of `tokFar`. A
cache of one evicts at the second key. Two members and five records of four kinds give
batches with a duplicate, a poison record and a refused row across a
rebalance. A third request on 5 KV tokens is preempted, waits behind a full queue, or
exhausts the cache alone. A third span overflows a queue of 2.

Violation runs state what a document or comment says and what the code does not do:

| Run | Says | Does |
|---|---|---|
| `router_cancel` | ADR-020: a waiter that leaves without using its wake-up gives it back as credit | a waiter cancelled while routing parks, which consumes the wake-up, and then leaves with nothing to give |
| `breakers_abort` | `breakers.go`: each request counts once, with its final outcome | the ok is removed from the bucket of another clock reading, so the request can count twice |
| `events_order` | `gateway/resilience.go`: events of a worker never overtake each other | two goroutines may push after unlocking in either order |

Further disagreements were met while modelling and have no run of their own. The models
follow the code in each of them.

- `docs/operations/resilience.md` says a freed slot goes to the head waiter and never to
  whoever routes first; when the head is already routing, the slot becomes a wake-up for
  a later waiter, who may win. ADR-020 says itself that this order is not guaranteed.
- `worker/agent.go` says that `ErrSuperseded` means another process registered under the
  worker ID. In `WorkerAgents` an agent whose registration timed out registers again, and
  then its own first call is carried out late and supersedes the second. The agent takes
  this for another process and stops.
- `events/publisher.go` says of `Close` that whatever is not delivered in time is counted
  as dropped. A handler that passed the closed check may put its event into the channel
  after `Close` has counted; nobody counts that one. `PubAccounted` is therefore stated
  up to the moment `Close` gives up.
- `kafka/consumer.go` says that one member never works on partitions another has been
  given. A batch is collected over several polls and each poll allows a rebalance, so a
  member may hold records of a partition that has moved; one that works on a batch for
  longer than the client's rebalance time-out loses the partition all the same. Nothing
  is lost or stored twice by it (`UseNothingLost`, `UseOnce`).
- ADR-022 says a lie inflates a worker's capacity by at most K (`peerClamp`, 10) times
  the honest median, and also that a liar lifts the decay target. The second undoes the
  first. With honest rates 100 and 60 and one liar: the liar is cut to 1000 while only
  the first peer has a sample, that peer's estimate decays *up* to 325, its next sample
  keeps 325 as its peak, and once the second peer has reported, the liar's bound is 1920
  and not 800. `CapWithinReports` is the bound that holds.
- `config/gateway.go` justifies `registry_max_staleness >= 2 * registry_refresh` by "one
  slow refresh would fail every request". The snapshot survives one (`CfgFreshEnough`),
  but the workers in it may by then be older than the suspect timeout, and are not
  offered. The next check wants `suspect_timeout >= registry_refresh + heartbeat_interval`,
  "or the gateway would see every worker as suspect between refreshes"; with equality,
  which it accepts, a live worker is suspect at the instant at which both are due.
- `config/` accepts what a constructor refuses later: the transport of a store's address
  (`CheckTransport`) and an unreadable CA file (`CfgLateRefusals` says that there is no
  third case). Conversely the PostgreSQL, key cache and rate limit sections are validated
  although nothing uses them, unlike those whose comments say that a malformed section
  cannot stop a gateway that does not use it.
- The comment of `Observer` (`gateway/observer.go:27`) puts refusals for validation and rate
  limits after `RequestAdmitted`, and says that `QueueWaited` is not fired yet. The code
  refuses for these, and at the global cap, before it announces the admission, and does
  announce queue waits. `RequestContract` has the code's order.
- `ratelimit/script.go:44` says that after a step back of the clock the refill is only the
  real elapsed time. The stamp is kept, but the bucket's expiry counts from the clock that
  stepped back: a bucket charged then is gone before it has earned its way back, and a
  missing bucket is full. `TokLimitsHold` therefore asks that the clock is never behind
  its maximum by more than half a window; within that it may step back any number of times.
- `tracing/processor.go:203` says that `ForceFlush` exports what is queued now. On a closed
  processor it returns nil and exports nothing (`BatFlushCovers`).
- `scheduler/scheduler.go:221` says that ties do not starve any worker. One that ties only
  at every other selection can be passed over for ever; `SelTurnsTaken` is what holds.
- Serve does not wait for the background goroutines it started. Request records that are
  still queued when the process ends (`redis/metadata.go`) are neither written nor counted.
- Nothing bounds the length of an answer (`gateway/server.go` sets no `WriteTimeout`, so
  that long streams are not cut): a worker that goes on sending to a client that goes on
  reading holds its slot for as long. `ReqCompletes` names this as the only exception.

### Fairness

`SlotRouter`'s `FairSpec` assumes that a goroutine that can run does run, that attempts
end (first-byte and idle timers cut a silent worker), that the refresh loop ticks, that
an open breaker re-admits somebody after its cool-down, and that the drain's timer fires.
Arrivals, retries, cancels and fleet changes get no fairness; they are bounded, which
stands for a load that comes to rest. `BreakerEvents` assumes that each goroutine
finishes what it began and that syncs recur (every refresh calls one). `WorkerAgents`
assumes that a running agent keeps stepping (`Run` is a timer loop), that the control
plane answers what it received, that late calls arrive in the end, that the sweeper's
ticker runs and that time passes. Nothing is assumed of starts, shutdowns or backends;
faults are bounded, which stands for a network that comes to rest. An owner that is not
stalled reports before its entry becomes suspect, since `config/worker.go` wants
`SuspectTimeout` to be at least two heartbeat intervals.

`RequestPath` assumes that the handler's goroutine runs, its timers included, and that
a read which is cut (by the idle timer or because its call was cancelled) returns, strongly
fair since other reads come between; nothing of the client, the worker or a panic. A worker
may go on sending, which is why `ReqCompletes` has its second disjunct.
`RateLimiter` assumes only that time passes. `EventPublisher` assumes that handlers, the
drain goroutine and the closing goroutine with its context run, and nothing of the
broker. `UsageConsumer` assumes that a member which can take a step does; its faults are
bounded. `SpanBatcher` assumes its worker, the deadline, and a `Shutdown` that has been
called. `SimEngine` assumes that iterations end and handlers run. `GatewayProcess`
assumes main, Serve with its timers and the signal watcher; nothing of handlers or of a
close that hangs.

## 4. Proofs

TLAPS checks these for every value of the constants that satisfies the named
assumptions. Each module states an inductive invariant and proves it with one lemma per
action and, under it, one step per conjunct the action can disturb; TLC checked each
invariant on a small instance first. Where a model counts, it counts with the
cardinality of a set (of waiters, of (worker, slot) or (handler, event) pairs), which
the library's theorems on finite sets can follow from one step to the next.

| Module | Theorem | States |
|---|---|---|
| `AdmissionQueue_proofs` | `QueueInvariant` | `Spec => []IInv` |
| | `QueueTypeCorrect`, `CreditRule` | `TypeOK`; credit is outstanding only behind a woken head |
| | `HandedSlotsReceived`, `WokenIsExact`, `NobodyIsForgotten`, and all three as `WaitersAreKept` | `WaitersKept`: a slot in a channel has a reader, the woken flag is exact, who waits is queued or has its last grant |
| | `LimitsAreKept` | `LimitsKept`: models, depth and tenant shares stay within their limits, and the tenant counters agree with the queues |
| | `WakeupsAreNotLost` | the action property `WakeupsNotLost` |
| `SlotRouter_proofs` | `RouterInvariant` | `RouterSpec => []RInv` |
| | `RouterKeepsQueueProtocol` | `QueueProtocolKept`: the router implements `AdmissionQueue` |
| | `SlotsAreSafe` | `SlotsSafe`: slots are accounted for, no worker is over-committed, waiters hold nothing |
| | `NobodyJumpsTheQueue` | the action property `NoQueueJump` |
| | `RouterKeepsWaiters` | the queue's three results, inside the router |
| `Breakers_proofs` | `TicketsAlwaysKept` | `TicketsKept`: limits are kept, and every ticket that is out has a holder that will bring it back |
| | `CapAlwaysKept` | `CapKept`: the ejection cap after every step, and the action property that the newest ejection is relaxed first |
| `Guards_proofs` | `LimitsAlwaysHold` | `TokLimitsHold`: the bound on leases; and, while the clock was never behind its maximum by more than half a window, the rate bound and that a refusal's wait is exact |
| | `BreakerEventsDelivered` | `BevSafe` |
| `ControlPlane_proofs` | `RegistryInvariant`, `RegistryTypeCorrect` | `RegistryInv`, `RegistryTypeOK` |
| | `DrainOneWay`, `RegistryBounded` | a registration that reported DRAINING is never offered again; at most `MaxWorkers` entries |
| | `AgentsInvariant` | `AgentsSpec => []AgentInv` |
| | `AgentsKeepRegistryProtocol` | agents, lost answers and late calls implement `Registry` |
| | `AgentsAreSafe` | `AgentsSafe` |
| | `UsageInvariant`, `UsageStoredOnce` | `UseInv`, `UseSafe`: what is committed is settled, no request is stored twice |
| `Startup_proofs` | `ConfigurationSound` | `CfgSound`: what `Validate` lets through obeys the environment, its waits nest, its views stay fresh, constructors refuse it for its connections only, and the sections said to be harmless while unused are |
| | `MigrationInvariant`, `MigrationsSafe` | `MigInv`, `MigSafe` |
| `Telemetry_proofs` | `EventsPublishedSafely` | `PubSafe` |
| | `SpansAccounted` | `BatSafe` |

### The queue and the router

`IInv` is `TypeOK`, `QueueShape` (a queue holds requests of its own model, each once), `WaiterState` (the place in the queue, the woken flag,
the channel and the goroutine's phase agree) and the credit rule. The properties are not
inductive alone. A hand-off, for example, keeps "the slot has a reader" only because the
head it picks has an empty channel, which needs the flag to be exact, which needs the
phases to agree. The credit rule needs a lemma on what `Settle` leaves behind: either no
credit or no idle waiter. `LimitsKept` is inductive beside `IInv`. It and
`WakeupsNotLost` count waiters: the lemmas relate the places of a queue to its waiters by
a bijection, and show that `Settle` wakes as many as it spends.

`RInv` adds to `IInv` the router's types, the exact ledger, the capacity and
`StagesAgree`: where a request's goroutine is determines its phase in the queue, how many
slots it holds and which workers it tried. The ledger says that `inflight[w]` is the
number of slots of `w` that some request holds or some channel carries
(`RouterStages_proofs` has its lemmas and those on the stages). Its proof needs
that the two slots of a swap are on different workers, and this needs the list of tried
workers. That the router implements the queue is proved step by step: each action of the
router, restricted to the queue's variables, is an action of the queue or a stutter (a
wake for more waiters than are queued is one for all of them). What was proved of the
queue then carries over. Reservations are decided on a view of any age, and which
candidate is chosen is left open, so the result does not depend on a scheduling policy.

Assumptions: finite sets of requests and workers; a model for each; slots are (worker,
registration) pairs and not grants; capacity positive, limits natural numbers. The
bounds on arrivals, attempts and fleet changes are arbitrary natural numbers.

### Breakers and buckets

`BInv` is `BTypes`, `TicketsHaveHolders` and the cap. `BTypes` says of each breaker that
it is `Sound`: its numbers are within their limits, and tickets are out of a half-open one
only. A holder keeps its ticket through every verdict of another attempt because a ticket
names registration and epoch, and whatever changes one of them empties the set. The cap
holds because a trip is granted only if one more ejection fits, and every change of
eligibility is followed by `enforceCap`. What that loop leaves is a lemma on `Relaxed`:
ejections are ordered by time and ID, and those with fewer than n older ones are at most
n, by induction on the order. `CoolDownReachesCap` assumes that some number of doublings
reaches `MaxCoolDown`: powers are recursive, and TLC evaluates it for the values it uses.

`TokInv` bounds what a bucket has granted by one full bucket and the refill up to its
*stamp*, where the property has the clock's maximum. A clock that steps back leaves the
stamp, so nothing is refilled twice. A bucket that expires comes back full. That is no
gift if it was full by then: it lives for two windows after its last charge, and its stamp
is ahead of that by half a window at most (`TokNear`), so the expiry is one and a half
windows after the stamp (`TokPaid`), of which it needs one to fill. The other half is what
a later step back may take: `TokEarned` says of a bucket that is gone that what it granted
was refilled by a time the clock does not go behind again. The exact wait is arithmetic on the two divisions of
`check`, for every quota, window and scale. Lease bounds count the set of leases and need
a finite set of calls.

### The registry and its agents

`DrainIsOneWay` speaks of the history of a registration and the code only has a flag in
an entry. `RegistryInv` ties them: registrations are unique (`UniqueRegs`), and the flag
of an entry is exactly the history of its registration, with no report but DRAINING and
FAILED since (`DrainRemembered`). Without uniqueness, a heartbeat for one entry could
change the history of another. Five operations only drop or age entries; one lemma
(`OnlyAgesKeepsInv`) covers them all.

`AgentInv` says that every registration an agent believes in, a call names or a late call
carries was issued, and that an agent's place agrees with the call it waits for. That is
enough for every `Serve` and `ServeLate` to be a call the registry's specification
allows, so `AgentsSpec => RegistrySpec`, and `AgentsSafe` follows from the registry's theorems.
Assumptions: finite sets of worker IDs, thresholds in the order `Config.Validate`
demands.

### What is stored and what is sent

`UseInv` says of each member that below what it has read every record is settled or in
its batch, and how much of the batch is settled at each of its steps. It does not mention
the other member: settled records stay settled, so what one member does can only help.
The log is any sequence of rows, refused rows, skipped and poison records. The least and
greatest offset that `CHOOSE` picks exist by well-founded induction on the naturals.

`MigInv` says that what was applied is a list without repetition that comes from some
binary's files, that the one process past the lock works on what the database holds, and
that this begins its own list. The assumption is one `load` in `src/migrations/`
enforces: no file is twice in a binary's list. Binaries need not agree with each other.

`BatInv` bounds the batch at each place of the worker and relates the mark of a flush, and
what was queued when the processor closed, to the spans that entered the queue. `BevInv` names the transitions that happened by worker
and number and puts each in one place: carried by its goroutine, queued, in a batch,
delivered, dropped. `PubInv` orders the places an event goes through (topic, client,
drain goroutine, channel, handler): of one handler's events, an earlier place holds older
ones. That is the reason why dropping any of them cannot reorder the rest. It also says
that only the first acknowledgement is between its two steps, so that the in-flight count
is that of the records in flight. `PubSafe`, like the comment it is about, claims the
count of drops only until `Close` gives up (section 3).

### The settings

`CfgInv` says that the settings keep the sections and keys of the defaults with numbers
where numbers belong, that after the environment was applied every variable that parsed
is what the settings hold, that a process runs only on what `Validate` accepted and is
refused by a constructor only over a connection, and,
once it polls, that heartbeat and snapshot are no older than their periods: this bounds
the age of a view by the sum of the periods. That a section which is not used cannot
make a configuration invalid is proved section by section, from the settings `Validate`
reads. `CfgAssumption` is what decoding guarantees: a file or a variable gives a number
where one is expected, and names settings that exist.

### Left to TLC

Out of TLAPS's reach: liveness under fairness (`WaiterServed`, `DrainEndsWaits`,
`CounterConverges`, `FightEnds`, `RegistryConverges`, `ReqCompletes`, `ShutdownsEnd`,
`WorkCompletes`), anything with ENABLED, and what a recursive definition computes for
every input. For this reason:

- `TripNeedsEvidence`, `BudgetKept` (the sums of `SlidingWindow`), `TrackerExact` (open
  leases) and the token budget in `SimSafe` (the engine's sequences) sum over sets or
  sequences with folds;
- `CapSound` decays by powers of two and takes medians of sorted sequences, as does
  `SelSound`;
- `ObsStoryWhole`, `KeysCurrent` and `PrcSafe` speak of sequences that are filtered
  (`SelectSeq`) or folded.

Not proved yet, though nothing is known to prevent it: `ReqSafe` and the refinement
`ReqKeepsContract`, `LimSafe`, `SerBudgetKept` and `WrkSafe`.

## 5. Not modelled, and the plan

Not modelled for good: the benchmark harness and the end-to-end tests (they run against
the system), the parsing of request bodies and the wire formats of Redis, Kafka and
PostgreSQL (data without control; the models know good, bad and too large), cost weights
and estimates (numbers with no state), the set-up of tracing and logging, the printing of
the operator's commands. Within modelled parts: `Retry-After` estimates, back-off
arithmetic, histogram values, `last_used_at`, the lag gauge, the agent's status page.

Not composed: `RequestPath` meets the router, the breakers, the limiter and the budget
only through the answers they may give. Slots, tickets and leases are exact in their own
modules and in `RequestPath`, and that the two sides agree is argued from the code's
calls, not checked.

Planned: that `RequestPath` implements `RequestContract` for any number of attempts;
`LimSafe` for any number of leases.
