--------------------------- MODULE Configuration ----------------------------
(***************************************************************************)
(* internal/config: Load overlays the defaults with a file and the         *)
(* environment and validates the result, section by section.  Durations    *)
(* are in milliseconds; a URL, address or name is "good" or "bad", or      *)
(* "later": Validate takes it and the constructor that uses it refuses it  *)
(* (the transport of Redis and PostgreSQL, the CA file of Kafka); -1 is a  *)
(* setting left unset.  A gateway that starts with an accepted             *)
(* configuration then polls the registry, whose workers report, each with  *)
(* the periods that were configured (gateway/snapshot.go).                 *)
(***************************************************************************)
EXTENDS Integers, Sequences, FiniteSets

CONSTANTS CfgFiles,  \* the files: each maps some <<section, key>> pairs to values
          CfgEnvs,   \* the environments: each maps some pairs to [ok |-> it parses, val |-> its value]
          CfgBad     \* for some sections, malformed values of everything but what switches them on

VARIABLES
  cfgAt,     \* "defaults", "file", "env", "running", "refused" by Validate or "unbuilt" by a constructor
  cfg, cfgEnv,
  cfgBeat,   \* ms since the last heartbeat the registry got
  cfgSnap    \* the gateway's snapshot: the heartbeat's age in it, ms since the fetch, and when the next refresh is due

cfgVars == <<cfgAt, cfg, cfgEnv, cfgBeat, cfgSnap>>

In(x, lo, hi) == lo <= x /\ x <= hi
LesserOf(x, y) == IF x < y THEN x ELSE y

-----------------------------------------------------------------------------
(* The defaults. *)

CfgDefaultResilience ==
  [mode |-> "on", faults |-> 5, window |-> 10000, cool |-> 10000, maxCool |-> 120000, probes |-> 1, header |-> 0,
   budgetWindow |-> 10000, deadline |-> 0, minRemaining |-> 1000, depth |-> 128, maxWait |-> 0, grace |-> -1, shares |-> "good"]

CfgDefaultEvents ==
  [mode |-> "off", conn |-> "bad", compression |-> "snappy", buffer |-> 10000, records |-> 10000, delivery |-> 30000, flush |-> 5000]

CfgDefaultTracing == [enabled |-> FALSE, endpoint |-> "good", incoming |-> "link", queue |-> 2048, batch |-> 512, export |-> 5000]

CfgDefaultMetrics == [listen |-> "good", models |-> 64, workers |-> 256]

CfgDefaultScheduler == [strategy |-> "round-robin", overlay |-> "max", weights |-> "good", halflife |-> 60000]

CfgDefault ==
  [gateway |-> [names |-> "good", header |-> 60000, idle |-> 120000, shutdown |-> 30000, source |-> "static",
                refresh |-> 1000, stale |-> 10000, attempts |-> 2],
   worker |-> [beat |-> 2000, suspect |-> 5000, unhealthy |-> 10000, lost |-> 30000, retention |-> 300000],
   plane |-> [addr |-> "good", max |-> 1000], redis |-> [addr |-> "good", timeout |-> 50, backoff |-> 1000, onFailure |-> "closed", metadata |-> FALSE],
   rate |-> [mode |-> "off", burst |-> 60, lease |-> 60000, leases |-> 100000, caps |-> 0],
   postgres |-> [dsn |-> "good", conns |-> 10, connect |-> 5000], auth |-> [mode |-> "off", ttl |-> 30000, neg |-> 5000, size |-> 10000, grace |-> 300000],
   events |-> CfgDefaultEvents, tracing |-> CfgDefaultTracing, resilience |-> CfgDefaultResilience, metrics |-> CfgDefaultMetrics,
   scheduler |-> CfgDefaultScheduler]

\* What the environment gives is stored as given, so that a misspelling fails the validation, for these; every other
\* variable is parsed first.
CfgResilienceWords == {<<"resilience", "mode">>}
CfgEventsWords == {<<"events", "mode">>, <<"events", "compression">>}
CfgTracingWords == {<<"tracing", "incoming">>, <<"tracing", "endpoint">>}
CfgWords ==
  CfgResilienceWords \cup CfgEventsWords \cup CfgTracingWords \cup
    {<<"rate", "mode">>, <<"auth", "mode">>, <<"gateway", "source">>, <<"scheduler", "strategy">>, <<"scheduler", "overlay">>, <<"redis", "onFailure">>}

\* The settings there are, each known by its section and its key.
CfgKeys == UNION {{<<s, k>> : k \in DOMAIN CfgDefault[s]} : s \in DOMAIN CfgDefault}

\* The numbers that the effective values and the periods at work are computed from.
CfgNumbers ==
  ({"gateway"} \X {"header", "idle", "shutdown", "refresh", "stale"}) \cup ({"worker"} \X {"beat", "suspect"})
    \cup ({"resilience"} \X {"header", "deadline", "maxWait", "grace"}) \cup {<<"postgres", "conns">>}

\* What turns a section on or off, and what is validated whether or not it is used.
CfgSwitches ==
  {<<"redis", "metadata">>, <<"events", "mode">>, <<"tracing", "enabled">>, <<"resilience", "mode">>,
   <<"scheduler", "strategy">>, <<"scheduler", "overlay">>}

\* A number is a number wherever it is set, in a file that decodes and in a variable that parses.
ASSUME CfgAssumption ==
  /\ \A f \in CfgFiles : \A v \in CfgNumbers \cap DOMAIN f : f[v] \in Int
  /\ \A e \in CfgEnvs : DOMAIN e \subseteq CfgKeys /\ \A v \in CfgNumbers \cap DOMAIN e : e[v].ok => e[v].val \in Int
  /\ \A s \in DOMAIN CfgBad : \A v \in DOMAIN CfgBad[s] : v \in CfgKeys \ CfgSwitches /\ v[1] = s

-----------------------------------------------------------------------------
(* The effective values. *)

CfgEffective(c) == c.resilience.mode = "on" /\ c.gateway.source = "registry"

CfgFirstByteDeadline(c) == IF c.resilience.deadline > 0 THEN c.resilience.deadline ELSE c.gateway.header + c.gateway.idle

CfgProbeHeader(c) == IF c.resilience.header # 0 THEN c.resilience.header ELSE LesserOf(10000, c.gateway.header)

CfgMaxWait(c) == IF c.resilience.maxWait # 0 THEN c.resilience.maxWait ELSE LesserOf(3000, CfgFirstByteDeadline(c))

CfgGrace(c) == IF c.resilience.grace # -1 THEN c.resilience.grace ELSE LesserOf(5000, c.gateway.shutdown \div 2)

CfgLookupCap(c) == c.postgres.conns - 2

-----------------------------------------------------------------------------
(* Validate. *)

CfgGatewayOK(g) == g.names = "good" /\ g.header > 0 /\ g.idle > 0 /\ g.shutdown > 0

CfgStrategies == {"random", "round-robin", "least-active", "least-queue", "least-tokens", "least-work"}
CfgWorkAware(s) == s.strategy \in {"least-tokens", "least-work"}

CfgSchedulerOK(s) == s.strategy \in CfgStrategies /\ s.overlay \in {"max", "ledger"}

CfgWorkAwareOK(s) ==
  CfgWorkAware(s) => (s.overlay = "ledger" /\ s.weights = "good" /\ In(s.halflife, 1000, 600000))

(* Mutant: the suspect timeout is compared with the refresh alone. *)
CfgWorkerSourceRefreshOnly(c) ==
  LET g == c.gateway IN
  /\ g.source \in {"static", "registry"}
  /\ g.source = "registry" =>
       /\ CfgWorkAwareOK(c.scheduler)
       /\ g.refresh >= 10 /\ g.stale <= 300000 /\ g.stale >= 2 * g.refresh
       /\ c.worker.suspect >= g.refresh
       /\ In(g.attempts, 1, 5)

CfgWorkerSourceOK(c) ==
  LET g == c.gateway IN
  /\ g.source \in {"static", "registry"}
  /\ g.source = "registry" =>
       /\ CfgWorkAwareOK(c.scheduler)
       /\ g.refresh >= 10 /\ g.stale <= 300000 /\ g.stale >= 2 * g.refresh
       /\ c.worker.suspect >= g.refresh + c.worker.beat
       /\ In(g.attempts, 1, 5)

CfgWorkerOK(w) ==
  /\ w.beat >= 10 /\ w.suspect > 0 /\ w.retention > 0 /\ w.suspect < w.unhealthy /\ w.unhealthy < w.lost /\ w.suspect >= 2 * w.beat

CfgControlPlaneOK(p) == p.addr = "good" /\ In(p.max, 1, 100000)

CfgRedisUsed(c) == c.rate.mode = "required" \/ c.redis.metadata

CfgRedisOK(r) ==
  r.addr # "bad" /\ In(r.timeout, 1, 10000) /\ In(r.backoff, 10, 60000) /\ r.onFailure \in {"closed", "open"}

CfgRateLimitOK(c) ==
  LET r == c.rate IN
  /\ r.mode \in {"off", "required"} /\ In(r.burst, 1, 3600) /\ In(r.lease, 10000, 3600000) /\ In(r.leases, 1, 10000000)
  /\ CfgRedisUsed(c) => r.lease >= 3 * c.redis.timeout
  /\ r.mode = "required" => (c.auth.mode = "required" \/ r.caps > 0)

CfgPostgresOK(p) == p.dsn # "bad" /\ In(p.conns, 1, 100) /\ In(p.connect, 1, 60000)

CfgAuthOK(c) ==
  LET a == c.auth IN
  /\ a.mode \in {"off", "required"} /\ In(a.ttl, 1, 3600000) /\ In(a.neg, 1, a.ttl) /\ In(a.size, 1, 1000000) /\ In(a.grace, a.ttl, 86400000)
  /\ a.mode = "required" => c.postgres.conns >= 4

CfgEventsOK(c) ==
  LET e == c.events IN
  /\ e.mode \in {"off", "on"}
  /\ e.mode = "on" =>
       /\ e.conn # "bad" /\ e.compression \in {"none", "snappy", "lz4", "zstd", "gzip"}
       /\ In(e.buffer, 1, 1000000) /\ In(e.records, 1, 1000000) /\ In(e.delivery, 1, 600000) /\ In(e.flush, 1, 600000)
       /\ e.flush <= c.gateway.shutdown

CfgTracingOK(t) ==
  t.enabled => (t.endpoint = "good" /\ t.incoming \in {"link", "ignore", "trust"} /\ In(t.queue, 1, 1048576) /\ In(t.batch, 1, t.queue) /\ In(t.export, 1, 60000))

CfgMetricsOK(m) == m.listen = "good" /\ In(m.models, 1, 1000) /\ In(m.workers, 1, 10000)

CfgBreakerOK(r, header) ==
  /\ In(r.faults, 1, 1000) /\ In(r.window, 1000, 600000) /\ In(r.cool, 100, 3600000) /\ In(r.maxCool, r.cool, 3600000)
  /\ In(r.probes, 1, 16) /\ (r.header = 0 \/ In(r.header, 100, header)) /\ r.shares = "good"

CfgResilienceOK(c) ==
  LET r == c.resilience IN
  /\ r.mode \in {"on", "off"}
  /\ CfgEffective(c) =>
       /\ CfgBreakerOK(r, c.gateway.header)
       /\ In(r.budgetWindow, 1000, 600000) /\ (r.deadline = 0 \/ r.deadline >= c.gateway.header) /\ In(r.minRemaining, 0, 60000)
       /\ In(r.depth, 0, 100000) /\ (r.maxWait = 0 \/ (In(r.maxWait, 100, 60000) /\ r.maxWait <= CfgFirstByteDeadline(c)))
       /\ r.grace = -1 \/ (In(r.grace, 0, 300000) /\ r.grace < c.gateway.shutdown)

CfgValidate(c) ==
  /\ CfgGatewayOK(c.gateway) /\ CfgSchedulerOK(c.scheduler) /\ CfgWorkerSourceOK(c) /\ CfgWorkerOK(c.worker) /\ CfgControlPlaneOK(c.plane)
  /\ CfgRedisUsed(c) => CfgRedisOK(c.redis)
  /\ CfgRateLimitOK(c) /\ CfgPostgresOK(c.postgres) /\ CfgAuthOK(c) /\ CfgEventsOK(c) /\ CfgTracingOK(c.tracing) /\ CfgMetricsOK(c.metrics)
  /\ CfgResilienceOK(c)

-----------------------------------------------------------------------------
(* Load. *)

CfgSet(c, over) == [s \in DOMAIN c |-> [k \in DOMAIN c[s] |-> IF <<s, k>> \in DOMAIN over THEN over[<<s, k>>] ELSE c[s][k]]]

CfgInit ==
  cfgAt = "defaults" /\ cfg = CfgDefault /\ cfgEnv \in CfgEnvs /\ cfgBeat = 0 /\ cfgSnap = [beat |-> 0, since |-> 0, due |-> 0]

CfgApplyFile ==
  /\ cfgAt = "defaults" /\ cfgAt' = "file" /\ \E f \in CfgFiles : cfg' = CfgSet(cfg, f)
  /\ UNCHANGED <<cfgEnv, cfgBeat, cfgSnap>>

\* A variable that does not parse is ignored; a word is taken as it is.
CfgTaken(env) == [v \in {p \in DOMAIN env : env[p].ok \/ p \in CfgWords} |-> env[v].val]

CfgApplyEnv ==
  /\ cfgAt = "file" /\ cfgAt' = "env" /\ cfg' = CfgSet(cfg, CfgTaken(cfgEnv))
  /\ UNCHANGED <<cfgEnv, cfgBeat, cfgSnap>>

CfgRefused ==
  /\ cfgAt = "env" /\ ~CfgValidate(cfg) /\ cfgAt' = "refused"
  /\ UNCHANGED <<cfg, cfgEnv, cfgBeat, cfgSnap>>

\* What the constructors check again: registry.Config.Validate, NewRegistry and the Kafka client's options; and what only
\* they check: the transport of a store that is used, and the file with the brokers' CA.
CfgRegistryBuilt(c) ==
  LET w == c.worker IN
  w.suspect > 0 /\ w.suspect < w.unhealthy /\ w.unhealthy < w.lost /\ w.retention > 0 /\ w.beat > 0 /\ c.plane.max >= 1

CfgServerBuilt(c) ==
  c.gateway.source = "registry" => (c.scheduler.strategy \in CfgStrategies /\ (CfgWorkAware(c.scheduler) => c.scheduler.overlay = "ledger"))

CfgCAReadable(c) == c.events.mode = "on" => c.events.conn # "later"

CfgProducerBuilt(c) ==
  /\ CfgCAReadable(c)
  /\ c.events.mode = "on" => (c.events.conn # "bad" /\ c.events.compression \in {"none", "snappy", "lz4", "zstd", "gzip"})

CfgAuthStoreOpens(c) == c.auth.mode = "required" => c.postgres.dsn = "good"

CfgRedisOpens(c) == CfgRedisUsed(c) => c.redis.addr = "good"

CfgBuilt(c) == CfgRegistryBuilt(c) /\ CfgServerBuilt(c) /\ CfgProducerBuilt(c) /\ CfgAuthStoreOpens(c) /\ CfgRedisOpens(c)

CfgUnbuilt ==
  /\ cfgAt = "env" /\ CfgValidate(cfg) /\ ~CfgBuilt(cfg) /\ cfgAt' = "unbuilt"
  /\ UNCHANGED <<cfg, cfgEnv, cfgBeat, cfgSnap>>

\* An accepted configuration that can be built: the gateway starts, somewhere between two heartbeats, and fetches at once.
CfgStart ==
  /\ cfgAt = "env" /\ CfgValidate(cfg) /\ CfgBuilt(cfg) /\ cfgAt' = "running"
  /\ cfgBeat' \in {0, cfg.worker.beat \div 2, cfg.worker.beat} /\ cfgSnap' = [beat |-> cfgBeat', since |-> 0, due |-> cfg.gateway.refresh]
  /\ UNCHANGED <<cfg, cfgEnv>>

-----------------------------------------------------------------------------
(* A worker that reports on time, and the gateway's refreshes, of which one in a row may fail. *)

CfgPolling == cfgAt = "running" /\ cfg.gateway.source = "registry"

CfgHeartbeat ==
  /\ CfgPolling /\ cfgBeat = cfg.worker.beat /\ cfgBeat' = 0
  /\ UNCHANGED <<cfgAt, cfg, cfgEnv, cfgSnap>>

\* On failure the previous snapshot stays.
CfgRefresh ==
  /\ CfgPolling /\ cfgSnap.since = cfgSnap.due
  /\ \/ cfgSnap' = [beat |-> cfgBeat, since |-> 0, due |-> cfg.gateway.refresh]
     \/ cfgSnap.due = cfg.gateway.refresh /\ cfgSnap' = [cfgSnap EXCEPT !.due = 2 * @]
  /\ UNCHANGED <<cfgAt, cfg, cfgEnv, cfgBeat>>

\* The age of the worker in the view that is used, whether that makes it suspect, and whether a view this old is used.
CfgSeenAge == cfgSnap.beat + cfgSnap.since

CfgSuspected == CfgSeenAge >= cfg.worker.suspect

CfgFresh == cfgSnap.since <= cfg.gateway.stale

\* Time goes on to the next thing that is due.
CfgPass ==
  /\ CfgPolling
  /\ LET d == LesserOf(cfg.worker.beat - cfgBeat, cfgSnap.due - cfgSnap.since) IN
     d > 0 /\ cfgBeat' = cfgBeat + d /\ cfgSnap' = [cfgSnap EXCEPT !.since = @ + d]
  /\ UNCHANGED <<cfgAt, cfg, cfgEnv>>

CfgNext == CfgApplyFile \/ CfgApplyEnv \/ CfgRefused \/ CfgUnbuilt \/ CfgStart \/ CfgHeartbeat \/ CfgRefresh \/ CfgPass

CfgSpec == CfgInit /\ [][CfgNext]_cfgVars

-----------------------------------------------------------------------------
(* Properties. *)

CfgRunning == cfgAt = "running"

\* Sections that Validate passes over because nothing of the configuration uses them. PostgreSQL's, the key cache's and the
\* rate limiter's are not among them: they are validated whether they are used or not.
CfgUnused(c) ==
  (IF CfgRedisUsed(c) THEN {} ELSE {"redis"}) \cup (IF c.events.mode = "off" THEN {"events"} ELSE {})
    \cup (IF c.tracing.enabled THEN {} ELSE {"tracing"}) \cup (IF CfgEffective(c) THEN {} ELSE {"resilience"})
    \cup (IF c.gateway.source = "registry" /\ CfgWorkAware(c.scheduler) THEN {} ELSE {"scheduler"})

\* The waits of a gateway that starts fit into each other, given or derived: the readiness grace leaves a drain, the event
\* flush and the queue's wait end in time, a probe is no longer than a request may take, and key lookups have two
\* connections while the pool keeps two.
CfgWaitsNest ==
  CfgRunning =>
    /\ CfgEffective(cfg) =>
         /\ CfgGrace(cfg) < cfg.gateway.shutdown /\ CfgMaxWait(cfg) <= CfgFirstByteDeadline(cfg)
         /\ 0 < CfgProbeHeader(cfg) /\ CfgProbeHeader(cfg) <= cfg.gateway.header /\ cfg.gateway.header <= CfgFirstByteDeadline(cfg)
    /\ cfg.events.mode = "on" => cfg.events.flush <= cfg.gateway.shutdown
    /\ cfg.auth.mode = "required" => CfgLookupCap(cfg) >= 2

\* "A malformed section cannot stop a gateway that does not use it", as the comments of the Redis, event, tracing, resilience
\* and scheduler settings have it: replacing every value of such a section, while it is unused, by a bad one changes
\* nothing about whether the configuration is accepted.
CfgUnusedIsHarmless ==
  cfgAt = "env" => \A s \in CfgUnused(cfg) \cap DOMAIN CfgBad : CfgValidate(cfg) = CfgValidate(CfgSet(cfg, CfgBad[s]))

\* Nothing the environment says of a mode is lost: a gateway that starts has the mode it was told, so "a misspelled kill
\* switch fails validation loudly"; and what does not parse leaves the value under it.
CfgWordsAreObeyed ==
  CfgRunning => \A v \in DOMAIN cfgEnv : (v \in CfgWords \/ cfgEnv[v].ok) => cfg[v[1]][v[2]] = cfgEnv[v].val

\* Validate refuses periods with which "the gateway would see every worker as suspect between refreshes": with heartbeats
\* and refreshes on time a live worker is suspect in a view only if the suspect timeout is exactly the two periods, which
\* Validate accepts, and only at the instant at which both are due; and one refresh that fails does not make the snapshot
\* too old to be used.
CfgFreshEnough ==
  CfgPolling =>
    /\ CfgFresh
    /\ cfgSnap.due = cfg.gateway.refresh /\ CfgSuspected =>
         cfg.worker.suspect = cfg.gateway.refresh + cfg.worker.beat /\ cfgSnap.since = cfgSnap.due /\ cfgSnap.beat = cfg.worker.beat

\* What Validate lets through, a constructor refuses only for what Validate leaves to it, which is never a number or a
\* mode: the transport of a store that is used, or the file with the brokers' CA.
CfgLateRefusals ==
  cfgAt = "unbuilt" => ~(CfgAuthStoreOpens(cfg) /\ CfgRedisOpens(cfg) /\ CfgCAReadable(cfg))

\* A configuration that Load and Validate accept does what it was told, waits in an order that nests, uses fresh views, is
\* refused later for its connections only, and does not depend on the sections that Validate says it passes over.
CfgSound == CfgWaitsNest /\ CfgUnusedIsHarmless /\ CfgWordsAreObeyed /\ CfgFreshEnough /\ CfgLateRefusals
=============================================================================
