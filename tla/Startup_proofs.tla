--------------------------- MODULE Startup_proofs ---------------------------
(***************************************************************************)
(* Proofs about what happens before a process serves: what its settings    *)
(* add up to, and what a configuration that Validate accepts guarantees    *)
(* (Configuration); and the migrators that bring the schema up to date,    *)
(* which take turns and apply each file once (Migrator).                   *)
(***************************************************************************)
EXTENDS Configuration, Migrator, FiniteSetTheorems, TLAPS

-----------------------------------------------------------------------------
(* The settings *)

(* A configuration has the sections and keys of the defaults, and its      *)
(* numbers are numbers.                                                    *)
CfgShaped(c) ==
  /\ c = [s \in DOMAIN CfgDefault |-> c[s]]
  /\ \A s \in DOMAIN CfgDefault : c[s] = [k \in DOMAIN CfgDefault[s] |-> c[s][k]]

CfgTyped(c) == CfgShaped(c) /\ \A v \in CfgNumbers : c[v[1]][v[2]] \in Int

CfgObeyed == \A v \in DOMAIN cfgEnv : (v \in CfgWords \/ cfgEnv[v].ok) => cfg[v[1]][v[2]] = cfgEnv[v].val

(* The heartbeat is never later than its period, neither when the snapshot *)
(* was taken nor now, and the snapshot is refreshed when it is due.        *)
CfgAges ==
  /\ cfgBeat \in Int /\ 0 <= cfgBeat /\ cfgBeat <= cfg.worker.beat
  /\ cfgSnap \in [beat : Int, since : Int, due : Int]
  /\ 0 <= cfgSnap.beat /\ cfgSnap.beat <= cfg.worker.beat
  /\ 0 <= cfgSnap.since /\ cfgSnap.since <= cfgSnap.due
  /\ cfgSnap.due \in {cfg.gateway.refresh, 2 * cfg.gateway.refresh}

CfgInv ==
  /\ CfgTyped(cfg) /\ cfgEnv \in CfgEnvs
  /\ cfgAt \in {"env", "running", "refused", "unbuilt"} => CfgObeyed
  /\ (cfgAt \in {"running", "unbuilt"} => CfgValidate(cfg)) /\ (cfgAt = "unbuilt" => ~CfgBuilt(cfg))
  /\ (CfgPolling => CfgAges)

LEMMA CfgSections ==
    /\ {"gateway", "worker", "plane", "redis", "rate", "postgres", "auth", "events", "tracing", "resilience", "metrics",
        "scheduler"} = DOMAIN CfgDefault
BY SMT DEF CfgDefault

LEMMA CfgNumberPairs ==
    ASSUME NEW v \in CfgNumbers
    PROVE  \E s \in DOMAIN CfgDefault : \E k \in DOMAIN CfgDefault[s] : v = <<s, k>> /\ v[1] = s /\ v[2] = k
BY SMT DEF CfgNumbers, CfgDefault, CfgDefaultResilience

LEMMA CfgSwitchPairs ==
    ASSUME NEW v \in CfgSwitches
    PROVE  v = <<v[1], v[2]>> /\ v[1] \in DOMAIN CfgDefault /\ v[2] \in DOMAIN CfgDefault[v[1]]
BY SMT DEF CfgSwitches, CfgDefault, CfgDefaultEvents, CfgDefaultTracing, CfgDefaultResilience, CfgDefaultScheduler

LEMMA CfgNumbersNotWords == CfgNumbers \cap CfgWords = {}
BY DEF CfgNumbers, CfgWords, CfgResilienceWords, CfgEventsWords, CfgTracingWords

LEMMA CfgKeyPairs ==
    ASSUME NEW v \in CfgKeys
    PROVE  \E s \in DOMAIN CfgDefault : \E k \in DOMAIN CfgDefault[s] : v = <<s, k>> /\ v[1] = s /\ v[2] = k
BY DEF CfgKeys

(* d is c with what over sets. *)
CfgOverlaid(c, over, d) ==
  \A s \in DOMAIN CfgDefault : \A k \in DOMAIN CfgDefault[s] :
    d[s][k] = IF <<s, k>> \in DOMAIN over THEN over[<<s, k>>] ELSE c[s][k]

LEMMA CfgSetShape ==
    ASSUME NEW c, CfgShaped(c), NEW over
    PROVE  CfgShaped(CfgSet(c, over)) /\ CfgOverlaid(c, over, CfgSet(c, over))
<1>1. DOMAIN c = DOMAIN CfgDefault /\ \A s \in DOMAIN CfgDefault : DOMAIN c[s] = DOMAIN CfgDefault[s]
  BY Zenon DEF CfgShaped
<1> DEFINE d == CfgSet(c, over)
<1>2. d = [s \in DOMAIN CfgDefault |-> [k \in DOMAIN c[s] |-> IF <<s, k>> \in DOMAIN over THEN over[<<s, k>>] ELSE c[s][k]]]
  BY <1>1, Zenon DEF CfgSet
<1> HIDE DEF d
<1>3. \A s \in DOMAIN CfgDefault :
        d[s] = [k \in DOMAIN CfgDefault[s] |-> IF <<s, k>> \in DOMAIN over THEN over[<<s, k>>] ELSE c[s][k]]
  BY <1>1, <1>2, Zenon
<1>4. CfgOverlaid(c, over, d)
  BY <1>3, Zenon DEF CfgOverlaid
<1>5. CfgShaped(d)
  BY <1>2, <1>3 DEF CfgShaped
<1> QED
  BY <1>4, <1>5, Zenon DEF d

LEMMA CfgSetTyped ==
    ASSUME NEW c, CfgTyped(c), NEW over, \A v \in CfgNumbers \cap DOMAIN over : over[v] \in Int
    PROVE  CfgTyped(CfgSet(c, over))
<1>1. CfgShaped(c)
  BY Zenon DEF CfgTyped
<1> DEFINE d == CfgSet(c, over)
<1>2. CfgShaped(d) /\ CfgOverlaid(c, over, d)
  BY <1>1, CfgSetShape, Zenon
<1> HIDE DEF d
<1>3. ASSUME NEW v \in CfgNumbers
      PROVE  d[v[1]][v[2]] \in Int
  <2>0. PICK s \in DOMAIN CfgDefault : \E k \in DOMAIN CfgDefault[s] : v = <<s, k>> /\ v[1] = s /\ v[2] = k
    BY CfgNumberPairs, Zenon
  <2>1. PICK k \in DOMAIN CfgDefault[s] : v = <<s, k>> /\ v[1] = s /\ v[2] = k
    BY <2>0, Zenon
  <2>2. d[s][k] = IF <<s, k>> \in DOMAIN over THEN over[<<s, k>>] ELSE c[s][k]
    BY <1>2, Zenon DEF CfgOverlaid
  <2>3. c[s][k] \in Int
    BY <2>1, Zenon DEF CfgTyped
  <2> QED
    BY <2>1, <2>2, <2>3, Zenon
<1> QED
  BY <1>2, <1>3, Zenon DEF CfgTyped, d

LEMMA CfgInitInv == CfgInit => CfgInv
<1> SUFFICES ASSUME CfgInit PROVE CfgInv
  OBVIOUS
<1>1. CfgShaped(CfgDefault)
  BY SMT DEF CfgShaped, CfgDefault, CfgDefaultResilience, CfgDefaultEvents, CfgDefaultTracing, CfgDefaultMetrics, CfgDefaultScheduler
<1>2. \A v \in CfgNumbers : CfgDefault[v[1]][v[2]] \in Int
  BY SMT DEF CfgNumbers, CfgDefault, CfgDefaultResilience
<1>3. cfg = CfgDefault /\ cfgEnv \in CfgEnvs /\ cfgAt = "defaults"
  BY Zenon DEF CfgInit
<1> QED
  BY <1>1, <1>2, <1>3, Zenon DEF CfgInv, CfgTyped, CfgPolling

(* The environment comes last, so what it says stays. *)
LEMMA CfgApplyEnvKeeps ==
    ASSUME CfgInv, CfgApplyEnv
    PROVE  CfgInv'
<1>1. /\ cfgAt' = "env" /\ cfg' = CfgSet(cfg, CfgTaken(cfgEnv)) /\ cfgEnv' = cfgEnv
      /\ CfgTyped(cfg) /\ cfgEnv \in CfgEnvs
  BY Zenon DEF CfgInv, CfgApplyEnv
<1> DEFINE over == CfgTaken(cfgEnv)
           taken(v) == v \in CfgWords \/ cfgEnv[v].ok
<1>2. /\ \A v \in DOMAIN cfgEnv : taken(v) => v \in DOMAIN over /\ over[v] = cfgEnv[v].val
      /\ \A v \in DOMAIN over : v \in DOMAIN cfgEnv /\ taken(v)
  BY DEF CfgTaken
<1>3. DOMAIN cfgEnv \subseteq CfgKeys /\ \A v \in CfgNumbers \cap DOMAIN cfgEnv : cfgEnv[v].ok => cfgEnv[v].val \in Int
  BY <1>1, CfgAssumption, Zenon
<1> HIDE DEF over
<1>4. \A v \in CfgNumbers \cap DOMAIN over : over[v] \in Int
  BY <1>2, <1>3, CfgNumbersNotWords, Zenon
<1>5. CfgTyped(cfg')
  BY <1>1, <1>4, CfgSetTyped, Zenon DEF over
<1>6. CfgOverlaid(cfg, over, cfg')
  BY <1>1, CfgSetShape, Zenon DEF over, CfgTyped
<1>7. ASSUME NEW v \in DOMAIN cfgEnv, taken(v)
      PROVE  cfg'[v[1]][v[2]] = cfgEnv[v].val
  <2>1. PICK s \in DOMAIN CfgDefault : \E k \in DOMAIN CfgDefault[s] : v = <<s, k>> /\ v[1] = s /\ v[2] = k
    BY <1>3, CfgKeyPairs, Zenon
  <2>2. PICK k \in DOMAIN CfgDefault[s] : v = <<s, k>> /\ v[1] = s /\ v[2] = k
    BY <2>1, Zenon
  <2>3. cfg'[s][k] = over[<<s, k>>]
    BY <1>2, <1>6, <1>7, <2>2, Zenon DEF CfgOverlaid
  <2> QED
    BY <1>2, <1>7, <2>2, <2>3, Zenon
<1>8. CfgObeyed'
  BY <1>1, <1>7, Zenon DEF CfgObeyed
<1>9. cfgAt' \notin {"running", "unbuilt"}
  BY <1>1
<1> QED
  BY <1>1, <1>5, <1>8, <1>9, Zenon DEF CfgInv, CfgPolling

LEMMA CfgApplyFileKeeps ==
    ASSUME CfgInv, CfgApplyFile
    PROVE  CfgInv'
<1>1. PICK f \in CfgFiles : cfg' = CfgSet(cfg, f)
  BY Zenon DEF CfgApplyFile
<1>2. cfgAt' = "file" /\ cfgEnv' = cfgEnv /\ CfgTyped(cfg) /\ cfgEnv \in CfgEnvs
  BY Zenon DEF CfgInv, CfgApplyFile
<1>3. \A v \in CfgNumbers \cap DOMAIN f : f[v] \in Int
  BY CfgAssumption, Zenon
<1>4. CfgTyped(cfg')
  BY <1>1, <1>2, <1>3, CfgSetTyped, Zenon
<1>5. cfgAt' # "running" /\ cfgAt' \notin {"env", "running", "refused", "unbuilt"}
  BY <1>2
<1> QED
  BY <1>2, <1>4, <1>5, Zenon DEF CfgInv, CfgPolling

(* The numbers, each by its name. *)
LEMMA CfgNumbersAre ==
    ASSUME NEW c, CfgTyped(c)
    PROVE  /\ {c.gateway.header, c.gateway.idle, c.gateway.shutdown, c.gateway.refresh, c.gateway.stale} \subseteq Int
           /\ {c.worker.beat, c.worker.suspect, c.postgres.conns} \subseteq Int
           /\ {c.resilience.header, c.resilience.deadline, c.resilience.maxWait, c.resilience.grace} \subseteq Int
<1>1. \A v \in CfgNumbers : c[v[1]][v[2]] \in Int
  BY Zenon DEF CfgTyped
<1>2. \A s, k : <<s, k>> \in CfgNumbers => c[s][k] \in Int
  BY <1>1
<1>3. /\ \A k \in {"header", "idle", "shutdown", "refresh", "stale"} : <<"gateway", k>> \in CfgNumbers
      /\ \A k \in {"beat", "suspect"} : <<"worker", k>> \in CfgNumbers
      /\ \A k \in {"header", "deadline", "maxWait", "grace"} : <<"resilience", k>> \in CfgNumbers
      /\ <<"postgres", "conns">> \in CfgNumbers
  BY DEF CfgNumbers
<1> QED
  BY <1>2, <1>3

(* What Validate demands of the periods. *)
LEMMA CfgPeriodsValid ==
    ASSUME NEW c, CfgValidate(c)
    PROVE  /\ c.worker.beat >= 10
           /\ c.gateway.source = "registry" =>
                /\ c.gateway.refresh >= 10 /\ c.gateway.stale >= 2 * c.gateway.refresh
                /\ c.worker.suspect >= c.gateway.refresh + c.worker.beat
<1>1. CfgWorkerOK(c.worker) /\ CfgWorkerSourceOK(c)
  BY DEF CfgValidate
<1>2. c.worker.beat >= 10
  BY <1>1, Zenon DEF CfgWorkerOK
<1> QED
  BY <1>1, <1>2, SMT DEF CfgWorkerSourceOK

LEMMA CfgStartKeeps ==
    ASSUME CfgInv, CfgStart
    PROVE  CfgInv'
<1>1. /\ cfgAt = "env" /\ cfgAt' = "running" /\ CfgValidate(cfg) /\ cfg' = cfg /\ cfgEnv' = cfgEnv
      /\ cfgBeat' \in {0, cfg.worker.beat \div 2, cfg.worker.beat}
      /\ cfgSnap' = [beat |-> cfgBeat', since |-> 0, due |-> cfg.gateway.refresh]
      /\ CfgTyped(cfg) /\ cfgEnv \in CfgEnvs /\ CfgObeyed
  BY Zenon DEF CfgInv, CfgStart
<1>2. ASSUME cfg.gateway.source = "registry"
      PROVE  CfgAges'
  <2>1. cfg.worker.beat \in Int /\ cfg.gateway.refresh \in Int
    BY <1>1, CfgNumbersAre
  <2>2. cfg.worker.beat >= 10 /\ cfg.gateway.refresh >= 10
    BY <1>1, <1>2, CfgPeriodsValid, Zenon
  <2> DEFINE b == cfg.worker.beat
             f == cfg.gateway.refresh
  <2> HIDE DEF b, f
  <2>3. cfgBeat' \in Int /\ 0 <= cfgBeat' /\ cfgBeat' <= b
    <3>1. b \in Int /\ b >= 10 /\ cfgBeat' \in {0, b \div 2, b}
      BY <1>1, <2>1, <2>2, Zenon DEF b
    <3> QED
      BY <3>1
  <2>4. f \in Int /\ f >= 10 /\ cfgSnap' = [beat |-> cfgBeat', since |-> 0, due |-> f]
    BY <1>1, <2>1, <2>2, Zenon DEF f
  <2>5. /\ cfgSnap' \in [beat : Int, since : Int, due : Int]
        /\ cfgSnap'.beat = cfgBeat' /\ cfgSnap'.since = 0 /\ cfgSnap'.due = f /\ 0 <= f
    BY <2>3, <2>4
  <2>6. cfg'.worker.beat = b /\ cfg'.gateway.refresh = f
    BY <1>1, Zenon DEF b, f
  <2> QED
    BY <2>3, <2>5, <2>6 DEF CfgAges
<1> QED
  BY <1>1, <1>2, Zenon DEF CfgInv, CfgPolling, CfgObeyed

(* The steps of a gateway at work. *)
LEMMA CfgAgesSuffice ==
    ASSUME CfgInv, CfgPolling, UNCHANGED <<cfgAt, cfg, cfgEnv>>, CfgAges'
    PROVE  CfgInv'
BY Zenon DEF CfgInv, CfgPolling, CfgObeyed

LEMMA CfgPollingFacts ==
    ASSUME CfgInv, CfgPolling
    PROVE  /\ CfgAges /\ CfgValidate(cfg) /\ CfgTyped(cfg)
           /\ cfg.worker.beat \in Int /\ cfg.gateway.refresh \in Int /\ cfg.worker.beat >= 10 /\ cfg.gateway.refresh >= 10
<1>1. CfgAges /\ CfgValidate(cfg) /\ CfgTyped(cfg) /\ cfg.gateway.source = "registry"
  BY Zenon DEF CfgInv, CfgPolling
<1>2. cfg.worker.beat \in Int /\ cfg.gateway.refresh \in Int
  BY <1>1, CfgNumbersAre
<1> QED
  BY <1>1, <1>2, CfgPeriodsValid, Zenon

LEMMA CfgHeartbeatKeeps ==
    ASSUME CfgInv, CfgHeartbeat
    PROVE  CfgInv'
<1>1. CfgPolling /\ cfgBeat' = 0 /\ UNCHANGED <<cfgAt, cfg, cfgEnv, cfgSnap>>
  BY Zenon DEF CfgHeartbeat
<1>2. CfgAges'
  BY <1>1, CfgPollingFacts DEF CfgAges
<1> QED
  BY <1>1, <1>2, CfgAgesSuffice, Zenon

LEMMA CfgRefreshKeeps ==
    ASSUME CfgInv, CfgRefresh
    PROVE  CfgInv'
<1>1. CfgPolling /\ UNCHANGED <<cfgAt, cfg, cfgEnv, cfgBeat>>
  BY Zenon DEF CfgRefresh
<1>2. /\ CfgAges /\ cfg.worker.beat \in Int /\ cfg.gateway.refresh \in Int /\ cfg.gateway.refresh >= 10
  BY <1>1, CfgPollingFacts, Zenon
<1>3. ASSUME cfgSnap' = [beat |-> cfgBeat, since |-> 0, due |-> cfg.gateway.refresh]
      PROVE  CfgAges'
  BY <1>1, <1>2, <1>3 DEF CfgAges
<1>4. ASSUME cfgSnap.due = cfg.gateway.refresh, cfgSnap' = [cfgSnap EXCEPT !.due = 2 * @]
      PROVE  CfgAges'
  <2>1. /\ cfgSnap' \in [beat : Int, since : Int, due : Int] /\ cfgSnap'.beat = cfgSnap.beat /\ cfgSnap'.since = cfgSnap.since
        /\ cfgSnap'.due = 2 * cfg.gateway.refresh
    BY <1>2, <1>4 DEF CfgAges
  <2> QED
    BY <1>1, <1>2, <1>4, <2>1 DEF CfgAges
<1> QED
  BY <1>1, <1>3, <1>4, CfgAgesSuffice, Zenon DEF CfgRefresh

LEMMA CfgPassKeeps ==
    ASSUME CfgInv, CfgPass
    PROVE  CfgInv'
<1> DEFINE d == LesserOf(cfg.worker.beat - cfgBeat, cfgSnap.due - cfgSnap.since)
<1>1. /\ CfgPolling /\ UNCHANGED <<cfgAt, cfg, cfgEnv>>
      /\ d > 0 /\ cfgBeat' = cfgBeat + d /\ cfgSnap' = [cfgSnap EXCEPT !.since = @ + d]
  BY Zenon DEF CfgPass
<1>2. /\ CfgAges /\ cfg.worker.beat \in Int /\ cfg.gateway.refresh \in Int
  BY <1>1, CfgPollingFacts, Zenon
<1>3. d \in Int /\ d <= cfg.worker.beat - cfgBeat /\ d <= cfgSnap.due - cfgSnap.since
  BY <1>2 DEF LesserOf, CfgAges
<1> HIDE DEF d
<1>4. /\ cfgSnap' \in [beat : Int, since : Int, due : Int] /\ cfgSnap'.beat = cfgSnap.beat /\ cfgSnap'.due = cfgSnap.due
      /\ cfgSnap'.since = cfgSnap.since + d
  BY <1>1, <1>2, <1>3 DEF CfgAges
<1>5. CfgAges'
  BY <1>1, <1>2, <1>3, <1>4 DEF CfgAges
<1> QED
  BY <1>1, <1>5, CfgAgesSuffice, Zenon

LEMMA CfgNextInv == CfgInv /\ [CfgNext]_cfgVars => CfgInv'
<1> SUFFICES ASSUME CfgInv, [CfgNext]_cfgVars PROVE CfgInv'
  OBVIOUS
<1>1. CASE CfgApplyFile
  BY <1>1, CfgApplyFileKeeps
<1>2. CASE CfgApplyEnv
  BY <1>2, CfgApplyEnvKeeps
<1>3. CASE CfgRefused
  <2>1. cfgAt = "env" /\ cfgAt' = "refused" /\ UNCHANGED <<cfg, cfgEnv>>
    BY <1>3, Zenon DEF CfgRefused
  <2>2. CfgTyped(cfg) /\ cfgEnv \in CfgEnvs /\ CfgObeyed
    BY <2>1, Zenon DEF CfgInv
  <2> QED
    BY <2>1, <2>2, Zenon DEF CfgInv, CfgPolling, CfgObeyed
<1>9. CASE CfgUnbuilt
  <2>1. cfgAt = "env" /\ cfgAt' = "unbuilt" /\ UNCHANGED <<cfg, cfgEnv>> /\ CfgValidate(cfg) /\ ~CfgBuilt(cfg)
    BY <1>9, Zenon DEF CfgUnbuilt
  <2>2. CfgTyped(cfg) /\ cfgEnv \in CfgEnvs /\ CfgObeyed
    BY <2>1, Zenon DEF CfgInv
  <2> QED
    BY <2>1, <2>2, Zenon DEF CfgInv, CfgPolling, CfgObeyed
<1>4. CASE CfgStart
  BY <1>4, CfgStartKeeps
<1>5. CASE CfgHeartbeat
  BY <1>5, CfgHeartbeatKeeps
<1>6. CASE CfgRefresh
  BY <1>6, CfgRefreshKeeps
<1>7. CASE CfgPass
  BY <1>7, CfgPassKeeps
<1>8. CASE UNCHANGED cfgVars
  BY <1>8, Zenon DEF cfgVars, CfgInv, CfgPolling, CfgObeyed, CfgAges
<1> QED
  BY <1>1, <1>2, <1>3, <1>4, <1>5, <1>6, <1>7, <1>8, <1>9 DEF CfgNext

LEMMA CfgInvNests == CfgInv => CfgWaitsNest
<1> SUFFICES ASSUME CfgInv, cfgAt = "running" PROVE CfgWaitsNest
  BY Zenon DEF CfgWaitsNest, CfgRunning
<1>1. CfgValidate(cfg) /\ CfgTyped(cfg)
  BY Zenon DEF CfgInv
<1>2. CfgGatewayOK(cfg.gateway) /\ CfgEventsOK(cfg) /\ CfgAuthOK(cfg) /\ CfgResilienceOK(cfg)
  BY <1>1 DEF CfgValidate
<1> DEFINE g == cfg.gateway
           r == cfg.resilience
<1>3. /\ g.header \in Int /\ g.idle \in Int /\ g.shutdown \in Int /\ cfg.postgres.conns \in Int
      /\ r.header \in Int /\ r.deadline \in Int /\ r.maxWait \in Int /\ r.grace \in Int
  BY <1>1, CfgNumbersAre
<1>4. g.header > 0 /\ g.idle > 0 /\ g.shutdown > 0
  BY <1>2, SMT DEF CfgGatewayOK
<1>5. ASSUME CfgEffective(cfg)
      PROVE  /\ r.header = 0 \/ (100 <= r.header /\ r.header <= g.header)
             /\ r.deadline = 0 \/ r.deadline >= g.header
             /\ r.maxWait = 0 \/ r.maxWait <= CfgFirstByteDeadline(cfg)
             /\ r.grace = -1 \/ r.grace < g.shutdown
  BY <1>2, <1>5, SMT DEF CfgResilienceOK, CfgBreakerOK, In
<1>6. ASSUME CfgEffective(cfg)
      PROVE  g.header <= CfgFirstByteDeadline(cfg) /\ CfgFirstByteDeadline(cfg) \in Int
  BY <1>3, <1>4, <1>5, <1>6, SMT DEF CfgFirstByteDeadline
<1>7. ASSUME CfgEffective(cfg)
      PROVE  CfgGrace(cfg) < g.shutdown
  BY <1>3, <1>4, <1>5, <1>7, SMT DEF CfgGrace, LesserOf
<1>8. ASSUME CfgEffective(cfg)
      PROVE  CfgMaxWait(cfg) <= CfgFirstByteDeadline(cfg)
  BY <1>3, <1>4, <1>5, <1>6, <1>8, SMT DEF CfgMaxWait, LesserOf
<1>9. ASSUME CfgEffective(cfg)
      PROVE  0 < CfgProbeHeader(cfg) /\ CfgProbeHeader(cfg) <= g.header
  BY <1>3, <1>4, <1>5, <1>9, SMT DEF CfgProbeHeader, LesserOf
<1>10. cfg.events.mode = "on" => cfg.events.flush <= g.shutdown
  BY <1>2, SMT DEF CfgEventsOK
<1>11. cfg.auth.mode = "required" => CfgLookupCap(cfg) >= 2
  BY <1>2, <1>3, SMT DEF CfgAuthOK, CfgLookupCap
<1> QED
  BY <1>6, <1>7, <1>8, <1>9, <1>10, <1>11 DEF CfgWaitsNest

LEMMA CfgInvFresh == CfgInv => CfgFreshEnough
<1> SUFFICES ASSUME CfgInv, CfgPolling PROVE CfgFreshEnough
  BY Zenon DEF CfgFreshEnough
<1>1. CfgAges /\ CfgValidate(cfg) /\ CfgTyped(cfg) /\ cfg.gateway.source = "registry"
  BY CfgPollingFacts, Zenon DEF CfgPolling
<1>2. cfg.worker.beat \in Int /\ cfg.gateway.refresh \in Int /\ cfg.gateway.stale \in Int /\ cfg.worker.suspect \in Int
  BY <1>1, CfgNumbersAre
<1>3. /\ cfg.gateway.refresh >= 10 /\ cfg.gateway.stale >= 2 * cfg.gateway.refresh
      /\ cfg.worker.suspect >= cfg.gateway.refresh + cfg.worker.beat
  BY <1>1, CfgPeriodsValid, Zenon
<1> QED
  BY <1>1, <1>2, <1>3 DEF CfgAges, CfgFreshEnough, CfgFresh, CfgSuspected, CfgSeenAge

LEMMA CfgInvLate == CfgInv => CfgLateRefusals
<1> SUFFICES ASSUME CfgInv, cfgAt = "unbuilt", CfgAuthStoreOpens(cfg), CfgRedisOpens(cfg), CfgCAReadable(cfg) PROVE FALSE
  BY Zenon DEF CfgLateRefusals
<1>1. CfgValidate(cfg) /\ CfgTyped(cfg) /\ ~CfgBuilt(cfg)
  BY Zenon DEF CfgInv
<1>2. /\ CfgWorkerOK(cfg.worker) /\ CfgWorkerSourceOK(cfg) /\ CfgSchedulerOK(cfg.scheduler) /\ CfgControlPlaneOK(cfg.plane)
      /\ CfgEventsOK(cfg)
  BY <1>1 DEF CfgValidate
<1>3. cfg.worker.beat \in Int
  BY <1>1, CfgNumbersAre
<1>4. CfgRegistryBuilt(cfg)
  BY <1>2, <1>3, SMT DEF CfgRegistryBuilt, CfgWorkerOK, CfgControlPlaneOK, In
<1>5. CfgServerBuilt(cfg)
  BY <1>2, SMT DEF CfgServerBuilt, CfgWorkerSourceOK, CfgSchedulerOK, CfgWorkAwareOK
<1>6. CfgProducerBuilt(cfg)
  BY <1>2, SMT DEF CfgProducerBuilt, CfgEventsOK
<1> QED
  BY <1>1, <1>4, <1>5, <1>6, Zenon DEF CfgBuilt

(* Malformed values of a section leave the others and the switches alone. *)
LEMMA CfgBadTouches ==
    ASSUME NEW c, CfgShaped(c), NEW s \in DOMAIN CfgBad, NEW d, d = CfgSet(c, CfgBad[s])
    PROVE  /\ \A x \in DOMAIN CfgDefault : x # s => d[x] = c[x]
           /\ \A v \in CfgSwitches : d[v[1]][v[2]] = c[v[1]][v[2]]
<1>1. CfgShaped(d) /\ CfgOverlaid(c, CfgBad[s], d)
  BY CfgSetShape, Zenon
<1>2. \A v \in DOMAIN CfgBad[s] : v \in CfgKeys /\ v \notin CfgSwitches /\ v[1] = s
  BY CfgAssumption, Zenon
<1>3. ASSUME NEW x \in DOMAIN CfgDefault, x # s
      PROVE  d[x] = c[x]
  <2>1. \A k : <<x, k>> \notin DOMAIN CfgBad[s]
    BY <1>2, <1>3
  <2>2. \A k \in DOMAIN CfgDefault[x] : d[x][k] = c[x][k]
    BY <1>1, <2>1, Zenon DEF CfgOverlaid
  <2>3. d[x] = [k \in DOMAIN CfgDefault[x] |-> d[x][k]] /\ c[x] = [k \in DOMAIN CfgDefault[x] |-> c[x][k]]
    BY <1>1, Zenon DEF CfgShaped
  <2> DEFINE e == d[x]
             b == c[x]
  <2> HIDE DEF e, b
  <2>4. e = [k \in DOMAIN CfgDefault[x] |-> e[k]] /\ b = [k \in DOMAIN CfgDefault[x] |-> b[k]]
    BY <2>3, Zenon DEF e, b
  <2>5. \A k \in DOMAIN CfgDefault[x] : e[k] = b[k]
    BY <2>2, Zenon DEF e, b
  <2>6. e = b
    BY <2>4, <2>5
  <2> QED
    BY <2>6, Zenon DEF e, b
<1>4. ASSUME NEW v \in CfgSwitches
      PROVE  d[v[1]][v[2]] = c[v[1]][v[2]]
  <2>1. v = <<v[1], v[2]>> /\ v[1] \in DOMAIN CfgDefault /\ v[2] \in DOMAIN CfgDefault[v[1]]
    BY <1>4, CfgSwitchPairs, Zenon
  <2>2. v \notin DOMAIN CfgBad[s]
    BY <1>2, Zenon
  <2> QED
    BY <1>1, <2>1, <2>2, Zenon DEF CfgOverlaid
<1> QED
  BY <1>3, <1>4, Zenon

(* Two configurations that Validate cannot tell apart. *)
LEMMA CfgValidateSame ==
    ASSUME NEW c, NEW d,
           d.gateway = c.gateway, d.worker = c.worker, d.plane = c.plane, d.rate = c.rate, d.postgres = c.postgres,
           d.auth = c.auth, d.metrics = c.metrics,
           CfgSchedulerOK(d.scheduler) <=> CfgSchedulerOK(c.scheduler), CfgWorkerSourceOK(d) <=> CfgWorkerSourceOK(c),
           CfgRedisUsed(d) <=> CfgRedisUsed(c), CfgRedisUsed(c) => d.redis = c.redis,
           CfgEventsOK(d) <=> CfgEventsOK(c), CfgTracingOK(d.tracing) <=> CfgTracingOK(c.tracing),
           CfgResilienceOK(d) <=> CfgResilienceOK(c)
    PROVE  CfgValidate(d) <=> CfgValidate(c)
<1>1. CfgRateLimitOK(d) <=> CfgRateLimitOK(c)
  BY SMT DEF CfgRateLimitOK
<1>2. CfgAuthOK(d) <=> CfgAuthOK(c)
  BY SMT DEF CfgAuthOK
<1> QED
  BY <1>1, <1>2, SMT DEF CfgValidate

(* What a configuration does not use has no say in whether it is valid. *)
LEMMA CfgUnusedSilent ==
    ASSUME NEW c, CfgShaped(c), NEW s \in CfgUnused(c) \cap DOMAIN CfgBad, NEW d, d = CfgSet(c, CfgBad[s])
    PROVE  CfgValidate(d) <=> CfgValidate(c)
<1>1. /\ \A x \in DOMAIN CfgDefault : x # s => d[x] = c[x]
      /\ \A v \in CfgSwitches : d[v[1]][v[2]] = c[v[1]][v[2]]
  <2>1. s \in DOMAIN CfgBad
    OBVIOUS
  <2> QED
    BY <2>1, CfgBadTouches
<1>2. /\ d.redis.metadata = c.redis.metadata /\ d.events.mode = c.events.mode /\ d.tracing.enabled = c.tracing.enabled
      /\ d.resilience.mode = c.resilience.mode /\ d.scheduler.strategy = c.scheduler.strategy
      /\ d.scheduler.overlay = c.scheduler.overlay
  <2>1. \A x, k : <<x, k>> \in CfgSwitches => d[x][k] = c[x][k]
    BY <1>1
  <2> QED
    BY <2>1 DEF CfgSwitches
<1>3. /\ s \in {"redis", "events", "tracing", "resilience", "scheduler"}
      /\ s = "redis" => ~CfgRedisUsed(c)
      /\ s = "events" => c.events.mode = "off"
      /\ s = "tracing" => ~c.tracing.enabled
      /\ s = "resilience" => ~CfgEffective(c)
      /\ s = "scheduler" => ~(c.gateway.source = "registry" /\ CfgWorkAware(c.scheduler))
  BY DEF CfgUnused
<1>4. /\ d.gateway = c.gateway /\ d.worker = c.worker /\ d.plane = c.plane /\ d.rate = c.rate
      /\ d.postgres = c.postgres /\ d.auth = c.auth /\ d.metrics = c.metrics
  BY <1>1, <1>3, CfgSections
<1>5. /\ s # "redis" => d.redis = c.redis
      /\ s # "events" => d.events = c.events
      /\ s # "tracing" => d.tracing = c.tracing
      /\ s # "resilience" => d.resilience = c.resilience
      /\ s # "scheduler" => d.scheduler = c.scheduler
  BY <1>1, CfgSections
<1>6. CfgSchedulerOK(d.scheduler) <=> CfgSchedulerOK(c.scheduler)
  BY <1>2 DEF CfgSchedulerOK
<1>7. CfgWorkerSourceOK(d) <=> CfgWorkerSourceOK(c)
  <2>1. c.gateway.source = "registry" => (CfgWorkAwareOK(d.scheduler) <=> CfgWorkAwareOK(c.scheduler))
    BY <1>2, <1>3, <1>5, SMT DEF CfgWorkAwareOK, CfgWorkAware
  <2> QED
    BY <1>4, <2>1, SMT DEF CfgWorkerSourceOK
<1>8. (CfgRedisUsed(d) <=> CfgRedisUsed(c)) /\ (CfgRedisUsed(c) => d.redis = c.redis)
  BY <1>2, <1>3, <1>4, <1>5 DEF CfgRedisUsed
<1>9. CfgEventsOK(d) <=> CfgEventsOK(c)
  <2>1. CASE s = "events"
    BY <1>2, <1>3, <2>1, SMT DEF CfgEventsOK
  <2>2. CASE s # "events"
    BY <1>4, <1>5, <2>2, SMT DEF CfgEventsOK
  <2> QED
    BY <2>1, <2>2, Zenon
<1>10. CfgTracingOK(d.tracing) <=> CfgTracingOK(c.tracing)
  <2>1. CASE s = "tracing"
    BY <1>2, <1>3, <2>1, SMT DEF CfgTracingOK
  <2>2. CASE s # "tracing"
    BY <1>5, <2>2
  <2> QED
    BY <2>1, <2>2, Zenon
<1>11. CfgResilienceOK(d) <=> CfgResilienceOK(c)
  <2>1. CfgEffective(d) <=> CfgEffective(c)
    BY <1>2, <1>4, Zenon DEF CfgEffective
  <2>2. CASE s = "resilience"
    BY <1>2, <1>3, <2>1, <2>2, SMT DEF CfgResilienceOK
  <2>3. CASE s # "resilience"
    BY <1>4, <1>5, <2>1, <2>3, SMT DEF CfgResilienceOK, CfgFirstByteDeadline
  <2> QED
    BY <2>2, <2>3
<1> QED
  BY <1>4, <1>6, <1>7, <1>8, <1>9, <1>10, <1>11, CfgValidateSame

LEMMA CfgInvHarmless == CfgInv => CfgUnusedIsHarmless
<1> SUFFICES ASSUME CfgInv, NEW s \in CfgUnused(cfg) \cap DOMAIN CfgBad
             PROVE  CfgValidate(cfg) = CfgValidate(CfgSet(cfg, CfgBad[s]))
  BY Zenon DEF CfgUnusedIsHarmless
<1>1. CfgShaped(cfg)
  BY Zenon DEF CfgInv, CfgTyped
<1>2. CfgValidate(CfgSet(cfg, CfgBad[s])) <=> CfgValidate(cfg)
  BY <1>1, CfgUnusedSilent, Zenon
<1>3. \A c : CfgValidate(c) \in BOOLEAN
  BY DEF CfgValidate
<1> QED
  BY <1>2, <1>3

(* For any files, environments and malformed sections, a configuration     *)
(* that Load and Validate let through is what it was told to be, has waits *)
(* that nest, makes no live worker suspect between refreshes but at the    *)
(* edge it allows, and is refused later only for its connections; and the  *)
(* Redis, event, tracing, resilience and work-aware settings have no say   *)
(* in its validity while unused (Load, Validate, the derived values).      *)
THEOREM ConfigurationSound == CfgSpec => []CfgSound
<1>1. CfgInv => CfgSound
  <2>1. CfgInv => CfgWordsAreObeyed
    BY Zenon DEF CfgInv, CfgObeyed, CfgWordsAreObeyed, CfgRunning
  <2> QED
    BY <2>1, CfgInvNests, CfgInvHarmless, CfgInvFresh, CfgInvLate, Zenon DEF CfgSound
<1> QED
  BY <1>1, CfgInitInv, CfgNextInv, PTL DEF CfgSpec

-----------------------------------------------------------------------------
(* The migrators *)

(* Sequence s begins t. *)
MigBegins(s, t) == Len(s) <= Len(t) /\ \A i \in 1 .. Len(s) : s[i] = t[i]

MigPlaces == {"lock", "read", "apply", "done", "failed"}

(* What was applied comes from one of the binaries, each file once.  The   *)
(* migrator past the lock works on what the database holds, which begins   *)
(* its own list; and a list once complete stays so.                        *)
MigInv ==
  /\ migApplied \in Seq(MigAll)
  /\ \A i, j \in 1 .. Len(migApplied) : migApplied[i] = migApplied[j] => i = j
  /\ migRuns = [f \in MigAll |-> IF \E i \in 1 .. Len(migApplied) : migApplied[i] = f THEN 1 ELSE 0]
  /\ migAt \in [MigProcs -> MigPlaces] /\ migSeen \in [MigProcs -> Seq(MigAll)]
  /\ migWhy \in [MigProcs -> {"none", "waited", "unknown", "fault"}]
  /\ MigTurns
  /\ \A p \in MigProcs :
       /\ migAt[p] = "apply" => migSeen[p] = migApplied /\ MigBegins(migApplied, MigFiles[p])
       /\ migAt[p] = "done" => MigBegins(MigFiles[p], migApplied)
  /\ migReader = "running" => MigBegins(MigReader, migApplied)

LEMMA FilesAre ==
    ASSUME NEW p \in MigProcs
    PROVE  /\ MigFiles[p] \in Seq(MigAll) /\ Len(MigFiles[p]) \in Nat
           /\ \A i \in 1 .. Len(MigFiles[p]) : MigFiles[p][i] \in MigAll
           /\ \A i, j \in 1 .. Len(MigFiles[p]) : MigFiles[p][i] = MigFiles[p][j] => i = j
<1>1. /\ MigFiles[p] \in Seq(MigAll)
      /\ \A i, j \in 1 .. Len(MigFiles[p]) : MigFiles[p][i] = MigFiles[p][j] => i = j
  BY MigAssumption
<1> QED
  BY <1>1

LEMMA KnownBegins ==
    ASSUME NEW S, NEW T, NEW s \in Seq(S), NEW t \in Seq(T), MigKnown(s, t)
    PROVE  MigBegins(s, t)
<1>1. Len(s) \in Nat /\ Len(s) <= Len(t) /\ s = SubSeq(t, 1, Len(s)) /\ Len(t) \in Nat
  BY DEF MigKnown
<1>2. \A i \in 1 .. Len(s) : SubSeq(t, 1, Len(s))[i] = t[i]
  BY <1>1
<1> QED
  BY <1>1, <1>2 DEF MigBegins

LEMMA BeginsSub ==
    ASSUME NEW S, NEW T, NEW s \in Seq(S), NEW t \in Seq(T), MigBegins(s, t)
    PROVE  SubSeq(t, 1, Len(s)) = s
<1> DEFINE n == Len(s)
           u == SubSeq(t, 1, n)
<1>1. n \in Nat /\ Len(t) \in Nat /\ n <= Len(t) /\ \A i \in 1 .. n : s[i] = t[i]
  BY DEF MigBegins
<1>2. u = [i \in 1 .. n |-> t[i]]
  BY <1>1
<1>3. s = [i \in 1 .. n |-> s[i]]
  OBVIOUS
<1> HIDE DEF n, u
<1>4. u = s
  BY <1>1, <1>2, <1>3, Zenon
<1> QED
  BY <1>4 DEF u, n

(* What a step may do to the schema: nothing, or one migration of p, the   *)
(* one that comes next in its list.                                        *)
MigGrows ==
  /\ migApplied' \in Seq(MigAll)
  /\ \A i, j \in 1 .. Len(migApplied') : migApplied'[i] = migApplied'[j] => i = j
  /\ migRuns' = [f \in MigAll |-> IF \E i \in 1 .. Len(migApplied') : migApplied'[i] = f THEN 1 ELSE 0]
  /\ \A q \in MigProcs : MigBegins(MigFiles[q], migApplied) => MigBegins(MigFiles[q], migApplied')
  /\ MigBegins(MigReader, migApplied) => MigBegins(MigReader, migApplied')

LEMMA SchemaIdle ==
    ASSUME MigInv, UNCHANGED <<migApplied, migRuns>>
    PROVE  MigGrows
BY Zenon DEF MigInv, MigGrows

LEMMA TxGrows ==
    ASSUME MigInv, NEW p \in MigProcs, migAt[p] = "apply", Len(migSeen[p]) < Len(MigFiles[p]), MigTx(p)
    PROVE  /\ MigGrows /\ Len(migApplied) = Len(migSeen[p])
           /\ MigBegins(migApplied', MigFiles[p])
<1> DEFINE n == Len(migApplied)
           f == MigFiles[p][n + 1]
<1>1. /\ migApplied \in Seq(MigAll) /\ n \in Nat /\ migSeen[p] = migApplied
      /\ MigBegins(migApplied, MigFiles[p])
      /\ \A i, j \in 1 .. n : migApplied[i] = migApplied[j] => i = j
  BY DEF MigInv
<1>2. /\ MigFiles[p] \in Seq(MigAll) /\ Len(MigFiles[p]) \in Nat
      /\ \A i \in 1 .. Len(MigFiles[p]) : MigFiles[p][i] \in MigAll
      /\ \A i, j \in 1 .. Len(MigFiles[p]) : MigFiles[p][i] = MigFiles[p][j] => i = j
  BY FilesAre, Zenon
<1>3. n < Len(MigFiles[p]) /\ f \in MigAll
  BY <1>1, <1>2
<1>4. migApplied' = Append(migApplied, f) /\ migRuns' = [migRuns EXCEPT ![f] = @ + 1]
  BY <1>1 DEF MigTx
<1> HIDE DEF f
<1>5. /\ migApplied' \in Seq(MigAll) /\ Len(migApplied') = n + 1
      /\ \A i \in 1 .. n : migApplied'[i] = migApplied[i]
      /\ migApplied'[n + 1] = f
  BY <1>1, <1>3, <1>4
<1> HIDE DEF n
<1>6. \A i \in 1 .. n + 1 : migApplied'[i] = MigFiles[p][i]
  <2> SUFFICES ASSUME NEW i \in 1 .. n + 1 PROVE migApplied'[i] = MigFiles[p][i]
    OBVIOUS
  <2>1. i \in 1 .. n \/ i = n + 1
    BY <1>1
  <2> QED
    BY <1>1, <1>5, <2>1 DEF MigBegins, f, n
<1>7. MigBegins(migApplied', MigFiles[p])
  BY <1>1, <1>2, <1>3, <1>5, <1>6 DEF MigBegins
<1>8. \A i, j \in 1 .. Len(migApplied') : migApplied'[i] = migApplied'[j] => i = j
  <2>1. 1 .. n + 1 \subseteq 1 .. Len(MigFiles[p])
    BY <1>1, <1>2, <1>3
  <2> QED
    BY <1>2, <1>5, <1>6, <2>1, Zenon
<1>9. migRuns' = [g \in MigAll |-> IF \E i \in 1 .. Len(migApplied') : migApplied'[i] = g THEN 1 ELSE 0]
  <2>1. migRuns = [g \in MigAll |-> IF \E i \in 1 .. n : migApplied[i] = g THEN 1 ELSE 0]
    BY DEF MigInv, n
  <2>2. ~\E i \in 1 .. n : migApplied[i] = f
    <3> SUFFICES ASSUME NEW i \in 1 .. n, migApplied[i] = f PROVE FALSE
      BY Zenon
    <3>1. i \in 1 .. n + 1 /\ n + 1 \in 1 .. n + 1 /\ i # n + 1
      BY <1>1
    <3> QED
      BY <1>5, <1>8, <3>1
  <2>3. migRuns[f] = 0
    BY <1>3, <2>1, <2>2, Zenon
  <2>4. \A g \in MigAll : migRuns'[g] = IF g = f THEN 1 ELSE migRuns[g]
    BY <1>4, <2>1, <2>3
  <2>5. \A g \in MigAll : (\E i \in 1 .. n + 1 : migApplied'[i] = g) <=> (g = f \/ \E i \in 1 .. n : migApplied[i] = g)
    <3>1. \A i \in 1 .. n + 1 : i \in 1 .. n \/ i = n + 1
      BY <1>1
    <3>2. n + 1 \in 1 .. n + 1 /\ \A i \in 1 .. n : i \in 1 .. n + 1
      BY <1>1
    <3> QED
      BY <1>5, <3>1, <3>2
  <2>6. migRuns' = [g \in MigAll |-> migRuns'[g]]
    BY <1>4, <2>1, Zenon
  <2>7. \A g \in MigAll : migRuns'[g] = IF \E i \in 1 .. n + 1 : migApplied'[i] = g THEN 1 ELSE 0
    BY <2>1, <2>4, <2>5
  <2> QED
    BY <1>5, <2>6, <2>7
<1>10. ASSUME NEW s, Len(s) \in Nat, MigBegins(s, migApplied) PROVE MigBegins(s, migApplied')
  BY <1>1, <1>5, <1>10 DEF MigBegins, n
<1>11. Len(MigReader) \in Nat /\ \A q \in MigProcs : Len(MigFiles[q]) \in Nat
  BY MigAssumption, FilesAre
<1> QED
  BY <1>1, <1>5, <1>7, <1>8, <1>9, <1>10, <1>11, Zenon DEF MigGrows

(* p ends, or goes from one place to the next, with the lock in its hands  *)
(* whenever it is past it.                                                 *)
LEMMA MigMoves ==
    ASSUME MigInv, MigGrows, NEW p \in MigProcs, NEW at \in MigPlaces, NEW seen \in Seq(MigAll),
           NEW why \in {"none", "waited", "unknown", "fault"},
           migAt' = [migAt EXCEPT ![p] = at], migSeen' = [migSeen EXCEPT ![p] = seen],
           migWhy' = [migWhy EXCEPT ![p] = why], UNCHANGED migReader,
           at \in {"read", "apply"} => migLock' = p,
           \A q \in MigProcs \ {p} : migLock = q => migLock' = q,
           UNCHANGED migApplied \/ migLock = p,
           at = "apply" => seen = migApplied' /\ MigBegins(migApplied', MigFiles[p]),
           at = "done" => MigBegins(MigFiles[p], migApplied')
    PROVE  MigInv'
<1>1. /\ migAt' \in [MigProcs -> MigPlaces] /\ migSeen' \in [MigProcs -> Seq(MigAll)]
      /\ migWhy' \in [MigProcs -> {"none", "waited", "unknown", "fault"}]
  BY DEF MigInv
<1>2. /\ migAt'[p] = at /\ migSeen'[p] = seen
      /\ \A q \in MigProcs \ {p} : migAt'[q] = migAt[q] /\ migSeen'[q] = migSeen[q]
  BY DEF MigInv
<1>3. MigTurns'
  BY <1>2, Zenon DEF MigInv, MigTurns
<1>4. \A q \in MigProcs :
        /\ migAt'[q] = "apply" => migSeen'[q] = migApplied' /\ MigBegins(migApplied', MigFiles[q])
        /\ migAt'[q] = "done" => MigBegins(MigFiles[q], migApplied')
  <2> SUFFICES ASSUME NEW q \in MigProcs \ {p}
               PROVE  /\ migAt[q] = "apply" => migSeen[q] = migApplied' /\ MigBegins(migApplied', MigFiles[q])
                      /\ migAt[q] = "done" => MigBegins(MigFiles[q], migApplied')
    BY <1>2, Zenon
  <2>1. migAt[q] = "apply" => migLock = q
    BY DEF MigInv, MigTurns
  <2>2. migAt[q] = "apply" => UNCHANGED migApplied
    BY <2>1
  <2> QED
    BY <2>2 DEF MigInv, MigGrows
<1> QED
  BY <1>1, <1>3, <1>4, Zenon DEF MigInv, MigGrows

LEMMA MigEnds ==
    ASSUME MigInv, MigGrows, NEW p \in MigProcs, NEW how \in {"done", "failed"},
           NEW why \in {"none", "waited", "unknown", "fault"}, MigEnd(p, how, why),
           UNCHANGED <<migSeen, migReader>>, UNCHANGED migApplied \/ migLock = p,
           how = "done" => MigBegins(MigFiles[p], migApplied')
    PROVE  MigInv'
<1>1. migSeen' = [migSeen EXCEPT ![p] = migSeen[p]] /\ migSeen[p] \in Seq(MigAll) /\ how \in MigPlaces
  BY DEF MigInv, MigPlaces
<1>2. \A q \in MigProcs \ {p} : migLock = q => migLock' = q
  BY DEF MigEnd
<1> QED
  BY <1>1, <1>2, MigMoves, Zenon DEF MigEnd

LEMMA TurnKeeps ==
    ASSUME MigInv, NEW p \in MigProcs, MigTakeLock(p) \/ MigReadApplied(p) \/ MigAgain(p)
    PROVE  MigInv'
<1>1. MigGrows /\ UNCHANGED <<migApplied, migReader>>
  BY SchemaIdle, Zenon DEF MigTakeLock, MigReadApplied, MigAgain
<1>2. /\ migApplied \in Seq(MigAll) /\ migSeen[p] \in Seq(MigAll) /\ <<>> \in Seq(MigAll)
      /\ migWhy[p] \in {"none", "waited", "unknown", "fault"} /\ "none" \notin MigProcs
      /\ migAt[p] \in {"read", "apply"} => migLock = p
  BY MigAssumption DEF MigInv, MigTurns
<1>3. CASE MigTakeLock(p)
  <2>1. CASE migLock # "none" /\ MigEnd(p, "failed", "waited")
    <3>1. UNCHANGED migSeen
      BY <1>3 DEF MigTakeLock
    <3> QED
      BY <1>1, <2>1, <3>1, MigEnds
  <2>2. CASE /\ migLock = "none" /\ migLock' = p /\ migAt' = [migAt EXCEPT ![p] = "read"]
             /\ UNCHANGED migWhy
    <3>1. migSeen' = [migSeen EXCEPT ![p] = migSeen[p]] /\ migWhy' = [migWhy EXCEPT ![p] = migWhy[p]]
      BY <1>3, <2>2 DEF MigTakeLock, MigInv
    <3>2. \A q \in MigProcs \ {p} : migLock # q
      BY <1>2, <2>2
    <3>3. "read" \in MigPlaces
      BY DEF MigPlaces
    <3> QED
      BY <1>1, <1>2, <2>2, <3>1, <3>2, <3>3, MigMoves, Zenon
  <2> QED
    BY <1>3, <2>1, <2>2 DEF MigTakeLock
<1>4. CASE MigReadApplied(p)
  <2>1. CASE /\ MigKnown(migApplied, MigFiles[p])
             /\ migSeen' = [migSeen EXCEPT ![p] = migApplied] /\ migAt' = [migAt EXCEPT ![p] = "apply"]
             /\ UNCHANGED <<migLock, migWhy>>
    <3>1. MigBegins(migApplied, MigFiles[p])
      BY <1>2, <2>1, KnownBegins, FilesAre, Zenon
    <3>2. migWhy' = [migWhy EXCEPT ![p] = migWhy[p]] /\ migLock = p /\ "apply" \in MigPlaces
      BY <1>2, <1>4, <2>1, Zenon DEF MigReadApplied, MigInv, MigPlaces
    <3> QED
      BY <1>1, <1>2, <2>1, <3>1, <3>2, MigMoves, Zenon
  <2>2. CASE MigEnd(p, "failed", "unknown") /\ UNCHANGED migSeen
    BY <1>1, <2>2, MigEnds
  <2> QED
    BY <1>4, <2>1, <2>2 DEF MigReadApplied
<1>5. CASE MigAgain(p)
  <2>1. /\ migAt' = [migAt EXCEPT ![p] = "lock"] /\ migSeen' = [migSeen EXCEPT ![p] = <<>>]
        /\ migWhy' = [migWhy EXCEPT ![p] = "none"] /\ UNCHANGED migLock /\ "lock" \in MigPlaces
    BY <1>5, Zenon DEF MigAgain, MigPlaces
  <2> QED
    BY <1>1, <1>2, <2>1, MigMoves, Zenon
<1> QED
  BY <1>3, <1>4, <1>5, Zenon

LEMMA ApplyKeeps ==
    ASSUME MigInv, NEW p \in MigProcs, MigApplyOne(p) \/ MigDone(p) \/ MigCrash(p)
    PROVE  MigInv'
<1>1. /\ migApplied \in Seq(MigAll) /\ migSeen[p] \in Seq(MigAll) /\ Len(migApplied) \in Nat
      /\ migWhy[p] \in {"none", "waited", "unknown", "fault"}
      /\ migAt[p] = "apply" => migLock = p /\ migSeen[p] = migApplied /\ MigBegins(migApplied, MigFiles[p])
      /\ Len(MigFiles[p]) \in Nat
  BY FilesAre DEF MigInv, MigTurns
<1>2. CASE MigApplyOne(p)
  <2>1. /\ migAt[p] = "apply" /\ Len(migSeen[p]) < Len(MigFiles[p]) /\ UNCHANGED migReader
        /\ migLock = p
    BY <1>1, <1>2, Zenon DEF MigApplyOne
  <2>2. CASE /\ MigTx(p) /\ migSeen' = [migSeen EXCEPT ![p] = migApplied']
             /\ UNCHANGED <<migAt, migWhy, migLock>>
    <3>1. MigGrows /\ MigBegins(migApplied', MigFiles[p])
      BY <2>1, <2>2, TxGrows, Zenon
    <3>2. /\ migAt' = [migAt EXCEPT ![p] = "apply"] /\ migWhy' = [migWhy EXCEPT ![p] = migWhy[p]]
          /\ migApplied' \in Seq(MigAll) /\ "apply" \in MigPlaces
      BY <2>1, <2>2, <3>1, Zenon DEF MigInv, MigGrows, MigPlaces
    <3> QED
      BY <1>1, <2>1, <2>2, <3>1, <3>2, MigMoves, Zenon
  <2>3. CASE MigTx(p) /\ MigEnd(p, "failed", "fault") /\ UNCHANGED migSeen
    BY <2>1, <2>3, TxGrows, MigEnds, Zenon
  <2>4. CASE UNCHANGED <<migApplied, migRuns>> /\ MigEnd(p, "failed", "fault") /\ UNCHANGED migSeen
    BY <2>1, <2>4, SchemaIdle, MigEnds, Zenon
  <2> QED
    BY <1>1, <1>2, <2>1, <2>2, <2>3, <2>4, Zenon DEF MigApplyOne
<1>3. CASE MigDone(p)
  <2>1. /\ MigEnd(p, "done", "none") /\ UNCHANGED <<migApplied, migRuns, migSeen, migReader>>
        /\ Len(migApplied) = Len(MigFiles[p]) /\ MigBegins(migApplied, MigFiles[p])
    BY <1>1, <1>3, Zenon DEF MigDone
  <2>2. MigBegins(MigFiles[p], migApplied)
    BY <1>1, <2>1, Zenon DEF MigBegins
  <2> QED
    BY <2>1, <2>2, SchemaIdle, MigEnds, Zenon
<1>4. CASE MigCrash(p)
  BY <1>4, SchemaIdle, MigEnds, Zenon DEF MigCrash
<1> QED
  BY <1>2, <1>3, <1>4

LEMMA OpenKeeps ==
    ASSUME MigInv, MigOpenStore \/ UNCHANGED migVars
    PROVE  MigInv'
<1>1. UNCHANGED <<migApplied, migRuns, migLock, migAt, migSeen, migWhy>>
  BY DEF MigOpenStore, migVars
<1>2. migReader' = "running" => migReader = "running" \/ (MigKnown(migApplied, MigReader) /\ Len(migApplied) = Len(MigReader))
  BY DEF MigOpenStore, migVars
<1>3. MigReader \in Seq({MigReader[i] : i \in DOMAIN MigReader}) /\ Len(MigReader) \in Nat
  BY MigAssumption
<1>4. migApplied \in Seq(MigAll) /\ (migReader = "running" => MigBegins(MigReader, migApplied))
  BY DEF MigInv
<1>5. MigKnown(migApplied, MigReader) /\ Len(migApplied) = Len(MigReader) => MigBegins(MigReader, migApplied)
  <2> SUFFICES ASSUME MigKnown(migApplied, MigReader), Len(migApplied) = Len(MigReader)
               PROVE  MigBegins(MigReader, migApplied)
    OBVIOUS
  <2>1. MigBegins(migApplied, MigReader)
    BY <1>3, <1>4, KnownBegins, Zenon
  <2> QED
    BY <1>3, <2>1 DEF MigBegins
<1>6. MigTurns'
  BY <1>1, Zenon DEF MigInv, MigTurns
<1> QED
  BY <1>1, <1>2, <1>4, <1>5, <1>6, Zenon DEF MigInv

LEMMA MigInitInv == MigInit => MigInv
<1> SUFFICES ASSUME MigInit PROVE MigInv
  OBVIOUS
<1>1. /\ migApplied = <<>> /\ migRuns = [f \in MigAll |-> 0] /\ migAt = [p \in MigProcs |-> "lock"]
      /\ migSeen = [p \in MigProcs |-> <<>>] /\ migWhy = [p \in MigProcs |-> "none"] /\ migReader = "starting"
  BY DEF MigInit
<1>2. migApplied \in Seq(MigAll) /\ 1 .. Len(migApplied) = {}
  BY <1>1
<1>3. migRuns = [f \in MigAll |-> IF \E i \in 1 .. Len(migApplied) : migApplied[i] = f THEN 1 ELSE 0]
  BY <1>1, <1>2
<1>4. /\ migAt \in [MigProcs -> MigPlaces] /\ migSeen \in [MigProcs -> Seq(MigAll)]
      /\ migWhy \in [MigProcs -> {"none", "waited", "unknown", "fault"}]
  BY <1>1, <1>2 DEF MigPlaces
<1>5. \A p \in MigProcs : migAt[p] = "lock"
  BY <1>1
<1> QED
  BY <1>1, <1>2, <1>3, <1>4, <1>5 DEF MigInv, MigTurns

LEMMA MigNextInv == MigInv /\ [MigNext]_migVars => MigInv'
<1> SUFFICES ASSUME MigInv, [MigNext]_migVars PROVE MigInv'
  OBVIOUS
<1> QED
  BY TurnKeeps, ApplyKeeps, OpenKeeps DEF MigNext

LEMMA MigInvSafe == MigInv => MigSafe
<1> SUFFICES ASSUME MigInv PROVE MigSafe
  OBVIOUS
<1>1. /\ migApplied \in Seq(MigAll) /\ Len(migApplied) \in Nat /\ DOMAIN migApplied = 1 .. Len(migApplied)
      /\ \A i, j \in 1 .. Len(migApplied) : migApplied[i] = migApplied[j] => i = j
  BY DEF MigInv
<1>2. MigOnce
  <2>1. ASSUME NEW f \in MigAll
        PROVE  migRuns[f] = Cardinality({i \in DOMAIN migApplied : migApplied[i] = f}) /\ migRuns[f] <= 1
    <3> DEFINE I == {i \in DOMAIN migApplied : migApplied[i] = f}
    <3>1. migRuns[f] = IF \E i \in 1 .. Len(migApplied) : migApplied[i] = f THEN 1 ELSE 0
      BY DEF MigInv
    <3>2. CASE \E i \in 1 .. Len(migApplied) : migApplied[i] = f
      <4>1. PICK i \in 1 .. Len(migApplied) : migApplied[i] = f
        BY <3>2
      <4>2. I = {i}
        BY <1>1, <4>1
      <4>3. Cardinality(I) = 1
        BY <4>2, FS_Singleton, Zenon
      <4> QED
        BY <3>1, <3>2, <4>3
    <3>3. CASE ~\E i \in 1 .. Len(migApplied) : migApplied[i] = f
      <4>1. I = {}
        BY <1>1, <3>3
      <4>2. Cardinality(I) = 0
        BY <4>1, FS_EmptySet, Zenon
      <4> QED
        BY <3>1, <3>3, <4>2
    <3> QED
      BY <3>2, <3>3
  <2>2. \A p \in MigProcs : migAt[p] = "apply" => migSeen[p] = migApplied
    BY DEF MigInv
  <2> QED
    BY <2>1, <2>2 DEF MigOnce
<1>3. MigNobodyCollides
  BY Zenon DEF MigInv, MigNobodyCollides
<1>4. MigSchemaKnown
  <2>1. MigReader \in Seq({MigReader[i] : i \in DOMAIN MigReader})
    BY MigAssumption, Zenon
  <2>2. migReader = "running" => SubSeq(migApplied, 1, Len(MigReader)) = MigReader
    BY <1>1, <2>1, BeginsSub, Zenon DEF MigInv
  <2>3. \A p \in MigProcs : migAt[p] = "done" => SubSeq(migApplied, 1, Len(MigFiles[p])) = MigFiles[p]
    BY <1>1, FilesAre, BeginsSub, Zenon DEF MigInv
  <2> QED
    BY <2>2, <2>3 DEF MigSchemaKnown
<1> QED
  BY <1>2, <1>3, <1>4 DEF MigSafe, MigInv

-----------------------------------------------------------------------------
(* Theorems about the migrators *)

(* The migrator past the lock works on what the database holds, which      *)
(* begins its own list (migrateUp, readApplied, checkApplied).             *)
THEOREM MigrationInvariant == MigSpec => []MigInv
BY MigInitInv, MigNextInv, PTL DEF MigSpec

(* However many processes migrate at once, with whatever lists, and die    *)
(* wherever they do: they take turns, each file takes effect once and is   *)
(* recorded exactly when it has, none fails for having met another, and    *)
(* success means the schema is there (migrateUp, takeMigrateLock,          *)
(* applyOne, openStore).                                                   *)
THEOREM MigrationsSafe == MigSpec => []MigSafe
BY MigrationInvariant, MigInvSafe, PTL
=============================================================================
