----------------------------- MODULE RateLimiter -----------------------------
(***************************************************************************)
(* The rate limiter of a gateway (internal/ratelimit/redis.go) over Redis  *)
(* (internal/redis): leases tracked and renewed in the background,         *)
(* releases queued, the backoff and the probe of an outage, the failure    *)
(* modes. A script call is two steps after it is sent: Redis executes it,  *)
(* the client takes the reply. A call that times out may have been         *)
(* executed, and may still be. Whether the buckets admit a request is      *)
(* module TokenBuckets' and free here; the concurrency set is exact.       *)
(***************************************************************************)
EXTENDS Integers, FiniteSets, FiniteSetsExt, Sequences

CONSTANTS LimGateways, LimHome,      \* the gateway of each request
          LimActive,                 \* what its tenant limits: "buckets", "concurrency"
          LimMaxConcurrent, LimTTL, LimMaxLocal, LimQueueSize, LimFailOpen,
          LimMaxFaults

LimCalls == DOMAIN LimHome

ASSUME LimAssumption ==
  /\ LimHome \in [LimCalls -> LimGateways] /\ LimActive \in [LimCalls -> SUBSET {"buckets", "concurrency"}]
  /\ {LimMaxConcurrent, LimTTL, LimMaxLocal, LimQueueSize} \subseteq Nat \ {0}
  /\ LimMaxFaults \in Nat /\ LimFailOpen \in BOOLEAN

VARIABLES
  limLease,                        \* Redis: the life left of each lease (0: expired, -1: not in the set)
  limCall, limLocal, limQueue, limRun, limHealth,  \* the gateways: requests, RedisLimiter and redis.Client
  limLate,                         \* scripts whose caller gave up and that Redis may still execute
  limFaults,                       \* how many calls failed and processes died
  limAge                           \* history: the age of each gateway's last renewal; the TTL once it has reached it

limVars == <<limLease, limCall, limLocal, limQueue, limRun, limHealth, limLate, limFaults, limAge>>

limRedis == <<limLease, limAge>>

\* The gateways whose renewals have once been too far apart.
LimLapsed == {g \in LimGateways : limAge[g] = LimTTL}

\* One call of Client.Run per acquire, per release and per gateway's renewal.
LimOps == ({"acquire", "release"} \X LimCalls) \cup ({"renew"} \X LimGateways)

LimGate(op) == IF op[1] = "renew" THEN op[2] ELSE LimHome[op[2]]

LimNoRun == [at |-> "off", probe |-> FALSE, reply |-> "none", ids |-> {}, age |-> 0]

LimInit ==
  /\ limLease = [c \in LimCalls |-> -1] /\ limCall = [c \in LimCalls |-> "new"]
  /\ limLocal = {} /\ limQueue = [g \in LimGateways |-> <<>>]
  /\ limRun = [op \in LimOps |-> LimNoRun]
  /\ limHealth = [g \in LimGateways |-> [down |-> FALSE, backoff |-> FALSE, probing |-> FALSE, closed |-> FALSE]]
  /\ limLate = {} /\ limFaults = 0
  /\ limAge = [g \in LimGateways |-> 0]

-----------------------------------------------------------------------------
(* The scripts. *)

\* The leases that have not expired.
LimLive == {c \in LimCalls : limLease[c] > 0}

\* acquireScript: expired leases go, and the request is admitted with a lease or refused.
LimAcquire(c, admitted) ==
  LET leased == "concurrency" \in LimActive[c] IN
  /\ admitted => ~(leased /\ Cardinality(LimLive) >= LimMaxConcurrent)
  /\ ~admitted => "buckets" \in LimActive[c] \/ Cardinality(LimLive) >= LimMaxConcurrent
  /\ limLease' = [d \in LimCalls |-> IF d = c /\ admitted /\ leased THEN LimTTL
                                     ELSE IF leased /\ d \notin LimLive THEN -1 ELSE limLease[d]]

\* renewScript: only a lease that is still held.
LimRenewed(ids) == [c \in LimCalls |-> IF c \in ids \cap LimLive THEN LimTTL ELSE limLease[c]]

\* What Redis does for an operation. A renewal covers the leases that its gateway tracked when it was made.
LimExecute(op, ids, age, reply) ==
  /\ CASE op[1] = "acquire" -> LimAcquire(op[2], reply = "ok")
       [] op[1] = "release" -> reply = "ok" /\ limLease' = [limLease EXCEPT ![op[2]] = -1]
       [] op[1] = "renew"   -> reply = "ok" /\ limLease' = LimRenewed(ids)
  /\ limAge' = IF op[1] = "renew" /\ op[2] \notin LimLapsed THEN [limAge EXCEPT ![op[2]] = Min({@, age})] ELSE limAge

-----------------------------------------------------------------------------
(* redis.Client: Run with its backoff and its probe. *)

\* admit: ErrBackoff while Redis is left alone or another call is the probe.
LimAdmits(g) == ~(limHealth[g].down /\ (limHealth[g].backoff \/ limHealth[g].probing))

\* Run up to the command: the probe is the first call after the backoff.
LimSend(op, ids) ==
  LET down == limHealth[LimGate(op)].down IN
  /\ LimAdmits(LimGate(op))
  /\ limRun' = [limRun EXCEPT ![op] = [at |-> "sent", probe |-> down, reply |-> "none", ids |-> ids, age |-> 0]]
  /\ limHealth' = [limHealth EXCEPT ![LimGate(op)].probing = @ \/ down]

\* done: the health after an answer, or after a failure.
LimDone(op, failed) ==
  limHealth' = [limHealth EXCEPT ![LimGate(op)] =
    [@ EXCEPT !.probing = @ /\ ~limRun[op].probe, !.down = failed, !.backoff = failed]]

\* settle: a probe that learned nothing.
LimSettle(op) == limHealth' = [limHealth EXCEPT ![LimGate(op)].probing = @ /\ ~limRun[op].probe]

\* failed: the failure mode.
LimFailed == IF LimFailOpen THEN "bypassed" ELSE "refused"

\* How the caller goes on: Allow keeps the lease of an admitted request and forgets any other.
LimGoesOn(op, how) ==
  IF op[1] # "acquire" THEN UNCHANGED <<limCall, limLocal>>
  ELSE /\ limCall' = [limCall EXCEPT ![op[2]] = CASE how = "ok" -> "running" [] how = "refused" -> "refused" [] how = "error" -> LimFailed]
       /\ limLocal' = IF how = "ok" THEN limLocal ELSE limLocal \ {op[2]}

LimReplies == {"ok", "refused"}

\* Redis executes a script. The client takes the reply of a release or a renewal at once; between the execution of
\* an acquire and its reply the lease is in Redis and the request not yet running.
LimScript(op) ==
  /\ limRun[op].at = "sent"
  /\ \E reply \in LimReplies :
       /\ LimExecute(op, limRun[op].ids, limRun[op].age, reply)
       /\ \/ /\ op[1] = "acquire"
             /\ limRun' = [limRun EXCEPT ![op].at = "replied", ![op].reply = reply] /\ UNCHANGED limHealth
          \/ /\ op[1] # "acquire"
             /\ limRun' = [limRun EXCEPT ![op] = LimNoRun] /\ LimDone(op, FALSE)
  /\ UNCHANGED <<limCall, limLocal, limQueue, limLate, limFaults>>

\* Redis executes what its caller no longer waits for.
LimScriptLate ==
  /\ \E late \in limLate, reply \in LimReplies :
       LimExecute(late.op, late.ids, late.age, reply) /\ limLate' = limLate \ {late}
  /\ UNCHANGED <<limCall, limLocal, limQueue, limRun, limHealth, limFaults>>

LimReply(op) ==
  /\ limRun[op].at = "replied"
  /\ LimDone(op, FALSE) /\ LimGoesOn(op, limRun[op].reply)
  /\ limRun' = [limRun EXCEPT ![op] = LimNoRun]
  /\ UNCHANGED <<limQueue, limLate, limFaults, limRedis>>

\* An error or a timeout of a call that was sent: it was not executed, it was, or it still may be.
LimFail(op) ==
  /\ limRun[op].at \in {"sent", "replied"} /\ limFaults < LimMaxFaults
  /\ LimDone(op, TRUE) /\ LimGoesOn(op, "error")
  /\ limRun' = [limRun EXCEPT ![op] = LimNoRun]
  /\ \/ UNCHANGED limLate
     \/ limRun[op].at = "sent" /\ limLate' = limLate \cup {[op |-> op, ids |-> limRun[op].ids, age |-> limRun[op].age]}
  /\ limFaults' = limFaults + 1
  /\ UNCHANGED <<limQueue, limRedis>>

\* ErrBusy: the pool had no connection.
LimBusy(op) ==
  /\ limRun[op].at = "sent"
  /\ LimSettle(op) /\ LimGoesOn(op, "error")
  /\ limRun' = [limRun EXCEPT ![op] = LimNoRun]
  /\ UNCHANGED <<limQueue, limLate, limFaults, limRedis>>

LimBackoffEnds(g) ==
  /\ limHealth[g].backoff
  /\ limHealth' = [limHealth EXCEPT ![g].backoff = FALSE]
  /\ UNCHANGED <<limCall, limLocal, limQueue, limRun, limLate, limFaults, limRedis>>

-----------------------------------------------------------------------------
(* RedisLimiter. *)

\* Allow up to the command: nothing to enforce, no room for another lease, Redis left alone, or the lease is
\* tracked and then asked for.
LimAllow(c) ==
  LET leased == "concurrency" \in LimActive[c]
      full == leased /\ Cardinality({d \in limLocal : LimHome[d] = LimHome[c]}) >= LimMaxLocal
  IN /\ limCall[c] = "new"
     /\ \/ /\ LimActive[c] # {} /\ ~full
           /\ LimSend(<<"acquire", c>>, {})
           /\ limCall' = [limCall EXCEPT ![c] = "checking"]
           /\ limLocal' = IF leased THEN limLocal \cup {c} ELSE limLocal
        \/ /\ LimActive[c] = {} \/ full \/ ~LimAdmits(LimHome[c])
           /\ limCall' = [limCall EXCEPT ![c] = IF LimActive[c] = {} THEN "bypassed" ELSE IF full THEN "refused" ELSE LimFailed]
           /\ UNCHANGED <<limLocal, limRun, limHealth>>
     /\ UNCHANGED <<limQueue, limLate, limFaults, limRedis>>

\* releaser and enqueue: once, without blocking; a full queue or a closed limiter drops it.
LimRelease(c) ==
  LET g == LimHome[c] IN
  /\ limCall[c] \in {"running", "bypassed"}
  /\ limCall' = [limCall EXCEPT ![c] = "ended"] /\ limLocal' = limLocal \ {c}
  /\ limQueue' = IF c \in limLocal /\ ~limHealth[g].closed /\ Len(limQueue[g]) < LimQueueSize
                 THEN [limQueue EXCEPT ![g] = Append(@, c)] ELSE limQueue
  /\ UNCHANGED <<limRun, limHealth, limLate, limFaults, limRedis>>

\* A release worker of Run, or Close, takes a job: the call, or nothing while Redis is left alone.
LimDoRelease(g) ==
  /\ limQueue[g] # <<>>
  /\ limQueue' = [limQueue EXCEPT ![g] = Tail(@)]
  /\ \/ LimSend(<<"release", Head(limQueue[g])>>, {})
     \/ ~LimAdmits(g) /\ UNCHANGED <<limRun, limHealth>>
  /\ UNCHANGED <<limCall, limLocal, limLate, limFaults, limRedis>>

(* Mutant: only the leases of requests that were admitted are renewed. *)
LimRenewedIds(g) == {c \in limLocal : LimHome[c] = g /\ limCall[c] = "running"}

\* renewAll's copy of the leases.
LimTracked(g) == {c \in limLocal : LimHome[c] = g}

\* renewAll: one call for the leases tracked now. With none, the leases taken later are the only ones.
LimRenewAll(g) ==
  /\ limRun[<<"renew", g>>].at = "off" /\ ~limHealth[g].closed /\ limAge[g] > 0
  /\ \/ LimTracked(g) # {} /\ LimSend(<<"renew", g>>, LimTracked(g)) /\ UNCHANGED limAge
     \/ LimTracked(g) = {} /\ limAge' = [limAge EXCEPT ![g] = IF g \in LimLapsed THEN @ ELSE 0] /\ UNCHANGED <<limRun, limHealth>>
  /\ UNCHANGED <<limCall, limLocal, limQueue, limLate, limFaults, limLease>>

\* Close: the background work has ended with its context; what Close does not send within its timeout is lost.
LimClose(g) ==
  /\ ~limHealth[g].closed
  /\ limHealth' = [limHealth EXCEPT ![g].closed = TRUE]
  /\ \E rest \in {limQueue[g], <<>>} : limQueue' = [limQueue EXCEPT ![g] = rest]
  /\ UNCHANGED <<limCall, limLocal, limRun, limLate, limFaults, limRedis>>

-----------------------------------------------------------------------------
(* The environment. *)

LimOlder(age) == Min({LimTTL, age + 1})

\* Time passes, a third of the TTL or less at a time.
LimTick ==
  /\ limLease' = [c \in LimCalls |-> IF limLease[c] > 0 THEN limLease[c] - 1 ELSE limLease[c]]
  /\ limAge' = [g \in LimGateways |-> LimOlder(limAge[g])]
  /\ limRun' = [op \in LimOps |-> IF op[1] = "renew" /\ limRun[op].at = "sent" THEN [limRun[op] EXCEPT !.age = LimOlder(@)] ELSE limRun[op]]
  /\ limLate' = {IF late.op[1] = "renew" THEN [late EXCEPT !.age = LimOlder(@)] ELSE late : late \in limLate}
  /\ UNCHANGED <<limCall, limLocal, limQueue, limHealth, limFaults>>

\* The gateway process dies; what it had sent may still be executed.
LimCrash(g) ==
  LET ops == {op \in LimOps : LimGate(op) = g} IN
  /\ limFaults < LimMaxFaults
  /\ limFaults' = limFaults + 1
  /\ limCall' = [c \in LimCalls |-> IF LimHome[c] = g THEN "ended" ELSE limCall[c]]
  /\ limLocal' = {c \in limLocal : LimHome[c] # g} /\ limQueue' = [limQueue EXCEPT ![g] = <<>>]
  /\ limLate' = limLate \cup {[op |-> op, ids |-> limRun[op].ids, age |-> limRun[op].age] : op \in {o \in ops : limRun[o].at = "sent"}}
  /\ limRun' = [op \in LimOps |-> IF op \in ops THEN LimNoRun ELSE limRun[op]]
  /\ limHealth' = [limHealth EXCEPT ![g] = [down |-> FALSE, backoff |-> FALSE, probing |-> FALSE, closed |-> TRUE]]
  /\ UNCHANGED limRedis

LimGateway(g) ==
  \/ LimDoRelease(g) \/ LimRenewAll(g) \/ LimBackoffEnds(g)
  \/ \E c \in LimCalls : LimHome[c] = g /\ (LimAllow(c) \/ LimRelease(c))
  \/ \E op \in LimOps : LimGate(op) = g /\ (LimReply(op) \/ LimFail(op) \/ LimBusy(op))

LimNext ==
  \/ \E g \in LimGateways : LimGateway(g) \/ LimClose(g) \/ LimCrash(g)
  \/ \E op \in LimOps : LimScript(op)
  \/ LimScriptLate \/ LimTick

\* Time passes. No reply, renewal or release is needed for a slot to come back.
LimFairness == WF_limVars(LimTick)

LimSpec == LimInit /\ [][LimNext]_limVars /\ LimFairness

-----------------------------------------------------------------------------
(* Properties. *)

LimTypeOK ==
  /\ limLease \in [LimCalls -> -1 .. LimTTL] /\ limLocal \subseteq LimCalls
  /\ limCall \in [LimCalls -> {"new", "checking", "running", "bypassed", "refused", "ended"}]
  /\ \A g \in LimGateways : Len(limQueue[g]) <= LimQueueSize /\ Cardinality(LimTracked(g)) <= LimMaxLocal

\* While a gateway's renewals get through within the TTL of one another, every running request of it still has its
\* lease, and no other request can take its slot: the copy that renewAll makes misses no lease that Redis has given.
LimLeaseCovers ==
  \A c \in limLocal : limCall[c] = "running" /\ LimHome[c] \notin LimLapsed => c \in LimLive

\* A lease that Redis no longer has never comes back: a renewal that races the release, or that arrives after the
\* expiry, does not take the slot again (renewScript's comment).
LimNoRevival ==
  [][\A c \in LimCalls : limLease[c] <= 0 /\ limLease'[c] > 0 =>
       limRun[<<"acquire", c>>].at = "sent" \/ \E late \in limLate : late.op = <<"acquire", c>>]_limVars

\* The probe of an outage is a call in flight: were the flag to stay behind, Redis would never be called again.
LimProbeOwned ==
  \A g \in LimGateways :
    Cardinality({op \in LimOps : LimGate(op) = g /\ limRun[op].probe}) = (IF limHealth[g].probing THEN 1 ELSE 0)

\* A slot always comes back: after a request has ended, whether its release was sent, lost, dropped from a full
\* queue or died with its gateway, its lease is in the end gone from Redis or
\* expired, and stays so although an acquire or a renewal that was given up may still be executed.
LimSlotFreed == <>[](\A c \in LimCalls : limCall[c] = "ended" => limLease[c] <= 0)

\* Leases in Redis follow the requests (Allow, renewAll, releaser, client's probe): one that is needed is kept, one that
\* is gone stays gone, and an outage is always probed again.
LimSafe == [](LimTypeOK /\ LimLeaseCovers /\ LimProbeOwned) /\ LimNoRevival
=============================================================================
