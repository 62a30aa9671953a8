--------------------------- MODULE AdmissionQueue ---------------------------
(***************************************************************************)
(* The per-model FIFO admission queue of internal/resilience/queue.go.     *)
(*                                                                         *)
(* A request that finds every worker of its model full waits here.  Slots  *)
(* freed by a running request are handed to the head waiter; a registry    *)
(* refresh wakes waiters, which then route for themselves while keeping    *)
(* their place.  A slot released while the head is routing becomes credit, *)
(* spent on the first waiter that is not routing.                          *)
(*                                                                         *)
(* Every operation below is one critical section of Queue.mu.  The         *)
(* variable phase is the position of the request's goroutine in the wait   *)
(* loop of the gateway (awaitSlot), the only client of a Waiter.           *)
(***************************************************************************)
EXTENDS Integers, Sequences, FiniteSets, Functions

CONSTANTS Models,        \* the queue keys: registry-confirmed model names
          Requests,      \* request goroutines; one is at most one waiter at a time
          Tenants,       \* authenticated tenants
          NoTenant,      \* tenant "": authentication is off, never share-capped
          Slots,         \* the values a releaser may hand over
          None,          \* an empty channel
          Reroute,       \* the grant "route again"
          Flushed,       \* the grant "the gateway drains"
          ModelOf,       \* the model a request asks for
          TenantOf,      \* the tenant of a request
          MaxModelDepth, \* queue.max_model_depth
          MaxModels,     \* metrics.max_models; 0 means unbounded
          ShareNum,      \* queue.max_tenant_share is ShareNum / ShareDen
          ShareDen

ASSUME RequestsAssumption ==
    /\ IsFiniteSet(Requests)
    /\ NoTenant \notin Tenants
    /\ ModelOf \in [Requests -> Models]
    /\ TenantOf \in [Requests -> Tenants \cup {NoTenant}]

ASSUME ParamsAssumption ==
    /\ MaxModelDepth \in Nat
    /\ MaxModels \in Nat
    /\ ShareNum \in Nat
    /\ ShareDen \in Nat \ {0}

(* A grant is Reroute, Flushed or a slot (a hand-off of it). *)
ASSUME SlotsAssumption ==
    /\ Slots \cap {None, Reroute, Flushed} = {}
    /\ None # Reroute /\ Reroute # Flushed /\ Flushed # None
    /\ None \notin Requests

VARIABLES queue,   \* model -> its waiters, in arrival order
          woken,   \* waiters with a wake-up outstanding: routing, or about to
          credit,  \* model -> slots released while the head was routing
          tenants, \* model -> tenant -> how many of its waiters are queued
          ch,      \* request -> what its waiter's one-place channel holds
          phase,   \* request -> "out", "waiting" (in Wait) or "routing"
          closed   \* the gateway is draining: Enqueue refuses

queueVars == <<queue, woken, credit, tenants, ch, phase, closed>>

Grants == Slots \cup {None, Reroute, Flushed}

Init ==
    /\ queue = [m \in Models |-> <<>>]
    /\ woken = {}
    /\ credit = [m \in Models |-> 0]
    /\ tenants = [m \in Models |-> [t \in Tenants |-> 0]]
    /\ ch = [r \in Requests |-> None]
    /\ phase = [r \in Requests |-> "out"]
    /\ closed = FALSE

-----------------------------------------------------------------------------
(* Looking at the queue *)

Busy(m) == queue[m] # <<>>

(* Len(q.models): a model has an entry exactly while it has waiters. *)
QueuedModels == {m \in Models : Busy(m)}

InQueue(r) == r \in Range(queue[ModelOf[r]])

(* The most waiters one tenant may hold; 0 means no guard. *)
TenantCap ==
    LET floor == (ShareNum * MaxModelDepth) \div ShareDen
    IN  IF ShareNum = 0 \/ ShareNum >= ShareDen THEN 0
        ELSE IF floor < 1 THEN 1 ELSE floor

(* Why an Enqueue would be refused; "" when it would be accepted. *)
Refusal(m, t) ==
    CASE closed -> "draining"
      [] ~closed /\ MaxModelDepth = 0 -> "no_queue"
      [] ~closed /\ MaxModelDepth > 0 /\ ~Busy(m) ->
            IF MaxModels > 0 /\ Cardinality(QueuedModels) >= MaxModels
            THEN "no_queue" ELSE ""
      [] OTHER ->
            IF Len(queue[m]) >= MaxModelDepth THEN "queue_full"
            ELSE IF TenantCap > 0 /\ t # NoTenant /\ tenants[m][t] >= TenantCap
            THEN "tenant_share" ELSE ""

-----------------------------------------------------------------------------
(* The steps operations are made of *)

(* s without the waiter r, order kept (list.Remove). *)
Without(s, r) ==
    LET at == CHOOSE i \in DOMAIN s : s[i] = r
    IN  [i \in 1 .. Len(s) - 1 |-> IF i < at THEN s[i] ELSE s[i + 1]]

(* The first n waiters of s, in queue order, that are not in the set wk.   *)
IdleAt(s, wk) == {i \in DOMAIN s : s[i] \notin wk}

FirstIdle(s, wk, n) ==
    {s[i] : i \in {j \in IdleAt(s, wk) :
                      Cardinality({k \in IdleAt(s, wk) : k <= j}) <= n}}

(* The tenant counters: one more waiter of t, one less (an entry that      *)
(* reaches zero is deleted).                                               *)
CountIn(t, counts) ==
    IF t = NoTenant THEN counts ELSE [counts EXCEPT ![t] = @ + 1]

CountOut(t, counts) ==
    IF t = NoTenant THEN counts
    ELSE [counts EXCEPT ![t] = IF @ > 0 THEN @ - 1 ELSE 0]

(* settle: spend c units of credit on queue s, whose routing waiters are   *)
(* wk: the first c idle waiters are told to route.  self, when it is one   *)
(* of them, learns so from Park's result and not from its channel.         *)
Settle(m, s, wk, c, chans, self) ==
    LET told == FirstIdle(s, wk, c)
        idle == Cardinality(IdleAt(s, wk))
    IN  /\ woken' = wk \cup told
        /\ credit' = [credit EXCEPT ![m] = IF idle < c THEN c - idle ELSE 0]
        /\ ch' = [r \in Requests |->
                     IF r \in told /\ r # self THEN Reroute ELSE chans[r]]

(* leaveLocked with settleAfter: r leaves its queue, its own channel is    *)
(* drained, and credit is spent on those that remain; with giveBack an     *)
(* unused wake-up of r is one more unit.  An emptied queue loses its       *)
(* entry, and the credit with it.                                          *)
LeaveAndSettle(r, giveBack) ==
    LET m == ModelOf[r]
        rest == Without(queue[m], r)
        c == credit[m] + (IF giveBack /\ r \in woken THEN 1 ELSE 0)
        drained == [ch EXCEPT ![r] = None]
    IN  /\ queue' = [queue EXCEPT ![m] = rest]
        /\ tenants' = [tenants EXCEPT ![m] = CountOut(TenantOf[r], @)]
        /\ IF rest = <<>>
           THEN /\ woken' = woken \ {r}
                /\ credit' = [credit EXCEPT ![m] = 0]
                /\ ch' = drained
           ELSE Settle(m, rest, woken \ {r}, c, drained, r)

-----------------------------------------------------------------------------
(* The operations *)

Enqueue(r) ==
    LET m == ModelOf[r] IN
    /\ phase[r] = "out"
    /\ Refusal(m, TenantOf[r]) = ""
    /\ queue' = [queue EXCEPT ![m] = Append(@, r)]
    /\ tenants' = [tenants EXCEPT ![m] = CountIn(TenantOf[r], @)]
    /\ phase' = [phase EXCEPT ![r] = "waiting"]
    /\ UNCHANGED <<woken, credit, ch, closed>>

(* Mutant: the slot goes to the head even when the head is routing. *)
HandoffToAnyHead(m, slot) ==
    /\ Busy(m)
    /\ LET head == Head(queue[m]) IN
       /\ queue' = [queue EXCEPT ![m] = Tail(@)]
       /\ tenants' = [tenants EXCEPT ![m] = CountOut(TenantOf[head], @)]
       /\ credit' = IF Len(queue[m]) = 1 THEN [credit EXCEPT ![m] = 0] ELSE credit
       /\ ch' = [ch EXCEPT ![head] = slot]
       /\ woken' = woken \ {head}
    /\ UNCHANGED <<phase, closed>>

(* Mutant: a hand-off forgets to count its tenant out. *)
HandoffKeepsTenant(m, slot) ==
    /\ Busy(m)
    /\ Head(queue[m]) \notin woken
    /\ queue' = [queue EXCEPT ![m] = Tail(@)]
    /\ credit' = IF Len(queue[m]) = 1 THEN [credit EXCEPT ![m] = 0] ELSE credit
    /\ ch' = [ch EXCEPT ![Head(queue[m])] = slot]
    /\ UNCHANGED <<woken, tenants, phase, closed>>

(* Handoff returns true: the idle head leaves with the slot. *)
HandoffGiven(m, slot) ==
    /\ Busy(m)
    /\ LET head == Head(queue[m]) IN
       /\ head \notin woken
       /\ queue' = [queue EXCEPT ![m] = Tail(@)]
       /\ tenants' = [tenants EXCEPT ![m] = CountOut(TenantOf[head], @)]
       /\ credit' = IF Len(queue[m]) = 1 THEN [credit EXCEPT ![m] = 0] ELSE credit
       /\ ch' = [ch EXCEPT ![head] = slot]
    /\ UNCHANGED <<woken, phase, closed>>

(* Handoff returns false although there is a waiter: the head is routing,  *)
(* and the slot, which the caller frees, is banked as credit.              *)
HandoffDeclined(m) ==
    /\ Busy(m)
    /\ Head(queue[m]) \in woken
    /\ Settle(m, queue[m], woken, credit[m] + 1, ch, None)
    /\ UNCHANGED <<queue, tenants, phase, closed>>

Wake(m, n) ==
    LET told == FirstIdle(queue[m], woken, n) IN
    /\ woken' = woken \cup told
    /\ ch' = [r \in Requests |-> IF r \in told THEN Reroute ELSE ch[r]]
    /\ UNCHANGED <<queue, credit, tenants, phase, closed>>

(* Wait returns the Reroute in the channel; the waiter goes and routes. *)
ReceiveReroute(r) ==
    /\ phase[r] = "waiting"
    /\ ch[r] = Reroute
    /\ ch' = [ch EXCEPT ![r] = None]
    /\ phase' = [phase EXCEPT ![r] = "routing"]
    /\ UNCHANGED <<queue, woken, credit, tenants, closed>>

(* Wait returns a hand-off or Flushed, or on a timeout or a cancellation   *)
(* Leave finds a hand-off that raced in: the wait is over.                 *)
ReceiveFinal(r) ==
    /\ phase[r] = "waiting"
    /\ ch[r] \in Slots \cup {Flushed}
    /\ ch' = [ch EXCEPT ![r] = None]
    /\ phase' = [phase EXCEPT ![r] = "out"]
    /\ UNCHANGED <<queue, woken, credit, tenants, closed>>

(* Mutant: the unread wake-up of a waiter that gives up is dropped. *)
LeaveKeepsWakeup(r) ==
    /\ phase[r] \in {"waiting", "routing"}
    /\ InQueue(r)
    /\ LeaveAndSettle(r, FALSE)
    /\ phase' = [phase EXCEPT ![r] = "out"]
    /\ UNCHANGED closed

(* Wait gives up (max_wait, the client left), or the routing panicked and  *)
(* the deferred cleanup runs: Leave on a waiter still in the queue.        *)
Leave(r) ==
    /\ phase[r] \in {"waiting", "routing"}
    /\ InQueue(r)
    /\ LeaveAndSettle(r, TRUE)
    /\ phase' = [phase EXCEPT ![r] = "out"]
    /\ UNCHANGED closed

(* Leave on a waiter that had already left: what is in its channel is      *)
(* taken out, and only a hand-off is handed to the caller (ReceiveFinal).  *)
LeaveAgain(r) ==
    /\ phase[r] \in {"waiting", "routing"}
    /\ ~InQueue(r)
    /\ ch[r] \notin Slots
    /\ ch' = [ch EXCEPT ![r] = None]
    /\ phase' = [phase EXCEPT ![r] = "out"]
    /\ UNCHANGED <<queue, woken, credit, tenants, closed>>

(* The waiter's own routing took a slot.  What its channel held is lost.   *)
Done(r) ==
    /\ phase[r] = "routing"
    /\ IF InQueue(r)
       THEN LeaveAndSettle(r, FALSE)
       ELSE /\ ch' = [ch EXCEPT ![r] = None]
            /\ UNCHANGED <<queue, woken, credit, tenants>>
    /\ phase' = [phase EXCEPT ![r] = "out"]
    /\ UNCHANGED closed

(* Mutant: Park clears the wake-up but does not spend the credit. *)
ParkWithoutSettle(r) ==
    /\ phase[r] = "routing"
    /\ woken' = woken \ {r}
    /\ phase' = [phase EXCEPT ![r] = "waiting"]
    /\ UNCHANGED <<queue, credit, tenants, ch, closed>>

(* The waiter's routing took nothing: it waits again, in place, or routes  *)
(* again at once when the credit spent here falls to itself.               *)
Park(r) ==
    LET m == ModelOf[r] IN
    /\ phase[r] = "routing"
    /\ IF InQueue(r)
       THEN /\ Settle(m, queue[m], woken \ {r}, credit[m], ch, r)
            /\ phase' = IF r \in woken' THEN phase
                        ELSE [phase EXCEPT ![r] = "waiting"]
       ELSE /\ phase' = [phase EXCEPT ![r] = "waiting"]
            /\ UNCHANGED <<woken, credit, ch>>
    /\ UNCHANGED <<queue, tenants, closed>>

(* Mutant: a waiter that is routing is dropped without being told. *)
FlushIdleOnly ==
    /\ queue' = [m \in Models |-> <<>>]
    /\ credit' = [m \in Models |-> 0]
    /\ tenants' = [m \in Models |-> [t \in Tenants |-> 0]]
    /\ woken' = {}
    /\ ch' = [r \in Requests |->
                 IF InQueue(r) /\ r \notin woken THEN Flushed ELSE ch[r]]
    /\ UNCHANGED <<phase, closed>>

(* Flush(""): every waiter of every model is told the gateway drains. *)
Flush ==
    /\ queue' = [m \in Models |-> <<>>]
    /\ credit' = [m \in Models |-> 0]
    /\ tenants' = [m \in Models |-> [t \in Tenants |-> 0]]
    /\ woken' = {}
    /\ ch' = [r \in Requests |-> IF InQueue(r) THEN Flushed ELSE ch[r]]
    /\ UNCHANGED <<phase, closed>>

Close ==
    /\ closed' = TRUE
    /\ UNCHANGED <<queue, woken, credit, tenants, ch, phase>>

(* Wake-ups outstanding for a model: each is a slot somebody may go for. *)
Wakeups(m) == credit[m] + Cardinality(Range(queue[m]) \cap woken)

(* The queue under any client that keeps the protocol of awaitSlot: slots  *)
(* may be offered, and waiters woken, at any moment.  To wake more waiters *)
(* than are queued is to wake them all.                                    *)
RequestStep(r) ==
    \/ Enqueue(r)
    \/ ReceiveReroute(r)
    \/ ReceiveFinal(r)
    \/ Leave(r)
    \/ LeaveAgain(r)
    \/ Done(r)
    \/ Park(r)

ModelStep(m) ==
    \/ \E slot \in Slots : HandoffGiven(m, slot)
    \/ HandoffDeclined(m)
    \/ \E n \in 1 .. Len(queue[m]) : Wake(m, n)

Next ==
    \/ \E r \in Requests : RequestStep(r)
    \/ \E m \in Models : ModelStep(m)
    \/ Flush
    \/ Close

Spec == Init /\ [][Next]_queueVars

-----------------------------------------------------------------------------
(* Properties *)

(* Every variable holds a value of its kind; counters never go negative.   *)
TypeOK ==
    /\ queue \in [Models -> Seq(Requests)]
    /\ woken \subseteq Requests
    /\ credit \in [Models -> Nat]
    /\ tenants \in [Models -> [Tenants -> Nat]]
    /\ ch \in [Requests -> Grants]
    /\ phase \in [Requests -> {"out", "waiting", "routing"}]
    /\ closed \in BOOLEAN

(* The comment on modelQueue.credit: credit is outstanding only while the  *)
(* head of the queue is routing, so that its Park, Done or Leave will      *)
(* spend it; a freed slot is never banked behind an idle waiter.           *)
CreditOnlyBehindRoutingHead ==
    \A m \in Models : credit[m] > 0 => Busy(m) /\ Head(queue[m]) \in woken

(* Done ignores what Leave would have returned, so a hand-off must never   *)
(* sit in the channel of a waiter that is routing, nor in that of one that *)
(* is still queued (a second grant would overwrite it): a slot handed over *)
(* is always received.                                                     *)
NoSlotDropped ==
    \A r \in Requests :
        ch[r] \in Slots => phase[r] = "waiting" /\ ~InQueue(r)

(* A queued waiter is woken exactly while it routes or has a Reroute to    *)
(* read: no wake-up is forgotten by its waiter, and no idle waiter is      *)
(* passed over by Handoff and settle as if it were routing.                *)
WokenMeansWakeupOutstanding ==
    \A r \in Requests :
        InQueue(r) => (r \in woken <=> phase[r] = "routing" \/ ch[r] = Reroute)

(* A goroutine that waits is either in the queue or has its last grant in  *)
(* its channel: nobody waits for a signal that cannot come any more.       *)
NobodyForgotten ==
    \A r \in Requests :
        /\ phase[r] = "waiting" => InQueue(r) \/ ch[r] \in Slots \cup {Flushed}
        /\ InQueue(r) => phase[r] \in {"waiting", "routing"}

(* The configured limits hold whatever way waiters come and go: the number *)
(* of models with a queue, the depth of each, and the share of a tenant,   *)
(* whose counter (decremented on every way out) agrees with the queue.     *)
LimitsKept ==
    /\ MaxModels > 0 => Cardinality(QueuedModels) <= MaxModels
    /\ \A m \in Models :
        /\ Len(queue[m]) <= MaxModelDepth
        /\ \A t \in Tenants :
            /\ tenants[m][t] = Cardinality({i \in DOMAIN queue[m] :
                                               TenantOf[queue[m][i]] = t})
            /\ TenantCap > 0 => tenants[m][t] <= TenantCap

(* A wake-up is used up only by a waiter that routed.  A waiter that gives *)
(* up with its Reroute unread passes it on while anybody else is queued.   *)
WakeupsNotLost ==
    [][\A m \in Models :
          Busy(m)' /\ Wakeups(m)' < Wakeups(m)
            => \E r \in Requests : ModelOf[r] = m /\ phase[r] = "routing"]_queueVars

(* Nobody who waits is left behind: a slot handed over is received, a      *)
(* wake-up is with the waiter it was given to, and whoever waits is queued *)
(* or has its last grant to read (Handoff, Wake, Leave, Done and Park).    *)
WaitersKept == NoSlotDropped /\ WokenMeansWakeupOutstanding /\ NobodyForgotten
=============================================================================
