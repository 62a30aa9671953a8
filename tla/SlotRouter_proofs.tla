-------------------------- MODULE SlotRouter_proofs --------------------------
(***************************************************************************)
(* What the router guarantees for any number of requests, workers, models  *)
(* and slots: it uses the admission queue as the queue's own specification *)
(* allows, so that everything proved of the queue holds in the router, and *)
(* its inflight counts are exact.  The inductive invariant RInv adds to    *)
(* the queue's the agreement of a goroutine's stage with its place in the  *)
(* queue, the slots it holds and the workers it tried.                     *)
(***************************************************************************)
EXTENDS RouterStages_proofs, AdmissionQueue_proofs

RInv == IInv /\ SInv

-----------------------------------------------------------------------------
(* The router as a client of the queue *)

(* To wake n waiters is a step of the queue for every n: none for n = 0,   *)
(* all of them when n exceeds the number queued.                           *)
LEMMA WakeIsQueueStep ==
    ASSUME IInv, NEW m \in Models, NEW n \in Nat, Wake(m, n)
    PROVE  [Next]_queueVars
<1> DEFINE s == queue[m]
           told == FirstIdle(s, woken, n)
<1>1. /\ s \in Seq(Requests) /\ Injective(s) /\ Len(s) \in Nat
      /\ ch \in [Requests -> Grants]
  BY DEF IInv, TypeOK, QueueShape
<1>2. CASE n \in 1 .. Len(s)
  BY <1>2 DEF Next, ModelStep
<1>3. CASE n > Len(s) /\ Len(s) > 0
  <2>1. Cardinality(IdleAt(s, woken)) \in Nat /\ Cardinality(IdleAt(s, woken)) <= Len(s)
    <3> DEFINE idle == IdleAt(s, woken)
    <3>1. idle \in SUBSET (1 .. Len(s))
      BY <1>1 DEF IdleAt
    <3>2. IsFiniteSet(1 .. Len(s)) /\ Cardinality(1 .. Len(s)) = Len(s)
      <4> DEFINE L == Len(s)
      <4>1. L \in Nat
        BY <1>1
      <4> HIDE DEF L
      <4>2. IsFiniteSet(1 .. L) /\ Cardinality(1 .. L) = IF 1 > L THEN 0 ELSE L - 1 + 1
        BY <4>1, FS_Interval
      <4>3. IsFiniteSet(1 .. L) /\ Cardinality(1 .. L) = L
        BY <4>1, <4>2
      <4> QED
        BY <4>3, Zenon DEF L
    <3> HIDE DEF idle, s
    <3>3. IsFiniteSet(idle) /\ Cardinality(idle) <= Cardinality(1 .. Len(s))
      BY <3>1, <3>2, FS_Subset, Zenon
    <3>4. Cardinality(idle) \in Nat
      BY <3>3, FS_CardinalityType
    <3> QED
      BY <3>2, <3>3, <3>4 DEF idle
  <2>2. told = Range(s) \ woken /\ FirstIdle(s, woken, Len(s)) = Range(s) \ woken
    <3> HIDE DEF s
    <3>1. Cardinality(IdleAt(s, woken)) <= n
      BY <1>1, <1>3, <2>1
    <3> QED
      BY <1>1, <2>1, <3>1, FirstIdleProps
  <2>3. Wake(m, Len(s))
    BY <2>2, Zenon DEF Wake
  <2> QED
    BY <1>1, <1>3, <2>3 DEF Next, ModelStep
<1>4. CASE n = 0 \/ Len(s) = 0
  <2>1. told = {}
    <3>1. CASE Len(s) = 0
      <4>1. DOMAIN s = {}
        BY <1>1, <3>1
      <4> QED
        BY <4>1 DEF FirstIdle, IdleAt
    <3>2. CASE n = 0
      <4> HIDE DEF s
      <4>1. /\ Cardinality(told) = IF Cardinality(IdleAt(s, woken)) < n
                                   THEN Cardinality(IdleAt(s, woken)) ELSE n
            /\ Cardinality(IdleAt(s, woken)) \in Nat /\ told \subseteq Range(s)
        BY <1>1, FirstIdleCount, FirstIdleProps
      <4>2. Cardinality(told) = 0 /\ told \in SUBSET Requests
        BY <1>1, <3>2, <4>1 DEF Range
      <4> HIDE DEF told
      <4>3. IsFiniteSet(told)
        BY <4>2, RequestsAssumption, FS_Subset, Zenon
      <4> QED
        BY <4>2, <4>3, FS_EmptySet
    <3> QED
      BY <1>4, <3>1, <3>2
  <2>2. UNCHANGED queueVars
    BY <1>1, <2>1 DEF Wake, queueVars
  <2> QED
    BY <2>2
<1> QED
  BY <1>1, <1>2, <1>3, <1>4

LEMMA ReleaseIsQueueStep ==
    ASSUME RInv, NEW r \in Requests, NEW s \in held[r], NEW owed \in BOOLEAN,
           ReleaseSlot(s[1], s[2], owed)
    PROVE  [Next]_queueVars
<1> DEFINE m == WorkerModel[s[1]]
<1>1. /\ m \in Models /\ <<s[1], s[2]>> \in Slots
  BY HeldSlot, Zenon DEF RInv
<1>2. \/ UNCHANGED queueVars
      \/ HandoffGiven(m, <<s[1], s[2]>>)
      \/ HandoffDeclined(m)
  BY DEF ReleaseSlot
<1> QED
  BY <1>1, <1>2 DEF Next, ModelStep

LEMMA RouterIsQueueClient ==
    ASSUME RInv, [RouterNext]_vars
    PROVE  [Next]_queueVars
<1>1. ASSUME NEW r \in Requests,
             \/ Arrive(r) \/ ArriveRefused(r) \/ RerouteReadsView(r) \/ RerouteFails(r)
             \/ Retry(r) \/ RetryFails(r) \/ ClientLeaves(r)
             \/ \E w \in Workers : \/ ArriveServed(r, w) \/ RerouteReserves(r, w)
                                   \/ RetryReserves(r, w)
      PROVE  UNCHANGED queueVars
  BY <1>1, Zenon DEF Arrive, ArriveRefused, RerouteReadsView, RerouteFails, Retry, RetryFails,
              ClientLeaves, ArriveServed, RerouteReserves, RetryReserves
<1>2. ASSUME NEW r \in Requests,
             \/ ArriveQueued(r) \/ HandoffReceived(r) \/ FlushReceived(r)
             \/ RerouteReceived(r) \/ GiveUp(r) \/ ReroutePanics(r)
             \/ RerouteDone(r) \/ RerouteParks(r)
      PROVE  [Next]_queueVars
  <2>1. RequestStep(r)
    BY <1>2, Zenon DEF ArriveQueued, HandoffReceived, FlushReceived, RerouteReceived, GiveUp,
                ReroutePanics, RerouteDone, RerouteParks, RequestStep
  <2> QED
    BY <2>1 DEF Next
<1>3. ASSUME NEW r \in Requests, Finish(r) \/ Swap(r) PROVE [Next]_queueVars
  <2>1. PICK s \in held[r], owed \in BOOLEAN : ReleaseSlot(s[1], s[2], owed)
    BY <1>3 DEF Finish, Swap
  <2> QED
    BY <2>1, ReleaseIsQueueStep
<1>4. ASSUME NEW r \in Requests, PayWake(r) PROVE [Next]_queueVars
  <2>1. Wake(ModelOf[r], 1) /\ ModelOf[r] \in Models
    BY <1>4, RequestsAssumption DEF PayWake
  <2> QED
    BY <2>1, WakeIsQueueStep DEF RInv, SInv
<1>5. ASSUME NEW m \in Models, WakeCounted(m) PROVE [Next]_queueVars
  <2>1. Wake(m, refresher.n) /\ refresher.n \in Nat
    BY <1>5 DEF WakeCounted, RInv, SInv, RouterTypeOK
  <2> QED
    BY <2>1, WakeIsQueueStep DEF RInv, SInv
<1>6. CASE Refresh \/ ListQueued \/ \E m \in Models : CountFree(m)
  BY <1>6 DEF Refresh, ListQueued, CountFree
<1>7. CASE \E w \in Workers : Age(w) \/ Eject(w) \/ Readmit(w)
  BY <1>7 DEF Age, Eject, Readmit
<1>8. CASE BeginDrain \/ DrainFlush
  BY <1>8 DEF BeginDrain, DrainFlush, Next
<1>9. CASE UNCHANGED vars
  BY <1>9 DEF vars
<1> QED
  BY <1>1, <1>2, <1>3, <1>4, <1>5, <1>6, <1>7, <1>8, <1>9, Zenon
     DEF RouterNext, Proceed, WaitStep, RefreshStep

-----------------------------------------------------------------------------
(* Counting slots *)

(* No slot enters or leaves a channel. *)
SlotsStay ==
    \A r \in Requests : ch'[r] = ch[r] \/ (ch[r] \notin Slots /\ ch'[r] \notin Slots)

(* Only Handoff puts a slot into a channel, and only the end of a wait     *)
(* takes one out.                                                          *)
LEMMA SettleStays ==
    ASSUME IInv, NEW m \in Models, NEW s \in Seq(Requests), Range(s) \subseteq Range(queue[m]),
           NEW wk, NEW c \in Nat, NEW chans \in [Requests -> Grants], NEW self,
           Settle(m, s, wk, c, chans, self),
           \A q \in Requests : chans[q] = ch[q] \/ (ch[q] \notin Slots /\ chans[q] \notin Slots)
    PROVE  SlotsStay
<1> DEFINE told == FirstIdle(s, wk, c)
<1>1. told \subseteq Range(queue[m])
  BY FirstIdleProps
<1>2. ch' = [r \in Requests |-> IF r \in told /\ r # self THEN Reroute ELSE chans[r]]
  BY DEF Settle
<1> HIDE DEF told
<1>3. \A r \in told : r \in Requests /\ InQueue(r)
  BY <1>1, QueuedHere, Zenon
<1>4. \A r \in told : ch[r] \notin Slots
  BY <1>3, SlotsAssumption, Zenon DEF IInv, WaiterState
<1> QED
  BY <1>2, <1>4, SlotsAssumption, Zenon DEF SlotsStay

LEMMA LeaveStays ==
    ASSUME IInv, NEW r \in Requests, InQueue(r), NEW b \in BOOLEAN, LeaveAndSettle(r, b)
    PROVE  SlotsStay
<1> DEFINE m == ModelOf[r]
           rest == Without(queue[m], r)
           c == credit[m] + (IF b /\ r \in woken THEN 1 ELSE 0)
           drained == [ch EXCEPT ![r] = None]
<1>1. /\ m \in Models /\ queue[m] \in Seq(Requests) /\ Injective(queue[m]) /\ c \in Nat
      /\ r \in Range(queue[m]) /\ ch \in [Requests -> Grants]
  BY RequestsAssumption DEF IInv, TypeOK, QueueShape, InQueue
<1>2. rest \in Seq(Requests) /\ Range(rest) \subseteq Range(queue[m])
  BY <1>1, WithoutProps, Zenon
<1>3. ch[r] \notin Slots
  BY SlotsAssumption DEF IInv, WaiterState
<1>4. /\ drained \in [Requests -> Grants]
      /\ \A q \in Requests : drained[q] = ch[q] \/ (ch[q] \notin Slots /\ drained[q] \notin Slots)
  BY <1>1, <1>3, SlotsAssumption, Zenon DEF Grants
<1>5. ch' = drained \/ Settle(m, rest, woken \ {r}, c, drained, r)
  BY Zenon DEF LeaveAndSettle
<1>6. CASE ch' = drained
  BY <1>4, <1>6, Zenon DEF SlotsStay
<1>7. CASE Settle(m, rest, woken \ {r}, c, drained, r)
  <2> HIDE DEF m, rest, c, drained
  <2> QED
    BY <1>1, <1>2, <1>4, <1>7, SettleStays, Zenon
<1> QED
  BY <1>5, <1>6, <1>7, Zenon

LEMMA QueueStays ==
    ASSUME IInv
    PROVE  /\ \A r \in Requests :
                (\/ Enqueue(r) \/ ReceiveReroute(r) \/ Leave(r) \/ LeaveAgain(r)
                 \/ Done(r) \/ Park(r) \/ (ReceiveFinal(r) /\ ch[r] \notin Slots))
                => SlotsStay
           /\ \A m \in Models, n \in Nat : HandoffDeclined(m) \/ Wake(m, n) => SlotsStay
           /\ Flush \/ Close \/ UNCHANGED queueVars => SlotsStay
<1>1. /\ ch \in [Requests -> Grants] /\ credit \in [Models -> Nat]
      /\ \A m \in Models : queue[m] \in Seq(Requests)
  BY DEF IInv, TypeOK
<1>2. \A r \in Requests : InQueue(r) => ch[r] \notin Slots
  BY SlotsAssumption DEF IInv, WaiterState
<1>3. ASSUME NEW r \in Requests,
             ReceiveReroute(r) \/ LeaveAgain(r) \/ (ReceiveFinal(r) /\ ch[r] \notin Slots)
      PROVE  SlotsStay
  <2>1. ch[r] \notin Slots /\ ch' = [ch EXCEPT ![r] = None]
    BY <1>3, SlotsAssumption, Zenon DEF ReceiveReroute, LeaveAgain, ReceiveFinal
  <2> QED
    BY <1>1, <2>1, SlotsAssumption DEF SlotsStay
<1>4. ASSUME NEW r \in Requests, Enqueue(r) PROVE SlotsStay
  BY <1>4, Zenon DEF Enqueue, SlotsStay
<1>5. ASSUME NEW r \in Requests, Leave(r) PROVE SlotsStay
  BY <1>5, LeaveStays, Zenon DEF Leave
<1>6. ASSUME NEW r \in Requests, Done(r) PROVE SlotsStay
  <2>1. CASE InQueue(r)
    BY <1>6, <2>1, LeaveStays, Zenon DEF Done
  <2>2. CASE ~InQueue(r)
    <3>1. ch[r] = Flushed /\ ch' = [ch EXCEPT ![r] = None]
      BY <1>6, <2>2, Zenon DEF Done, IInv, WaiterState
    <3> QED
      BY <1>1, <3>1, SlotsAssumption, Zenon DEF SlotsStay
  <2> QED
    BY <2>1, <2>2
<1>7. ASSUME NEW r \in Requests, Park(r) PROVE SlotsStay
  <2> DEFINE m == ModelOf[r]
             s == queue[m]
  <2>1. m \in Models /\ credit[m] \in Nat
    BY <1>1, RequestsAssumption, Zenon
  <2>2. s \in Seq(Requests) /\ Range(s) \subseteq Range(queue[m])
    BY <1>1, <2>1, Zenon
  <2>3. Settle(m, s, woken \ {r}, credit[m], ch, r) \/ ch' = ch
    BY <1>7, Zenon DEF Park
  <2> HIDE DEF m, s
  <2>4. CASE Settle(m, s, woken \ {r}, credit[m], ch, r)
    BY <1>1, <2>1, <2>2, <2>4, SettleStays, Zenon
  <2> QED
    BY <2>3, <2>4 DEF SlotsStay
<1>8. ASSUME NEW m \in Models, HandoffDeclined(m) PROVE SlotsStay
  <2>1. Settle(m, queue[m], woken, credit[m] + 1, ch, None) /\ credit[m] + 1 \in Nat
    BY <1>1, <1>8 DEF HandoffDeclined
  <2> QED
    BY <1>1, <2>1, SettleStays, Zenon
<1>9. ASSUME NEW m \in Models, NEW n \in Nat, Wake(m, n) PROVE SlotsStay
  <2> DEFINE told == FirstIdle(queue[m], woken, n)
  <2>1. told \subseteq Range(queue[m])
    BY <1>1, FirstIdleProps, Zenon
  <2>2. ch' = [r \in Requests |-> IF r \in told THEN Reroute ELSE ch[r]]
    BY <1>9, Zenon DEF Wake
  <2> HIDE DEF told
  <2>3. \A r \in told : r \in Requests /\ InQueue(r)
    BY <2>1, QueuedHere, Zenon
  <2> QED
    BY <1>2, <2>2, <2>3, SlotsAssumption, Zenon DEF SlotsStay
<1>10. Flush => SlotsStay
  BY <1>2, SlotsAssumption, Zenon DEF Flush, SlotsStay
<1>11. Close \/ UNCHANGED queueVars => SlotsStay
  BY DEF Close, queueVars, SlotsStay
<1> QED
  BY <1>3, <1>4, <1>5, <1>6, <1>7, <1>8, <1>9, <1>10, <1>11

LEMMA PromisesStay ==
    ASSUME SlotsStay, NEW w
    PROVE  Promised(w)' = Promised(w)
BY DEF SlotsStay, Promised

LEMMA NothingCounted ==
    ASSUME RInv, UNCHANGED <<inflight, held>>, SlotsStay
    PROVE  SlotsAccounted' /\ NoOverCommit'
<1>1. \A w \in Workers : Holders(w)' = Holders(w) /\ Promised(w)' = Promised(w)
  BY PromisesStay DEF Holders
<1> QED
  BY <1>1 DEF RInv, SInv, SlotsAccounted, NoOverCommit

(* reserve: one more holder, one more in flight. *)
LEMMA ReserveCounted ==
    ASSUME RInv, NEW r \in Requests, NEW w \in Workers, Reserve(r, w), UNCHANGED ch,
           \A s \in held[r] : s[1] \in tried[r]
    PROVE  SlotsAccounted' /\ NoOverCommit'
<1> DEFINE slot == <<w, seen[r][w].gen>>
<1>1. /\ inflight \in [Workers -> Nat] /\ held \in [Requests -> SUBSET Slots]
      /\ SlotsAccounted /\ NoOverCommit
  BY DEF RInv, SInv, RouterTypeOK
<1>2. /\ w \notin tried[r] /\ inflight[w] < Capacity /\ slot[1] = w
      /\ inflight' = [inflight EXCEPT ![w] = @ + 1]
      /\ held' = [held EXCEPT ![r] = @ \cup {slot}]
  BY ReserveProps, Zenon DEF RInv
<1> HIDE DEF slot
<1>3. \A v : Promised(v)' = Promised(v)
  BY Zenon DEF Promised
<1>4. Holders(w)' = Holders(w) \cup {r} /\ r \notin Holders(w)
  BY <1>1, <1>2, Zenon DEF Holders
<1>5. \A v \in Workers : v # w => Holders(v)' = Holders(v)
  BY <1>1, <1>2 DEF Holders
<1>6. Cardinality(Holders(w)') = Cardinality(Holders(w)) + 1
  <2> DEFINE H == Holders(w)
             K == Holders(w)'
  <2>1. IsFiniteSet(H) /\ r \notin H /\ K = H \cup {r}
    BY <1>4, CountsType, Zenon
  <2> HIDE DEF H, K
  <2>2. Cardinality(K) = Cardinality(H) + 1
    BY <2>1, FS_AddElement, Zenon
  <2> QED
    BY <2>2 DEF H, K
<1>7. SlotsAccounted'
  <2> SUFFICES ASSUME NEW v \in Workers
               PROVE  inflight'[v] = Cardinality(Holders(v)') + Cardinality(Promised(v)')
    BY DEF SlotsAccounted
  <2>1. inflight[v] = Cardinality(Holders(v)) + Cardinality(Promised(v))
    BY <1>1 DEF SlotsAccounted
  <2>2. Cardinality(Holders(v)) \in Nat /\ Cardinality(Promised(v)) \in Nat
    BY CountsType
  <2>3. CASE v = w
    BY <1>1, <1>2, <1>3, <1>6, <2>1, <2>2, <2>3
  <2>4. CASE v # w
    BY <1>1, <1>2, <1>3, <1>5, <2>1, <2>4, Zenon
  <2> QED
    BY <2>3, <2>4, Zenon
<1>8. NoOverCommit'
  BY <1>1, <1>2, RouterAssumption DEF NoOverCommit
<1> QED
  BY <1>7, <1>8

(* releaseSlot: the holder is gone, and either the slot is free or the     *)
(* head waiter is promised it.                                             *)
LEMMA ReleaseCounted ==
    ASSUME RInv, NEW r \in Requests, NEW s \in held[r], NEW owed \in BOOLEAN,
           ReleaseSlot(s[1], s[2], owed), held' = [held EXCEPT ![r] = @ \ {s}],
           \A x \in held[r] : x[1] = s[1] => x = s
    PROVE  SlotsAccounted' /\ NoOverCommit'
<1> DEFINE w == s[1]
           m == WorkerModel[w]
<1>1. /\ inflight \in [Workers -> Nat] /\ held \in [Requests -> SUBSET Slots]
      /\ ch \in [Requests -> Grants] /\ SlotsAccounted /\ NoOverCommit /\ IInv
  BY Zenon DEF RInv, SInv, RouterTypeOK, TypeOK
<1>2. /\ w \in Workers /\ m \in Models /\ s = <<s[1], s[2]>> /\ s \in Slots
      /\ inflight[w] - 1 \in Nat /\ r \in Holders(w)
  BY HeldSlot, HeldIsCounted, Zenon DEF RInv
<1>3. Holders(w)' = Holders(w) \ {r}
  BY <1>1, <1>2, Zenon DEF Holders
<1>4. \A v \in Workers : v # w => Holders(v)' = Holders(v)
  BY <1>1, <1>2 DEF Holders
<1>5. Cardinality(Holders(w)') = Cardinality(Holders(w)) - 1
  <2> DEFINE H == Holders(w)
             K == Holders(w)'
  <2>1. IsFiniteSet(H) /\ r \in H /\ K = H \ {r}
    BY <1>2, <1>3, CountsType, Zenon
  <2> HIDE DEF H, K
  <2>2. Cardinality(K) = Cardinality(H) - 1
    BY <2>1, FS_RemoveElement, Zenon
  <2> QED
    BY <2>2 DEF H, K
<1>6. \A v \in Workers : /\ inflight[v] = Cardinality(Holders(v)) + Cardinality(Promised(v))
                         /\ Cardinality(Holders(v)) \in Nat /\ Cardinality(Promised(v)) \in Nat
                         /\ inflight[v] <= Capacity
  BY <1>1, CountsType DEF SlotsAccounted, NoOverCommit
<1>7. CASE SlotsStay /\ inflight' = [inflight EXCEPT ![w] = @ - 1]
  <2>1. \A v \in Workers : Promised(v)' = Promised(v)
    BY <1>7, PromisesStay, Zenon
  <2> HIDE DEF w
  <2>2. \A v \in Workers : /\ inflight'[v] = Cardinality(Holders(v)') + Cardinality(Promised(v)')
                           /\ inflight'[v] <= Capacity
    <3> SUFFICES ASSUME NEW v \in Workers
                 PROVE  /\ inflight'[v] = Cardinality(Holders(v)') + Cardinality(Promised(v)')
                        /\ inflight'[v] <= Capacity
      OBVIOUS
    <3>1. CASE v = w
      <4>1. inflight'[w] = inflight[w] - 1
        BY <1>1, <1>2, <1>7, Zenon
      <4>2. /\ inflight[w] = Cardinality(Holders(w)) + Cardinality(Promised(w))
            /\ Cardinality(Holders(w)) \in Nat /\ Cardinality(Promised(w)) \in Nat
            /\ inflight[w] <= Capacity
        BY <1>2, <1>6, Zenon
      <4>3. Cardinality(Promised(w)') = Cardinality(Promised(w))
        BY <1>2, <2>1, Zenon
      <4>4. /\ inflight'[w] = Cardinality(Holders(w)') + Cardinality(Promised(w)')
            /\ inflight'[w] <= Capacity
        BY <1>5, <4>1, <4>2, <4>3, RouterAssumption
      <4> QED
        BY <3>1, <4>4, Zenon
    <3>2. CASE v # w
      BY <1>1, <1>2, <1>4, <1>6, <1>7, <2>1, <3>2, Zenon
    <3> QED
      BY <3>1, <3>2, Zenon
  <2> QED
    BY <2>2, Zenon DEF SlotsAccounted, NoOverCommit
<1>8. CASE HandoffGiven(m, s) /\ UNCHANGED inflight
  <2> DEFINE head == Head(queue[m])
  <2>1. queue[m] \in Seq(Requests) /\ Injective(queue[m]) /\ queue[m] # <<>>
    BY <1>1, <1>2, <1>8, Zenon DEF IInv, TypeOK, QueueShape, HandoffGiven, Busy
  <2>2. head \in Range(queue[m])
    BY <2>1, TailProps, Zenon
  <2>3. head \in Requests /\ ch[head] \notin Slots
    <3>1. head \in Requests /\ InQueue(head)
      BY <1>1, <1>2, <2>2, QueuedHere, Zenon
    <3> QED
      BY <1>1, <3>1, SlotsAssumption, Zenon DEF IInv, WaiterState
  <2>4. ch' = [ch EXCEPT ![head] = s]
    BY <1>8, Zenon DEF HandoffGiven
  <2> HIDE DEF head
  <2>5. Promised(w)' = Promised(w) \cup {head} /\ head \notin Promised(w)
    BY <1>1, <1>2, <2>3, <2>4, Zenon DEF Promised
  <2>6. \A v \in Workers : v # w => Promised(v)' = Promised(v)
    BY <1>1, <1>2, <2>3, <2>4, Zenon DEF Promised
  <2>7. Cardinality(Promised(w)') = Cardinality(Promised(w)) + 1
    <3> DEFINE P == Promised(w)
               Q == Promised(w)'
    <3>1. IsFiniteSet(P) /\ head \notin P /\ Q = P \cup {head}
      BY <2>5, CountsType, Zenon
    <3> HIDE DEF P, Q
    <3>2. Cardinality(Q) = Cardinality(P) + 1
      BY <3>1, FS_AddElement, Zenon
    <3> QED
      BY <3>2 DEF P, Q
  <2> HIDE DEF w
  <2>8. \A v \in Workers : /\ inflight'[v] = Cardinality(Holders(v)') + Cardinality(Promised(v)')
                           /\ inflight'[v] <= Capacity
    <3> SUFFICES ASSUME NEW v \in Workers
                 PROVE  /\ inflight'[v] = Cardinality(Holders(v)') + Cardinality(Promised(v)')
                        /\ inflight'[v] <= Capacity
      OBVIOUS
    <3>1. CASE v = w
      BY <1>1, <1>2, <1>5, <1>6, <1>8, <2>7, <3>1
    <3>2. CASE v # w
      BY <1>4, <1>6, <1>8, <2>6, <3>2, Zenon
    <3> QED
      BY <3>1, <3>2, Zenon
  <2> QED
    BY <2>8 DEF SlotsAccounted, NoOverCommit
<1>9. \/ SlotsStay /\ inflight' = [inflight EXCEPT ![w] = @ - 1]
      \/ HandoffGiven(m, s) /\ UNCHANGED inflight
  BY <1>1, <1>2, QueueStays, Zenon DEF ReleaseSlot
<1> QED
  BY <1>7, <1>8, <1>9, Zenon

(* The waiter takes the slot it was handed out of its channel. *)
LEMMA HandoffCounted ==
    ASSUME RInv, NEW r \in Requests, HandoffReceived(r)
    PROVE  SlotsAccounted' /\ NoOverCommit'
<1> PICK s \in Slots : s = ch[r]
  BY Zenon DEF HandoffReceived
<1> DEFINE w == s[1]
<1>1. /\ held \in [Requests -> SUBSET Slots] /\ ch \in [Requests -> Grants]
      /\ Agrees(stage[r], phase[r], held[r], tried[r]) /\ SlotsAccounted /\ NoOverCommit
  BY Zenon DEF RInv, SInv, RouterTypeOK, TypeOK, StagesAgree
<1>2. /\ stage[r] = "queued" /\ s \in Slots /\ ch' = [ch EXCEPT ![r] = None]
      /\ held' = [held EXCEPT ![r] = {s}] /\ UNCHANGED inflight
  BY Zenon DEF HandoffReceived, At, ReceiveFinal
<1>3. held[r] = {} /\ w \in Workers /\ None \notin Slots
  BY <1>1, <1>2, RouterAssumption, SlotsAssumption, Zenon DEF Agrees
<1>4. /\ Holders(w)' = Holders(w) \cup {r} /\ r \notin Holders(w)
      /\ \A v \in Workers : v # w => Holders(v)' = Holders(v)
  BY <1>1, <1>2, <1>3, Zenon DEF Holders
<1>5. /\ Promised(w)' = Promised(w) \ {r} /\ r \in Promised(w)
      /\ \A v \in Workers : v # w => Promised(v)' = Promised(v)
  BY <1>1, <1>2, <1>3, Zenon DEF Promised
<1>6. /\ Cardinality(Holders(w)') = Cardinality(Holders(w)) + 1
      /\ Cardinality(Promised(w)') = Cardinality(Promised(w)) - 1
  <2> DEFINE H == Holders(w)
             K == Holders(w)'
             P == Promised(w)
             Q == Promised(w)'
  <2>1. /\ IsFiniteSet(H) /\ r \notin H /\ K = H \cup {r}
        /\ IsFiniteSet(P) /\ r \in P /\ Q = P \ {r}
    BY <1>4, <1>5, CountsType, Zenon
  <2> HIDE DEF H, K, P, Q
  <2>2. Cardinality(K) = Cardinality(H) + 1 /\ Cardinality(Q) = Cardinality(P) - 1
    BY <2>1, FS_AddElement, FS_RemoveElement, Zenon
  <2> QED
    BY <2>2, Zenon DEF H, K, P, Q
<1>7. SlotsAccounted'
  <2> HIDE DEF w
  <2> SUFFICES ASSUME NEW v \in Workers
               PROVE  inflight'[v] = Cardinality(Holders(v)') + Cardinality(Promised(v)')
    BY Zenon DEF SlotsAccounted
  <2>1. /\ inflight[v] = Cardinality(Holders(v)) + Cardinality(Promised(v))
        /\ Cardinality(Holders(v)) \in Nat /\ Cardinality(Promised(v)) \in Nat
    BY <1>1, CountsType, Zenon DEF SlotsAccounted
  <2>2. CASE v = w
    BY <1>2, <1>6, <2>1, <2>2
  <2>3. CASE v # w
    BY <1>2, <1>4, <1>5, <2>1, <2>3, Zenon
  <2> QED
    BY <2>2, <2>3, Zenon
<1>8. NoOverCommit'
  BY <1>1, <1>2, Zenon DEF NoOverCommit
<1> QED
  BY <1>7, <1>8

LEMMA RequestSlots ==
    ASSUME RInv, NEW r \in Requests,
           \/ Arrive(r) \/ Proceed(r) \/ Finish(r) \/ Retry(r)
           \/ GiveUp(r) \/ ReroutePanics(r) \/ ClientLeaves(r)
    PROVE  SlotsAccounted' /\ NoOverCommit'
<1>1. IInv /\ Agrees(stage[r], phase[r], held[r], tried[r])
  BY Zenon DEF RInv, SInv, StagesAgree
<1>2. CASE \/ Arrive(r) \/ ArriveRefused(r) \/ RerouteReadsView(r) \/ RerouteFails(r)
           \/ Retry(r) \/ RetryFails(r) \/ ClientLeaves(r)
  <2>1. UNCHANGED <<queueVars, inflight, held>>
    BY <1>2, Zenon DEF Arrive, ArriveRefused, RerouteReadsView, RerouteFails, Retry, RetryFails,
                ClientLeaves
  <2>2. SlotsStay
    BY <2>1, Zenon DEF SlotsStay, queueVars
  <2> QED
    BY <2>1, <2>2, NothingCounted
<1>3. CASE \/ ArriveQueued(r) \/ FlushReceived(r) \/ RerouteReceived(r)
           \/ RerouteDone(r) \/ RerouteParks(r) \/ GiveUp(r) \/ ReroutePanics(r)
  <2>1. UNCHANGED <<inflight, held>>
    BY <1>3, Zenon DEF ArriveQueued, FlushReceived, RerouteReceived, RerouteDone, RerouteParks,
                GiveUp, ReroutePanics, routerVars
  <2>2. \/ Enqueue(r) \/ ReceiveReroute(r) \/ Leave(r) \/ LeaveAgain(r)
        \/ Done(r) \/ Park(r) \/ (ReceiveFinal(r) /\ ch[r] \notin Slots)
    BY <1>3, SlotsAssumption, Zenon
       DEF ArriveQueued, FlushReceived, RerouteReceived, RerouteDone, RerouteParks,
           GiveUp, ReroutePanics
  <2>3. SlotsStay
    BY <1>1, <2>2, QueueStays, Zenon
  <2> QED
    BY <2>1, <2>3, NothingCounted, Zenon
<1>4. ASSUME NEW w \in Workers,
             ArriveServed(r, w) \/ RerouteReserves(r, w) \/ RetryReserves(r, w)
      PROVE  SlotsAccounted' /\ NoOverCommit'
  <2>1. /\ Reserve(r, w) /\ UNCHANGED ch
        /\ stage[r] \in {"arriving", "rerouting", "retrying"}
    BY <1>4, Zenon DEF ArriveServed, RerouteReserves, RetryReserves, At, queueVars
  <2>2. \A s \in held[r] : s[1] \in tried[r]
    BY <1>1, <2>1, Zenon DEF Agrees
  <2> QED
    BY <2>1, <2>2, ReserveCounted, Zenon
<1>5. CASE HandoffReceived(r)
  BY <1>5, HandoffCounted
<1>6. CASE Finish(r)
  <2>1. PICK s \in held[r], owed \in BOOLEAN :
          /\ stage[r] \in {"running", "ending"} /\ ReleaseSlot(s[1], s[2], owed)
          /\ held' = [held EXCEPT ![r] = {}]
    BY <1>6, Zenon DEF Finish, At
  <2>2. held[r] = {s}
    BY <1>1, <2>1, Zenon DEF Agrees
  <2>3. held' = [held EXCEPT ![r] = @ \ {s}] /\ \A x \in held[r] : x[1] = s[1] => x = s
    BY <2>1, <2>2, Zenon DEF RInv, SInv, RouterTypeOK
  <2>4. s \in held[r] /\ owed \in BOOLEAN /\ ReleaseSlot(s[1], s[2], owed)
    BY <2>1, Zenon
  <2> QED
    BY <2>3, <2>4, ReleaseCounted, Zenon
<1>7. CASE Swap(r)
  <2>1. PICK s \in held[r], owed \in BOOLEAN :
          /\ stage[r] = "swapping" /\ s[1] \in tried[r] /\ ReleaseSlot(s[1], s[2], owed)
          /\ held' = [held EXCEPT ![r] = @ \ {s}]
    BY <1>7, Zenon DEF Swap, At
  <2>2. \A x \in held[r] : x[1] = s[1] => x = s
    BY <1>1, <2>1, Zenon DEF Agrees
  <2>3. /\ s \in held[r] /\ owed \in BOOLEAN /\ ReleaseSlot(s[1], s[2], owed)
        /\ held' = [held EXCEPT ![r] = @ \ {s}]
    BY <2>1, Zenon
  <2> QED
    BY <2>2, <2>3, ReleaseCounted, Zenon
<1>8. CASE PayWake(r)
  <2>1. UNCHANGED <<inflight, held>> /\ Wake(ModelOf[r], 1) /\ ModelOf[r] \in Models
    BY <1>8, RequestsAssumption, Zenon DEF PayWake
  <2>2. SlotsStay
    BY <1>1, <2>1, QueueStays, Zenon
  <2> QED
    BY <2>1, <2>2, NothingCounted
<1> QED
  BY <1>2, <1>3, <1>4, <1>5, <1>6, <1>7, <1>8, Zenon DEF Proceed, WaitStep

LEMMA OtherSlots ==
    ASSUME RInv,
           \/ RefreshStep
           \/ \E w \in Workers : Age(w) \/ Eject(w) \/ Readmit(w)
           \/ BeginDrain \/ DrainFlush \/ UNCHANGED vars
    PROVE  SlotsAccounted' /\ NoOverCommit'
<1>1. IInv /\ refresher.n \in Nat
  BY DEF RInv, SInv, RouterTypeOK
<1>2. UNCHANGED <<inflight, held>>
  BY Zenon DEF RefreshStep, Refresh, ListQueued, CountFree, WakeCounted, Age, Eject, Readmit,
         BeginDrain, DrainFlush, vars, routerVars
<1>3. \/ UNCHANGED queueVars \/ Close \/ Flush
      \/ \E m \in Models : Wake(m, refresher.n)
  BY Zenon DEF RefreshStep, Refresh, ListQueued, CountFree, WakeCounted, Age, Eject, Readmit,
         BeginDrain, DrainFlush, vars
<1>4. SlotsStay
  BY <1>1, <1>3, QueueStays
<1> QED
  BY <1>2, <1>4, NothingCounted, Zenon

-----------------------------------------------------------------------------
(* The theorems *)

LEMMA RouterInitRInv == RouterInit => RInv
<1> SUFFICES ASSUME RouterInit PROVE RInv
  OBVIOUS
<1>1. IInv
  BY InitIInv, Zenon DEF RouterInit
<1>2. InitialView \in Views
  <2>1. 0 \in 0 .. Capacity /\ 0 \in Gens
    BY RouterAssumption
  <2> QED
    BY <2>1 DEF InitialView, Views
<1>3. RouterTypeOK
  BY <1>1, <1>2, RouterAssumption DEF RouterInit, RouterTypeOK, IInv, Stages
<1>4. StagesAgree
  BY Zenon DEF RouterInit, Init, StagesAgree, Agrees
<1>5. \A w \in Workers : Holders(w) = {} /\ Promised(w) = {}
  BY SlotsAssumption, Zenon DEF RouterInit, Init, Holders, Promised
<1>6. \A w \in Workers : /\ Cardinality(Holders(w)) = 0 /\ Cardinality(Promised(w)) = 0
                         /\ inflight[w] = 0
  BY <1>5, FS_EmptySet, Zenon DEF RouterInit
<1>7. SlotsAccounted /\ NoOverCommit
  BY <1>6, RouterAssumption DEF SlotsAccounted, NoOverCommit
<1> QED
  BY <1>1, <1>3, <1>4, <1>7 DEF RInv, SInv

LEMMA RouterNextKeeps == RInv /\ [RouterNext]_vars => RInv'
<1> SUFFICES ASSUME RInv, [RouterNext]_vars PROVE RInv'
  BY Zenon
<1>1. IInv' /\ TypeOK'
  BY RouterIsQueueClient, NextKeeps, Zenon DEF RInv, SInv, IInv
<1>2. ASSUME NEW r \in Requests,
             \/ Arrive(r) \/ Proceed(r) \/ Finish(r) \/ Retry(r)
             \/ GiveUp(r) \/ ReroutePanics(r) \/ ClientLeaves(r)
      PROVE  RInv'
  <2>1. RouterTypeOK'
    BY <1>1, <1>2, RequestType, Zenon DEF RInv
  <2>2. StagesAgree'
    BY <1>2, RequestStages, Zenon DEF RInv
  <2>3. SlotsAccounted' /\ NoOverCommit'
    BY <1>2, RequestSlots, Zenon
  <2> QED
    BY <1>1, <2>1, <2>2, <2>3 DEF RInv, SInv
<1>3. ASSUME \/ RefreshStep
             \/ \E w \in Workers : Age(w) \/ Eject(w) \/ Readmit(w)
             \/ BeginDrain \/ DrainFlush \/ UNCHANGED vars
      PROVE  RInv'
  <2>1. RouterTypeOK'
    BY <1>1, <1>3, OtherType DEF RInv
  <2>2. StagesAgree'
    BY <1>3, OtherStages, Zenon DEF RInv
  <2>3. SlotsAccounted' /\ NoOverCommit'
    BY <1>3, OtherSlots, Zenon
  <2> QED
    BY <1>1, <2>1, <2>2, <2>3, Zenon DEF RInv, SInv
<1> QED
  BY <1>2, <1>3, Zenon DEF RouterNext

(* The router's invariant, for any fleet, number of requests and settings. *)
THEOREM RouterInvariant == RouterSpec => []RInv
<1> QED
  BY RouterInitRInv, RouterNextKeeps, PTL DEF RouterSpec

(* The router, its wait loop, its refresher and its drain use the queue    *)
(* only as the queue's specification allows: route, RouteOrWait, awaitSlot,*)
(* releaseSlot, wakeQueued and beginDrain implement AdmissionQueue.        *)
THEOREM RouterKeepsQueueProtocol == RouterSpec => QueueProtocolKept
<1>1. RouterInit => Init
  BY Zenon DEF RouterInit
<1>2. RInv /\ [RouterNext]_vars => [Next]_queueVars
  BY RouterIsQueueClient
<1> QED
  BY <1>1, <1>2, RouterInvariant, PTL DEF RouterSpec, QueueProtocolKept, Spec

(* inflight is exact, no worker is over-committed and no waiter keeps a    *)
(* worker busy, whatever happens between route's read of the view and      *)
(* reserve, and through hand-offs, swaps, give-ups and panics.             *)
THEOREM SlotsAreSafe == RouterSpec => []SlotsSafe
<1>1. RInv => WaitersHoldNothing
  <2> SUFFICES ASSUME RInv, NEW r \in Requests, InQueue(r)
               PROVE  /\ stage[r] \in {"queued", "rerouting", "took", "failed"}
                      /\ held[r] # {} => stage[r] = "took"
    BY Zenon DEF WaitersHoldNothing
  <2>1. phase[r] \in {"waiting", "routing"}
    BY Zenon DEF RInv, SInv, IInv, WaiterState
  <2>2. stage[r] \in Stages /\ Agrees(stage[r], phase[r], held[r], tried[r])
    BY Zenon DEF RInv, SInv, RouterTypeOK, StagesAgree
  <2> QED
    BY <2>1, <2>2, Zenon DEF Agrees, Stages
<1>2. RInv => SlotsSafe
  BY <1>1 DEF RInv, SInv, SlotsSafe
<1> QED
  BY <1>2, RouterInvariant, PTL

(* Strict queueing: the routing of an arrival (RouteOrWait) takes a slot   *)
(* only when nobody waits for its model.                                   *)
THEOREM NobodyJumpsTheQueue == RouterSpec => NoQueueJump
<1> DEFINE Fair == \A r \in Requests :
                      stage[r] = "arriving" /\ held[r]' # {} => ~Busy(ModelOf[r])
<1>1. RInv /\ [RouterNext]_vars => [Fair]_vars
  <2> SUFFICES ASSUME RInv, RouterNext, NEW r \in Requests, stage[r] = "arriving", held'[r] # {}
               PROVE  ~Busy(ModelOf[r])
    OBVIOUS
  <2>1. held \in [Requests -> SUBSET Slots] /\ held[r] = {}
    BY Zenon DEF RInv, SInv, RouterTypeOK, StagesAgree, Agrees
  <2>2. ASSUME NEW q \in Requests,
               \/ Arrive(q) \/ Proceed(q) \/ Finish(q) \/ Retry(q)
               \/ GiveUp(q) \/ ReroutePanics(q) \/ ClientLeaves(q)
        PROVE  q = r /\ \E w \in Workers : ArriveServed(q, w)
    <3>1. held' # held
      BY <2>1
    <3>2. \/ \E w \in Workers : ArriveServed(q, w)
          \/ /\ stage[q] # "arriving"
             /\ \E h : held' = [held EXCEPT ![q] = h]
      BY <2>2, <3>1, Zenon
         DEF Arrive, Proceed, WaitStep, ArriveQueued, ArriveRefused, HandoffReceived,
             FlushReceived, RerouteReceived, RerouteReadsView, RerouteReserves, RerouteFails,
             RerouteDone, RerouteParks, GiveUp, ReroutePanics, Finish, Retry, RetryReserves,
             RetryFails, Swap, PayWake, ClientLeaves, Reserve, At, routerVars
    <3>3. \A w \in Workers : ArriveServed(q, w) => \E h : held' = [held EXCEPT ![q] = h]
      BY Zenon DEF ArriveServed, Reserve
    <3> QED
      BY <2>1, <3>2, <3>3, Zenon
  <2>3. UNCHANGED held
          \/ \E q \in Requests :
                \/ Arrive(q) \/ Proceed(q) \/ Finish(q) \/ Retry(q)
                \/ GiveUp(q) \/ ReroutePanics(q) \/ ClientLeaves(q)
    BY Zenon DEF RouterNext, RefreshStep, Refresh, ListQueued, CountFree, WakeCounted, Age, Eject,
           Readmit, BeginDrain, DrainFlush, routerVars
  <2>4. PICK w \in Workers : ArriveServed(r, w)
    BY <2>1, <2>2, <2>3
  <2>5. ~MustJoin(r) /\ Offered(r) # {}
    BY <2>4, ReserveProps, Zenon DEF ArriveServed, RInv
  <2> QED
    BY <2>5, Zenon DEF MustJoin
<1> QED
  BY <1>1, RouterInvariant, PTL DEF RouterSpec, NoQueueJump

(* Hence everything proved of the queue holds in the router: nobody who    *)
(* waits is left behind, the limits hold and no wake-up is lost.           *)
THEOREM RouterKeepsWaiters == RouterSpec => []WaitersKept /\ []LimitsKept /\ WakeupsNotLost
<1> QED
  BY RouterKeepsQueueProtocol, WaitersAreKept, LimitsAreKept, WakeupsAreNotLost, PTL
     DEF QueueProtocolKept
=============================================================================
