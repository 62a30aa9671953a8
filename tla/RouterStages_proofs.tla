-------------------------- MODULE RouterStages_proofs ------------------------
(***************************************************************************)
(* The part of the router's invariant that needs nothing of the queue but  *)
(* its type: every step keeps the types, and the agreement of a            *)
(* goroutine's stage with its place in the wait loop, the slots it holds   *)
(* and the workers it tried.  SlotRouter_proofs goes on from here.         *)
(***************************************************************************)
EXTENDS SlotRouter, FiniteSetTheorems, TLAPS

(* Where a goroutine is (st), what it is to the queue (ph), the slots it   *)
(* holds (h) and the workers it was sent to before (t).  That the two      *)
(* slots of a swap are on different workers is what the counting needs.    *)
Agrees(st, ph, h, t) ==
    /\ st = "queued" => ph \in {"waiting", "routing"}
    /\ st \in {"rerouting", "took", "failed"} => ph = "routing"
    /\ st \in {"idle", "arriving", "running", "retrying", "swapping", "ending"}
        => ph = "out"
    /\ st \in {"idle", "arriving", "queued", "rerouting", "failed"} => h = {} /\ t = {}
    /\ st = "took" => t = {} /\ \E s \in Slots : h = {s}
    /\ st = "running" => \E s \in Slots : h = {s} /\ s[1] \notin t
    /\ st \in {"retrying", "ending"} => \E s \in Slots : h = {s} /\ s[1] \in t
    /\ st = "swapping" => \E a, b \in Slots : h = {a, b} /\ a[1] \in t /\ b[1] \notin t

StagesAgree == \A r \in Requests : Agrees(stage[r], phase[r], held[r], tried[r])

SInv == RouterTypeOK /\ StagesAgree /\ SlotsAccounted /\ NoOverCommit

(* A slot that is held is a slot of a worker of some model. *)
LEMMA HeldSlot ==
    ASSUME SInv, NEW r \in Requests, NEW s \in held[r]
    PROVE  /\ s \in Slots /\ s = <<s[1], s[2]>>
           /\ s[1] \in Workers /\ s[2] \in Gens /\ WorkerModel[s[1]] \in Models
<1>1. s \in Slots
  BY DEF SInv, RouterTypeOK
<1> QED
  BY <1>1, RouterAssumption

-----------------------------------------------------------------------------
(* Types *)

LEMMA ViewsType ==
    ASSUME SInv
    PROVE  InitialView \in Views /\ Filtered \in Views /\ Recovered \in Views
<1>1. 0 \in Gens /\ 0 \in 0 .. Capacity
  BY RouterAssumption
<1>2. view \in Views
  BY DEF SInv, RouterTypeOK
<1>3. InitialView \in Views
  BY <1>1 DEF InitialView, Views
<1>4. \A w \in Workers : view[w] \in [up : BOOLEAN, reported : 0 .. Capacity, gen : Gens]
  BY <1>2 DEF Views
<1>5. Filtered \in Views
  BY <1>4, Zenon DEF Filtered, Views
<1>6. Recovered \in Views
  BY <1>1, <1>4, Zenon DEF Recovered, Views
<1> QED
  BY <1>3, <1>5, <1>6

LEMMA GoToType ==
    ASSUME SInv, NEW r \in Requests, NEW s \in Stages, GoTo(r, s) \/ ReadAndGoTo(r, s)
    PROVE  stage' \in [Requests -> Stages] /\ seen' \in [Requests -> Views]
<1>1. /\ stage \in [Requests -> Stages] /\ seen \in [Requests -> Views] /\ view \in Views
      /\ InitialView \in Views /\ Filtered \in Views
  BY ViewsType DEF SInv, RouterTypeOK
<1>2. stage' = [stage EXCEPT ![r] = s]
  BY DEF GoTo, ReadAndGoTo
<1>3. \E v \in Views : seen' = [seen EXCEPT ![r] = v]
  BY <1>1 DEF GoTo, ReadAndGoTo
<1> QED
  BY <1>1, <1>2, <1>3

(* What reserve takes is a slot, on a worker with room, untried. *)
LEMMA ReserveProps ==
    ASSUME SInv, NEW r \in Requests, NEW w \in Workers, Reserve(r, w)
    PROVE  /\ <<w, seen[r][w].gen>> \in Slots
           /\ w \notin tried[r] /\ inflight[w] < Capacity /\ Offered(r) # {}
           /\ inflight' = [inflight EXCEPT ![w] = @ + 1]
           /\ held' = [held EXCEPT ![r] = @ \cup {<<w, seen[r][w].gen>>}]
           /\ inflight' \in [Workers -> Nat] /\ held' \in [Requests -> SUBSET Slots]
<1>1. /\ inflight \in [Workers -> Nat] /\ held \in [Requests -> SUBSET Slots]
      /\ seen[r] \in Views
  BY DEF SInv, RouterTypeOK
<1>2. seen[r][w] \in [up : BOOLEAN, reported : 0 .. Capacity, gen : Gens]
  BY <1>1 DEF Views
<1>3. <<w, seen[r][w].gen>> \in Slots
  BY <1>2, RouterAssumption
<1>4. w \in Offered(r) /\ w \notin tried[r] /\ HasRoom(seen[r], w)
  BY DEF Reserve, Candidates, Offered
<1>5. inflight[w] < Capacity
  BY <1>1, <1>2, <1>4, RouterAssumption DEF HasRoom, Overlay
<1>6. /\ inflight' = [inflight EXCEPT ![w] = @ + 1]
      /\ held' = [held EXCEPT ![r] = @ \cup {<<w, seen[r][w].gen>>}]
  BY DEF Reserve
<1>7. inflight' \in [Workers -> Nat]
  BY <1>1, <1>6
<1>8. held' \in [Requests -> SUBSET Slots]
  BY <1>1, <1>3, <1>6
<1> QED
  BY <1>3, <1>4, <1>5, <1>6, <1>7, <1>8

(* The requests with a slot on a worker, or about to receive one. *)
LEMMA CountsType ==
    ASSUME NEW w
    PROVE  /\ IsFiniteSet(Holders(w)) /\ Cardinality(Holders(w)) \in Nat
           /\ IsFiniteSet(Promised(w)) /\ Cardinality(Promised(w)) \in Nat
<1>1. Holders(w) \in SUBSET Requests /\ Promised(w) \in SUBSET Requests
  BY DEF Holders, Promised
<1>2. IsFiniteSet(Holders(w)) /\ IsFiniteSet(Promised(w))
  BY <1>1, RequestsAssumption, FS_Subset
<1> QED
  BY <1>2, FS_CardinalityType

(* A slot that is held is counted, so it can be counted down. *)
LEMMA HeldIsCounted ==
    ASSUME SInv, NEW r \in Requests, NEW s \in held[r]
    PROVE  inflight[s[1]] - 1 \in Nat /\ r \in Holders(s[1])
<1> DEFINE w == s[1]
           H == Holders(w)
<1>1. w \in Workers /\ r \in H
  BY HeldSlot DEF Holders
<1>2. IsFiniteSet(H) /\ Cardinality(H) \in Nat /\ Cardinality(Promised(w)) \in Nat
  BY CountsType
<1>3. inflight[w] = Cardinality(H) + Cardinality(Promised(w))
  BY <1>1 DEF SInv, SlotsAccounted
<1>4. Cardinality(H) # 0
  <2> HIDE DEF H
  <2> QED
    BY <1>1, <1>2, FS_EmptySet
<1>5. inflight[w] - 1 \in Nat
  <2> HIDE DEF H, w
  <2> QED
    BY <1>2, <1>3, <1>4
<1> QED
  BY <1>1, <1>5

LEMMA ReleaseType ==
    ASSUME SInv, NEW r \in Requests, NEW s \in held[r], NEW owed \in BOOLEAN,
           ReleaseSlot(s[1], s[2], owed)
    PROVE  inflight' \in [Workers -> Nat]
<1>1. inflight \in [Workers -> Nat] /\ s[1] \in Workers /\ inflight[s[1]] - 1 \in Nat
  BY HeldSlot, HeldIsCounted DEF SInv, RouterTypeOK
<1>2. inflight' = inflight \/ inflight' = [inflight EXCEPT ![s[1]] = @ - 1]
  BY DEF ReleaseSlot
<1> QED
  BY <1>1, <1>2

LEMMA FreeSlotsType == \A m \in Models : FreeSlots(m) \in Nat
<1> SUFFICES ASSUME NEW m \in Models PROVE FreeSlots(m) \in Nat
  OBVIOUS
<1> DEFINE S == {s \in Workers \X (1 .. Capacity) :
                    /\ WorkerModel[s[1]] = m
                    /\ view[s[1]].up /\ s[1] \notin ejected
                    /\ s[2] > Overlay(view, s[1])}
<1>1. FreeSlots(m) = Cardinality(S)
  BY DEF FreeSlots
<1>2. IsFiniteSet(1 .. Capacity)
  <2>1. 1 \in Int /\ Capacity \in Int
    BY RouterAssumption
  <2> QED
    BY <2>1, FS_Interval, Zenon
<1>3. IsFiniteSet(Workers \X (1 .. Capacity))
  BY <1>2, RouterAssumption, FS_Product
<1>4. S \in SUBSET (Workers \X (1 .. Capacity))
  OBVIOUS
<1> HIDE DEF S
<1>5. IsFiniteSet(S)
  BY <1>3, <1>4, FS_Subset
<1> QED
  BY <1>1, <1>5, FS_CardinalityType

(* A request's own steps. *)
LEMMA RequestType ==
    ASSUME SInv, TypeOK', NEW r \in Requests,
           \/ Arrive(r) \/ Proceed(r) \/ Finish(r) \/ Retry(r)
           \/ GiveUp(r) \/ ReroutePanics(r) \/ ClientLeaves(r)
    PROVE  RouterTypeOK'
<1> USE DEF Stages
<1>1. ASSUME NEW s \in Stages, GoTo(r, s) \/ ReadAndGoTo(r, s)
      PROVE  stage' \in [Requests -> Stages] /\ seen' \in [Requests -> Views]
  BY <1>1, GoToType
<1>2. CASE Arrive(r)
  <2>1. stage' \in [Requests -> Stages] /\ seen' \in [Requests -> Views]
    BY <1>1, <1>2 DEF Arrive
  <2>2. arrivals' \in 0 .. MaxArrivals
    <3>1. arrivals \in 0 .. MaxArrivals /\ arrivals < MaxArrivals /\ arrivals' = arrivals + 1
      BY <1>2, Zenon DEF Arrive, SInv, RouterTypeOK
    <3> QED
      BY <3>1, RouterAssumption
  <2> QED
    BY <1>2, <2>1, <2>2 DEF Arrive, SInv, RouterTypeOK
<1>3. CASE ArriveQueued(r)
  <2>1. stage' \in [Requests -> Stages] /\ seen' \in [Requests -> Views]
    BY <1>1, <1>3 DEF ArriveQueued
  <2> QED
    BY <1>3, <2>1 DEF ArriveQueued, SInv, RouterTypeOK
<1>4. CASE ArriveRefused(r)
  <2>1. stage' \in [Requests -> Stages] /\ seen' \in [Requests -> Views]
    BY <1>1, <1>4, Zenon DEF ArriveRefused
  <2> QED
    BY <1>4, <2>1, Zenon DEF ArriveRefused, SInv, RouterTypeOK
<1>5. ASSUME NEW w \in Workers,
             ArriveServed(r, w) \/ RerouteReserves(r, w) \/ RetryReserves(r, w)
      PROVE  RouterTypeOK'
  <2>1. stage' \in [Requests -> Stages] /\ seen' \in [Requests -> Views]
    BY <1>1, <1>5 DEF ArriveServed, RerouteReserves, RetryReserves
  <2>2. inflight' \in [Workers -> Nat] /\ held' \in [Requests -> SUBSET Slots]
    BY <1>5, ReserveProps, Zenon DEF ArriveServed, RerouteReserves, RetryReserves
  <2>3. UNCHANGED <<view, ejected, tried, gone, owing, refresher, churn, arrivals, cut>>
    BY <1>5 DEF ArriveServed, RerouteReserves, RetryReserves
  <2> QED
    BY <2>1, <2>2, <2>3 DEF SInv, RouterTypeOK
<1>6. CASE HandoffReceived(r)
  <2>1. stage' \in [Requests -> Stages] /\ seen' \in [Requests -> Views]
    BY <1>1, <1>6 DEF HandoffReceived
  <2>2. held' \in [Requests -> SUBSET Slots]
    BY <1>6 DEF HandoffReceived, SInv, RouterTypeOK
  <2> QED
    BY <1>6, <2>1, <2>2, Zenon DEF HandoffReceived, SInv, RouterTypeOK
<1>7. CASE FlushReceived(r)
  <2>1. stage' \in [Requests -> Stages] /\ seen' \in [Requests -> Views]
    BY <1>1, <1>7 DEF FlushReceived
  <2> QED
    BY <1>7, <2>1 DEF FlushReceived, SInv, RouterTypeOK
<1>8. CASE RerouteReceived(r)
  BY <1>8 DEF RerouteReceived, routerVars, SInv, RouterTypeOK
<1>9. CASE RerouteReadsView(r)
  <2>1. stage' \in [Requests -> Stages] /\ seen' \in [Requests -> Views]
    BY <1>1, <1>9 DEF RerouteReadsView
  <2> QED
    BY <1>9, <2>1 DEF RerouteReadsView, SInv, RouterTypeOK
<1>10. CASE RerouteFails(r)
  <2>1. stage' \in [Requests -> Stages] /\ seen' \in [Requests -> Views]
    BY <1>1, <1>10 DEF RerouteFails
  <2> QED
    BY <1>10, <2>1 DEF RerouteFails, SInv, RouterTypeOK
<1>11. CASE RerouteDone(r) \/ RerouteParks(r)
  <2>1. stage' \in [Requests -> Stages] /\ seen' \in [Requests -> Views]
    BY <1>1, <1>11 DEF RerouteDone, RerouteParks
  <2> QED
    BY <1>11, <2>1 DEF RerouteDone, RerouteParks, SInv, RouterTypeOK
<1>12. CASE GiveUp(r) \/ ReroutePanics(r)
  <2>1. stage' \in [Requests -> Stages] /\ seen' \in [Requests -> Views]
    BY <1>1, <1>12 DEF GiveUp, ReroutePanics
  <2> QED
    BY <1>12, <2>1, Zenon DEF GiveUp, ReroutePanics, SInv, RouterTypeOK
<1>13. CASE Finish(r) \/ Swap(r)
  <2>1. PICK s \in held[r], owed \in BOOLEAN : ReleaseSlot(s[1], s[2], owed) /\ Owe(r, owed)
    BY <1>13 DEF Finish, Swap
  <2>2. inflight' \in [Workers -> Nat]
    BY <2>1, ReleaseType, Zenon
  <2>3. stage' \in [Requests -> Stages] /\ seen' \in [Requests -> Views]
    BY <1>1, <1>13 DEF Finish, Swap
  <2>4. owing' \subseteq Requests
    BY <2>1 DEF Owe, SInv, RouterTypeOK
  <2>5. /\ held' \in [Requests -> SUBSET Slots] /\ tried' \in [Requests -> SUBSET Workers]
        /\ gone' \subseteq Requests
    BY <1>13 DEF Finish, Swap, SInv, RouterTypeOK
  <2>6. UNCHANGED <<view, ejected, refresher, churn, arrivals, cut>>
    BY <1>13 DEF Finish, Swap
  <2> QED
    BY <2>2, <2>3, <2>4, <2>5, <2>6 DEF SInv, RouterTypeOK
<1>14. CASE Retry(r)
  <2>1. stage' \in [Requests -> Stages] /\ seen' \in [Requests -> Views]
    BY <1>1, <1>14, Zenon DEF Retry
  <2>2. tried' \in [Requests -> SUBSET Workers]
    BY <1>14, HeldSlot DEF Retry, SInv, RouterTypeOK
  <2> QED
    BY <1>14, <2>1, <2>2 DEF Retry, SInv, RouterTypeOK
<1>15. CASE RetryFails(r)
  <2>1. stage' \in [Requests -> Stages] /\ seen' \in [Requests -> Views]
    BY <1>1, <1>15 DEF RetryFails
  <2> QED
    BY <1>15, <2>1 DEF RetryFails, SInv, RouterTypeOK
<1>16. CASE PayWake(r)
  BY <1>16 DEF PayWake, SInv, RouterTypeOK
<1>17. CASE ClientLeaves(r)
  BY <1>17, Zenon DEF ClientLeaves, SInv, RouterTypeOK
<1> QED
  BY <1>2, <1>3, <1>4, <1>5, <1>6, <1>7, <1>8, <1>9, <1>10, <1>11, <1>12, <1>13,
     <1>14, <1>15, <1>16, <1>17 DEF Proceed, WaitStep

(* Every other step. *)
LEMMA OtherType ==
    ASSUME SInv, TypeOK',
           \/ RefreshStep
           \/ \E w \in Workers : Age(w) \/ Eject(w) \/ Readmit(w)
           \/ BeginDrain \/ DrainFlush \/ UNCHANGED vars
    PROVE  RouterTypeOK'
<1>1. CASE Refresh
  <2>1. view' \in Views
    BY <1>1, ViewsType DEF Refresh
  <2>2. churn' \in 0 .. MaxChurn
    BY <1>1, RouterAssumption DEF Refresh, SInv, RouterTypeOK
  <2>3. refresher' \in [at : {"idle", "list", "count", "wake"}, todo : SUBSET Models, n : Nat]
    BY <1>1 DEF Refresh, SInv, RouterTypeOK
  <2> QED
    BY <1>1, <2>1, <2>2, <2>3 DEF Refresh, SInv, RouterTypeOK
<1>2. CASE ListQueued
  <2>1. refresher' \in [at : {"idle", "list", "count", "wake"}, todo : SUBSET Models, n : Nat]
    BY <1>2, Zenon DEF ListQueued, QueuedModels, SInv, RouterTypeOK
  <2> QED
    BY <1>2, <2>1, Zenon DEF ListQueued, SInv, RouterTypeOK
<1>3. ASSUME NEW m \in Models, CountFree(m) PROVE RouterTypeOK'
  <2>1. refresher' \in [at : {"idle", "list", "count", "wake"}, todo : SUBSET Models, n : Nat]
    BY <1>3, FreeSlotsType DEF CountFree, SInv, RouterTypeOK
  <2> QED
    BY <1>3, <2>1, Zenon DEF CountFree, SInv, RouterTypeOK
<1>4. ASSUME NEW m \in Models, WakeCounted(m) PROVE RouterTypeOK'
  <2>1. refresher' \in [at : {"idle", "list", "count", "wake"}, todo : SUBSET Models, n : Nat]
    BY <1>4 DEF WakeCounted, SInv, RouterTypeOK
  <2> QED
    BY <1>4, <2>1, Zenon DEF WakeCounted, SInv, RouterTypeOK
<1>5. ASSUME NEW w \in Workers, Age(w) \/ Eject(w) \/ Readmit(w) PROVE RouterTypeOK'
  <2>1. view' \in Views
    <3> DEFINE Entry == [up : BOOLEAN, reported : 0 .. Capacity, gen : Gens]
               aged == [view[w] EXCEPT !.up = FALSE]
    <3>1. view \in [Workers -> Entry]
      BY DEF SInv, RouterTypeOK, Views
    <3>2. aged \in Entry
      BY <3>1, Zenon
    <3>3. view' = view \/ view' = [view EXCEPT ![w] = aged]
      BY <1>5 DEF Age, Eject, Readmit
    <3> HIDE DEF Entry, aged
    <3>4. view' \in [Workers -> Entry]
      BY <3>1, <3>2, <3>3
    <3> QED
      BY <3>4 DEF Entry, Views
  <2>2. churn' \in 0 .. MaxChurn
    BY <1>5, RouterAssumption DEF Age, Eject, Readmit, SInv, RouterTypeOK
  <2> QED
    BY <1>5, <2>1, <2>2, Zenon DEF Age, Eject, Readmit, SInv, RouterTypeOK
<1>6. CASE BeginDrain \/ DrainFlush \/ UNCHANGED vars
  <2>1. UNCHANGED routerVars
    BY <1>6 DEF BeginDrain, DrainFlush, vars
  <2> QED
    BY <2>1 DEF routerVars, SInv, RouterTypeOK
<1> QED
  BY <1>1, <1>2, <1>3, <1>4, <1>5, <1>6 DEF RefreshStep

-----------------------------------------------------------------------------
(* Stages *)

(* A step that moves one goroutine. *)
LEMMA OneMoves ==
    ASSUME SInv, NEW r \in Requests,
           \A q \in Requests \ {r} : /\ stage'[q] = stage[q] /\ phase'[q] = phase[q]
                                     /\ held'[q] = held[q] /\ tried'[q] = tried[q],
           Agrees(stage'[r], phase'[r], held'[r], tried'[r])
    PROVE  StagesAgree'
<1> SUFFICES ASSUME NEW q \in Requests
             PROVE  Agrees(stage'[q], phase'[q], held'[q], tried'[q])
  BY Zenon DEF StagesAgree
<1>1. CASE q = r
  BY <1>1, Zenon
<1>2. CASE q # r
  BY <1>2 DEF SInv, StagesAgree
<1> QED
  BY <1>1, <1>2, Zenon

(* A step that moves none. *)
LEMMA NoneMoves ==
    ASSUME SInv, UNCHANGED <<stage, phase, held, tried>>
    PROVE  StagesAgree'
BY DEF SInv, StagesAgree

(* What the queue's operations make of a goroutine's place in the wait     *)
(* loop.                                                                   *)
LEMMA PhaseMoves ==
    ASSUME TypeOK, NEW r \in Requests, RequestStep(r)
    PROVE  /\ \A q \in Requests \ {r} : phase'[q] = phase[q]
           /\ Enqueue(r) => phase'[r] = "waiting"
           /\ ReceiveReroute(r) => phase'[r] = "routing"
           /\ ReceiveFinal(r) \/ Leave(r) \/ LeaveAgain(r) \/ Done(r) => phase'[r] = "out"
           /\ Park(r) => phase'[r] \in {"waiting", "routing"}
<1>1. phase \in [Requests -> {"out", "waiting", "routing"}]
  BY DEF TypeOK
<1> QED
  BY <1>1, Zenon DEF RequestStep, Enqueue, ReceiveReroute, ReceiveFinal, Leave, LeaveAgain,
              Done, Park

LEMMA ReleaseMovesNone ==
    ASSUME NEW w, NEW g, NEW owed, ReleaseSlot(w, g, owed)
    PROVE  phase' = phase
BY Zenon DEF ReleaseSlot, HandoffGiven, HandoffDeclined, queueVars

(* What each stage asks of a request's phase, slots and tried workers, one *)
(* stage at a time.                                                        *)
LEMMA AgreesHoldingNone ==
    ASSUME NEW st, NEW ph, NEW h, NEW t, h = {}, t = {},
           \/ st \in {"idle", "arriving"} /\ ph = "out"
           \/ st = "queued" /\ ph \in {"waiting", "routing"}
           \/ st \in {"rerouting", "failed"} /\ ph = "routing"
    PROVE  Agrees(st, ph, h, t)
BY DEF Agrees

LEMMA AgreesTook ==
    ASSUME NEW st, NEW ph, NEW h, NEW t, NEW s \in Slots,
           st = "took", ph = "routing", h = {s}, t = {}
    PROVE  Agrees(st, ph, h, t)
BY DEF Agrees

LEMMA AgreesRunning ==
    ASSUME NEW st, NEW ph, NEW h, NEW t, NEW s \in Slots,
           st = "running", ph = "out", h = {s}, s[1] \notin t
    PROVE  Agrees(st, ph, h, t)
BY DEF Agrees

LEMMA AgreesTried ==
    ASSUME NEW st, NEW ph, NEW h, NEW t, NEW s \in Slots,
           st \in {"retrying", "ending"}, ph = "out", h = {s}, s[1] \in t
    PROVE  Agrees(st, ph, h, t)
BY DEF Agrees

LEMMA AgreesSwapping ==
    ASSUME NEW st, NEW ph, NEW h, NEW t, NEW a \in Slots, NEW b \in Slots,
           st = "swapping", ph = "out", h = {a, b}, a[1] \in t, b[1] \notin t
    PROVE  Agrees(st, ph, h, t)
BY DEF Agrees

LEMMA RequestStages ==
    ASSUME SInv, NEW r \in Requests,
           \/ Arrive(r) \/ Proceed(r) \/ Finish(r) \/ Retry(r)
           \/ GiveUp(r) \/ ReroutePanics(r) \/ ClientLeaves(r)
    PROVE  StagesAgree'
<1>1. /\ stage \in [Requests -> Stages] /\ held \in [Requests -> SUBSET Slots]
      /\ tried \in [Requests -> SUBSET Workers] /\ TypeOK
      /\ Agrees(stage[r], phase[r], held[r], tried[r])
  BY DEF SInv, RouterTypeOK, StagesAgree
<1>1a. /\ stage[r] \in {"idle", "arriving"} => phase[r] = "out" /\ held[r] = {} /\ tried[r] = {}
       /\ stage[r] = "queued" => held[r] = {} /\ tried[r] = {}
       /\ stage[r] \in {"rerouting", "failed"} => phase[r] = "routing" /\ held[r] = {} /\ tried[r] = {}
       /\ stage[r] = "took" => phase[r] = "routing" /\ tried[r] = {} /\ \E s \in Slots : held[r] = {s}
       /\ stage[r] = "running"
            => phase[r] = "out" /\ \E s \in Slots : held[r] = {s} /\ s[1] \notin tried[r]
       /\ stage[r] \in {"retrying", "ending"}
            => phase[r] = "out" /\ \E s \in Slots : held[r] = {s} /\ s[1] \in tried[r]
       /\ stage[r] = "swapping"
            => /\ phase[r] = "out"
               /\ \E a, b \in Slots : held[r] = {a, b} /\ a[1] \in tried[r] /\ b[1] \notin tried[r]
  BY <1>1, Zenon DEF Agrees
<1>2. ASSUME NEW s, GoTo(r, s) \/ ReadAndGoTo(r, s)
      PROVE  stage'[r] = s /\ \A q \in Requests \ {r} : stage'[q] = stage[q]
  BY <1>1, <1>2 DEF GoTo, ReadAndGoTo
<1>3. CASE Arrive(r)
  <2>1. /\ stage[r] = "idle" /\ ReadAndGoTo(r, "arriving") /\ UNCHANGED <<phase, held, tried>>
    BY <1>3 DEF Arrive, At, queueVars
  <2>2. Agrees(stage'[r], phase'[r], held'[r], tried'[r])
    BY <1>1, <1>1a, <1>2, <2>1, AgreesHoldingNone, Zenon
  <2> QED
    BY <1>2, <2>1, <2>2, OneMoves, Zenon
<1>4. CASE ArriveQueued(r)
  <2>1. /\ stage[r] = "arriving" /\ GoTo(r, "queued") /\ RequestStep(r) /\ Enqueue(r)
        /\ UNCHANGED <<held, tried>>
    BY <1>4 DEF ArriveQueued, At, RequestStep
  <2>2. phase'[r] = "waiting" /\ \A q \in Requests \ {r} : phase'[q] = phase[q]
    BY <1>1, <2>1, PhaseMoves, Zenon
  <2>3. Agrees(stage'[r], phase'[r], held'[r], tried'[r])
    BY <1>1, <1>1a, <1>2, <2>1, <2>2, AgreesHoldingNone, Zenon
  <2> QED
    BY <1>2, <2>1, <2>2, <2>3, OneMoves, Zenon
<1>5. CASE ArriveRefused(r)
  <2>1. /\ stage[r] = "arriving" /\ GoTo(r, "idle") /\ UNCHANGED <<phase, held, tried>>
    BY <1>5, Zenon DEF ArriveRefused, At, queueVars
  <2>2. Agrees(stage'[r], phase'[r], held'[r], tried'[r])
    BY <1>1, <1>1a, <1>2, <2>1, AgreesHoldingNone, Zenon
  <2> QED
    BY <1>2, <2>1, <2>2, OneMoves, Zenon
<1>6. ASSUME NEW w \in Workers,
             ArriveServed(r, w) \/ RerouteReserves(r, w) \/ RetryReserves(r, w)
      PROVE  StagesAgree'
  <2> DEFINE slot == <<w, seen[r][w].gen>>
  <2>1. Reserve(r, w) /\ UNCHANGED <<phase, tried>>
    BY <1>6 DEF ArriveServed, RerouteReserves, RetryReserves, queueVars
  <2>2. slot \in Slots /\ slot[1] \notin tried[r] /\ held' = [held EXCEPT ![r] = @ \cup {slot}]
    BY <2>1, ReserveProps, Zenon
  <2> HIDE DEF slot
  <2>3. held'[r] = held[r] \cup {slot} /\ \A q \in Requests \ {r} : held'[q] = held[q]
    BY <1>1, <2>2
  <2>4. CASE ArriveServed(r, w)
    <3>1. stage[r] = "arriving" /\ GoTo(r, "running")
      BY <2>4 DEF ArriveServed, At
    <3>2. held'[r] = {slot} /\ tried'[r] = tried[r] /\ phase'[r] = "out"
      BY <1>1, <1>1a, <2>1, <2>3, <3>1, Zenon
    <3>3. Agrees(stage'[r], phase'[r], held'[r], tried'[r])
      BY <1>1, <1>1a, <1>2, <2>1, <2>2, <2>3, <3>1, <3>2, AgreesRunning, Zenon
    <3> QED
      BY <1>2, <2>1, <2>2, <2>3, <3>1, <3>2, <3>3, OneMoves, Zenon
  <2>5. CASE RerouteReserves(r, w)
    <3>1. stage[r] = "rerouting" /\ GoTo(r, "took")
      BY <2>5 DEF RerouteReserves, At
    <3>2. held'[r] = {slot} /\ tried'[r] = {} /\ phase'[r] = "routing"
      BY <1>1, <1>1a, <2>1, <2>3, <3>1, Zenon
    <3>3. Agrees(stage'[r], phase'[r], held'[r], tried'[r])
      BY <1>2, <2>2, <3>1, <3>2, AgreesTook, Zenon
    <3> QED
      BY <1>2, <2>1, <2>2, <2>3, <3>1, <3>2, <3>3, OneMoves, Zenon
  <2>6. CASE RetryReserves(r, w)
    <3>1. stage[r] = "retrying" /\ GoTo(r, "swapping")
      BY <2>6 DEF RetryReserves, At
    <3>2. PICK a \in Slots : held[r] = {a} /\ a[1] \in tried[r]
      BY <1>1, <1>1a, <3>1, Zenon
    <3>3. held'[r] = {a, slot} /\ tried'[r] = tried[r] /\ phase'[r] = "out"
      BY <1>1, <1>1a, <2>1, <2>3, <3>1, <3>2, Zenon
    <3>4. Agrees(stage'[r], phase'[r], held'[r], tried'[r])
      BY <1>2, <2>2, <3>1, <3>2, <3>3, AgreesSwapping, Zenon
    <3> QED
      BY <1>2, <2>1, <2>2, <2>3, <3>1, <3>2, <3>3, <3>4, OneMoves, Zenon
  <2> QED
    BY <1>6, <2>4, <2>5, <2>6
<1>7. CASE HandoffReceived(r)
  <2>1. /\ stage[r] = "queued" /\ GoTo(r, "running") /\ RequestStep(r) /\ ReceiveFinal(r)
        /\ ch[r] \in Slots /\ held' = [held EXCEPT ![r] = {ch[r]}] /\ tried' = tried
    BY <1>7, Zenon DEF HandoffReceived, At, RequestStep
  <2>2. phase'[r] = "out" /\ \A q \in Requests \ {r} : phase'[q] = phase[q]
    BY <1>1, <2>1, PhaseMoves, Zenon
  <2>3. held'[r] = {ch[r]} /\ tried'[r] = {} /\ \A q \in Requests \ {r} : held'[q] = held[q]
    BY <1>1, <1>1a, <2>1, Zenon
  <2>4. Agrees(stage'[r], phase'[r], held'[r], tried'[r])
    BY <1>2, <2>1, <2>2, <2>3, AgreesRunning, Zenon
  <2> QED
    BY <1>2, <2>1, <2>2, <2>3, <2>4, OneMoves, Zenon
<1>8. CASE FlushReceived(r) \/ GiveUp(r) \/ ReroutePanics(r)
  <2>1. /\ stage[r] \in {"queued", "rerouting"} /\ GoTo(r, "idle") /\ RequestStep(r)
        /\ ReceiveFinal(r) \/ Leave(r) \/ LeaveAgain(r)
        /\ UNCHANGED <<held, tried>>
    BY <1>8, Zenon DEF FlushReceived, GiveUp, ReroutePanics, At, RequestStep
  <2>2. phase'[r] = "out" /\ \A q \in Requests \ {r} : phase'[q] = phase[q]
    BY <1>1, <2>1, PhaseMoves, Zenon
  <2>3. Agrees(stage'[r], phase'[r], held'[r], tried'[r])
    BY <1>1, <1>1a, <1>2, <2>1, <2>2, AgreesHoldingNone, Zenon
  <2> QED
    BY <1>2, <2>1, <2>2, <2>3, OneMoves, Zenon
<1>9. CASE RerouteReceived(r)
  <2>1. /\ stage[r] = "queued" /\ RequestStep(r) /\ ReceiveReroute(r)
        /\ UNCHANGED <<stage, held, tried>>
    BY <1>9 DEF RerouteReceived, At, RequestStep, routerVars
  <2>2. phase'[r] = "routing" /\ \A q \in Requests \ {r} : phase'[q] = phase[q]
    BY <1>1, <2>1, PhaseMoves, Zenon
  <2>3. Agrees(stage'[r], phase'[r], held'[r], tried'[r])
    BY <1>1, <1>1a, <2>1, <2>2, AgreesHoldingNone, Zenon
  <2> QED
    BY <2>1, <2>2, <2>3, OneMoves, Zenon
<1>10. CASE RerouteReadsView(r)
  <2>1. /\ stage[r] = "queued" /\ phase[r] = "routing" /\ ReadAndGoTo(r, "rerouting")
        /\ UNCHANGED <<phase, held, tried>>
    BY <1>10, Zenon DEF RerouteReadsView, At, queueVars
  <2>2. Agrees(stage'[r], phase'[r], held'[r], tried'[r])
    BY <1>1, <1>1a, <1>2, <2>1, AgreesHoldingNone, Zenon
  <2> QED
    BY <1>2, <2>1, <2>2, OneMoves, Zenon
<1>11. CASE RerouteFails(r)
  <2>1. /\ stage[r] = "rerouting" /\ GoTo(r, "failed") /\ UNCHANGED <<phase, held, tried>>
    BY <1>11 DEF RerouteFails, At, queueVars
  <2>2. Agrees(stage'[r], phase'[r], held'[r], tried'[r])
    BY <1>1, <1>1a, <1>2, <2>1, AgreesHoldingNone, Zenon
  <2> QED
    BY <1>2, <2>1, <2>2, OneMoves, Zenon
<1>12. CASE RerouteDone(r)
  <2>1. /\ stage[r] = "took" /\ GoTo(r, "running") /\ RequestStep(r) /\ Done(r)
        /\ UNCHANGED <<held, tried>>
    BY <1>12 DEF RerouteDone, At, RequestStep
  <2>2. phase'[r] = "out" /\ \A q \in Requests \ {r} : phase'[q] = phase[q]
    BY <1>1, <2>1, PhaseMoves, Zenon
  <2>3. \E s \in Slots : held'[r] = {s} /\ s[1] \notin tried'[r]
    BY <1>1, <1>1a, <2>1, Zenon
  <2>4. Agrees(stage'[r], phase'[r], held'[r], tried'[r])
    BY <1>2, <2>1, <2>2, <2>3, AgreesRunning, Zenon
  <2> QED
    BY <1>2, <2>1, <2>2, <2>3, <2>4, OneMoves, Zenon
<1>13. CASE RerouteParks(r)
  <2>1. /\ stage[r] = "failed" /\ GoTo(r, "queued") /\ RequestStep(r) /\ Park(r)
        /\ UNCHANGED <<held, tried>>
    BY <1>13 DEF RerouteParks, At, RequestStep
  <2>2. phase'[r] \in {"waiting", "routing"} /\ \A q \in Requests \ {r} : phase'[q] = phase[q]
    BY <1>1, <2>1, PhaseMoves, Zenon
  <2>3. Agrees(stage'[r], phase'[r], held'[r], tried'[r])
    BY <1>1, <1>1a, <1>2, <2>1, <2>2, AgreesHoldingNone, Zenon
  <2> QED
    BY <1>2, <2>1, <2>2, <2>3, OneMoves, Zenon
<1>14. CASE Finish(r)
  <2>1. /\ stage[r] \in {"running", "ending"} /\ GoTo(r, "idle")
        /\ held' = [held EXCEPT ![r] = {}] /\ tried' = [tried EXCEPT ![r] = {}]
        /\ phase' = phase
    BY <1>14, ReleaseMovesNone, Zenon DEF Finish, At
  <2>2. /\ held'[r] = {} /\ tried'[r] = {} /\ phase'[r] = "out"
        /\ \A q \in Requests \ {r} : held'[q] = held[q] /\ tried'[q] = tried[q]
    BY <1>1, <1>1a, <2>1, Zenon
  <2>3. Agrees(stage'[r], phase'[r], held'[r], tried'[r])
    BY <1>2, <2>1, <2>2, AgreesHoldingNone, Zenon
  <2> QED
    BY <1>2, <2>1, <2>2, <2>3, OneMoves, Zenon
<1>15. CASE Retry(r)
  <2>1. PICK s \in held[r] :
          /\ stage[r] = "running" /\ ReadAndGoTo(r, "retrying")
          /\ tried' = [tried EXCEPT ![r] = @ \cup {s[1]}] /\ UNCHANGED <<phase, held>>
    BY <1>15, Zenon DEF Retry, At, queueVars
  <2>2. /\ held'[r] = {s} /\ s \in Slots /\ s[1] \in tried'[r] /\ phase'[r] = "out"
        /\ \A q \in Requests \ {r} : tried'[q] = tried[q]
    BY <1>1, <1>1a, <2>1, Zenon
  <2>3. Agrees(stage'[r], phase'[r], held'[r], tried'[r])
    BY <1>2, <2>1, <2>2, AgreesTried, Zenon
  <2> QED
    BY <1>2, <2>1, <2>2, <2>3, OneMoves, Zenon
<1>16. CASE RetryFails(r)
  <2>1. /\ stage[r] = "retrying" /\ GoTo(r, "ending") /\ UNCHANGED <<phase, held, tried>>
    BY <1>16 DEF RetryFails, At, queueVars
  <2>2. Agrees(stage'[r], phase'[r], held'[r], tried'[r])
    BY <1>1, <1>1a, <1>2, <2>1, AgreesTried, Zenon
  <2> QED
    BY <1>2, <2>1, <2>2, OneMoves, Zenon
<1>17. CASE Swap(r)
  <2>1. PICK s \in held[r] :
          /\ stage[r] = "swapping" /\ s[1] \in tried[r] /\ GoTo(r, "running")
          /\ held' = [held EXCEPT ![r] = @ \ {s}] /\ UNCHANGED <<phase, tried>>
    BY <1>17, ReleaseMovesNone, Zenon DEF Swap, At
  <2>2. PICK a, b \in Slots : held[r] = {a, b} /\ a[1] \in tried[r] /\ b[1] \notin tried[r]
    BY <1>1, <1>1a, <2>1, Zenon
  <2>3. /\ held'[r] = {b} /\ tried'[r] = tried[r] /\ phase'[r] = "out"
        /\ \A q \in Requests \ {r} : held'[q] = held[q]
    BY <1>1, <1>1a, <2>1, <2>2, Zenon
  <2>4. Agrees(stage'[r], phase'[r], held'[r], tried'[r])
    BY <1>2, <2>1, <2>2, <2>3, AgreesRunning, Zenon
  <2> QED
    BY <1>2, <2>1, <2>2, <2>3, <2>4, OneMoves, Zenon
<1>18. CASE PayWake(r) \/ ClientLeaves(r)
  BY <1>18, NoneMoves, Zenon DEF PayWake, Wake, ClientLeaves, queueVars
<1> QED
  BY <1>3, <1>4, <1>5, <1>6, <1>7, <1>8, <1>9, <1>10, <1>11, <1>12, <1>13, <1>14,
     <1>15, <1>16, <1>17, <1>18, Zenon DEF Proceed, WaitStep

LEMMA OtherStages ==
    ASSUME SInv,
           \/ RefreshStep
           \/ \E w \in Workers : Age(w) \/ Eject(w) \/ Readmit(w)
           \/ BeginDrain \/ DrainFlush \/ UNCHANGED vars
    PROVE  StagesAgree'
<1>1. UNCHANGED <<stage, phase, held, tried>>
  BY Zenon DEF RefreshStep, Refresh, ListQueued, CountFree, WakeCounted, Wake, Age, Eject, Readmit,
         BeginDrain, Close, DrainFlush, Flush, vars, queueVars, routerVars
<1> QED
  BY <1>1, NoneMoves

=============================================================================
