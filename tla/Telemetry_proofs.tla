--------------------------- MODULE Telemetry_proofs ---------------------------
(***************************************************************************)
(* Proofs about what the gateway tells of its requests through bounded     *)
(* buffers.  No event a handler offers is lost without being counted, and  *)
(* none overtakes another of its request (EventPublisher); no span is lost *)
(* without being counted (SpanBatcher).                                    *)
(***************************************************************************)
EXTENDS EventPublisher, SpanBatcher, FiniteSetTheorems, TLAPS

-----------------------------------------------------------------------------
(* The event publisher *)

PubEvent == PubHandlers \X (1 .. PubEvents)

PubAck == [ok : BOOLEAN, counted : BOOLEAN]

PubBusy == {"send", "sendLast", "produce", "produceLast"}

PubOf(s) == {s[i] : i \in DOMAIN s}

(* What the drain goroutine has in its hands. *)
PubHand == IF pubRun \in PubBusy THEN {pubItem} ELSE {}

(* Of the events of one handler, those in A were offered before those in   *)
(* B; and a sequence has them in the order they were offered.              *)
PubOlder(A, B) == \A a \in A, b \in B : a[1] = b[1] => a[2] < b[2]

PubSorted(s) == \A i, j \in DOMAIN s : i < j /\ s[i][1] = s[j][1] => s[i][2] < s[j][2]

PubTypes ==
  /\ pubHandler \in [PubHandlers -> [n : 0 .. PubEvents, in : BOOLEAN]]
  /\ \A h \in PubHandlers : pubHandler[h].in => pubHandler[h].n # 0
  /\ pubRun \in {"select", "drain", "done"} \cup PubBusy
  /\ pubCh \in Seq(PubEvent) /\ pubSink \in Seq(PubEvent) /\ pubTopic \in Seq(PubEvent)
  /\ PubHand \subseteq PubEvent
  /\ pubAcks \in Seq(PubAck)
  /\ pubInflight \in Nat /\ pubPublished \in Nat /\ pubFailures \in Nat

(* From the topic back to the handlers, every place holds newer events. *)
PubLine ==
  /\ PubSorted(pubTopic) /\ PubSorted(pubSink) /\ PubSorted(pubCh)
  /\ PubOlder(PubOf(pubTopic), PubOf(pubSink)) /\ PubOlder(PubOf(pubTopic), PubHand)
  /\ PubOlder(PubOf(pubTopic), PubOf(pubCh)) /\ PubOlder(PubOf(pubSink), PubHand)
  /\ PubOlder(PubOf(pubSink), PubOf(pubCh)) /\ PubOlder(PubHand, PubOf(pubCh))
  /\ \A e \in PubOf(pubTopic) \cup PubOf(pubSink) \cup PubHand \cup PubOf(pubCh) :
       /\ e[2] <= pubHandler[e[1]].n
       /\ pubHandler[e[1]].in => e[2] < pubHandler[e[1]].n

(* How many of the acknowledgements are of the kind A; only the first of   *)
(* them is between its two steps.                                          *)
PubIn(s, A) == Cardinality({i \in DOMAIN s : s[i] \in A})

PubUncounted == {a \in PubAck : ~a.counted}

PubCounted == {a \in PubAck : a.counted}

PubOk == {a \in PubAck : a.ok}

PubFirstOnly == \A i \in DOMAIN pubAcks : i # 1 => ~pubAcks[i].counted

PubHolding == IF pubRun \in {"produce", "produceLast"} THEN 1 ELSE 0

PubBounds ==
  /\ Len(pubCh) <= PubBuffer /\ Len(pubSink) + PubIn(pubAcks, PubUncounted) <= PubMaxBuffered
  /\ pubInflight = Len(pubSink) + PubIn(pubAcks, PubUncounted) + PubHolding
  /\ pubPublished + PubIn(pubAcks, PubOk) <= Len(pubTopic)

PubEntering == Cardinality({h \in PubHandlers : pubHandler[h].in})

PubTaken == IF pubRun \in {"send", "sendLast"} THEN 1 ELSE 0

(* Close gives up before it counts what is lost; until then every event    *)
(* offered is in one place.                                                *)
(* What is at the door, taken by the run loop, queued, in flight, landing, *)
(* published and failed.                                                  *)
PubTotal(a, b, c, d, e, f, g) == a + b + c + d + e + f + g

PubSum ==
  /\ pubClose = "count" => pubAbandoned
  /\ ~pubAbandoned =>
       PubOffered = PubTotal(PubEntering, PubTaken, Len(pubCh), pubInflight,
                             PubIn(pubAcks, PubCounted), pubPublished, pubFailures)

PubInv == PubTypes /\ PubLine /\ PubFirstOnly /\ PubBounds /\ PubSum

LEMMA LineAppend ==
    ASSUME NEW s \in Seq(PubEvent), NEW e \in PubEvent
    PROVE  /\ PubOf(Append(s, e)) = PubOf(s) \cup {e}
           /\ PubSorted(s) /\ PubOlder(PubOf(s), {e}) => PubSorted(Append(s, e))
<1> DEFINE t == Append(s, e)
<1>1. /\ DOMAIN t = DOMAIN s \cup {Len(s) + 1} /\ t[Len(s) + 1] = e /\ \A i \in DOMAIN s : t[i] = s[i]
      /\ DOMAIN s = 1 .. Len(s) /\ Len(s) \in Nat
  OBVIOUS
<1> HIDE DEF t
<1>2. PubOf(t) = PubOf(s) \cup {e}
  BY <1>1 DEF PubOf
<1>3. ASSUME PubSorted(s), PubOlder(PubOf(s), {e}), NEW i \in DOMAIN t, NEW j \in DOMAIN t, i < j, t[i][1] = t[j][1]
      PROVE  t[i][2] < t[j][2]
  <2>1. i \in DOMAIN s
    BY <1>1, <1>3
  <2>2. CASE j \in DOMAIN s
    BY <1>1, <1>3, <2>1, <2>2 DEF PubSorted
  <2>3. CASE j = Len(s) + 1
    BY <1>1, <1>3, <2>1, <2>3 DEF PubOlder, PubOf
  <2> QED
    BY <1>1, <2>2, <2>3
<1> QED
  BY <1>2, <1>3, Zenon DEF PubSorted, t

LEMMA LineTail ==
    ASSUME NEW s \in Seq(PubEvent), s # <<>>
    PROVE  /\ Tail(s) \in Seq(PubEvent) /\ Head(s) \in PubEvent /\ Len(s) = Len(Tail(s)) + 1
           /\ PubOf(s) = PubOf(Tail(s)) \cup {Head(s)}
           /\ PubSorted(s) => PubSorted(Tail(s)) /\ PubOlder({Head(s)}, PubOf(Tail(s)))
<1> DEFINE t == Tail(s)
<1>1. /\ t \in Seq(PubEvent) /\ Len(s) \in Nat /\ Len(s) = Len(t) + 1 /\ DOMAIN s = 1 .. Len(s) /\ DOMAIN t = 1 .. Len(t)
      /\ Len(t) \in Nat /\ Head(s) = s[1] /\ s[1] \in PubEvent /\ \A i \in DOMAIN t : i + 1 \in DOMAIN s /\ t[i] = s[i + 1]
  OBVIOUS
<1> HIDE DEF t
<1>2. \A i \in DOMAIN s : i = 1 \/ (i - 1 \in DOMAIN t /\ s[i] = t[i - 1])
  BY <1>1
<1>3. PubOf(s) = PubOf(t) \cup {Head(s)}
  <2>1. 1 \in DOMAIN s
    BY <1>1
  <2> QED
    BY <1>1, <1>2, <2>1 DEF PubOf
<1>4. ASSUME PubSorted(s) PROVE PubSorted(t)
  BY <1>1, <1>4 DEF PubSorted
<1>5. ASSUME PubSorted(s) PROVE PubOlder({Head(s)}, PubOf(t))
  <2>1. \A i \in DOMAIN t : s[1][1] = t[i][1] => s[1][2] < t[i][2]
    <3> TAKE i \in DOMAIN t
    <3>1. 1 \in DOMAIN s /\ i + 1 \in DOMAIN s /\ 1 < i + 1
      BY <1>1
    <3> QED
      BY <1>1, <1>5, <3>1, Zenon DEF PubSorted
  <2> QED
    BY <1>1, <2>1 DEF PubOlder, PubOf
<1> QED
  BY <1>1, <1>3, <1>4, <1>5 DEF t

(* Counting acknowledgements *)

LEMMA AcksType ==
    ASSUME NEW s \in Seq(PubAck), NEW A
    PROVE  /\ IsFiniteSet({i \in DOMAIN s : s[i] \in A})
           /\ PubIn(s, A) \in Nat
<1>1. DOMAIN s = 1 .. Len(s) /\ Len(s) \in Nat
  OBVIOUS
<1>2. IsFiniteSet(DOMAIN s)
  BY <1>1, FS_Interval
<1>3. IsFiniteSet({i \in DOMAIN s : s[i] \in A})
  BY <1>2, FS_Subset
<1> QED
  BY <1>3, FS_CardinalityType DEF PubIn

LEMMA AcksAppend ==
    ASSUME NEW s \in Seq(PubAck), NEW a \in PubAck, NEW A
    PROVE  PubIn(Append(s, a), A) = PubIn(s, A) + (IF a \in A THEN 1 ELSE 0)
<1> DEFINE t == Append(s, a)
           I == {i \in DOMAIN s : s[i] \in A}
           J == {i \in DOMAIN t : t[i] \in A}
           n == Len(s) + 1
<1>1. /\ DOMAIN t = DOMAIN s \cup {n} /\ t[n] = a /\ \A i \in DOMAIN s : t[i] = s[i]
      /\ n \notin DOMAIN s
  OBVIOUS
<1> HIDE DEF t, n
<1>2. /\ a \in A => J = I \cup {n}
      /\ a \notin A => J = I
      /\ n \notin I
  BY <1>1
<1>3. IsFiniteSet(I) /\ Cardinality(I) \in Nat
  BY AcksType, Zenon DEF PubIn
<1>4. PubIn(s, A) = Cardinality(I) /\ PubIn(t, A) = Cardinality(J)
  BY DEF PubIn
<1> HIDE DEF I, J
<1>5. a \in A => Cardinality(J) = Cardinality(I) + 1
  BY <1>2, <1>3, FS_AddElement
<1> QED
  BY <1>2, <1>3, <1>4, <1>5 DEF t

LEMMA AcksTail ==
    ASSUME NEW s \in Seq(PubAck), s # <<>>, NEW A
    PROVE  PubIn(s, A) = PubIn(Tail(s), A) + (IF Head(s) \in A THEN 1 ELSE 0)
<1> DEFINE t == Tail(s)
           I == {i \in DOMAIN s : s[i] \in A}
           J == {i \in DOMAIN t : t[i] \in A}
           f == [i \in J |-> i + 1]
           K == I \ {1}
<1>1. /\ t \in Seq(PubAck) /\ Len(s) \in Nat /\ Len(s) = Len(t) + 1 /\ DOMAIN s = 1 .. Len(s) /\ DOMAIN t = 1 .. Len(t)
      /\ Len(t) \in Nat /\ Head(s) = s[1] /\ \A i \in DOMAIN t : i + 1 \in DOMAIN s /\ t[i] = s[i + 1]
  OBVIOUS
<1> HIDE DEF t
<1>2. \A i \in K : i - 1 \in J /\ i = (i - 1) + 1
  BY <1>1
<1>3. \A i \in J : i + 1 \in K /\ i \in Nat
  BY <1>1
<1> HIDE DEF K, J
<1>4. f \in Bijection(J, K)
  <2>1. f \in [J -> K]
    BY <1>3
  <2>2. \A i, j \in J : f[i] = f[j] => i = j
    BY <1>3
  <2>3. \A k \in K : \E i \in J : f[i] = k
    BY <1>2
  <2> HIDE DEF f
  <2> QED
    BY <2>1, <2>2, <2>3 DEF Bijection, Injection, Surjection, IsInjective
<1> HIDE DEF f
<1>5. IsFiniteSet(J) /\ Cardinality(J) \in Nat
  BY <1>1, AcksType, Zenon DEF J, PubIn
<1>6. Cardinality(K) = Cardinality(J)
  <2>1. ExistsBijection(J, K)
    BY <1>4 DEF ExistsBijection
  <2> QED
    BY <1>5, <2>1, FS_Bijection
<1>7. IsFiniteSet(I) /\ Cardinality(I) \in Nat
  BY AcksType, Zenon DEF PubIn
<1>8. PubIn(s, A) = Cardinality(I) /\ PubIn(t, A) = Cardinality(J)
  BY DEF PubIn, J
<1>9. /\ 1 \in I <=> Head(s) \in A
      /\ 1 \notin I => K = I
  BY <1>1 DEF K
<1> HIDE DEF I
<1>10. 1 \in I => Cardinality(K) = Cardinality(I) - 1
  BY <1>7, FS_RemoveElement, Zenon DEF K
<1> QED
  BY <1>5, <1>6, <1>7, <1>8, <1>9, <1>10 DEF t

LEMMA PubNumbers ==
    ASSUME PubInv
    PROVE  /\ PubOffered \in Nat /\ PubEntering \in Nat /\ PubTaken \in Nat /\ PubHolding \in Nat
           /\ Len(pubCh) \in Nat /\ Len(pubSink) \in Nat /\ Len(pubTopic) \in Nat
           /\ pubInflight \in Nat /\ pubPublished \in Nat /\ pubFailures \in Nat
           /\ PubIn(pubAcks, PubUncounted) \in Nat /\ PubIn(pubAcks, PubCounted) \in Nat /\ PubIn(pubAcks, PubOk) \in Nat
           /\ PubEvents \in Nat /\ PubBuffer \in Nat /\ PubMaxBuffered \in Nat
           /\ IsFiniteSet({h \in PubHandlers : pubHandler[h].in})
           /\ IsFiniteSet({e \in PubEvent : e[2] <= pubHandler[e[1]].n})
<1>1. IsFiniteSet(PubHandlers) /\ PubEvents \in Nat /\ PubBuffer \in Nat /\ PubMaxBuffered \in Nat
  BY PubAssumption
<1>2. IsFiniteSet(PubEvent)
  <2>1. IsFiniteSet(1 .. PubEvents)
    BY <1>1, FS_Interval
  <2> QED
    BY <1>1, <2>1, FS_Product DEF PubEvent
<1>3. IsFiniteSet({h \in PubHandlers : pubHandler[h].in}) /\ IsFiniteSet({e \in PubEvent : e[2] <= pubHandler[e[1]].n})
  BY <1>1, <1>2, FS_Subset
<1>4. PubOffered \in Nat /\ PubEntering \in Nat
  BY <1>3, FS_CardinalityType DEF PubOffered, PubEntering, PubEvent
<1>5. /\ pubCh \in Seq(PubEvent) /\ pubSink \in Seq(PubEvent) /\ pubTopic \in Seq(PubEvent) /\ pubAcks \in Seq(PubAck)
      /\ pubInflight \in Nat /\ pubPublished \in Nat /\ pubFailures \in Nat
  BY DEF PubInv, PubTypes
<1>6. Len(pubCh) \in Nat /\ Len(pubSink) \in Nat /\ Len(pubTopic) \in Nat
  BY <1>5
<1>7. PubTaken \in Nat /\ PubHolding \in Nat
  BY DEF PubTaken, PubHolding
<1> QED
  BY <1>1, <1>3, <1>4, <1>5, <1>6, <1>7, AcksType, Zenon

LEMMA PubInitially == PubInit => PubInv
<1> SUFFICES ASSUME PubInit
             PROVE  PubInv
  OBVIOUS
<1>1. /\ pubHandler = [h \in PubHandlers |-> [n |-> 0, in |-> FALSE]] /\ pubRun = "select"
      /\ pubCh = <<>> /\ pubSink = <<>> /\ pubAcks = <<>> /\ pubTopic = <<>> /\ pubAbandoned = FALSE /\ pubClose = "no"
      /\ pubInflight = 0 /\ pubPublished = 0 /\ pubFailures = 0 /\ PubEvents \in Nat /\ PubBuffer \in Nat
      /\ PubMaxBuffered \in Nat
  BY PubAssumption DEF PubInit
<1>2. PubHand = {} /\ PubTaken = 0 /\ PubHolding = 0
  BY <1>1 DEF PubHand, PubTaken, PubHolding, PubBusy
<1>3. PubTypes
  <2>1. 0 \in 0 .. PubEvents
    BY <1>1
  <2> QED
    BY <1>1, <1>2, <2>1 DEF PubTypes, PubBusy
<1>4. PubOf(<<>>) = {} /\ PubSorted(<<>>) /\ DOMAIN <<>> = {}
  BY DEF PubOf, PubSorted
<1>5. PubLine
  BY <1>1, <1>2, <1>4 DEF PubLine, PubOlder
<1>6. PubFirstOnly
  BY <1>1, <1>4 DEF PubFirstOnly
<1>7. Cardinality({}) = 0
  BY FS_EmptySet
<1>8. \A A : PubIn(pubAcks, A) = 0
  <2> TAKE A
  <2>1. {i \in DOMAIN pubAcks : pubAcks[i] \in A} = {}
    BY <1>1, <1>4
  <2> QED
    BY <1>7, <2>1, Zenon DEF PubIn
<1>9. PubOffered = 0
  <2>1. {e \in PubHandlers \X (1 .. PubEvents) : e[2] <= pubHandler[e[1]].n} = {}
    BY <1>1
  <2> QED
    BY <1>7, <2>1, Zenon DEF PubOffered
<1>10. PubEntering = 0
  <2>1. {h \in PubHandlers : pubHandler[h].in} = {}
    BY <1>1
  <2> QED
    BY <1>7, <2>1, Zenon DEF PubEntering
<1>11. PubBounds
  BY <1>1, <1>2, <1>8 DEF PubBounds
<1>12. PubSum
  <2>1. PubTotal(0, 0, 0, 0, 0, 0, 0) = 0
    BY DEF PubTotal
  <2> QED
    BY <1>1, <1>2, <1>8, <1>9, <1>10, <2>1 DEF PubSum
<1> QED
  BY <1>3, <1>5, <1>6, <1>11, <1>12 DEF PubInv

(* Every event on its way is one its handler has offered. *)
LEMMA PubEverywhere ==
    ASSUME PubInv, NEW x \in PubOf(pubTopic) \cup PubOf(pubSink) \cup PubHand \cup PubOf(pubCh)
    PROVE  /\ x[1] \in PubHandlers /\ x[2] \in 1 .. PubEvents /\ x[2] <= pubHandler[x[1]].n
           /\ (pubHandler[x[1]].in => x[2] < pubHandler[x[1]].n)
<1>1. /\ pubTopic \in Seq(PubEvent) /\ pubSink \in Seq(PubEvent) /\ pubCh \in Seq(PubEvent) /\ PubHand \subseteq PubEvent
  BY DEF PubInv, PubTypes
<1>2. PubOf(pubTopic) \subseteq PubEvent /\ PubOf(pubSink) \subseteq PubEvent /\ PubOf(pubCh) \subseteq PubEvent
  BY <1>1 DEF PubOf
<1>3. x \in PubEvent
  BY <1>1, <1>2
<1>4. x[2] <= pubHandler[x[1]].n /\ (pubHandler[x[1]].in => x[2] < pubHandler[x[1]].n)
  BY DEF PubInv, PubLine
<1> QED
  BY <1>3, <1>4 DEF PubEvent

(* One event more is offered. *)
LEMMA PubEnqueueKeeps ==
    ASSUME PubInv, NEW h \in PubHandlers, PubEnqueue(h)
    PROVE  PubInv'
<1> DEFINE n == pubHandler[h].n
           e == <<h, n + 1>>
           O == {x \in PubEvent : x[2] <= pubHandler[x[1]].n}
           P == {x \in PubEvent : x[2] <= pubHandler'[x[1]].n}
           I == {q \in PubHandlers : pubHandler[q].in}
           J == {q \in PubHandlers : pubHandler'[q].in}
<1>1. /\ ~pubHandler[h].in /\ n < PubEvents
      /\ pubHandler' = [pubHandler EXCEPT ![h] = [n |-> n + 1, in |-> ~pubClosed]]
      /\ pubFailures' = (IF pubClosed THEN pubFailures + 1 ELSE pubFailures)
      /\ pubCh' = pubCh /\ pubRun' = pubRun /\ pubItem' = pubItem /\ pubAbandoned' = pubAbandoned /\ pubClose' = pubClose
      /\ pubInflight' = pubInflight /\ pubPublished' = pubPublished /\ pubSink' = pubSink /\ pubAcks' = pubAcks
      /\ pubTopic' = pubTopic
  BY DEF PubEnqueue, pubClosing
<1>2. pubHandler \in [PubHandlers -> [n : 0 .. PubEvents, in : BOOLEAN]] /\ PubEvents \in Nat /\ n \in 0 .. PubEvents
  BY PubNumbers, Zenon DEF PubInv, PubTypes
<1>3. /\ pubHandler'[h].n = n + 1 /\ pubHandler'[h].in = ~pubClosed /\ n + 1 \in 0 .. PubEvents /\ e \in PubEvent
      /\ \A q \in PubHandlers : q # h => pubHandler'[q] = pubHandler[q]
      /\ pubHandler' \in [PubHandlers -> [n : 0 .. PubEvents, in : BOOLEAN]] /\ n + 1 # 0
  BY <1>1, <1>2 DEF PubEvent
<1>4. PubTypes'
  <2>1. PubHand' = PubHand /\ pubFailures' \in Nat
    <3>1. PubHand' = PubHand
      BY <1>1 DEF PubHand, PubBusy
    <3>2. pubFailures \in Nat
      BY PubNumbers
    <3> QED
      BY <1>1, <3>1, <3>2
  <2>2. \A q \in PubHandlers : pubHandler'[q].in => pubHandler'[q].n # 0
    <3> SUFFICES ASSUME NEW q \in PubHandlers, pubHandler'[q].in
                 PROVE  pubHandler'[q].n # 0
      OBVIOUS
    <3>1. CASE q = h
      BY <1>3, <3>1
    <3>2. CASE q # h
      BY <1>3, <3>2 DEF PubInv, PubTypes
    <3> QED
      BY <3>1, <3>2
  <2> QED
    BY <1>1, <1>3, <2>1, <2>2, Zenon DEF PubInv, PubTypes
<1>5. PubLine'
  <2> DEFINE S == PubOf(pubTopic) \cup PubOf(pubSink) \cup PubHand \cup PubOf(pubCh)
  <2>1. PubHand' = PubHand
    BY <1>1 DEF PubHand, PubBusy
  <2>3. \A x \in S : /\ x[1] \in PubHandlers /\ x[2] \in 1 .. PubEvents /\ x[2] <= pubHandler[x[1]].n
                     /\ (pubHandler[x[1]].in => x[2] < pubHandler[x[1]].n)
    BY PubEverywhere, Zenon
  <2>4. \A x \in S : x[2] <= pubHandler'[x[1]].n /\ (pubHandler'[x[1]].in => x[2] < pubHandler'[x[1]].n)
    <3> SUFFICES ASSUME NEW x \in S
                 PROVE  x[2] <= pubHandler'[x[1]].n /\ (pubHandler'[x[1]].in => x[2] < pubHandler'[x[1]].n)
      OBVIOUS
    <3> HIDE DEF S
    <3>1. CASE x[1] = h
      BY <1>2, <1>3, <2>3, <3>1
    <3>2. CASE x[1] # h
      BY <1>3, <2>3, <3>2
    <3> QED
      BY <3>1, <3>2
  <2> QED
    BY <1>1, <2>1, <2>4, Zenon DEF PubInv, PubLine
<1>6. PubFirstOnly'
  BY <1>1 DEF PubInv, PubFirstOnly
<1>7. PubTaken' = PubTaken /\ PubHolding' = PubHolding
  BY <1>1 DEF PubTaken, PubHolding
<1>8. PubBounds'
  BY <1>1, <1>7 DEF PubInv, PubBounds, PubUncounted, PubOk
<1>9. PubOffered' = PubOffered + 1
  <2>1. P = O \cup {e} /\ e \notin O
    <3>1. \A x \in PubEvent : x = <<x[1], x[2]>> /\ x[1] \in PubHandlers /\ x[2] \in Nat
      BY DEF PubEvent
    <3>2. \A x \in PubEvent : x[1] # h => (x[2] <= pubHandler'[x[1]].n <=> x[2] <= pubHandler[x[1]].n)
      BY <1>3, <3>1
    <3>3. \A x \in PubEvent : x[1] = h => (x[2] <= pubHandler'[x[1]].n <=> (x[2] <= n \/ x = e))
      BY <1>2, <1>3, <3>1
    <3>4. e \notin O
      BY <1>2, <1>3
    <3> QED
      BY <1>3, <3>2, <3>3, <3>4, Zenon
  <2>2. IsFiniteSet(O) /\ PubOffered = Cardinality(O) /\ PubOffered' = Cardinality(P)
    BY PubNumbers DEF PubOffered, PubEvent
  <2> HIDE DEF O, P, e
  <2> QED
    BY <2>1, <2>2, FS_AddElement, Zenon
<1>10. PubEntering' = PubEntering + (IF pubClosed THEN 0 ELSE 1)
  <2>1. /\ pubClosed => J = I
        /\ ~pubClosed => J = I \cup {h}
        /\ h \notin I
    BY <1>1, <1>3, Zenon
  <2>2. IsFiniteSet(I) /\ PubEntering = Cardinality(I) /\ PubEntering' = Cardinality(J) /\ PubEntering \in Nat
    BY PubNumbers, Zenon DEF PubEntering
  <2> HIDE DEF I, J
  <2>3. ~pubClosed => Cardinality(J) = Cardinality(I) + 1
    BY <2>1, <2>2, FS_AddElement
  <2> QED
    BY <2>1, <2>2, <2>3
<1>11. PubSum'
  <2>1. PubIn(pubAcks, PubCounted)' = PubIn(pubAcks, PubCounted)
    BY <1>1 DEF PubCounted
  <2>2. /\ PubOffered \in Nat /\ PubEntering \in Nat /\ PubTaken \in Nat /\ Len(pubCh) \in Nat /\ pubInflight \in Nat
        /\ pubPublished \in Nat /\ pubFailures \in Nat /\ PubIn(pubAcks, PubCounted) \in Nat
    BY PubNumbers, Zenon
  <2>3. CASE pubClosed
    <3>1. PubEntering' = PubEntering /\ pubFailures' = pubFailures + 1
      BY <1>1, <1>10, <2>2, <2>3
    <3>2. PubTotal(PubEntering, PubTaken, Len(pubCh), pubInflight, PubIn(pubAcks, PubCounted), pubPublished, pubFailures + 1)
            = PubTotal(PubEntering, PubTaken, Len(pubCh), pubInflight, PubIn(pubAcks, PubCounted), pubPublished, pubFailures) + 1
      BY <2>2 DEF PubTotal
    <3> QED
      BY <1>1, <1>7, <1>9, <2>1, <3>1, <3>2, Zenon DEF PubInv, PubSum
  <2>4. CASE ~pubClosed
    <3>1. PubEntering' = PubEntering + 1 /\ pubFailures' = pubFailures
      BY <1>1, <1>10, <2>2, <2>4
    <3>2. PubTotal(PubEntering + 1, PubTaken, Len(pubCh), pubInflight, PubIn(pubAcks, PubCounted), pubPublished, pubFailures)
            = PubTotal(PubEntering, PubTaken, Len(pubCh), pubInflight, PubIn(pubAcks, PubCounted), pubPublished, pubFailures) + 1
      BY <2>2 DEF PubTotal
    <3> QED
      BY <1>1, <1>7, <1>9, <2>1, <3>1, <3>2, Zenon DEF PubInv, PubSum
  <2> QED
    BY <2>3, <2>4
<1> QED
  BY <1>4, <1>5, <1>6, <1>8, <1>11, Zenon DEF PubInv

(* The handler's event goes to the channel, or is counted as dropped. *)
LEMMA PubOfferKeeps ==
    ASSUME PubInv, NEW h \in PubHandlers, PubOffer(h)
    PROVE  PubInv'
<1> DEFINE full == Len(pubCh) >= PubBuffer
           e == <<h, pubHandler[h].n>>
           I == {q \in PubHandlers : pubHandler[q].in}
           J == {q \in PubHandlers : pubHandler'[q].in}
           S == PubOf(pubTopic) \cup PubOf(pubSink) \cup PubHand \cup PubOf(pubCh)
<1>1. /\ pubHandler[h].in /\ pubHandler' = [pubHandler EXCEPT ![h].in = FALSE]
      /\ pubCh' = (IF full THEN pubCh ELSE Append(pubCh, e)) /\ pubFailures' = (IF full THEN pubFailures + 1 ELSE pubFailures)
      /\ pubRun' = pubRun /\ pubItem' = pubItem /\ pubAbandoned' = pubAbandoned /\ pubClose' = pubClose
      /\ pubInflight' = pubInflight /\ pubPublished' = pubPublished /\ pubSink' = pubSink /\ pubAcks' = pubAcks
      /\ pubTopic' = pubTopic
  BY DEF PubOffer, pubClosing
<1>2. /\ pubHandler \in [PubHandlers -> [n : 0 .. PubEvents, in : BOOLEAN]] /\ PubEvents \in Nat /\ pubCh \in Seq(PubEvent)
      /\ Len(pubCh) \in Nat /\ PubBuffer \in Nat /\ Len(pubCh) <= PubBuffer
  BY PubNumbers, Zenon DEF PubInv, PubTypes, PubBounds
<1>3. /\ \A q \in PubHandlers : pubHandler'[q].n = pubHandler[q].n
      /\ \A q \in PubHandlers : q # h => pubHandler'[q] = pubHandler[q]
      /\ ~pubHandler'[h].in
      /\ pubHandler' \in [PubHandlers -> [n : 0 .. PubEvents, in : BOOLEAN]]
  BY <1>1, <1>2, Zenon
<1>5. \A x \in S : /\ x[1] \in PubHandlers /\ x[2] \in 1 .. PubEvents /\ x[2] <= pubHandler[x[1]].n
                   /\ (pubHandler[x[1]].in => x[2] < pubHandler[x[1]].n)
  BY PubEverywhere
<1>6. \A x \in S : x[1] = h => x[2] < pubHandler[h].n
  BY <1>1, <1>5
<1>7. PubTaken' = PubTaken /\ PubHolding' = PubHolding /\ PubHand' = PubHand
  BY <1>1 DEF PubTaken, PubHolding, PubHand, PubBusy
<1>8. PubFirstOnly'
  BY <1>1 DEF PubInv, PubFirstOnly
<1>9. PubOffered' = PubOffered
  <2>1. {x \in PubHandlers \X (1 .. PubEvents) : x[2] <= pubHandler'[x[1]].n}
          = {x \in PubHandlers \X (1 .. PubEvents) : x[2] <= pubHandler[x[1]].n}
    BY <1>3, Zenon
  <2> QED
    BY <2>1, Zenon DEF PubOffered
<1>10. PubEntering' = PubEntering - 1
  <2>1. J = I \ {h} /\ h \in I
    BY <1>1, <1>3
  <2>2. IsFiniteSet(I) /\ PubEntering = Cardinality(I) /\ PubEntering' = Cardinality(J) /\ PubEntering \in Nat
    BY PubNumbers DEF PubEntering
  <2> HIDE DEF I, J
  <2> QED
    BY <2>1, <2>2, FS_RemoveElement, Zenon
<1>11. PubIn(pubAcks, PubCounted)' = PubIn(pubAcks, PubCounted)
  BY <1>1 DEF PubCounted
<1>12. /\ PubOffered \in Nat /\ PubEntering \in Nat /\ PubTaken \in Nat /\ Len(pubCh) \in Nat /\ pubInflight \in Nat
       /\ pubPublished \in Nat /\ pubFailures \in Nat /\ PubIn(pubAcks, PubCounted) \in Nat
  BY PubNumbers
<1>13. \A x \in S : x[2] <= pubHandler'[x[1]].n /\ (pubHandler'[x[1]].in => x[2] < pubHandler'[x[1]].n)
  <2> HIDE DEF S
  <2> QED
    BY <1>3, <1>5
<1>14. /\ pubHandler' \in [PubHandlers -> [n : 0 .. PubEvents, in : BOOLEAN]]
       /\ \A q \in PubHandlers : pubHandler'[q].in => pubHandler'[q].n # 0
  <2>1. \A q \in PubHandlers : pubHandler[q].in => pubHandler[q].n # 0
    BY DEF PubInv, PubTypes
  <2> QED
    BY <1>3, <2>1
<1>15. CASE full
  <2>1. pubCh' = pubCh /\ pubFailures' = pubFailures + 1
    BY <1>1, <1>15
  <2>2. PubTypes'
    <3>1. pubFailures' \in Nat
      BY <1>12, <2>1
    <3> QED
      BY <1>1, <1>7, <1>14, <2>1, <3>1, Zenon DEF PubInv, PubTypes
  <2>3. PubLine'
    BY <1>1, <1>7, <1>13, <2>1 DEF PubInv, PubLine
  <2>4. PubBounds'
    BY <1>1, <1>7, <2>1 DEF PubInv, PubBounds, PubUncounted, PubOk
  <2>5. ~pubAbandoned => PubOffered = PubTotal(PubEntering - 1, PubTaken, Len(pubCh), pubInflight,
                                               PubIn(pubAcks, PubCounted), pubPublished, pubFailures + 1)
    <3>1. PubTotal(PubEntering - 1, PubTaken, Len(pubCh), pubInflight, PubIn(pubAcks, PubCounted), pubPublished, pubFailures + 1)
          = PubTotal(PubEntering, PubTaken, Len(pubCh), pubInflight, PubIn(pubAcks, PubCounted), pubPublished, pubFailures)
      BY <1>12 DEF PubTotal
    <3> QED
      BY <1>12, <3>1, Zenon DEF PubInv, PubSum
  <2>6. PubSum'
    BY <1>1, <1>7, <1>9, <1>10, <1>11, <2>1, <2>5 DEF PubInv, PubSum
  <2> QED
    BY <1>8, <2>2, <2>3, <2>4, <2>6 DEF PubInv
<1>16. CASE ~full
  <2>0. pubCh' = Append(pubCh, e) /\ pubFailures' = pubFailures /\ Len(pubCh) < PubBuffer
    BY <1>1, <1>2, <1>16
  <2>1. e \in PubEvent
    <3>1. pubHandler[h].n # 0
      BY <1>1 DEF PubInv, PubTypes
    <3> QED
      BY <1>2, <3>1 DEF PubEvent
  <2>2. /\ pubCh' \in Seq(PubEvent) /\ Len(pubCh') = Len(pubCh) + 1 /\ PubOf(pubCh') = PubOf(pubCh) \cup {e}
        /\ PubSorted(pubCh) /\ PubOlder(PubOf(pubCh), {e}) => PubSorted(pubCh')
    <3> HIDE DEF e
    <3>1. pubCh' \in Seq(PubEvent) /\ Len(pubCh') = Len(pubCh) + 1
      BY <1>2, <2>0, <2>1
    <3> QED
      BY <1>2, <2>0, <2>1, <3>1, LineAppend, Zenon
  <2>3. PubTypes'
    BY <1>1, <1>7, <1>14, <2>0, <2>2, Zenon DEF PubInv, PubTypes
  <2>4. PubLine'
    <3>1. PubOlder(PubOf(pubTopic), {e}) /\ PubOlder(PubOf(pubSink), {e}) /\ PubOlder(PubHand, {e}) /\ PubOlder(PubOf(pubCh), {e})
      BY <1>6 DEF PubOlder
    <3>2. \A x \in PubOf(pubTopic)' \cup PubOf(pubSink)' \cup PubHand' \cup PubOf(pubCh)' :
            x[2] <= pubHandler'[x[1]].n /\ (pubHandler'[x[1]].in => x[2] < pubHandler'[x[1]].n)
      <4>1. e[2] <= pubHandler'[e[1]].n /\ ~pubHandler'[e[1]].in
        BY <1>2, <1>3
      <4> QED
        BY <1>1, <1>7, <1>13, <2>2, <4>1 DEF PubOf
    <3>3. PubSorted(pubCh')
      BY <2>2, <3>1, Zenon DEF PubInv, PubLine
    <3> HIDE DEF e
    <3>4. /\ PubOlder(PubOf(pubTopic), PubOf(pubCh')) /\ PubOlder(PubOf(pubSink), PubOf(pubCh'))
          /\ PubOlder(PubHand, PubOf(pubCh'))
      BY <2>2, <3>1, Zenon DEF PubInv, PubLine, PubOlder
    <3> QED
      BY <1>1, <1>7, <3>2, <3>3, <3>4, Zenon DEF PubInv, PubLine
  <2>5. PubBounds'
    BY <1>1, <1>2, <1>7, <2>0, <2>2 DEF PubInv, PubBounds, PubUncounted, PubOk
  <2>6. ~pubAbandoned => PubOffered = PubTotal(PubEntering - 1, PubTaken, Len(pubCh) + 1, pubInflight,
                                               PubIn(pubAcks, PubCounted), pubPublished, pubFailures)
    <3>1. PubTotal(PubEntering - 1, PubTaken, Len(pubCh) + 1, pubInflight, PubIn(pubAcks, PubCounted), pubPublished, pubFailures)
          = PubTotal(PubEntering, PubTaken, Len(pubCh), pubInflight, PubIn(pubAcks, PubCounted), pubPublished, pubFailures)
      BY <1>12 DEF PubTotal
    <3> QED
      BY <1>12, <3>1, Zenon DEF PubInv, PubSum
  <2>7. PubSum'
    BY <1>1, <1>7, <1>9, <1>10, <1>11, <2>0, <2>2, <2>6, Zenon DEF PubInv, PubSum
  <2> QED
    BY <1>8, <2>3, <2>4, <2>5, <2>7 DEF PubInv
<1> QED
  BY <1>15, <1>16

(* The drain goroutine takes the oldest event of the channel. *)
LEMMA PubTakeKeeps ==
    ASSUME PubInv, PubTake
    PROVE  PubInv'
<1>1. /\ pubRun \in {"select", "drain"} /\ pubCh # <<>> /\ pubItem' = Head(pubCh) /\ pubCh' = Tail(pubCh)
      /\ pubRun' \in {"send", "sendLast"} /\ pubHandler' = pubHandler
      /\ pubAbandoned' = pubAbandoned /\ pubClose' = pubClose
      /\ pubInflight' = pubInflight /\ pubPublished' = pubPublished /\ pubFailures' = pubFailures
      /\ pubSink' = pubSink /\ pubAcks' = pubAcks /\ pubTopic' = pubTopic
  BY DEF PubTake, pubClosing, pubCounters
<1>2. PubTaken = 0 /\ PubTaken' = 1 /\ PubHolding' = PubHolding /\ PubHand = {} /\ PubHand' = {Head(pubCh)}
  BY <1>1 DEF PubTaken, PubHolding, PubHand, PubBusy
<1>3. pubCh \in Seq(PubEvent)
  BY DEF PubInv, PubTypes
<1>4. /\ pubCh' \in Seq(PubEvent) /\ Head(pubCh) \in PubEvent /\ Len(pubCh) = Len(pubCh') + 1
      /\ PubOf(pubCh) = PubOf(pubCh') \cup {Head(pubCh)}
      /\ PubSorted(pubCh) => PubSorted(pubCh') /\ PubOlder({Head(pubCh)}, PubOf(pubCh'))
  BY <1>1, <1>3, LineTail, Zenon
<1>5. PubTypes'
  BY <1>1, <1>2, <1>4, Zenon DEF PubInv, PubTypes, PubBusy
<1>6. PubLine'
  <2>1. /\ PubOlder(PubOf(pubTopic), PubOf(pubCh')) /\ PubOlder(PubOf(pubTopic), PubHand')
        /\ PubOlder(PubOf(pubSink), PubOf(pubCh')) /\ PubOlder(PubOf(pubSink), PubHand')
    BY <1>2, <1>4, Zenon DEF PubInv, PubLine, PubOlder
  <2>2. PubSorted(pubCh') /\ PubOlder(PubHand', PubOf(pubCh'))
    BY <1>2, <1>4, Zenon DEF PubInv, PubLine
  <2>3. PubHand' \cup PubOf(pubCh') = PubHand \cup PubOf(pubCh)
    BY <1>2, <1>4
  <2> QED
    BY <1>1, <2>1, <2>2, <2>3, Zenon DEF PubInv, PubLine
<1>7. PubFirstOnly'
  BY <1>1 DEF PubInv, PubFirstOnly
<1>8. Len(pubCh') \in Nat
  BY <1>4
<1>9. PubBounds'
  <2>1. Len(pubCh') <= PubBuffer
    <3>1. Len(pubCh') + 1 <= PubBuffer /\ PubBuffer \in Nat
      BY <1>4, PubAssumption DEF PubInv, PubBounds
    <3> QED
      BY <1>8, <3>1
  <2> QED
    BY <1>1, <1>2, <2>1 DEF PubInv, PubBounds, PubUncounted, PubOk
<1>10. PubSum'
  <2>1. /\ PubIn(pubAcks, PubCounted)' = PubIn(pubAcks, PubCounted) /\ PubOffered' = PubOffered /\ PubEntering' = PubEntering
    BY <1>1, Zenon DEF PubCounted, PubOffered, PubEntering
  <2>2. /\ PubOffered \in Nat /\ PubEntering \in Nat /\ PubTaken \in Nat /\ Len(pubCh) \in Nat /\ pubInflight \in Nat
        /\ pubPublished \in Nat /\ pubFailures \in Nat /\ PubIn(pubAcks, PubCounted) \in Nat
    BY PubNumbers
  <2>3. PubTotal(PubEntering, 1, Len(pubCh'), pubInflight, PubIn(pubAcks, PubCounted), pubPublished, pubFailures)
          = PubTotal(PubEntering, 0, Len(pubCh') + 1, pubInflight, PubIn(pubAcks, PubCounted), pubPublished, pubFailures)
    BY <1>8, <2>2 DEF PubTotal
  <2>4. Len(pubCh) = Len(pubCh') + 1 /\ PubTaken = 0 /\ PubTaken' = 1
    BY <1>2, <1>4
  <2> QED
    BY <1>1, <2>1, <2>3, <2>4, Zenon DEF PubInv, PubSum
<1> QED
  BY <1>5, <1>6, <1>7, <1>9, <1>10 DEF PubInv

(* The drain goroutine sees stop, or that nothing is left. *)
LEMMA PubIdleKeeps ==
    ASSUME PubInv, PubStopSeen \/ PubDrained
    PROVE  PubInv'
<1>1. /\ pubRun \in {"select", "drain"} /\ pubRun' \in {"drain", "done"} /\ pubHandler' = pubHandler
      /\ pubCh' = pubCh /\ pubAbandoned' = pubAbandoned /\ pubClose' = pubClose
      /\ pubInflight' = pubInflight /\ pubPublished' = pubPublished /\ pubFailures' = pubFailures
      /\ pubSink' = pubSink /\ pubAcks' = pubAcks /\ pubTopic' = pubTopic
  BY DEF PubStopSeen, PubDrained, pubClosing, pubCounters
<1>2. PubTaken' = PubTaken /\ PubHolding' = PubHolding /\ PubHand = {} /\ PubHand' = {}
  BY <1>1 DEF PubTaken, PubHolding, PubHand, PubBusy
<1>3. PubTypes'
  BY <1>1, <1>2 DEF PubInv, PubTypes
<1>4. PubLine'
  BY <1>1, <1>2, Zenon DEF PubInv, PubLine
<1>5. PubFirstOnly'
  BY <1>1 DEF PubInv, PubFirstOnly
<1>6. PubBounds'
  BY <1>1, <1>2, Zenon DEF PubInv, PubBounds, PubUncounted, PubOk
<1>7. PubSum'
  BY <1>1, <1>2, Zenon DEF PubInv, PubSum, PubCounted, PubOffered, PubEntering
<1> QED
  BY <1>3, <1>4, <1>5, <1>6, <1>7 DEF PubInv

(* The event is refused by the encoder, or counted as in flight. *)
LEMMA PubEncodeKeeps ==
    ASSUME PubInv, PubEncode
    PROVE  PubInv'
<1>1. /\ pubRun \in {"send", "sendLast"} /\ pubHandler' = pubHandler
      /\ pubCh' = pubCh /\ pubAbandoned' = pubAbandoned /\ pubClose' = pubClose
      /\ pubPublished' = pubPublished /\ pubSink' = pubSink /\ pubAcks' = pubAcks /\ pubTopic' = pubTopic
      /\ \/ pubFailures' = pubFailures + 1 /\ pubRun' \in {"select", "drain"} /\ pubInflight' = pubInflight
         \/ /\ pubInflight' = pubInflight + 1 /\ pubRun' \in {"produce", "produceLast"} /\ pubItem' = pubItem
            /\ pubFailures' = pubFailures
  BY Zenon DEF PubEncode, PubBack, pubClosing
<1>2. /\ PubOffered \in Nat /\ PubEntering \in Nat /\ PubTaken \in Nat /\ Len(pubCh) \in Nat /\ pubInflight \in Nat
      /\ pubPublished \in Nat /\ pubFailures \in Nat /\ PubIn(pubAcks, PubCounted) \in Nat
      /\ Len(pubSink) \in Nat /\ PubIn(pubAcks, PubUncounted) \in Nat
  BY PubNumbers, Zenon
<1>3. PubTaken = 1 /\ PubTaken' = 0 /\ PubHolding = 0 /\ PubHand' \subseteq PubHand
  BY <1>1, Zenon DEF PubTaken, PubHolding, PubHand, PubBusy
<1>4. /\ PubIn(pubAcks, PubCounted)' = PubIn(pubAcks, PubCounted) /\ PubOffered' = PubOffered /\ PubEntering' = PubEntering
      /\ PubIn(pubAcks, PubUncounted)' = PubIn(pubAcks, PubUncounted) /\ PubIn(pubAcks, PubOk)' = PubIn(pubAcks, PubOk)
  BY <1>1, Zenon DEF PubCounted, PubUncounted, PubOk, PubOffered, PubEntering
<1>5. PubTypes'
  <2>1. /\ pubInflight' \in Nat /\ pubFailures' \in Nat /\ pubRun' \in {"select", "drain", "done"} \cup PubBusy
        /\ PubHand' \subseteq PubEvent
    BY <1>1, <1>2, <1>3 DEF PubInv, PubTypes, PubBusy
  <2> QED
    BY <1>1, <1>2, <2>1, Zenon DEF PubInv, PubTypes
<1>6. PubLine'
  BY <1>1, <1>3, Zenon DEF PubInv, PubLine, PubOlder
<1>7. PubFirstOnly'
  BY <1>1 DEF PubInv, PubFirstOnly
<1>8. CASE pubFailures' = pubFailures + 1 /\ pubRun' \in {"select", "drain"} /\ pubInflight' = pubInflight
  <2>1. PubHolding' = 0
    BY <1>8 DEF PubHolding
  <2>2. PubBounds'
    BY <1>1, <1>3, <1>4, <1>8, <2>1, Zenon DEF PubInv, PubBounds
  <2>3. ~pubAbandoned => PubOffered = PubTotal(PubEntering, 0, Len(pubCh), pubInflight,
                                               PubIn(pubAcks, PubCounted), pubPublished, pubFailures + 1)
    <3>1. PubTotal(PubEntering, 0, Len(pubCh), pubInflight, PubIn(pubAcks, PubCounted), pubPublished, pubFailures + 1)
          = PubTotal(PubEntering, 1, Len(pubCh), pubInflight, PubIn(pubAcks, PubCounted), pubPublished, pubFailures)
      BY <1>2 DEF PubTotal
    <3> QED
      BY <1>2, <1>3, <3>1, Zenon DEF PubInv, PubSum
  <2>4. PubSum'
    BY <1>1, <1>3, <1>4, <1>8, <2>3, Zenon DEF PubInv, PubSum
  <2> QED
    BY <1>5, <1>6, <1>7, <2>2, <2>4 DEF PubInv
<1>9. CASE pubFailures' = pubFailures /\ pubRun' \in {"produce", "produceLast"} /\ pubInflight' = pubInflight + 1
  <2>1. PubHolding' = 1
    BY <1>9 DEF PubHolding
  <2>2. PubBounds'
    BY <1>1, <1>2, <1>3, <1>4, <1>9, <2>1 DEF PubInv, PubBounds
  <2>3. ~pubAbandoned => PubOffered = PubTotal(PubEntering, 0, Len(pubCh), pubInflight + 1,
                                               PubIn(pubAcks, PubCounted), pubPublished, pubFailures)
    <3>1. PubTotal(PubEntering, 0, Len(pubCh), pubInflight + 1, PubIn(pubAcks, PubCounted), pubPublished, pubFailures)
          = PubTotal(PubEntering, 1, Len(pubCh), pubInflight, PubIn(pubAcks, PubCounted), pubPublished, pubFailures)
      BY <1>2 DEF PubTotal
    <3> QED
      BY <1>2, <1>3, <3>1, Zenon DEF PubInv, PubSum
  <2>4. PubSum'
    BY <1>1, <1>3, <1>4, <1>9, <2>3, Zenon DEF PubInv, PubSum
  <2> QED
    BY <1>5, <1>6, <1>7, <2>2, <2>4 DEF PubInv
<1> QED
  BY <1>1, <1>8, <1>9

(* What the model counts, in the terms of the invariant. *)
LEMMA PubCounts ==
    ASSUME PubTypes
    PROVE  /\ PubCount = Len(pubSink) + PubIn(pubAcks, PubUncounted)
           /\ PubLanding = PubIn(pubAcks, PubCounted)
<1>1. pubAcks \in Seq(PubAck)
  BY DEF PubTypes
<1>2. \A i \in DOMAIN pubAcks : pubAcks[i] \in PubAck
  BY <1>1
<1>3. /\ {i \in DOMAIN pubAcks : ~pubAcks[i].counted} = {i \in DOMAIN pubAcks : pubAcks[i] \in PubUncounted}
      /\ {i \in DOMAIN pubAcks : pubAcks[i].counted} = {i \in DOMAIN pubAcks : pubAcks[i] \in PubCounted}
  BY <1>2 DEF PubUncounted, PubCounted
<1> QED
  BY <1>3, Zenon DEF PubCount, PubLanding, PubIn

(* The client takes the record, or refuses it and it is counted. *)
LEMMA PubProduceKeeps ==
    ASSUME PubInv, PubProduce
    PROVE  PubInv'
<1>1. /\ pubRun \in {"produce", "produceLast"} /\ pubRun' \in {"select", "drain"} /\ pubHandler' = pubHandler
      /\ pubCh' = pubCh /\ pubAbandoned' = pubAbandoned /\ pubClose' = pubClose
      /\ pubPublished' = pubPublished /\ pubAcks' = pubAcks /\ pubTopic' = pubTopic
      /\ \/ /\ PubCount < PubMaxBuffered /\ pubSink' = Append(pubSink, pubItem) /\ pubInflight' = pubInflight
            /\ pubFailures' = pubFailures
         \/ pubInflight' = pubInflight - 1 /\ pubFailures' = pubFailures + 1 /\ pubSink' = pubSink
  BY Zenon DEF PubProduce, PubBack, pubClosing
<1>2. /\ PubOffered \in Nat /\ PubEntering \in Nat /\ PubTaken \in Nat /\ Len(pubCh) \in Nat /\ pubInflight \in Nat
      /\ pubPublished \in Nat /\ pubFailures \in Nat /\ PubIn(pubAcks, PubCounted) \in Nat
      /\ Len(pubSink) \in Nat /\ PubIn(pubAcks, PubUncounted) \in Nat /\ PubMaxBuffered \in Nat
  BY PubNumbers, Zenon
<1>3. /\ PubTaken' = PubTaken /\ PubHolding = 1 /\ PubHolding' = 0 /\ PubHand = {pubItem} /\ PubHand' = {}
  BY <1>1, Zenon DEF PubTaken, PubHolding, PubHand, PubBusy
<1>4. /\ PubIn(pubAcks, PubCounted)' = PubIn(pubAcks, PubCounted) /\ PubOffered' = PubOffered /\ PubEntering' = PubEntering
      /\ PubIn(pubAcks, PubUncounted)' = PubIn(pubAcks, PubUncounted) /\ PubIn(pubAcks, PubOk)' = PubIn(pubAcks, PubOk)
  BY <1>1, Zenon DEF PubCounted, PubUncounted, PubOk, PubOffered, PubEntering
<1>5. pubInflight = Len(pubSink) + PubIn(pubAcks, PubUncounted) + 1
  BY <1>3 DEF PubInv, PubBounds
<1>6. PubFirstOnly'
  BY <1>1 DEF PubInv, PubFirstOnly
<1>7. pubItem \in PubEvent /\ pubSink \in Seq(PubEvent)
  BY <1>3, Zenon DEF PubInv, PubTypes
<1>8. CASE PubCount < PubMaxBuffered /\ pubSink' = Append(pubSink, pubItem) /\ pubInflight' = pubInflight
           /\ pubFailures' = pubFailures
  <2>1. pubSink' \in Seq(PubEvent) /\ Len(pubSink') = Len(pubSink) + 1
    BY <1>7, <1>8
  <2>2. PubOf(pubSink') = PubOf(pubSink) \cup {pubItem} /\ (PubSorted(pubSink) /\ PubOlder(PubOf(pubSink), {pubItem}) => PubSorted(pubSink'))
    BY <1>7, <1>8, LineAppend
  <2>3. PubTypes'
    BY <1>1, <1>3, <1>8, <2>1, Zenon DEF PubInv, PubTypes
  <2>4. PubLine'
    <3>1. PubSorted(pubSink')
      BY <1>3, <2>2, Zenon DEF PubInv, PubLine
    <3>2. PubOlder(PubOf(pubTopic), PubOf(pubSink')) /\ PubOlder(PubOf(pubSink'), PubOf(pubCh))
      BY <1>3, <2>2, Zenon DEF PubInv, PubLine, PubOlder
    <3>3. PubOf(pubSink') \cup PubHand' = PubOf(pubSink) \cup PubHand
      BY <1>3, <2>2
    <3>4. \A A : PubOlder(A, PubHand') /\ PubOlder(PubHand', A)
      BY <1>3 DEF PubOlder
    <3> QED
      BY <1>1, <3>1, <3>2, <3>3, <3>4, Zenon DEF PubInv, PubLine
  <2>5. PubBounds'
    <3>1. Len(pubSink) + PubIn(pubAcks, PubUncounted) < PubMaxBuffered
      BY <1>8, PubCounts DEF PubInv
    <3>2. /\ (Len(pubSink) + 1) + PubIn(pubAcks, PubUncounted) <= PubMaxBuffered
          /\ pubInflight = (Len(pubSink) + 1) + PubIn(pubAcks, PubUncounted) + 0
      BY <1>2, <1>5, <3>1
    <3> QED
      BY <1>1, <1>3, <1>4, <1>8, <2>1, <3>2, Zenon DEF PubInv, PubBounds
  <2>6. PubSum'
    BY <1>1, <1>3, <1>4, <1>8, Zenon DEF PubInv, PubSum
  <2> QED
    BY <1>6, <2>3, <2>4, <2>5, <2>6 DEF PubInv
<1>9. CASE pubInflight' = pubInflight - 1 /\ pubFailures' = pubFailures + 1 /\ pubSink' = pubSink
  <2>0. /\ PubEntering \in Nat /\ PubTaken \in Nat /\ Len(pubCh) \in Nat /\ pubInflight \in Nat
        /\ PubIn(pubAcks, PubCounted) \in Nat /\ pubPublished \in Nat /\ pubFailures \in Nat
    BY PubNumbers, Zenon
  <2>1. pubInflight - 1 \in Nat /\ pubInflight - 1 = Len(pubSink) + PubIn(pubAcks, PubUncounted) + 0 /\ pubFailures + 1 \in Nat
    BY <1>2, <1>5
  <2>2. PubTypes'
    BY <1>1, <1>3, <1>9, <2>1, Zenon DEF PubInv, PubTypes
  <2>3. PubLine'
    BY <1>1, <1>3, <1>9, Zenon DEF PubInv, PubLine, PubOlder
  <2>4. PubBounds'
    BY <1>1, <1>3, <1>4, <1>9, <2>1, Zenon DEF PubInv, PubBounds
  <2>5. ~pubAbandoned => PubOffered = PubTotal(PubEntering, PubTaken, Len(pubCh), pubInflight - 1,
                                               PubIn(pubAcks, PubCounted), pubPublished, pubFailures + 1)
    <3>1. PubTotal(PubEntering, PubTaken, Len(pubCh), pubInflight - 1, PubIn(pubAcks, PubCounted), pubPublished, pubFailures + 1)
          = PubTotal(PubEntering, PubTaken, Len(pubCh), pubInflight, PubIn(pubAcks, PubCounted), pubPublished, pubFailures)
      BY <2>0 DEF PubTotal
    <3> QED
      BY <3>1, Zenon DEF PubInv, PubSum
  <2>6. PubSum'
    BY <1>1, <1>3, <1>4, <1>9, <2>5, Zenon DEF PubInv, PubSum
  <2> QED
    BY <1>6, <2>2, <2>3, <2>4, <2>6 DEF PubInv
<1> QED
  BY <1>1, <1>8, <1>9

(* The broker's answer to the oldest record the client holds. *)
LEMMA PubBrokerKeeps ==
    ASSUME PubInv, PubBroker
    PROVE  PubInv'
<1> DEFINE e == Head(pubSink)
<1>1. PICK stored \in BOOLEAN, ok \in BOOLEAN :
        /\ ok => stored
        /\ pubTopic' = (IF stored THEN Append(pubTopic, e) ELSE pubTopic)
        /\ pubAcks' = Append(pubAcks, [ok |-> ok, counted |-> FALSE])
  BY Zenon DEF PubBroker
<1>2. /\ pubSink # <<>> /\ pubSink' = Tail(pubSink)
      /\ pubHandler' = pubHandler /\ pubCh' = pubCh /\ pubRun' = pubRun /\ pubItem' = pubItem
      /\ pubAbandoned' = pubAbandoned /\ pubClose' = pubClose
      /\ pubInflight' = pubInflight /\ pubPublished' = pubPublished /\ pubFailures' = pubFailures
  BY DEF PubBroker, pubClosing, pubCounters
<1>3. pubSink \in Seq(PubEvent) /\ pubTopic \in Seq(PubEvent) /\ pubAcks \in Seq(PubAck)
  BY DEF PubInv, PubTypes
<1>4. /\ pubSink' \in Seq(PubEvent) /\ e \in PubEvent /\ Len(pubSink) = Len(pubSink') + 1
      /\ PubOf(pubSink) = PubOf(pubSink') \cup {e}
      /\ PubSorted(pubSink) => PubSorted(pubSink') /\ PubOlder({e}, PubOf(pubSink'))
  BY <1>2, <1>3, LineTail, Zenon
<1> DEFINE a == [ok |-> ok, counted |-> FALSE]
<1>5. /\ a \in PubAck /\ a \in PubUncounted /\ a \notin PubCounted /\ (a \in PubOk <=> ok) /\ ~a.counted
      /\ pubAcks' = Append(pubAcks, a)
  BY <1>1 DEF PubAck, PubUncounted, PubCounted, PubOk
<1> HIDE DEF a, e
<1>6. /\ pubAcks' \in Seq(PubAck)
      /\ PubIn(pubAcks', PubUncounted) = PubIn(pubAcks, PubUncounted) + 1
      /\ PubIn(pubAcks', PubCounted) = PubIn(pubAcks, PubCounted) + 0
      /\ PubIn(pubAcks', PubOk) = PubIn(pubAcks, PubOk) + (IF ok THEN 1 ELSE 0)
  BY <1>3, <1>5, AcksAppend
<1>7. PubTaken' = PubTaken /\ PubHolding' = PubHolding /\ PubHand' = PubHand
  BY <1>2 DEF PubTaken, PubHolding, PubHand, PubBusy
<1>8. /\ PubIn(pubAcks, PubCounted)' = PubIn(pubAcks', PubCounted) /\ PubOffered' = PubOffered /\ PubEntering' = PubEntering
      /\ PubIn(pubAcks, PubUncounted)' = PubIn(pubAcks', PubUncounted) /\ PubIn(pubAcks, PubOk)' = PubIn(pubAcks', PubOk)
  BY <1>2 DEF PubCounted, PubUncounted, PubOk, PubOffered, PubEntering
<1>9. /\ PubIn(pubAcks, PubUncounted) \in Nat /\ PubIn(pubAcks, PubCounted) \in Nat /\ PubIn(pubAcks, PubOk) \in Nat
      /\ Len(pubSink') \in Nat /\ Len(pubTopic) \in Nat /\ pubPublished \in Nat /\ PubHolding \in Nat
  <2>1. Len(pubSink') \in Nat
    BY <1>4
  <2> QED
    BY <2>1, PubNumbers
<1>10. /\ pubTopic' \in Seq(PubEvent)
       /\ Len(pubTopic') = Len(pubTopic) + (IF stored THEN 1 ELSE 0)
       /\ PubOf(pubTopic') \subseteq PubOf(pubTopic) \cup {e}
       /\ PubSorted(pubTopic) /\ PubOlder(PubOf(pubTopic), {e}) => PubSorted(pubTopic')
  <2>1. CASE stored
    <3>1. pubTopic' = Append(pubTopic, e)
      BY <1>1, <2>1
    <3>2. pubTopic' \in Seq(PubEvent) /\ Len(pubTopic') = Len(pubTopic) + 1
      BY <1>3, <1>4, <3>1
    <3>3. PubOf(pubTopic') = PubOf(pubTopic) \cup {e} /\ (PubSorted(pubTopic) /\ PubOlder(PubOf(pubTopic), {e}) => PubSorted(pubTopic'))
      BY <1>3, <1>4, <3>1, LineAppend, Zenon
    <3> QED
      BY <2>1, <3>2, <3>3
  <2>2. CASE ~stored
    BY <1>1, <1>3, <1>9, <2>2
  <2> QED
    BY <2>1, <2>2
<1>11. PubTypes'
  BY <1>2, <1>4, <1>6, <1>7, <1>10, Zenon DEF PubInv, PubTypes
<1>12. PubLine'
  <2>1. PubSorted(pubSink') /\ PubOlder({e}, PubOf(pubSink'))
    BY <1>4, Zenon DEF PubInv, PubLine
  <2>2. PubSorted(pubTopic')
    <3>1. PubOlder(PubOf(pubTopic), {e})
      BY <1>4, Zenon DEF PubInv, PubLine, PubOlder
    <3> QED
      BY <1>10, <3>1, Zenon DEF PubInv, PubLine
  <2>3. PubOlder(PubOf(pubTopic'), PubOf(pubSink'))
    BY <1>4, <1>10, <2>1, Zenon DEF PubInv, PubLine, PubOlder
  <2>4. PubOlder(PubOf(pubTopic'), PubHand) /\ PubOlder(PubOf(pubTopic'), PubOf(pubCh))
    BY <1>4, <1>10, Zenon DEF PubInv, PubLine, PubOlder
  <2>5. PubOlder(PubOf(pubSink'), PubHand) /\ PubOlder(PubOf(pubSink'), PubOf(pubCh))
    BY <1>4, Zenon DEF PubInv, PubLine, PubOlder
  <2>6. PubOf(pubTopic') \cup PubOf(pubSink') \subseteq PubOf(pubTopic) \cup PubOf(pubSink)
    BY <1>4, <1>10
  <2> QED
    BY <1>2, <1>7, <2>1, <2>2, <2>3, <2>4, <2>5, <2>6, Zenon DEF PubInv, PubLine
<1>13. PubFirstOnly'
  <2>1. \A i \in DOMAIN pubAcks' : (i \in DOMAIN pubAcks /\ pubAcks'[i] = pubAcks[i]) \/ pubAcks'[i] = a
    BY <1>3, <1>5
  <2> QED
    BY <1>5, <2>1, Zenon DEF PubInv, PubFirstOnly
<1>14. PubBounds'
  <2>1. /\ Len(pubSink') + (PubIn(pubAcks, PubUncounted) + 1) <= PubMaxBuffered
        /\ pubInflight = Len(pubSink') + (PubIn(pubAcks, PubUncounted) + 1) + PubHolding
    <3>1. /\ (Len(pubSink') + 1) + PubIn(pubAcks, PubUncounted) <= PubMaxBuffered
          /\ pubInflight = (Len(pubSink') + 1) + PubIn(pubAcks, PubUncounted) + PubHolding
      BY <1>4, Zenon DEF PubInv, PubBounds
    <3>2. PubMaxBuffered \in Nat /\ pubInflight \in Nat
      BY PubNumbers
    <3> QED
      BY <1>9, <3>1, <3>2
  <2>2. pubPublished + PubIn(pubAcks, PubOk)' <= Len(pubTopic')
    <3>1. pubPublished + PubIn(pubAcks, PubOk) <= Len(pubTopic)
      BY Zenon DEF PubInv, PubBounds
    <3>2. CASE ok
      BY <1>1, <1>6, <1>8, <1>9, <1>10, <3>1, <3>2
    <3>3. CASE ~ok
      BY <1>6, <1>8, <1>9, <1>10, <3>1, <3>3
    <3> QED
      BY <3>2, <3>3
  <2> QED
    BY <1>2, <1>6, <1>7, <1>8, <2>1, <2>2, Zenon DEF PubInv, PubBounds
<1>15. PubSum'
  <2>1. PubIn(pubAcks, PubCounted)' = PubIn(pubAcks, PubCounted)
    BY <1>6, <1>8, <1>9
  <2> QED
    BY <1>2, <1>7, <1>8, <2>1, Zenon DEF PubInv, PubSum
<1> QED
  BY <1>11, <1>12, <1>13, <1>14, <1>15, Zenon DEF PubInv

(* An acknowledgement's first step: the record is no longer in flight. *)
LEMMA PubLandedKeeps ==
    ASSUME PubInv, PubLanded
    PROVE  PubInv'
<1> DEFINE a == Head(pubAcks)
           b == [a EXCEPT !.counted = TRUE]
<1>1. /\ pubAcks # <<>> /\ ~a.counted /\ pubAcks' = [pubAcks EXCEPT ![1].counted = TRUE] /\ pubInflight' = pubInflight - 1
      /\ pubHandler' = pubHandler /\ pubCh' = pubCh /\ pubRun' = pubRun /\ pubItem' = pubItem
      /\ pubAbandoned' = pubAbandoned /\ pubClose' = pubClose /\ pubPublished' = pubPublished /\ pubFailures' = pubFailures
      /\ pubSink' = pubSink /\ pubTopic' = pubTopic
  BY DEF PubLanded, pubClosing
<1>2. pubAcks \in Seq(PubAck) /\ a = pubAcks[1] /\ a \in PubAck /\ 1 \in DOMAIN pubAcks
  BY <1>1 DEF PubInv, PubTypes
<1>3. /\ b \in PubAck /\ b.ok = a.ok /\ b.counted
      /\ a \in PubUncounted /\ a \notin PubCounted /\ b \notin PubUncounted /\ b \in PubCounted /\ (a \in PubOk <=> b \in PubOk)
  BY <1>1, <1>2, Zenon DEF PubAck, PubUncounted, PubCounted, PubOk
<1>4. pubAcks' = [pubAcks EXCEPT ![1] = b]
  BY <1>1, <1>2
<1> HIDE DEF a, b
<1>5. /\ pubAcks' \in Seq(PubAck) /\ pubAcks' # <<>> /\ Head(pubAcks') = b /\ Tail(pubAcks') = Tail(pubAcks)
      /\ DOMAIN pubAcks' = DOMAIN pubAcks /\ \A i \in DOMAIN pubAcks : i # 1 => pubAcks'[i] = pubAcks[i]
  <2>1. /\ pubAcks' \in Seq(PubAck) /\ Len(pubAcks') = Len(pubAcks) /\ Len(pubAcks) \in Nat /\ Len(pubAcks) # 0
        /\ pubAcks'[1] = b /\ \A i \in 1 .. Len(pubAcks) : i # 1 => pubAcks'[i] = pubAcks[i]
    <3>1. DOMAIN pubAcks = 1 .. Len(pubAcks) /\ Len(pubAcks) \in Nat /\ Len(pubAcks) # 0 /\ pubAcks \in [1 .. Len(pubAcks) -> PubAck]
      BY <1>1, <1>2
    <3>2. pubAcks' \in [1 .. Len(pubAcks) -> PubAck] /\ pubAcks'[1] = b /\ \A i \in 1 .. Len(pubAcks) : i # 1 => pubAcks'[i] = pubAcks[i]
      BY <1>3, <1>4, <3>1
    <3>3. pubAcks' \in Seq(PubAck) /\ Len(pubAcks') = Len(pubAcks)
      BY <3>1, <3>2
    <3> QED
      BY <3>1, <3>2, <3>3
  <2>2. pubAcks' # <<>> /\ Head(pubAcks') = b /\ DOMAIN pubAcks' = DOMAIN pubAcks /\ DOMAIN pubAcks = 1 .. Len(pubAcks)
    BY <1>2, <2>1
  <2>3. Tail(pubAcks') = Tail(pubAcks)
    <3>1. /\ Tail(pubAcks) \in Seq(PubAck) /\ Len(Tail(pubAcks)) = Len(pubAcks) - 1
          /\ \A i \in 1 .. Len(pubAcks) - 1 : Tail(pubAcks)[i] = pubAcks[i + 1]
      BY <1>1, <1>2
    <3>2. /\ Tail(pubAcks') \in Seq(PubAck) /\ Len(Tail(pubAcks')) = Len(pubAcks) - 1
          /\ \A i \in 1 .. Len(pubAcks) - 1 : Tail(pubAcks')[i] = pubAcks'[i + 1]
      BY <2>1, <2>2
    <3>3. \A i \in 1 .. Len(pubAcks) - 1 : pubAcks'[i + 1] = pubAcks[i + 1]
      <4> TAKE i \in 1 .. Len(pubAcks) - 1
      <4>1. i + 1 \in 1 .. Len(pubAcks) /\ i + 1 # 1
        BY <2>1
      <4> QED
        BY <2>1, <4>1, Zenon
    <3> DEFINE s == Tail(pubAcks)
               t == Tail(pubAcks')
    <3>4. s \in Seq(PubAck) /\ t \in Seq(PubAck) /\ Len(s) = Len(t) /\ \A i \in 1 .. Len(s) : s[i] = t[i]
      BY <3>1, <3>2, <3>3, Zenon
    <3> HIDE DEF s, t
    <3>5. s = t
      BY <3>4
    <3> QED
      BY <3>5, Zenon DEF s, t
  <2> QED
    BY <2>1, <2>2, <2>3, Zenon
<1>6. /\ \A A : PubIn(pubAcks, A) = PubIn(Tail(pubAcks), A) + (IF a \in A THEN 1 ELSE 0)
      /\ \A A : PubIn(pubAcks', A) = PubIn(Tail(pubAcks), A) + (IF b \in A THEN 1 ELSE 0)
      /\ \A A : PubIn(Tail(pubAcks), A) \in Nat
  <2>1. Tail(pubAcks) \in Seq(PubAck)
    BY <1>1, <1>2
  <2>2. \A A : PubIn(pubAcks, A) = PubIn(Tail(pubAcks), A) + (IF a \in A THEN 1 ELSE 0)
    BY <1>1, <1>2, AcksTail DEF a
  <2>3. \A A : PubIn(pubAcks', A) = PubIn(Tail(pubAcks'), A) + (IF Head(pubAcks') \in A THEN 1 ELSE 0)
    BY <1>5, AcksTail
  <2>4. \A A : PubIn(Tail(pubAcks), A) \in Nat
    BY <2>1, AcksType, Zenon
  <2> QED
    BY <1>5, <2>2, <2>3, <2>4, Zenon
<1>7. /\ PubIn(pubAcks', PubUncounted) = PubIn(pubAcks, PubUncounted) - 1 /\ PubIn(pubAcks, PubUncounted) \in Nat \ {0}
      /\ PubIn(pubAcks', PubCounted) = PubIn(pubAcks, PubCounted) + 1 /\ PubIn(pubAcks', PubOk) = PubIn(pubAcks, PubOk)
  BY <1>3, <1>6
<1>8. PubTaken' = PubTaken /\ PubHolding' = PubHolding /\ PubHand' = PubHand
  BY <1>1 DEF PubTaken, PubHolding, PubHand, PubBusy
<1>9. /\ PubIn(pubAcks, PubCounted)' = PubIn(pubAcks', PubCounted) /\ PubOffered' = PubOffered /\ PubEntering' = PubEntering
      /\ PubIn(pubAcks, PubUncounted)' = PubIn(pubAcks', PubUncounted) /\ PubIn(pubAcks, PubOk)' = PubIn(pubAcks', PubOk)
  BY <1>1 DEF PubCounted, PubUncounted, PubOk, PubOffered, PubEntering
<1>10. /\ PubOffered \in Nat /\ PubEntering \in Nat /\ PubTaken \in Nat /\ Len(pubCh) \in Nat /\ pubInflight \in Nat
       /\ pubPublished \in Nat /\ pubFailures \in Nat /\ PubIn(pubAcks, PubCounted) \in Nat
       /\ Len(pubSink) \in Nat /\ PubMaxBuffered \in Nat /\ PubHolding \in Nat
  BY PubNumbers, Zenon
<1>11. /\ pubInflight - 1 \in Nat /\ Len(pubSink) + (PubIn(pubAcks, PubUncounted) - 1) <= PubMaxBuffered
       /\ pubInflight - 1 = Len(pubSink) + (PubIn(pubAcks, PubUncounted) - 1) + PubHolding
  <2>1. /\ Len(pubSink) + PubIn(pubAcks, PubUncounted) <= PubMaxBuffered
        /\ pubInflight = Len(pubSink) + PubIn(pubAcks, PubUncounted) + PubHolding
    BY DEF PubInv, PubBounds
  <2>2. PubIn(pubAcks, PubUncounted) \in Nat /\ PubIn(pubAcks, PubUncounted) # 0
    BY <1>7
  <2> DEFINE w == PubIn(pubAcks, PubUncounted)
  <2> HIDE DEF w
  <2>3. /\ w \in Nat /\ w # 0 /\ Len(pubSink) + w <= PubMaxBuffered /\ pubInflight = Len(pubSink) + w + PubHolding
    BY <2>1, <2>2 DEF w
  <2>4. /\ pubInflight - 1 \in Nat /\ Len(pubSink) + (w - 1) <= PubMaxBuffered
        /\ pubInflight - 1 = Len(pubSink) + (w - 1) + PubHolding
    BY <1>10, <2>3
  <2> QED
    BY <2>4 DEF w
<1>12. PubTypes'
  BY <1>1, <1>5, <1>8, <1>11, Zenon DEF PubInv, PubTypes
<1>13. PubLine'
  BY <1>1, <1>8 DEF PubInv, PubLine
<1>14. PubFirstOnly'
  BY <1>5 DEF PubInv, PubFirstOnly
<1>15. PubBounds'
  BY <1>1, <1>7, <1>8, <1>9, <1>11 DEF PubInv, PubBounds
<1>16. ~pubAbandoned => PubOffered = PubTotal(PubEntering, PubTaken, Len(pubCh), pubInflight - 1,
                                              PubIn(pubAcks, PubCounted) + 1, pubPublished, pubFailures)
  <2>1. PubTotal(PubEntering, PubTaken, Len(pubCh), pubInflight - 1, PubIn(pubAcks, PubCounted) + 1, pubPublished, pubFailures)
      = PubTotal(PubEntering, PubTaken, Len(pubCh), pubInflight, PubIn(pubAcks, PubCounted), pubPublished, pubFailures)
    BY <1>10 DEF PubTotal
  <2> QED
    BY <1>10, <2>1, Zenon DEF PubInv, PubSum
<1>17. PubSum'
  BY <1>1, <1>7, <1>8, <1>9, <1>16 DEF PubInv, PubSum
<1> QED
  BY <1>12, <1>13, <1>14, <1>15, <1>17 DEF PubInv

(* Its second step: the record is counted, unless Close has. *)
LEMMA PubDeliveredKeeps ==
    ASSUME PubInv, PubDelivered
    PROVE  PubInv'
<1> DEFINE a == Head(pubAcks)
<1>1. /\ pubAcks # <<>> /\ a.counted /\ pubAcks' = Tail(pubAcks)
      /\ pubPublished' = (IF ~pubAbandoned /\ a.ok THEN pubPublished + 1 ELSE pubPublished)
      /\ pubFailures' = (IF ~pubAbandoned /\ ~a.ok THEN pubFailures + 1 ELSE pubFailures)
      /\ pubHandler' = pubHandler /\ pubCh' = pubCh /\ pubRun' = pubRun /\ pubItem' = pubItem
      /\ pubAbandoned' = pubAbandoned /\ pubClose' = pubClose /\ pubInflight' = pubInflight
      /\ pubSink' = pubSink /\ pubTopic' = pubTopic
  BY Zenon DEF PubDelivered, pubClosing
<1>2. pubAcks \in Seq(PubAck) /\ a \in PubAck /\ pubAcks' \in Seq(PubAck)
  BY <1>1 DEF PubInv, PubTypes
<1>3. a \notin PubUncounted /\ a \in PubCounted /\ (a \in PubOk <=> a.ok)
  BY <1>1, <1>2, Zenon DEF PubUncounted, PubCounted, PubOk
<1> HIDE DEF a
<1>4. \A A : PubIn(pubAcks, A) = PubIn(pubAcks', A) + (IF a \in A THEN 1 ELSE 0)
  BY <1>1, <1>2, AcksTail DEF a
<1>5. \A A : PubIn(pubAcks', A) \in Nat
  BY <1>2, AcksType, Zenon
<1>6. /\ PubIn(pubAcks, PubUncounted) = PubIn(pubAcks', PubUncounted)
      /\ PubIn(pubAcks, PubCounted) = PubIn(pubAcks', PubCounted) + 1
      /\ a.ok => PubIn(pubAcks, PubOk) = PubIn(pubAcks', PubOk) + 1
      /\ ~a.ok => PubIn(pubAcks, PubOk) = PubIn(pubAcks', PubOk)
      /\ PubIn(pubAcks', PubUncounted) \in Nat /\ PubIn(pubAcks', PubCounted) \in Nat /\ PubIn(pubAcks', PubOk) \in Nat
  BY <1>3, <1>4, <1>5
<1>7. PubTaken' = PubTaken /\ PubHolding' = PubHolding /\ PubHand' = PubHand
  BY <1>1, Zenon DEF PubTaken, PubHolding, PubHand, PubBusy
<1>8. /\ PubIn(pubAcks, PubCounted)' = PubIn(pubAcks', PubCounted) /\ PubOffered' = PubOffered /\ PubEntering' = PubEntering
      /\ PubIn(pubAcks, PubUncounted)' = PubIn(pubAcks', PubUncounted) /\ PubIn(pubAcks, PubOk)' = PubIn(pubAcks', PubOk)
  BY <1>1, Zenon DEF PubCounted, PubUncounted, PubOk, PubOffered, PubEntering
<1>9. /\ PubOffered \in Nat /\ PubEntering \in Nat /\ PubTaken \in Nat /\ Len(pubCh) \in Nat /\ pubInflight \in Nat
      /\ pubPublished \in Nat /\ pubFailures \in Nat /\ Len(pubTopic) \in Nat
  BY PubNumbers, Zenon
<1>10. pubPublished' \in Nat /\ pubFailures' \in Nat
  BY <1>1, <1>9
<1>11. PubTypes'
  BY <1>1, <1>2, <1>7, <1>10, Zenon DEF PubInv, PubTypes
<1>12. PubLine'
  BY <1>1, <1>7, Zenon DEF PubInv, PubLine
<1>13. PubFirstOnly'
  <2>1. \A i \in DOMAIN pubAcks' : i + 1 \in DOMAIN pubAcks /\ i + 1 # 1 /\ pubAcks'[i] = pubAcks[i + 1]
    BY <1>1, <1>2
  <2> QED
    BY <2>1, Zenon DEF PubInv, PubFirstOnly
<1>14. PubBounds'
  <2>1. pubPublished + PubIn(pubAcks, PubOk) <= Len(pubTopic)
    BY DEF PubInv, PubBounds
  <2>2. pubPublished' + PubIn(pubAcks', PubOk) <= Len(pubTopic)
    <3>1. CASE a.ok
      BY <1>1, <1>6, <1>9, <2>1, <3>1
    <3>2. CASE ~a.ok
      BY <1>1, <1>6, <1>9, <2>1, <3>2, Zenon
    <3> QED
      BY <3>1, <3>2, Zenon
  <2> QED
    BY <1>1, <1>6, <1>7, <1>8, <2>2, Zenon DEF PubInv, PubBounds
<1>15. PubSum'
  <2>3. /\ PubEntering \in Nat /\ PubTaken \in Nat /\ Len(pubCh) \in Nat /\ pubInflight \in Nat
        /\ PubIn(pubAcks', PubCounted) \in Nat /\ pubPublished \in Nat /\ pubFailures \in Nat
    BY <1>6, <1>9, Zenon
  <2>1. CASE pubAbandoned
    BY <1>1, <2>1 DEF PubSum
  <2>2. CASE ~pubAbandoned
    <3>1. PubOffered = PubTotal(PubEntering, PubTaken, Len(pubCh), pubInflight,
                                PubIn(pubAcks', PubCounted) + 1, pubPublished, pubFailures)
      BY <1>6, <2>2, Zenon DEF PubInv, PubSum
    <3>2. CASE a.ok
      <4>1. pubPublished' = pubPublished + 1 /\ pubFailures' = pubFailures
        BY <1>1, <2>2, <3>2
      <4>2. PubOffered = PubTotal(PubEntering, PubTaken, Len(pubCh), pubInflight,
                                  PubIn(pubAcks', PubCounted), pubPublished + 1, pubFailures)
        <5>1. PubTotal(PubEntering, PubTaken, Len(pubCh), pubInflight, PubIn(pubAcks', PubCounted), pubPublished + 1, pubFailures)
                = PubTotal(PubEntering, PubTaken, Len(pubCh), pubInflight, PubIn(pubAcks', PubCounted) + 1, pubPublished, pubFailures)
          BY <2>3 DEF PubTotal
        <5> QED
          BY <3>1, <5>1, Zenon
      <4> QED
        BY <1>1, <1>7, <1>8, <4>1, <4>2, Zenon DEF PubInv, PubSum
    <3>3. CASE ~a.ok
      <4>1. pubPublished' = pubPublished /\ pubFailures' = pubFailures + 1
        BY <1>1, <2>2, <3>3
      <4>2. PubOffered = PubTotal(PubEntering, PubTaken, Len(pubCh), pubInflight,
                                  PubIn(pubAcks', PubCounted), pubPublished, pubFailures + 1)
        <5>1. PubTotal(PubEntering, PubTaken, Len(pubCh), pubInflight, PubIn(pubAcks', PubCounted), pubPublished, pubFailures + 1)
                = PubTotal(PubEntering, PubTaken, Len(pubCh), pubInflight, PubIn(pubAcks', PubCounted) + 1, pubPublished, pubFailures)
          <6> DEFINE c == PubIn(pubAcks', PubCounted)
                     x == PubEntering + PubTaken + Len(pubCh) + pubInflight
          <6>1. c \in Nat /\ x \in Nat /\ pubPublished \in Nat /\ pubFailures \in Nat
            BY <2>3
          <6> HIDE DEF c, x
          <6>2. x + c + pubPublished + (pubFailures + 1) = x + (c + 1) + pubPublished + pubFailures
            BY <6>1
          <6> QED
            BY <6>2, Zenon DEF c, x, PubTotal
        <5> QED
          BY <3>1, <5>1, Zenon
      <4> QED
        BY <1>1, <1>7, <1>8, <4>1, <4>2, Zenon DEF PubInv, PubSum
    <3> QED
      BY <3>2, <3>3, Zenon
  <2> QED
    BY <2>1, <2>2, Zenon
<1> QED
  BY <1>11, <1>12, <1>13, <1>14, <1>15 DEF PubInv

(* Close's own steps move nothing; it gives up before it counts. *)
LEMMA PubCloseKeeps ==
    ASSUME PubInv, PubCloseStart \/ PubClosure
    PROVE  PubInv'
<1>1. /\ pubHandler' = pubHandler /\ pubCh' = pubCh /\ pubRun' = pubRun /\ pubItem' = pubItem
      /\ pubInflight' = pubInflight /\ pubPublished' = pubPublished
      /\ pubSink' = pubSink /\ pubAcks' = pubAcks /\ pubTopic' = pubTopic
      /\ \/ pubAbandoned' = pubAbandoned /\ pubFailures' = pubFailures /\ pubClose' \in {"draining", "flushing"}
         \/ pubAbandoned' = TRUE /\ pubFailures' = pubFailures
         \/ /\ pubClose = "count" /\ pubClose' = "closed" /\ pubAbandoned' = pubAbandoned
            /\ pubFailures' = pubFailures + Len(pubCh) + pubInflight
  BY Zenon DEF PubCloseStart, PubClosure, PubFlush, PubAbandon, PubCountLost, pubCounters
<1>2. pubFailures' \in Nat
  <2>1. pubFailures \in Nat /\ Len(pubCh) \in Nat /\ pubInflight \in Nat
    BY PubNumbers, Zenon
  <2> QED
    BY <1>1, <2>1
<1>3. PubTaken' = PubTaken /\ PubHolding' = PubHolding /\ PubHand' = PubHand
  BY <1>1, Zenon DEF PubTaken, PubHolding, PubHand, PubBusy
<1>4. PubTypes'
  BY <1>1, <1>2, <1>3, Zenon DEF PubInv, PubTypes
<1>5. PubLine'
  BY <1>1, <1>3, Zenon DEF PubInv, PubLine
<1>6. PubFirstOnly'
  BY <1>1 DEF PubInv, PubFirstOnly
<1>7. PubBounds'
  BY <1>1, <1>3, Zenon DEF PubInv, PubBounds, PubUncounted, PubOk
<1>8. PubSum'
  BY <1>1, <1>3, Zenon DEF PubInv, PubSum, PubCounted, PubOffered, PubEntering
<1> QED
  BY <1>4, <1>5, <1>6, <1>7, <1>8 DEF PubInv

LEMMA PubSteps == PubInv /\ [PubNext]_pubVars => PubInv'
<1> SUFFICES ASSUME PubInv, [PubNext]_pubVars
             PROVE  PubInv'
  OBVIOUS
<1>1. ASSUME NEW h \in PubHandlers, PubEnqueue(h) PROVE PubInv'
  BY <1>1, PubEnqueueKeeps
<1>2. ASSUME NEW h \in PubHandlers, PubOffer(h) PROVE PubInv'
  BY <1>2, PubOfferKeeps
<1>3. CASE PubTake
  BY <1>3, PubTakeKeeps
<1>4. CASE PubStopSeen \/ PubDrained
  BY <1>4, PubIdleKeeps
<1>5. CASE PubEncode
  BY <1>5, PubEncodeKeeps
<1>6. CASE PubProduce
  BY <1>6, PubProduceKeeps
<1>7. CASE PubBroker
  BY <1>7, PubBrokerKeeps
<1>8. CASE PubLanded
  BY <1>8, PubLandedKeeps
<1>9. CASE PubDelivered
  BY <1>9, PubDeliveredKeeps
<1>10. CASE PubCloseStart \/ PubClosure
  BY <1>10, PubCloseKeeps
<1>11. CASE UNCHANGED pubVars
  BY <1>11, Zenon DEF PubInv, PubTypes, PubLine, PubFirstOnly, PubBounds, PubSum, PubHand, PubBusy, PubTaken, PubHolding, PubOffered,
               PubEntering, PubUncounted, PubCounted, PubOk, pubVars
<1> QED
  BY <1>1, <1>2, <1>3, <1>4, <1>5, <1>6, <1>7, <1>8, <1>9, <1>10, <1>11, Zenon DEF PubNext, PubDrain

LEMMA PubInvImplies == PubInv => PubSafe
<1> SUFFICES ASSUME PubInv
             PROVE  PubSafe
  OBVIOUS
<1>1. PubCount = Len(pubSink) + PubIn(pubAcks, PubUncounted) /\ PubLanding = PubIn(pubAcks, PubCounted)
  BY PubCounts DEF PubInv
<1>2. PubTypeOK
  BY <1>1 DEF PubInv, PubBounds, PubTypeOK, PubHolding
<1>3. PubAccounted
  <2>1. PubInHands = PubEntering + PubTaken
    BY Zenon DEF PubInHands, PubEntering, PubTaken
  <2> QED
    BY <1>1, <2>1, Zenon DEF PubInv, PubSum, PubAccounted, PubTotal
<1>4. PubInOrder
  BY Zenon DEF PubInv, PubLine, PubSorted, PubInOrder
<1>5. PubPublishedStored
  <2>1. pubPublished + PubIn(pubAcks, PubOk) <= Len(pubTopic)
    BY DEF PubInv, PubBounds
  <2>2. pubPublished \in Nat /\ PubIn(pubAcks, PubOk) \in Nat /\ Len(pubTopic) \in Nat
    BY PubNumbers, Zenon
  <2>3. pubPublished <= Len(pubTopic)
    BY <2>1, <2>2
  <2> QED
    BY <2>3 DEF PubPublishedStored
<1> QED
  BY <1>2, <1>3, <1>4, <1>5 DEF PubSafe

(* On its way from a handler to the topic no event vanishes uncounted,     *)
(* overtakes another of its request, or is counted as published without    *)
(* being stored, for every number of handlers, events and bounds           *)
(* (Enqueue, run, send, delivered and Close of internal/events).           *)
THEOREM EventsPublishedSafely == PubSpec => []PubSafe
<1>1. PubInit => PubInv
  BY PubInitially
<1>2. PubInv /\ [PubNext]_pubVars => PubInv'
  BY PubSteps
<1>3. PubInv => PubSafe
  BY PubInvImplies
<1> QED
  BY <1>1, <1>2, <1>3, PTL DEF PubSpec

-----------------------------------------------------------------------------
(* The span batcher *)

(* How many goroutines are past the check of closed, their span counted as *)
(* ended and not yet in the queue.                                         *)
BatSending == Cardinality({g \in BatEnders : batEnder[g].at = "send"})

BatNats ==
  /\ batQueue \in Nat /\ batBatch \in Nat /\ batEnded \in Nat /\ batExported \in Nat
  /\ batFailed \in Nat /\ batDropped \in Nat /\ batIn \in Nat /\ BatSending \in Nat

(* The worker: how full its batch may be at each of its places, and that   *)
(* it only stops once it was told to.                                      *)
BatRunOK ==
  /\ batRun \in {"select", "export", "drain", "sweep", "done"} /\ batDrain \in {"none", "flush", "stop"}
  /\ batBatch <= BatMaxBatch /\ batQueue <= BatQueueSize
  /\ batRun = "select" => batBatch < BatMaxBatch
  /\ batRun \in {"sweep", "done"} => batStop /\ batBatch = 0
  /\ batDrain = "stop" => batStop
  /\ batStop => batClosed
  /\ batShut # "idle" => batClosed

(* ForceFlush: what was in the queue when it was called is out once it     *)
(* returns, or once the worker has exited under it.                        *)
BatFlushOK ==
  /\ batFlush \in [at : {"idle", "nothing", "asking", "waiting", "flushed", "canceled"}, mark : Nat]
  /\ batFlush.mark <= batIn
  /\ batQueue + batBatch <= batIn
  /\ batFlush.at = "flushed" \/ (batFlush.at = "asking" /\ batRun = "done")
       => batFlush.mark <= batIn - (batQueue + batBatch)

BatInv ==
  /\ batEnder \in [BatEnders -> [at : {"idle", "send"}, left : Nat]]
  /\ BatNats /\ BatRunOK /\ BatFlushOK
  /\ batEnded = batExported + batFailed + batDropped + batQueue + batBatch + BatSending

LEMMA SendingSame ==
    ASSUME UNCHANGED batEnder
    PROVE  BatSending' = BatSending
BY DEF BatSending

(* One goroutine enters or leaves the window between the check of closed   *)
(* and the send.                                                           *)
LEMMA SendingMoves ==
    ASSUME BatInv, NEW g \in BatEnders, NEW at \in {"idle", "send"}, NEW left \in Nat,
           batEnder' = [batEnder EXCEPT ![g] = [at |-> at, left |-> left]]
    PROVE  /\ batEnder' \in [BatEnders -> [at : {"idle", "send"}, left : Nat]]
           /\ BatSending' \in Nat
           /\ batEnder[g].at = at => BatSending' = BatSending
           /\ batEnder[g].at = "idle" /\ at = "send" => BatSending' = BatSending + 1
           /\ batEnder[g].at = "send" /\ at = "idle" => BatSending' = BatSending - 1
<1> DEFINE H == {h \in BatEnders : batEnder[h].at = "send"}
           K == {h \in BatEnders : batEnder'[h].at = "send"}
<1>1. batEnder \in [BatEnders -> [at : {"idle", "send"}, left : Nat]]
  BY DEF BatInv
<1>2. /\ batEnder' \in [BatEnders -> [at : {"idle", "send"}, left : Nat]]
      /\ batEnder'[g].at = at /\ \A h \in BatEnders : h # g => batEnder'[h] = batEnder[h]
  BY <1>1
<1>3. H \in SUBSET BatEnders /\ IsFiniteSet(H)
  <2>1. H \in SUBSET BatEnders
    OBVIOUS
  <2> HIDE DEF H
  <2> QED
    BY <2>1, BatAssumption, FS_Subset
<1>4. K = IF at = "send" THEN H \cup {g} ELSE H \ {g}
  BY <1>2
<1>5. g \in H <=> batEnder[g].at = "send"
  OBVIOUS
<1>6. BatSending = Cardinality(H) /\ BatSending' = Cardinality(K)
  BY DEF BatSending
<1> HIDE DEF H, K
<1>7. Cardinality(H) \in Nat /\ IsFiniteSet(K) /\ Cardinality(K) \in Nat
  <2>1. IsFiniteSet(H \cup {g}) /\ IsFiniteSet(H \ {g})
    BY <1>3, FS_AddElement, FS_RemoveElement
  <2> QED
    BY <1>3, <1>4, <2>1, FS_CardinalityType
<1>8. at = "send" => Cardinality(K) = IF g \in H THEN Cardinality(H) ELSE Cardinality(H) + 1
  BY <1>3, <1>4, FS_AddElement, Zenon
<1>9. at = "idle" => Cardinality(K) = IF g \in H THEN Cardinality(H) - 1 ELSE Cardinality(H)
  BY <1>3, <1>4, FS_RemoveElement, Zenon
<1>10. at # "send" => at = "idle"
  OBVIOUS
<1>11. batEnder[g].at = at => Cardinality(K) = Cardinality(H)
  BY <1>5, <1>8, <1>9, <1>10
<1>12. batEnder[g].at = "idle" /\ at = "send" => Cardinality(K) = Cardinality(H) + 1
  BY <1>5, <1>8
<1>13. batEnder[g].at = "send" /\ at = "idle" => Cardinality(K) = Cardinality(H) - 1
  BY <1>5, <1>9
<1> QED
  BY <1>2, <1>6, <1>7, <1>11, <1>12, <1>13, Zenon

LEMMA EnderKeeps ==
    ASSUME BatInv, NEW g \in BatEnders, BatOnEnd(g) \/ BatEnqueue(g)
    PROVE  BatInv'
<1>1. /\ batEnder[g].at \in {"idle", "send"} /\ batEnder[g].left \in Nat
      /\ batEnder \in [BatEnders -> [at : {"idle", "send"}, left : Nat]]
      /\ BatQueueSize \in Nat
  BY BatAssumption DEF BatInv
<1>2. CASE BatOnEnd(g)
  <2> DEFINE at == IF batClosed THEN "idle" ELSE "send"
             left == batEnder[g].left - 1
  <2>1. /\ batEnder[g].at = "idle" /\ batEnder' = [batEnder EXCEPT ![g] = [at |-> at, left |-> left]]
        /\ at \in {"idle", "send"} /\ left \in Nat
    BY <1>1, <1>2 DEF BatOnEnd
  <2>2. /\ batEnder' \in [BatEnders -> [at : {"idle", "send"}, left : Nat]] /\ BatSending' \in Nat
        /\ BatSending' = IF batClosed THEN BatSending ELSE BatSending + 1
    <3>1. at = IF batClosed THEN "idle" ELSE "send"
      OBVIOUS
    <3> HIDE DEF at, left
    <3>2. /\ batEnder' \in [BatEnders -> [at : {"idle", "send"}, left : Nat]] /\ BatSending' \in Nat
          /\ at = "idle" => BatSending' = BatSending
          /\ at = "send" => BatSending' = BatSending + 1
      BY <2>1, SendingMoves, Zenon
    <3> QED
      BY <3>1, <3>2
  <2>3. /\ batEnded' = batEnded + 1
        /\ batDropped' = IF batClosed THEN batDropped + 1 ELSE batDropped
        /\ UNCHANGED <<batQueue, batBatch, batRun, batDrain, batControl, batExported, batFailed, batIn>>
    BY <1>2, Zenon DEF BatOnEnd
  <2>4. BatNats' /\ batEnded' = batExported' + batFailed' + batDropped' + batQueue' + batBatch' + BatSending'
    BY <2>2, <2>3 DEF BatInv, BatNats
  <2>5. BatRunOK' /\ BatFlushOK'
    BY <2>3, Zenon DEF BatInv, BatRunOK, BatFlushOK, batControl
  <2> QED
    BY <2>2, <2>4, <2>5 DEF BatInv
<1>3. CASE BatEnqueue(g)
  <2>1. /\ batEnder[g].at = "send"
        /\ batEnder' = [batEnder EXCEPT ![g] = [at |-> "idle", left |-> batEnder[g].left]]
    <3> DEFINE r == batEnder[g]
    <3>1. r \in [at : {"idle", "send"}, left : Nat]
      BY <1>1
    <3>2. [r EXCEPT !.at = "idle"] = [at |-> "idle", left |-> r.left]
      <4> HIDE DEF r
      <4> QED
        BY <3>1
    <3>3. r.at = "send" /\ batEnder' = [batEnder EXCEPT ![g] = [r EXCEPT !.at = "idle"]]
      BY <1>3 DEF BatEnqueue
    <3> QED
      BY <3>2, <3>3, Zenon
  <2>2. /\ batEnder' \in [BatEnders -> [at : {"idle", "send"}, left : Nat]] /\ BatSending' \in Nat
        /\ BatSending' = BatSending - 1
    BY <1>1, <2>1, SendingMoves, Zenon
  <2>3. /\ UNCHANGED <<batBatch, batRun, batDrain, batControl, batEnded, batExported, batFailed>>
        /\ \/ /\ batQueue < BatQueueSize /\ batQueue' = batQueue + 1 /\ batIn' = batIn + 1
              /\ UNCHANGED batDropped
           \/ batDropped' = batDropped + 1 /\ UNCHANGED <<batQueue, batIn>>
    BY <1>3 DEF BatEnqueue
  <2>4. BatNats' /\ batEnded' = batExported' + batFailed' + batDropped' + batQueue' + batBatch' + BatSending'
    <3>1. BatNats'
      BY <2>2, <2>3 DEF BatInv, BatNats
    <3>2. \/ batDropped' = batDropped /\ batQueue' = batQueue + 1
          \/ batDropped' = batDropped + 1 /\ batQueue' = batQueue
      BY <2>3
    <3>3. batEnded' = batExported' + batFailed' + batDropped' + batQueue' + batBatch' + BatSending'
      <4>1. /\ batEnded' = batEnded /\ batExported' = batExported /\ batFailed' = batFailed /\ batBatch' = batBatch
            /\ BatSending' = BatSending - 1
        BY <2>2, <2>3
      <4>2. BatNats /\ batEnded = batExported + batFailed + batDropped + batQueue + batBatch + BatSending
        BY DEF BatInv
      <4>3. CASE batDropped' = batDropped /\ batQueue' = batQueue + 1
        BY <4>1, <4>2, <4>3 DEF BatNats
      <4>4. CASE batDropped' = batDropped + 1 /\ batQueue' = batQueue
        BY <4>1, <4>2, <4>4 DEF BatNats
      <4> QED
        BY <3>2, <4>3, <4>4
    <3> QED
      BY <3>1, <3>3
  <2>5. BatRunOK'
    BY <1>1, <2>3 DEF BatInv, BatNats, BatRunOK, batControl
  <2>6. BatFlushOK'
    BY <2>3 DEF BatInv, BatNats, BatFlushOK, batControl
  <2> QED
    BY <2>2, <2>4, <2>5, <2>6, Zenon DEF BatInv
<1> QED
  BY <1>2, <1>3

LEMMA WorkerKeeps ==
    ASSUME BatInv, BatWorker
    PROVE  BatInv'
<1>1. UNCHANGED batEnder /\ BatSending' = BatSending
  BY SendingSame DEF BatWorker, BatReceive, BatTimer, BatFlushAsked, BatStopSeen, BatFill, BatFilled, BatExport, BatSweep
<1>2. BatMaxBatch \in Nat \ {0} /\ BatQueueSize \in Nat
  BY BatAssumption
<1>3. CASE BatReceive \/ BatTimer \/ BatFill
  <2>1. BatNats' /\ batEnded' = batExported' + batFailed' + batDropped' + batQueue' + batBatch' + BatSending'
    <3>1. /\ batQueue' \in Nat /\ batBatch' \in Nat
          /\ \/ batQueue' = batQueue /\ batBatch' = batBatch
             \/ batQueue >= 1 /\ batQueue' = batQueue - 1 /\ batBatch' = batBatch + 1
      BY <1>3 DEF BatReceive, BatTimer, BatFill, BatInv, BatNats
    <3>2. UNCHANGED <<batCounters, batIn>>
      BY <1>3 DEF BatReceive, BatTimer, BatFill
    <3>3. /\ batEnded' = batEnded /\ batExported' = batExported /\ batFailed' = batFailed
          /\ batDropped' = batDropped /\ batIn' = batIn
      BY <3>2 DEF batCounters
    <3>4. BatNats /\ batEnded = batExported + batFailed + batDropped + batQueue + batBatch + BatSending
      BY DEF BatInv
    <3>5. BatNats'
      BY <1>1, <3>1, <3>3, <3>4 DEF BatNats
    <3>6. batEnded' = batExported' + batFailed' + batDropped' + batQueue' + batBatch' + BatSending'
      <4>1. CASE batQueue' = batQueue /\ batBatch' = batBatch
        BY <1>1, <3>3, <3>4, <4>1
      <4>2. CASE batQueue' = batQueue - 1 /\ batBatch' = batBatch + 1
        BY <1>1, <3>3, <3>4, <4>2 DEF BatNats
      <4> QED
        BY <3>1, <4>1, <4>2
    <3> QED
      BY <3>5, <3>6
  <2>2. BatRunOK'
    BY <1>2, <1>3 DEF BatReceive, BatTimer, BatFill, BatInv, BatNats, BatRunOK, batControl
  <2>3. BatFlushOK'
    BY <1>3 DEF BatReceive, BatTimer, BatFill, BatInv, BatNats, BatRunOK, BatFlushOK, batControl
  <2> QED
    BY <1>1, <2>1, <2>2, <2>3 DEF BatInv
<1>4. CASE BatFlushAsked \/ BatStopSeen
  <2>1. BatNats' /\ batEnded' = batExported' + batFailed' + batDropped' + batQueue' + batBatch' + BatSending'
    BY <1>1, <1>4 DEF BatFlushAsked, BatStopSeen, BatInv, BatNats, batCounters
  <2>2. BatRunOK'
    BY <1>2, <1>4 DEF BatFlushAsked, BatStopSeen, BatInv, BatNats, BatRunOK, batControl
  <2>3. BatFlushOK'
    BY <1>4 DEF BatFlushAsked, BatStopSeen, BatInv, BatNats, BatFlushOK, batControl
  <2> QED
    BY <1>1, <2>1, <2>2, <2>3 DEF BatInv
<1>5. CASE BatFilled
  <2>1. BatNats' /\ batEnded' = batExported' + batFailed' + batDropped' + batQueue' + batBatch' + BatSending'
    BY <1>1, <1>5 DEF BatFilled, BatInv, BatNats
  <2>2. BatRunOK'
    BY <1>2, <1>5 DEF BatFilled, BatInv, BatNats, BatRunOK
  <2>3. BatFlushOK'
    BY <1>2, <1>5 DEF BatFilled, BatInv, BatNats, BatRunOK, BatFlushOK
  <2> QED
    BY <1>1, <2>1, <2>2, <2>3 DEF BatInv
<1>6. CASE BatExport \/ BatSweep
  <2>1. BatNats' /\ batEnded' = batExported' + batFailed' + batDropped' + batQueue' + batBatch' + BatSending'
    BY <1>1, <1>6 DEF BatExport, BatSweep, BatInv, BatNats
  <2>2. BatRunOK'
    BY <1>2, <1>6 DEF BatExport, BatSweep, BatInv, BatNats, BatRunOK, batControl
  <2>3. BatFlushOK'
    BY <1>6 DEF BatExport, BatSweep, BatInv, BatNats, BatRunOK, BatFlushOK, batControl
  <2> QED
    BY <1>1, <2>1, <2>2, <2>3 DEF BatInv
<1> QED
  BY <1>3, <1>4, <1>5, <1>6 DEF BatWorker

LEMMA CallerKeeps ==
    ASSUME BatInv, BatForceFlush \/ BatShutdown \/ BatDeadline \/ UNCHANGED batVars
    PROVE  BatInv'
<1>1. UNCHANGED <<batEnder, batQueue, batBatch, batRun, batDrain, batIn, batCounters>> /\ BatSending' = BatSending
  BY SendingSame DEF BatForceFlush, BatShutdown, BatDeadline, batVars, batCounters
<1>2. BatNats' /\ batEnded' = batExported' + batFailed' + batDropped' + batQueue' + batBatch' + BatSending'
  BY <1>1 DEF BatInv, BatNats, batCounters
<1>3. BatRunOK'
  BY <1>1 DEF BatForceFlush, BatShutdown, BatDeadline, batVars, BatInv, BatRunOK
<1>4. BatFlushOK'
  <2>1. CASE UNCHANGED batFlush
    BY <1>1, <2>1 DEF BatInv, BatFlushOK
  <2>2. CASE BatForceFlush
    BY <1>1, <2>2 DEF BatForceFlush, BatInv, BatNats, BatRunOK, BatFlushOK
  <2> QED
    BY <2>1, <2>2, Zenon DEF BatShutdown, BatDeadline, batVars
<1> QED
  BY <1>1, <1>2, <1>3, <1>4, Zenon DEF BatInv

LEMMA BatInitInv == BatInit => BatInv
<1> SUFFICES ASSUME BatInit PROVE BatInv
  OBVIOUS
<1>1. batEnder \in [BatEnders -> [at : {"idle", "send"}, left : Nat]] /\ \A g \in BatEnders : batEnder[g].at # "send"
  BY BatAssumption, Zenon DEF BatInit
<1>2. BatSending = 0
  <2>1. {g \in BatEnders : batEnder[g].at = "send"} = {}
    BY <1>1
  <2> QED
    BY <2>1, FS_EmptySet, Zenon DEF BatSending
<1> QED
  BY <1>1, <1>2, BatAssumption DEF BatInit, BatInv, BatNats, BatRunOK, BatFlushOK

LEMMA BatNextInv == BatInv /\ [BatNext]_batVars => BatInv'
BY EnderKeeps, WorkerKeeps, CallerKeeps DEF BatNext

(* Shutdown: what was in the queue when it closed the processor is out     *)
(* once the worker has exited.                                             *)
BatClosingOK ==
  /\ batClosedAt \in Nat /\ batClosedAt <= batIn
  /\ batShut = "idle" => ~batStop
  /\ batRun = "done" => batClosedAt <= batIn - (batQueue + batBatch)

LEMMA BatClosingKept ==
    ASSUME BatInv, BatClosingOK, [BatNext]_batVars
    PROVE  BatClosingOK'
<1>1. batIn \in Nat /\ batQueue \in Nat /\ batBatch \in Nat /\ (batRun \in {"sweep", "done"} => batStop /\ batBatch = 0)
  BY Zenon DEF BatInv, BatNats, BatRunOK
<1>2. CASE \E g \in BatEnders : BatOnEnd(g) \/ BatEnqueue(g)
  <2>1. PICK g \in BatEnders : BatOnEnd(g) \/ BatEnqueue(g)
    BY <1>2, Zenon
  <2>2. UNCHANGED <<batClosedAt, batShut, batStop, batRun, batBatch>>
    BY <2>1, Zenon DEF BatOnEnd, BatEnqueue, batControl
  <2>3. CASE batIn' = batIn /\ batQueue' = batQueue
    BY <2>2, <2>3, Zenon DEF BatClosingOK
  <2>4. CASE batIn' = batIn + 1 /\ batQueue' = batQueue + 1
    <3>1. batClosedAt' \in Nat /\ batClosedAt' <= batIn'
      BY <1>1, <2>2, <2>4 DEF BatClosingOK
    <3>2. batIn' - (batQueue' + batBatch') = batIn - (batQueue + batBatch)
      BY <1>1, <2>2, <2>4
    <3> QED
      BY <2>2, <3>1, <3>2, Zenon DEF BatClosingOK
  <2> QED
    BY <2>1, <2>3, <2>4, Zenon DEF BatOnEnd, BatEnqueue
<1>3. CASE BatWorker
  <2>1. UNCHANGED <<batClosedAt, batShut, batStop, batIn>>
    <3>1. CASE BatReceive \/ BatTimer \/ BatStopSeen \/ BatFill \/ BatExport \/ BatSweep
      BY <3>1, Zenon DEF BatReceive, BatTimer, BatStopSeen, BatFill, BatExport, BatSweep, batControl
    <3>2. CASE BatFlushAsked \/ BatFilled
      BY <3>2, Zenon DEF BatFlushAsked, BatFilled
    <3> QED
      BY <1>3, <3>1, <3>2, Zenon DEF BatWorker
  <2>2. ASSUME batRun' = "done"
        PROVE  batQueue' = 0 /\ batBatch' = 0
    <3>1. BatSweep
      <4>1. ~BatReceive /\ ~BatTimer /\ ~BatFlushAsked /\ ~BatStopSeen
        BY <2>2 DEF BatReceive, BatTimer, BatFlushAsked, BatStopSeen
      <4>2. ~BatFill /\ ~BatExport
        BY <2>2 DEF BatFill, BatExport
      <4>3. ~BatFilled
        BY <2>2 DEF BatFilled
      <4> QED
        BY <1>3, <4>1, <4>2, <4>3, Zenon DEF BatWorker
    <3> QED
      BY <1>1, <2>2, <3>1 DEF BatSweep
  <2>3. batClosedAt \in Nat /\ batClosedAt <= batIn /\ (batShut = "idle" => ~batStop)
    BY Zenon DEF BatClosingOK
  <2>4. batRun' = "done" => batIn' - (batQueue' + batBatch') = batIn
    BY <1>1, <2>1, <2>2
  <2> QED
    BY <2>1, <2>3, <2>4, Zenon DEF BatClosingOK
<1>4. CASE BatForceFlush \/ BatDeadline \/ UNCHANGED batVars
  <2>1. UNCHANGED <<batClosedAt, batShut, batStop, batIn, batRun, batQueue, batBatch>>
    BY <1>4, Zenon DEF BatForceFlush, BatDeadline, batVars
  <2> QED
    BY <2>1, Zenon DEF BatClosingOK
<1>5. CASE BatShutdown
  <2>1. /\ UNCHANGED <<batIn, batRun, batQueue, batBatch>> /\ batShut' # "idle"
        /\ batClosedAt' = batClosedAt \/ (batShut = "idle" /\ batClosedAt' = batIn)
    BY <1>5 DEF BatShutdown
  <2> QED
    BY <1>1, <2>1 DEF BatClosingOK
<1> QED
  BY <1>2, <1>3, <1>4, <1>5, Zenon DEF BatNext

(* Every span that ended is exported, failed, dropped or still waiting; a  *)
(* flush answered by the worker has covered what was queued before it, and *)
(* a shutdown what was queued when it closed the processor, by the time    *)
(* the worker exits; and nothing exceeds its bound, for any queue, batch   *)
(* and number of goroutines, with the collector failing and the deadline   *)
(* passing anywhere (OnEnd, run, drain, ForceFlush, Shutdown).             *)
THEOREM SpansAccounted == BatSpec => []BatSafe
<1>1. BatInv /\ BatClosingOK => BatSafe
  BY Zenon DEF BatInv, BatRunOK, BatFlushOK, BatClosingOK, BatSafe, BatAccounted, BatFlushCovers, BatBounded, BatSending
<1>2. BatInit => BatClosingOK
  BY DEF BatInit, BatClosingOK
<1>3. BatClosingOK /\ BatInv /\ [BatNext]_batVars => BatClosingOK'
  BY BatClosingKept, Zenon
<1> QED
  BY <1>1, <1>2, <1>3, BatInitInv, BatNextInv, PTL DEF BatSpec
===============================================================================
