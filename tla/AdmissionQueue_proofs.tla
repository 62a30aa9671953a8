------------------------ MODULE AdmissionQueue_proofs ------------------------
(***************************************************************************)
(* What the admission queue guarantees for any number of models, requests, *)
(* tenants and slots.  The inductive invariant is IInv: the type, the      *)
(* shape of the queues, the state of every waiter, and the credit rule.    *)
(***************************************************************************)
EXTENDS AdmissionQueue, FiniteSetTheorems, TLAPS

Injective(s) == \A i, j \in DOMAIN s : s[i] = s[j] => i = j

(* No waiter is queued twice, nor in the queue of another model. *)
QueueShape ==
    \A m \in Models :
        /\ Injective(queue[m])
        /\ \A r \in Range(queue[m]) : ModelOf[r] = m

(* What a goroutine is doing agrees with its place, its wake-up and its    *)
(* channel.  The routing waiter with an empty channel, and the flushed one *)
(* that still routes, are what NoSlotDropped needs to be preserved.        *)
WaiterState ==
    \A r \in Requests :
        /\ InQueue(r) =>
            /\ phase[r] \in {"waiting", "routing"}
            /\ ch[r] \in {None, Reroute}
            /\ r \in woken <=> phase[r] = "routing" \/ ch[r] = Reroute
            /\ phase[r] = "routing" => ch[r] = None
        /\ ~InQueue(r) =>
            /\ r \notin woken
            /\ phase[r] = "out" => ch[r] = None
            /\ phase[r] = "waiting" => ch[r] \in Slots \cup {Flushed}
            /\ phase[r] = "routing" => ch[r] = Flushed

IInv == TypeOK /\ QueueShape /\ WaiterState /\ CreditOnlyBehindRoutingHead

-----------------------------------------------------------------------------
(* The operators *)

(* list.Remove: the waiter is gone, the others keep their order. *)
LEMMA WithoutProps ==
    ASSUME NEW s \in Seq(Requests), Injective(s), NEW r \in Range(s)
    PROVE  /\ Without(s, r) \in Seq(Requests)
           /\ Len(Without(s, r)) = Len(s) - 1
           /\ Injective(Without(s, r))
           /\ Range(Without(s, r)) = Range(s) \ {r}
<1> DEFINE at == CHOOSE i \in DOMAIN s : s[i] = r
           t == [i \in 1 .. Len(s) - 1 |-> IF i < at THEN s[i] ELSE s[i + 1]]
<1>1. DOMAIN s = 1 .. Len(s) /\ Len(s) \in Nat
  OBVIOUS
<1>2. at \in 1 .. Len(s) /\ s[at] = r
  BY <1>1 DEF Range
<1>3. Without(s, r) = t
  BY DEF Without
<1>4. Len(s) - 1 \in Nat
  BY <1>1, <1>2
<1>5. t \in Seq(Requests) /\ Len(t) = Len(s) - 1 /\ DOMAIN t = 1 .. Len(s) - 1
  <2>1. \A i \in 1 .. Len(s) - 1 : t[i] \in Requests
    BY <1>1, <1>2
  <2>2. t \in [1 .. Len(s) - 1 -> Requests]
    BY <2>1
  <2> QED
    BY <2>2, <1>4
<1>6. Injective(t)
  BY <1>1, <1>2, <1>5 DEF Injective
<1>7. Range(t) = Range(s) \ {r}
  <2>1. ASSUME NEW x \in Range(t) PROVE x \in Range(s) \ {r}
    BY <1>1, <1>2, <1>5 DEF Range, Injective
  <2>2. ASSUME NEW x \in Range(s) \ {r} PROVE x \in Range(t)
    <3>1. PICK i \in 1 .. Len(s) : s[i] = x
      BY <1>1 DEF Range
    <3>2. CASE i < at
      <4>1. i \in 1 .. Len(s) - 1 /\ t[i] = s[i]
        BY <3>1, <3>2, <1>1, <1>2
      <4> QED
        BY <4>1, <3>1, <1>5, Zenon DEF Range
    <3>3. CASE i > at
      <4>1. i - 1 \in 1 .. Len(s) - 1 /\ t[i - 1] = s[i]
        BY <3>1, <3>3, <1>1, <1>2
      <4> QED
        BY <4>1, <3>1, <1>5, Zenon DEF Range
    <3> QED
      BY <3>1, <3>2, <3>3, <1>1, <1>2
  <2> QED
    BY <2>1, <2>2
<1> QED
  BY <1>3, <1>5, <1>6, <1>7

(* Taking the head off. *)
LEMMA TailProps ==
    ASSUME NEW s \in Seq(Requests), Injective(s), s # <<>>
    PROVE  /\ Tail(s) \in Seq(Requests)
           /\ Injective(Tail(s))
           /\ Range(Tail(s)) = Range(s) \ {Head(s)}
           /\ Head(s) \in Range(s)
<1>1. Len(s) \in Nat \ {0} /\ DOMAIN s = 1 .. Len(s) /\ Head(s) = s[1]
  OBVIOUS
<1>2. /\ Tail(s) \in Seq(Requests)
      /\ DOMAIN Tail(s) = 1 .. Len(s) - 1
      /\ \A i \in 1 .. Len(s) - 1 : Tail(s)[i] = s[i + 1]
  BY <1>1
<1>3. Injective(Tail(s))
  BY <1>1, <1>2 DEF Injective
<1>4. Range(Tail(s)) \subseteq Range(s) \ {Head(s)}
  BY <1>1, <1>2 DEF Range, Injective
<1>5. ASSUME NEW x \in Range(s) \ {Head(s)} PROVE x \in Range(Tail(s))
  <2>1. PICK i \in 1 .. Len(s) : s[i] = x
    BY <1>1 DEF Range
  <2>2. i - 1 \in 1 .. Len(s) - 1 /\ Tail(s)[i - 1] = x
    BY <2>1, <1>1, <1>2
  <2> QED
    BY <2>2, <1>2, Zenon DEF Range
<1>6. Range(Tail(s)) = Range(s) \ {Head(s)}
  <2> HIDE DEF Range
  <2> QED
    BY <1>4, <1>5
<1>7. Head(s) \in Range(s)
  BY <1>1 DEF Range
<1> QED
  BY <1>2, <1>3, <1>6, <1>7, Zenon

(* Joining at the tail. *)
LEMMA AppendProps ==
    ASSUME NEW s \in Seq(Requests), Injective(s), NEW r \in Requests, r \notin Range(s)
    PROVE  /\ Append(s, r) \in Seq(Requests)
           /\ Injective(Append(s, r))
           /\ Range(Append(s, r)) = Range(s) \cup {r}
           /\ Append(s, r) # <<>>
           /\ s # <<>> => Head(Append(s, r)) = Head(s)
<1>1. /\ Len(s) \in Nat /\ DOMAIN s = 1 .. Len(s)
      /\ Append(s, r) \in Seq(Requests)
      /\ DOMAIN Append(s, r) = 1 .. Len(s) + 1
      /\ \A i \in 1 .. Len(s) : Append(s, r)[i] = s[i]
      /\ Append(s, r)[Len(s) + 1] = r
      /\ Len(Append(s, r)) = Len(s) + 1
  OBVIOUS
<1>2. Injective(Append(s, r))
  BY <1>1 DEF Injective, Range
<1>3. Range(Append(s, r)) = Range(s) \cup {r}
  <2> DEFINE a == Append(s, r)
  <2>1. DOMAIN a = 1 .. Len(s) \cup {Len(s) + 1}
    BY <1>1
  <2>2. Range(a) = {a[i] : i \in 1 .. Len(s)} \cup {a[Len(s) + 1]}
    BY <2>1 DEF Range
  <2>3. {a[i] : i \in 1 .. Len(s)} = {s[i] : i \in 1 .. Len(s)}
    BY <1>1
  <2> QED
    BY <2>2, <2>3, <1>1 DEF Range
<1>4. Append(s, r) # <<>>
  BY <1>1
<1>5. s # <<>> => Head(Append(s, r)) = Head(s)
  <2> SUFFICES ASSUME s # <<>> PROVE Head(Append(s, r)) = Head(s)
    OBVIOUS
  <2>1. Head(s) = s[1] /\ 1 \in 1 .. Len(s)
    BY <1>1
  <2>2. Head(Append(s, r)) = Append(s, r)[1]
    BY <1>1, <1>4
  <2> QED
    BY <2>1, <2>2, <1>1
<1> QED
  BY <1>1, <1>2, <1>3, <1>4, <1>5

(* settle and Wake tell only idle waiters, and all of them when there are  *)
(* no more of them than units to spend.                                    *)
LEMMA FirstIdleProps ==
    ASSUME NEW s \in Seq(Requests), NEW wk, NEW n \in Nat
    PROVE  /\ Cardinality(IdleAt(s, wk)) \in Nat
           /\ FirstIdle(s, wk, n) \subseteq Range(s) \ wk
           /\ Cardinality(IdleAt(s, wk)) <= n
                => FirstIdle(s, wk, n) = Range(s) \ wk
<1> DEFINE idle == IdleAt(s, wk)
           upTo(j) == {k \in idle : k <= j}
<1>1. DOMAIN s = 1 .. Len(s) /\ Len(s) \in Nat
  OBVIOUS
<1>2. idle \in SUBSET (1 .. Len(s))
  BY <1>1 DEF IdleAt
<1>3. IsFiniteSet(idle)
  <2>1. IsFiniteSet(1 .. Len(s))
    BY <1>1, FS_Interval
  <2> HIDE DEF idle
  <2> QED
    BY <2>1, <1>2, FS_Subset, Zenon
<1>4. Cardinality(idle) \in Nat
  BY <1>3, FS_CardinalityType
<1>5. FirstIdle(s, wk, n) \subseteq Range(s) \ wk
  BY Zenon DEF FirstIdle, IdleAt, Range
<1>6. ASSUME Cardinality(idle) <= n, NEW x \in Range(s) \ wk
      PROVE  x \in FirstIdle(s, wk, n)
  <2>1. PICK j \in DOMAIN s : s[j] = x
    BY DEF Range
  <2>2. j \in idle
    BY <2>1 DEF IdleAt
  <2>3. Cardinality(upTo(j)) \in Nat /\ Cardinality(upTo(j)) <= Cardinality(idle)
    <3>1. upTo(j) \in SUBSET idle
      OBVIOUS
    <3> QED
      BY <3>1, <1>3, FS_Subset, FS_CardinalityType
  <2>4. Cardinality(upTo(j)) <= n
    BY <2>3, <1>4, <1>6
  <2> QED
    BY <2>1, <2>2, <2>4, Zenon DEF FirstIdle
<1> QED
  BY <1>4, <1>5, <1>6

(* What a settle leaves behind: credit only when everybody is routing. *)
Unspent(s, wk, c) ==
    LET idle == Cardinality(IdleAt(s, wk)) IN IF idle < c THEN c - idle ELSE 0

LEMMA SettleProps ==
    ASSUME NEW s \in Seq(Requests), NEW wk, NEW c \in Nat
    PROVE  /\ FirstIdle(s, wk, c) \subseteq Range(s) \ wk
           /\ Unspent(s, wk, c) \in Nat
           /\ Unspent(s, wk, c) > 0 => FirstIdle(s, wk, c) = Range(s) \ wk
<1> DEFINE told == FirstIdle(s, wk, c)
           idle == Cardinality(IdleAt(s, wk))
<1>1. /\ idle \in Nat
      /\ told \subseteq Range(s) \ wk
      /\ idle <= c => told = Range(s) \ wk
  BY FirstIdleProps
<1>2. Unspent(s, wk, c) = IF idle < c THEN c - idle ELSE 0
  BY DEF Unspent
<1> HIDE DEF told, idle
<1> QED
  BY <1>1, <1>2 DEF told

-----------------------------------------------------------------------------
(* Counting waiters *)

(* A part of a queue has as many waiters as places. *)
LEMMA PlacesCount ==
    ASSUME NEW s \in Seq(Requests), Injective(s), NEW D \in SUBSET DOMAIN s
    PROVE  /\ IsFiniteSet(D) /\ IsFiniteSet({s[i] : i \in D})
           /\ Cardinality({s[i] : i \in D}) = Cardinality(D)
           /\ Cardinality(D) \in Nat
<1> DEFINE S == {s[i] : i \in D}
           f == [i \in D |-> s[i]]
<1>1. IsFiniteSet(D)
  <2>1. DOMAIN s = 1 .. Len(s) /\ Len(s) \in Nat
    OBVIOUS
  <2>2. IsFiniteSet(DOMAIN s)
    BY <2>1, FS_Interval
  <2> QED
    BY <2>2, FS_Subset
<1>2. f \in Bijection(D, S)
  BY DEF Injective, Bijection, Injection, Surjection, IsInjective
<1> HIDE DEF f, S
<1>3. ExistsBijection(D, S)
  BY <1>2 DEF ExistsBijection
<1>4. IsFiniteSet(S) /\ Cardinality(S) = Cardinality(D)
  BY <1>1, <1>3, FS_Bijection
<1> QED
  BY <1>1, <1>4, FS_CardinalityType DEF S

(* The place of an idle waiter among the idle ones: no two have the same,  *)
(* and every place up to their number is taken.                            *)
LEMMA RankBijection ==
    ASSUME NEW I \in SUBSET Nat, IsFiniteSet(I)
    PROVE  LET rank == [j \in I |-> Cardinality({k \in I : k <= j})]
           IN  /\ Cardinality(I) \in Nat
               /\ rank \in Bijection(I, 1 .. Cardinality(I))
<1> DEFINE upTo(j) == {k \in I : k <= j}
           rank == [j \in I |-> Cardinality(upTo(j))]
           N == Cardinality(I)
<1>0. \A k \in I : k \in Int
  OBVIOUS
<1>1. N \in Nat
  BY FS_CardinalityType
<1>2. ASSUME NEW j \in I
      PROVE  /\ IsFiniteSet(upTo(j)) /\ Cardinality(upTo(j)) \in Nat
             /\ Cardinality(upTo(j)) <= N /\ Cardinality(upTo(j)) # 0
  <2>1. upTo(j) \in SUBSET I /\ j \in upTo(j)
    OBVIOUS
  <2>2. IsFiniteSet(upTo(j)) /\ Cardinality(upTo(j)) <= N
    BY <2>1, FS_Subset
  <2> QED
    BY <2>1, <2>2, FS_EmptySet, FS_CardinalityType
<1>3. ASSUME NEW i \in I, NEW j \in I, i < j PROVE rank[i] < rank[j]
  <2>1. i \in Int /\ j \in Int /\ j <= j /\ ~(j <= i) /\ \A k \in I : k <= i => k <= j
    BY <1>0, <1>3
  <2>2. upTo(i) \in SUBSET upTo(j) /\ j \in upTo(j) /\ j \notin upTo(i)
    BY <2>1, Zenon
  <2>3. upTo(i) # upTo(j)
    BY <2>2
  <2> HIDE DEF upTo
  <2>4. Cardinality(upTo(i)) <= Cardinality(upTo(j)) /\ Cardinality(upTo(j)) # Cardinality(upTo(i))
    BY <1>2, <2>2, <2>3, FS_Subset
  <2> QED
    BY <1>2, <2>4
<1>4. rank \in [I -> 1 .. N]
  BY <1>1, <1>2
<1>5. ASSUME NEW i \in I, NEW j \in I, rank[i] = rank[j] PROVE i = j
  <2> HIDE DEF rank
  <2>1. rank[i] \in Int /\ rank[j] \in Int
    BY <1>1, <1>4
  <2>2. ~(i < j) /\ ~(j < i)
    BY <1>3, <1>5, <2>1
  <2> QED
    BY <1>0, <2>2
<1>6. rank \in Injection(I, 1 .. N)
  BY <1>4, <1>5, Zenon DEF Injection, IsInjective
<1>7. IsFiniteSet(1 .. N) /\ Cardinality(1 .. N) = N
  BY <1>1, FS_Interval
<1> HIDE DEF rank, N
<1>8. rank \in Surjection(I, 1 .. N)
  BY <1>6, <1>7, FS_Injection DEF N
<1> QED
  BY <1>1, <1>6, <1>8 DEF Bijection, rank, N

(* settle and Wake tell exactly as many waiters as they have units for, or *)
(* everybody who is idle.                                                  *)
LEMMA FirstIdleCount ==
    ASSUME NEW s \in Seq(Requests), Injective(s), NEW wk, NEW n \in Nat
    PROVE  LET idle == Cardinality(IdleAt(s, wk))
           IN  Cardinality(FirstIdle(s, wk, n)) = IF idle < n THEN idle ELSE n
<1> DEFINE I == IdleAt(s, wk)
           rank == [j \in I |-> Cardinality({k \in I : k <= j})]
           N == Cardinality(I)
           top == IF N < n THEN N ELSE n
           D == {j \in I : Cardinality({k \in I : k <= j}) <= n}
<1>1. I \in SUBSET DOMAIN s /\ I \in SUBSET Nat
  BY DEF IdleAt
<1>2. IsFiniteSet(I) /\ N \in Nat
  BY <1>1, PlacesCount, Zenon
<1>3. rank \in Bijection(I, 1 .. N)
  BY <1>1, <1>2, RankBijection
<1>4. D = {j \in I : rank[j] <= n} /\ D \in SUBSET I
  OBVIOUS
<1>5. FirstIdle(s, wk, n) = {s[i] : i \in D}
  BY DEF FirstIdle
<1> HIDE DEF I, rank, D
<1> DEFINE g == [j \in D |-> rank[j]]
<1>6. g \in Bijection(D, 1 .. top)
  <2>1. \A j \in D : g[j] \in 1 .. top
    BY <1>2, <1>3, <1>4 DEF Bijection, Injection
  <2>2. \A i, j \in D : g[i] = g[j] => i = j
    BY <1>3, <1>4 DEF Bijection, Injection, IsInjective
  <2>3. ASSUME NEW t \in 1 .. top PROVE \E j \in D : g[j] = t
    <3>1. t \in 1 .. N /\ t <= n
      BY <1>2
    <3>2. PICK j \in I : rank[j] = t
      BY <1>3, <3>1 DEF Bijection, Surjection
    <3> QED
      BY <1>4, <3>1, <3>2
  <2> QED
    BY <2>1, <2>2, <2>3 DEF Bijection, Injection, Surjection, IsInjective
<1>7. IsFiniteSet(D) /\ Cardinality(D) \in Nat /\ Cardinality({s[i] : i \in D}) = Cardinality(D)
  BY <1>1, <1>4, PlacesCount, Zenon
<1>8. top \in Nat
  BY <1>2
<1> HIDE DEF g, top
<1>10. Cardinality(1 .. top) = top
  BY <1>8, FS_Interval
<1>9. Cardinality(1 .. top) = Cardinality(D)
  <2>1. ExistsBijection(D, 1 .. top)
    BY <1>6 DEF ExistsBijection
  <2> QED
    BY <1>7, <2>1, FS_Bijection
<1> QED
  BY <1>5, <1>7, <1>9, <1>10 DEF top, I

-----------------------------------------------------------------------------
(* The invariant holds initially and every operation keeps it *)

LEMMA InitIInv == Init => IInv
<1> SUFFICES ASSUME Init PROVE IInv
  OBVIOUS
<1>1. TypeOK
  <2>1. queue \in [Models -> Seq(Requests)]
    BY DEF Init
  <2>2. tenants \in [Models -> [Tenants -> Nat]] /\ credit \in [Models -> Nat]
    BY DEF Init
  <2>3. ch \in [Requests -> Grants]
    BY DEF Init, Grants
  <2> QED
    BY <2>1, <2>2, <2>3, Zenon DEF Init, TypeOK
<1>2. \A m \in Models : Range(queue[m]) = {}
  BY DEF Init, Range
<1>3. QueueShape
  BY <1>2 DEF Init, QueueShape, Injective
<1>4. WaiterState
  BY <1>2, RequestsAssumption DEF Init, WaiterState, InQueue
<1>5. CreditOnlyBehindRoutingHead
  BY DEF Init, CreditOnlyBehindRoutingHead
<1> QED
  BY <1>1, <1>3, <1>4, <1>5 DEF IInv

LEMMA CountType ==
    ASSUME NEW t \in Tenants \cup {NoTenant}, NEW counts \in [Tenants -> Nat]
    PROVE  CountIn(t, counts) \in [Tenants -> Nat] /\ CountOut(t, counts) \in [Tenants -> Nat]
  BY DEF CountIn, CountOut

LEMMA EnqueueKeeps ==
    ASSUME IInv, NEW r \in Requests, Enqueue(r)
    PROVE  IInv'
<1> DEFINE m == ModelOf[r]
<1>1. m \in Models /\ TenantOf[r] \in Tenants \cup {NoTenant}
  BY RequestsAssumption
<1>2. /\ queue \in [Models -> Seq(Requests)] /\ tenants \in [Models -> [Tenants -> Nat]]
      /\ phase \in [Requests -> {"out", "waiting", "routing"}]
      /\ Injective(queue[m]) /\ queue[m] \in Seq(Requests)
  BY <1>1 DEF IInv, TypeOK, QueueShape
<1>3. r \notin Range(queue[m]) /\ ~InQueue(r) /\ ch[r] = None /\ r \notin woken
  BY Zenon DEF IInv, WaiterState, InQueue, Enqueue
<1>4. /\ queue' = [queue EXCEPT ![m] = Append(@, r)]
      /\ tenants' = [tenants EXCEPT ![m] = CountIn(TenantOf[r], @)]
      /\ phase' = [phase EXCEPT ![r] = "waiting"]
      /\ UNCHANGED <<woken, credit, ch, closed>>
  BY Zenon DEF Enqueue
<1> HIDE DEF m
<1> DEFINE a == Append(queue[m], r)
<1>5. /\ a \in Seq(Requests) /\ Injective(a) /\ Range(a) = Range(queue[m]) \cup {r}
      /\ a # <<>> /\ (queue[m] # <<>> => Head(a) = Head(queue[m]))
  BY <1>2, <1>3, AppendProps, Zenon
<1>6. queue' \in [Models -> Seq(Requests)] /\ queue'[m] = a
      /\ \A k \in Models : k # m => queue'[k] = queue[k]
  BY <1>1, <1>2, <1>4, <1>5
<1> HIDE DEF a
<1>7. TypeOK'
  <2>1. tenants' \in [Models -> [Tenants -> Nat]]
    BY <1>1, <1>2, <1>4, CountType, Zenon
  <2> QED
    BY <1>2, <1>4, <1>6, <2>1 DEF IInv, TypeOK
<1>8. QueueShape'
  BY <1>1, <1>5, <1>6, Zenon DEF IInv, QueueShape, m
<1>9. \A x \in Requests : InQueue(x)' <=> InQueue(x) \/ x = r
  BY <1>1, <1>5, <1>6, RequestsAssumption, Zenon DEF IInv, QueueShape, InQueue, m
<1>10. WaiterState'
  BY <1>2, <1>3, <1>4, <1>9, SlotsAssumption DEF IInv, WaiterState
<1>11. CreditOnlyBehindRoutingHead'
  BY <1>4, <1>5, <1>6 DEF IInv, CreditOnlyBehindRoutingHead, Busy
<1> QED
  BY <1>7, <1>8, <1>10, <1>11 DEF IInv

LEMMA HandoffGivenKeeps ==
    ASSUME IInv, NEW m \in Models, NEW slot \in Slots, HandoffGiven(m, slot)
    PROVE  IInv'
<1> DEFINE head == Head(queue[m])
<1>1. /\ queue \in [Models -> Seq(Requests)] /\ tenants \in [Models -> [Tenants -> Nat]]
      /\ credit \in [Models -> Nat] /\ ch \in [Requests -> Grants]
      /\ queue[m] \in Seq(Requests) /\ Injective(queue[m]) /\ queue[m] # <<>>
  BY DEF IInv, TypeOK, QueueShape, HandoffGiven, Busy
<1>2. /\ Tail(queue[m]) \in Seq(Requests) /\ Injective(Tail(queue[m]))
      /\ Range(Tail(queue[m])) = Range(queue[m]) \ {head}
      /\ head \in Range(queue[m])
  BY <1>1, TailProps
<1>3. head \in Requests /\ ModelOf[head] = m /\ InQueue(head)
  BY <1>1, <1>2 DEF IInv, QueueShape, InQueue
<1>4. /\ head \notin woken
      /\ queue' = [queue EXCEPT ![m] = Tail(@)]
      /\ tenants' = [tenants EXCEPT ![m] = CountOut(TenantOf[head], @)]
      /\ credit' = IF Len(queue[m]) = 1 THEN [credit EXCEPT ![m] = 0] ELSE credit
      /\ ch' = [ch EXCEPT ![head] = slot]
      /\ UNCHANGED <<woken, phase, closed>>
  BY DEF HandoffGiven
<1>5. credit[m] = 0
  BY <1>1, <1>4 DEF IInv, CreditOnlyBehindRoutingHead
<1> HIDE DEF head
<1>6. queue' \in [Models -> Seq(Requests)] /\ queue'[m] = Tail(queue[m])
      /\ \A k \in Models : k # m => queue'[k] = queue[k]
  BY <1>1, <1>2, <1>4
<1>7. credit' \in [Models -> Nat] /\ credit' = credit
  BY <1>1, <1>4, <1>5
<1>8. TypeOK'
  <2>1. tenants' \in [Models -> [Tenants -> Nat]]
    BY <1>1, <1>3, <1>4, CountType, RequestsAssumption, Zenon
  <2>2. ch' \in [Requests -> Grants]
    BY <1>1, <1>3, <1>4 DEF Grants
  <2> QED
    BY <1>4, <1>6, <1>7, <2>1, <2>2 DEF IInv, TypeOK
<1>9. QueueShape'
  BY <1>2, <1>6, Zenon DEF IInv, QueueShape
<1>10. \A x \in Requests : InQueue(x)' <=> InQueue(x) /\ x # head
  BY <1>2, <1>3, <1>6, RequestsAssumption, Zenon DEF InQueue
<1>11. phase[head] = "waiting"
  BY <1>3, <1>4 DEF IInv, WaiterState
<1>12. WaiterState'
  BY <1>1, <1>3, <1>4, <1>10, <1>11, SlotsAssumption DEF IInv, WaiterState
<1>13. CreditOnlyBehindRoutingHead'
  BY <1>4, <1>5, <1>6, <1>7 DEF IInv, CreditOnlyBehindRoutingHead, Busy
<1> QED
  BY <1>8, <1>9, <1>12, <1>13 DEF IInv

LEMMA QueuedHere ==
    ASSUME IInv, NEW m \in Models, NEW r \in Range(queue[m])
    PROVE  r \in Requests /\ ModelOf[r] = m /\ InQueue(r)
<1>1. queue[m] \in Seq(Requests)
  BY DEF IInv, TypeOK
<1>2. r \in Requests
  BY <1>1 DEF Range
<1>3. ModelOf[r] = m
  BY DEF IInv, QueueShape
<1> QED
  BY <1>2, <1>3 DEF InQueue

LEMMA HandoffDeclinedKeeps ==
    ASSUME IInv, NEW m \in Models, HandoffDeclined(m)
    PROVE  IInv'
<1>1. /\ queue[m] \in Seq(Requests) /\ credit \in [Models -> Nat] /\ credit[m] + 1 \in Nat
      /\ woken \in SUBSET Requests /\ ch \in [Requests -> Grants]
  BY DEF IInv, TypeOK
<1>2. /\ Settle(m, queue[m], woken, credit[m] + 1, ch, None)
      /\ UNCHANGED <<queue, tenants, phase, closed>> /\ queue[m] # <<>>
  BY DEF HandoffDeclined, Busy
<1> DEFINE told == FirstIdle(queue[m], woken, credit[m] + 1)
           left == Unspent(queue[m], woken, credit[m] + 1)
<1>3. /\ told \subseteq Range(queue[m]) \ woken
      /\ left \in Nat
      /\ left > 0 => told = Range(queue[m]) \ woken
  BY <1>1, SettleProps
<1>4. /\ woken' = woken \cup told
      /\ credit' = [credit EXCEPT ![m] = left]
      /\ ch' = [r \in Requests |-> IF r \in told /\ r # None THEN Reroute ELSE ch[r]]
  BY <1>2, Zenon DEF Settle, Unspent
<1> HIDE DEF told, left
<1>5. \A r \in told : r \in Requests /\ InQueue(r) /\ r \notin woken
  BY <1>3, QueuedHere
<1>6. TypeOK'
  BY <1>1, <1>2, <1>3, <1>4, <1>5, Zenon DEF IInv, TypeOK, Grants
<1>7. QueueShape'
  BY <1>2 DEF IInv, QueueShape
<1>8. \A x \in Requests : InQueue(x)' <=> InQueue(x)
  BY <1>2, Zenon DEF InQueue
<1>9. WaiterState'
  BY <1>2, <1>3, <1>4, <1>5, <1>8, SlotsAssumption, Zenon DEF IInv, WaiterState
<1>10. CreditOnlyBehindRoutingHead'
  <2>1. Head(queue[m]) \in woken
    BY DEF HandoffDeclined
  <2> QED
    BY <1>2, <1>3, <1>4, <2>1 DEF IInv, CreditOnlyBehindRoutingHead, Busy
<1> QED
  BY <1>6, <1>7, <1>9, <1>10 DEF IInv

LEMMA WakeKeeps ==
    ASSUME IInv, NEW m \in Models, NEW n \in Nat, Wake(m, n)
    PROVE  IInv'
<1> DEFINE told == FirstIdle(queue[m], woken, n)
<1>1. /\ queue[m] \in Seq(Requests) /\ ch \in [Requests -> Grants]
      /\ woken \in SUBSET Requests
  BY DEF IInv, TypeOK
<1>2. /\ woken' = woken \cup told
      /\ ch' = [r \in Requests |-> IF r \in told THEN Reroute ELSE ch[r]]
      /\ UNCHANGED <<queue, credit, tenants, phase, closed>>
  BY DEF Wake
<1>3. told \subseteq Range(queue[m]) \ woken
  BY <1>1, FirstIdleProps
<1> HIDE DEF told
<1>4. \A r \in told : r \in Requests /\ InQueue(r) /\ r \notin woken
  BY <1>3, QueuedHere
<1>5. TypeOK'
  BY <1>1, <1>2, <1>4, Zenon DEF IInv, TypeOK, Grants
<1>6. QueueShape'
  BY <1>2, Zenon DEF IInv, QueueShape
<1>7. \A x \in Requests : InQueue(x)' <=> InQueue(x)
  BY <1>2 DEF InQueue
<1>8. WaiterState'
  BY <1>2, <1>4, <1>7, SlotsAssumption DEF IInv, WaiterState
<1>9. CreditOnlyBehindRoutingHead'
  BY <1>2 DEF IInv, CreditOnlyBehindRoutingHead, Busy
<1> QED
  BY <1>5, <1>6, <1>8, <1>9 DEF IInv

(* The steps of one goroutine that only read its channel. *)
LEMMA ReceiveKeeps ==
    ASSUME IInv, NEW r \in Requests,
           ReceiveReroute(r) \/ ReceiveFinal(r) \/ LeaveAgain(r)
    PROVE  IInv'
<1>1. /\ ch' = [ch EXCEPT ![r] = None]
      /\ UNCHANGED <<queue, woken, credit, tenants, closed>>
      /\ \/ ch[r] = Reroute /\ phase[r] = "waiting"
            /\ phase' = [phase EXCEPT ![r] = "routing"]
         \/ ~InQueue(r) /\ phase' = [phase EXCEPT ![r] = "out"]
         \/ ch[r] \in Slots \cup {Flushed} /\ phase' = [phase EXCEPT ![r] = "out"]
  BY DEF ReceiveReroute, ReceiveFinal, LeaveAgain
<1>2. ch \in [Requests -> Grants] /\ phase \in [Requests -> {"out", "waiting", "routing"}]
  BY DEF IInv, TypeOK
<1>3. \/ InQueue(r) /\ ch[r] = Reroute /\ phase[r] = "waiting"
         /\ phase' = [phase EXCEPT ![r] = "routing"]
      \/ ~InQueue(r) /\ phase' = [phase EXCEPT ![r] = "out"]
  BY <1>1, SlotsAssumption DEF IInv, WaiterState
<1>4. TypeOK'
  BY <1>1, <1>2, <1>3, Zenon DEF IInv, TypeOK, Grants
<1>5. QueueShape'
  BY <1>1, Zenon DEF IInv, QueueShape
<1>6. \A x \in Requests : InQueue(x)' <=> InQueue(x)
  BY <1>1, Zenon DEF InQueue
<1>7. WaiterState'
  BY <1>1, <1>2, <1>3, <1>6, SlotsAssumption DEF IInv, WaiterState
<1>8. CreditOnlyBehindRoutingHead'
  BY <1>1, Zenon DEF IInv, CreditOnlyBehindRoutingHead, Busy
<1> QED
  BY <1>4, <1>5, <1>7, <1>8 DEF IInv

(* A waiter leaves its queue (Leave and Done), whether or not its wake-up  *)
(* is given back: the credit that is left is behind a routing head again.  *)
LEMMA LeaveAndSettleKeeps ==
    ASSUME IInv, NEW r \in Requests, NEW giveBack \in BOOLEAN, InQueue(r),
           LeaveAndSettle(r, giveBack),
           phase' = [phase EXCEPT ![r] = "out"], UNCHANGED closed
    PROVE  IInv'
<1> DEFINE m == ModelOf[r]
           rest == Without(queue[m], r)
           c == credit[m] + (IF giveBack /\ r \in woken THEN 1 ELSE 0)
           told == IF rest = <<>> THEN {} ELSE FirstIdle(rest, woken \ {r}, c)
           left == IF rest = <<>> THEN 0 ELSE Unspent(rest, woken \ {r}, c)
<1>1. m \in Models /\ TenantOf[r] \in Tenants \cup {NoTenant}
  BY RequestsAssumption
<1>2. /\ queue \in [Models -> Seq(Requests)] /\ tenants \in [Models -> [Tenants -> Nat]]
      /\ credit \in [Models -> Nat] /\ ch \in [Requests -> Grants]
      /\ woken \in SUBSET Requests
      /\ phase \in [Requests -> {"out", "waiting", "routing"}]
      /\ queue[m] \in Seq(Requests) /\ Injective(queue[m])
      /\ c \in Nat
  BY <1>1 DEF IInv, TypeOK, QueueShape
<1>3. r \in Range(queue[m])
  BY DEF InQueue
<1>4. rest \in Seq(Requests) /\ Injective(rest) /\ Range(rest) = Range(queue[m]) \ {r}
  BY <1>2, <1>3, WithoutProps
<1>5. /\ queue' = [queue EXCEPT ![m] = rest]
      /\ tenants' = [tenants EXCEPT ![m] = CountOut(TenantOf[r], @)]
      /\ woken' = (woken \ {r}) \cup told
      /\ credit' = [credit EXCEPT ![m] = left]
      /\ ch' = [x \in Requests |->
                   IF x \in told /\ x # r THEN Reroute ELSE [ch EXCEPT ![r] = None][x]]
  <2>1. CASE rest = <<>>
    BY <2>1, <1>2, Zenon DEF LeaveAndSettle
  <2>2. CASE rest # <<>>
    BY <2>2, Zenon DEF LeaveAndSettle, Settle, Unspent
  <2> QED
    BY <2>1, <2>2, Zenon
<1>6. /\ told \subseteq Range(rest) \ (woken \ {r})
      /\ left \in Nat
      /\ left > 0 => rest # <<>> /\ told = Range(rest) \ (woken \ {r})
  <2>1. CASE rest = <<>>
    BY <2>1
  <2>2. CASE rest # <<>>
    <3> DEFINE wk == woken \ {r}
    <3>1. /\ FirstIdle(rest, wk, c) \subseteq Range(rest) \ wk
          /\ Unspent(rest, wk, c) \in Nat
          /\ Unspent(rest, wk, c) > 0 => FirstIdle(rest, wk, c) = Range(rest) \ wk
      <4> HIDE DEF rest, c, wk
      <4> QED
        BY <1>2, <1>4, SettleProps, Zenon
    <3> QED
      BY <3>1, <2>2, Zenon
  <2> QED
    BY <2>1, <2>2, Zenon
<1> HIDE DEF told, left, rest, c
<1>7. /\ queue' \in [Models -> Seq(Requests)] /\ queue'[m] = rest
      /\ \A k \in Models : k # m => queue'[k] = queue[k]
  BY <1>1, <1>2, <1>4, <1>5, Zenon
<1>8. \A x \in told : x \in Requests /\ InQueue(x) /\ x # r /\ x \notin woken
  BY <1>1, <1>4, <1>6, QueuedHere, Zenon
<1>9. TypeOK'
  <2>1. tenants' \in [Models -> [Tenants -> Nat]]
    BY <1>1, <1>2, <1>5, CountType, Zenon
  <2>2. ch' \in [Requests -> Grants]
    BY <1>2, <1>5 DEF Grants
  <2>3. credit' \in [Models -> Nat] /\ woken' \in SUBSET Requests
    BY <1>2, <1>5, <1>6, <1>8, Zenon
  <2>4. phase' \in [Requests -> {"out", "waiting", "routing"}]
    BY <1>2, Zenon
  <2> QED
    BY <1>7, <2>1, <2>2, <2>3, <2>4, Zenon DEF IInv, TypeOK
<1>10. QueueShape'
  BY <1>4, <1>7, Zenon DEF IInv, QueueShape
<1>11. \A x \in Requests : InQueue(x)' <=> InQueue(x) /\ x # r
  BY <1>1, <1>4, <1>7, RequestsAssumption, Zenon DEF InQueue
<1>12. WaiterState'
  <2> SUFFICES ASSUME NEW x \in Requests
               PROVE  /\ InQueue(x)' =>
                          /\ phase'[x] \in {"waiting", "routing"} /\ ch'[x] \in {None, Reroute}
                          /\ (x \in woken' <=> phase'[x] = "routing" \/ ch'[x] = Reroute)
                          /\ phase'[x] = "routing" => ch'[x] = None
                      /\ ~InQueue(x)' =>
                          /\ x \notin woken' /\ (phase'[x] = "out" => ch'[x] = None)
                          /\ phase'[x] = "waiting" => ch'[x] \in Slots \cup {Flushed}
                          /\ phase'[x] = "routing" => ch'[x] = Flushed
    BY Zenon DEF WaiterState
  <2>1. /\ phase'[x] = IF x = r THEN "out" ELSE phase[x]
        /\ ch'[x] = IF x = r THEN None ELSE IF x \in told THEN Reroute ELSE ch[x]
        /\ x \in woken' <=> (x \in woken /\ x # r) \/ x \in told
    BY <1>2, <1>5
  <2>2. x \in told => x # r /\ InQueue(x) /\ x \notin woken
    BY <1>8, Zenon
  <2> QED
    BY <1>11, <2>1, <2>2, SlotsAssumption DEF IInv, WaiterState
<1>13. CreditOnlyBehindRoutingHead'
  <2>1. rest # <<>> => Head(rest) \in Range(rest)
    BY <1>4, TailProps, Zenon
  <2>2. credit'[m] > 0 => rest # <<>> /\ Head(rest) \in woken'
    BY <1>1, <1>2, <1>5, <1>6, <2>1, Zenon
  <2>3. ASSUME NEW k \in Models, k # m, credit'[k] > 0
        PROVE  queue'[k] # <<>> /\ Head(queue'[k]) \in woken'
    <3>1. queue[k] # <<>> /\ Head(queue[k]) \in woken
      BY <1>1, <1>2, <1>5, <2>3, Zenon DEF IInv, CreditOnlyBehindRoutingHead, Busy
    <3>2. Head(queue[k]) \in Range(queue[k])
      BY <1>2, <2>3, <3>1, TailProps DEF IInv, QueueShape
    <3>3. Head(queue[k]) # r
      BY <2>3, <3>2, QueuedHere DEF m
    <3> QED
      BY <1>5, <1>7, <2>3, <3>1, <3>3, Zenon
  <2> QED
    BY <1>7, <2>2, <2>3, Zenon DEF CreditOnlyBehindRoutingHead, Busy
<1> QED
  BY <1>9, <1>10, <1>12, <1>13 DEF IInv

LEMMA LeaveKeeps ==
    ASSUME IInv, NEW r \in Requests, Leave(r)
    PROVE  IInv'
  BY LeaveAndSettleKeeps, Zenon DEF Leave

LEMMA DoneKeeps ==
    ASSUME IInv, NEW r \in Requests, Done(r)
    PROVE  IInv'
<1>1. CASE InQueue(r)
  BY <1>1, LeaveAndSettleKeeps, Zenon DEF Done
<1>2. CASE ~InQueue(r)
  <2>1. LeaveAgain(r)
    BY <1>2, SlotsAssumption DEF Done, LeaveAgain, IInv, WaiterState
  <2> QED
    BY <2>1, ReceiveKeeps
<1> QED
  BY <1>1, <1>2

LEMMA ParkKeeps ==
    ASSUME IInv, NEW r \in Requests, Park(r)
    PROVE  IInv'
<1> DEFINE m == ModelOf[r]
           wk == woken \ {r}
           told == FirstIdle(queue[m], wk, credit[m])
           left == Unspent(queue[m], wk, credit[m])
<1>1. /\ m \in Models
      /\ queue \in [Models -> Seq(Requests)] /\ queue[m] \in Seq(Requests)
      /\ credit \in [Models -> Nat] /\ credit[m] \in Nat /\ ch \in [Requests -> Grants]
      /\ woken \in SUBSET Requests
      /\ phase \in [Requests -> {"out", "waiting", "routing"}]
  BY RequestsAssumption DEF IInv, TypeOK
<1>2. /\ UNCHANGED <<queue, tenants, closed>>
      /\ phase[r] = "routing"
  BY DEF Park
<1>3. QueueShape' /\ \A x \in Requests : InQueue(x)' <=> InQueue(x)
  BY <1>2 DEF IInv, QueueShape, InQueue
<1>4. CASE ~InQueue(r)
  <2>1. phase' = [phase EXCEPT ![r] = "waiting"] /\ UNCHANGED <<woken, credit, ch>>
    BY <1>4 DEF Park
  <2>2. TypeOK'
    BY <1>1, <1>2, <2>1 DEF IInv, TypeOK
  <2>3. WaiterState'
    BY <1>1, <1>2, <1>3, <1>4, <2>1 DEF IInv, WaiterState
  <2>4. CreditOnlyBehindRoutingHead'
    BY <1>2, <2>1 DEF IInv, CreditOnlyBehindRoutingHead, Busy
  <2> QED
    BY <1>3, <2>2, <2>3, <2>4 DEF IInv
<1>5. CASE InQueue(r)
  <2>1. /\ woken' = wk \cup told
        /\ credit' = [credit EXCEPT ![m] = left]
        /\ ch' = [x \in Requests |-> IF x \in told /\ x # r THEN Reroute ELSE ch[x]]
        /\ phase' = IF r \in woken' THEN phase ELSE [phase EXCEPT ![r] = "waiting"]
    BY <1>5 DEF Park, Settle, Unspent
  <2>2. wk \subseteq woken /\ r \notin wk /\ woken \subseteq wk \cup {r}
    OBVIOUS
  <2> HIDE DEF wk
  <2>3. /\ told \subseteq Range(queue[m]) \ wk
        /\ left \in Nat
        /\ left > 0 => told = Range(queue[m]) \ wk
    BY <1>1, SettleProps
  <2> HIDE DEF told, left, m
  <2>4. \A x \in told : x \in Requests /\ InQueue(x) /\ x \notin wk
    BY <1>1, <2>3, QueuedHere
  <2>5. TypeOK'
    <3>1. ch' \in [Requests -> Grants] /\ woken' \in SUBSET Requests
      BY <1>1, <2>1, <2>2, <2>4 DEF Grants
    <3>2. credit' \in [Models -> Nat]
      BY <1>1, <2>1, <2>3
    <3>3. phase' \in [Requests -> {"out", "waiting", "routing"}]
      BY <1>1, <2>1
    <3> QED
      BY <1>2, <3>1, <3>2, <3>3 DEF IInv, TypeOK
  <2>6. WaiterState'
    BY <1>1, <1>2, <1>3, <1>5, <2>1, <2>2, <2>4, SlotsAssumption DEF IInv, WaiterState
  <2>7. CreditOnlyBehindRoutingHead'
    <3>1. ASSUME NEW k \in Models, credit'[k] > 0
          PROVE  queue[k] # <<>> /\ Head(queue[k]) \in woken'
      <4>1. CASE k # m
        <5>1. queue[k] # <<>> /\ Head(queue[k]) \in woken
          BY <1>1, <2>1, <3>1, <4>1 DEF IInv, CreditOnlyBehindRoutingHead, Busy
        <5>2. Head(queue[k]) \in Range(queue[k])
          BY <1>1, <5>1, TailProps DEF IInv, QueueShape
        <5>3. Head(queue[k]) # r
          BY <4>1, <5>2, QueuedHere DEF m
        <5> QED
          BY <2>1, <2>2, <5>1, <5>3
      <4>2. CASE k = m
        <5>1. queue[m] # <<>>
          BY <1>1, <1>5 DEF InQueue, Range, m
        <5>2. Head(queue[m]) \in Range(queue[m])
          BY <1>1, <5>1, TailProps DEF IInv, QueueShape
        <5>3. credit'[m] = left
          BY <1>1, <2>1
        <5> QED
          BY <2>1, <2>3, <3>1, <4>2, <5>1, <5>2, <5>3
      <4> QED
        BY <4>1, <4>2
    <3> QED
      BY <1>2, <3>1 DEF CreditOnlyBehindRoutingHead, Busy
  <2> QED
    BY <1>3, <2>5, <2>6, <2>7 DEF IInv
<1> QED
  BY <1>4, <1>5

LEMMA FlushKeeps == IInv /\ Flush => IInv'
<1> SUFFICES ASSUME IInv, Flush PROVE IInv'
  OBVIOUS
<1>1. /\ ch \in [Requests -> Grants] /\ phase \in [Requests -> {"out", "waiting", "routing"}]
      /\ closed \in BOOLEAN
  BY DEF IInv, TypeOK
<1>2. /\ queue' = [m \in Models |-> <<>>]
      /\ credit' = [m \in Models |-> 0]
      /\ tenants' = [m \in Models |-> [t \in Tenants |-> 0]]
      /\ woken' = {}
      /\ ch' = [r \in Requests |-> IF InQueue(r) THEN Flushed ELSE ch[r]]
      /\ UNCHANGED <<phase, closed>>
  BY DEF Flush
<1>3. TypeOK'
  <2>1. queue' \in [Models -> Seq(Requests)]
    BY <1>2
  <2>2. tenants' \in [Models -> [Tenants -> Nat]] /\ credit' \in [Models -> Nat]
    BY <1>2
  <2>3. ch' \in [Requests -> Grants]
    BY <1>1, <1>2 DEF Grants
  <2> QED
    BY <1>1, <1>2, <2>1, <2>2, <2>3 DEF TypeOK
<1>4. \A m \in Models : queue'[m] = <<>> /\ Range(queue'[m]) = {}
  BY <1>2 DEF Range
<1>5. QueueShape'
  BY <1>4 DEF QueueShape, Injective
<1>6. \A x \in Requests : ~InQueue(x)'
  BY <1>4, RequestsAssumption, Zenon DEF InQueue
<1>7. WaiterState'
  BY <1>1, <1>2, <1>6, SlotsAssumption DEF IInv, WaiterState
<1>8. CreditOnlyBehindRoutingHead'
  BY <1>2 DEF CreditOnlyBehindRoutingHead
<1> QED
  BY <1>3, <1>5, <1>7, <1>8 DEF IInv

(* Close and a stuttering step change nothing the invariant reads. *)
LEMMA CloseKeeps == IInv /\ (Close \/ UNCHANGED queueVars) => IInv'
<1> SUFFICES ASSUME IInv, Close \/ UNCHANGED queueVars PROVE IInv'
  OBVIOUS
<1>1. /\ queue' = queue /\ woken' = woken /\ credit' = credit /\ tenants' = tenants /\ ch' = ch /\ phase' = phase
      /\ closed' = closed \/ closed' = TRUE
  BY Zenon DEF Close, queueVars
<1>2. TypeOK'
  <2>1. closed' \in BOOLEAN
    BY <1>1, Zenon DEF IInv, TypeOK
  <2> QED
    BY <1>1, <2>1, Zenon DEF IInv, TypeOK
<1>3. QueueShape'
  BY <1>1, Zenon DEF IInv, QueueShape
<1>4. WaiterState'
  BY <1>1, Zenon DEF IInv, WaiterState, InQueue
<1>5. CreditOnlyBehindRoutingHead'
  BY <1>1, Zenon DEF IInv, CreditOnlyBehindRoutingHead, Busy
<1> QED
  BY <1>2, <1>3, <1>4, <1>5, Zenon DEF IInv

LEMMA NextKeeps == IInv /\ [Next]_queueVars => IInv'
<1> SUFFICES ASSUME IInv, [Next]_queueVars PROVE IInv'
  OBVIOUS
<1>1. ASSUME NEW r \in Requests, RequestStep(r) PROVE IInv'
  BY <1>1, EnqueueKeeps, ReceiveKeeps, LeaveKeeps, DoneKeeps, ParkKeeps DEF RequestStep
<1>2. ASSUME NEW m \in Models, ModelStep(m) PROVE IInv'
  <2>1. ASSUME NEW slot \in Slots, HandoffGiven(m, slot) PROVE IInv'
    BY <2>1, HandoffGivenKeeps
  <2>2. CASE HandoffDeclined(m)
    BY <2>2, HandoffDeclinedKeeps
  <2>3. ASSUME NEW n \in 1 .. Len(queue[m]), Wake(m, n) PROVE IInv'
    <3>1. queue[m] \in Seq(Requests)
      BY DEF IInv, TypeOK
    <3>2. n \in Nat
      BY <3>1
    <3> QED
      BY <2>3, <3>2, WakeKeeps
  <2> QED
    BY <1>2, <2>1, <2>2, <2>3 DEF ModelStep
<1>3. CASE Flush
  BY <1>3, FlushKeeps
<1>4. CASE Close \/ UNCHANGED queueVars
  BY <1>4, CloseKeeps
<1> QED
  BY <1>1, <1>2, <1>3, <1>4 DEF Next

-----------------------------------------------------------------------------
(* The limits *)

(* Places of a tenant in a queue, and its waiters there. *)
PlacesOf(s, t) == {i \in DOMAIN s : TenantOf[s[i]] = t}
WaitersOf(S, t) == {r \in S : TenantOf[r] = t}

LEMMA TenantPlaces ==
    ASSUME NEW s \in Seq(Requests), Injective(s), NEW t
    PROVE  /\ IsFiniteSet(WaitersOf(Range(s), t))
           /\ Cardinality(PlacesOf(s, t)) = Cardinality(WaitersOf(Range(s), t))
           /\ Cardinality(PlacesOf(s, t)) \in Nat
<1> DEFINE D == PlacesOf(s, t)
<1>1. D \in SUBSET DOMAIN s
  BY DEF PlacesOf
<1>2. {s[i] : i \in D} = WaitersOf(Range(s), t)
  BY DEF PlacesOf, WaitersOf, Range
<1> QED
  BY <1>1, <1>2, PlacesCount, Zenon

(* tenants[t]++ where a waiter joins, tenants[t]-- where one leaves. *)
LEMMA CountedIn ==
    ASSUME NEW s \in Seq(Requests), NEW a \in Seq(Requests), Injective(s), Injective(a),
           NEW r \in Requests, r \notin Range(s), Range(a) = Range(s) \cup {r},
           NEW counts \in [Tenants -> Nat], NEW t \in Tenants,
           counts[t] = Cardinality(PlacesOf(s, t))
    PROVE  CountIn(TenantOf[r], counts)[t] = Cardinality(PlacesOf(a, t))
<1> DEFINE W == WaitersOf(Range(s), t)
<1>1. /\ IsFiniteSet(W) /\ Cardinality(PlacesOf(s, t)) = Cardinality(W)
      /\ Cardinality(PlacesOf(a, t)) = Cardinality(WaitersOf(Range(a), t))
  BY TenantPlaces, Zenon
<1>2. CASE TenantOf[r] = t
  <2>1. WaitersOf(Range(a), t) = W \cup {r} /\ r \notin W
    BY <1>2 DEF WaitersOf
  <2> HIDE DEF W
  <2>2. Cardinality(WaitersOf(Range(a), t)) = Cardinality(W) + 1
    <3>1. IsFiniteSet(W)
      BY <1>1, Zenon
    <3>2. Cardinality(W \cup {r}) = Cardinality(W) + 1
      BY <2>1, <3>1, FS_AddElement, Zenon
    <3> QED
      BY <2>1, <3>2, Zenon
  <2>3. t # NoTenant
    BY RequestsAssumption
  <2> QED
    BY <1>1, <1>2, <2>2, <2>3 DEF CountIn
<1>3. CASE TenantOf[r] # t
  <2>1. WaitersOf(Range(a), t) = W
    BY <1>3 DEF WaitersOf
  <2>2. CountIn(TenantOf[r], counts)[t] = counts[t]
    BY <1>3 DEF CountIn
  <2> QED
    BY <1>1, <2>1, <2>2, Zenon
<1> QED
  BY <1>2, <1>3

LEMMA CountedOut ==
    ASSUME NEW s \in Seq(Requests), NEW a \in Seq(Requests), Injective(s), Injective(a),
           NEW r \in Range(s), Range(a) = Range(s) \ {r},
           NEW counts \in [Tenants -> Nat], NEW t \in Tenants,
           counts[t] = Cardinality(PlacesOf(s, t))
    PROVE  /\ CountOut(TenantOf[r], counts)[t] = Cardinality(PlacesOf(a, t))
           /\ CountOut(TenantOf[r], counts)[t] <= counts[t]
<1> DEFINE W == WaitersOf(Range(s), t)
<1>1. /\ IsFiniteSet(W) /\ Cardinality(PlacesOf(s, t)) = Cardinality(W)
      /\ Cardinality(PlacesOf(a, t)) = Cardinality(WaitersOf(Range(a), t))
  BY TenantPlaces, Zenon
<1>2. CASE TenantOf[r] = t
  <2>1. WaitersOf(Range(a), t) = W \ {r} /\ r \in W
    BY <1>2 DEF WaitersOf
  <2> HIDE DEF W
  <2>2. Cardinality(WaitersOf(Range(a), t)) = Cardinality(W) - 1 /\ Cardinality(W) # 0
    BY <1>1, <2>1, FS_RemoveElement, FS_EmptySet, Zenon
  <2>3. t # NoTenant
    BY RequestsAssumption
  <2>4. CountOut(TenantOf[r], counts)[t] = IF counts[t] > 0 THEN counts[t] - 1 ELSE 0
    BY <1>2, <2>3 DEF CountOut
  <2> QED
    BY <1>1, <2>2, <2>4
<1>3. CASE TenantOf[r] # t
  <2>1. WaitersOf(Range(a), t) = W
    BY <1>3 DEF WaitersOf
  <2>2. CountOut(TenantOf[r], counts)[t] = counts[t]
    BY <1>3 DEF CountOut
  <2> QED
    BY <1>1, <2>1, <2>2
<1> QED
  BY <1>2, <1>3, Zenon

LEMMA CapType == TenantCap \in Nat
<1> DEFINE floor == (ShareNum * MaxModelDepth) \div ShareDen
<1>1. floor \in Int
  BY ParamsAssumption
<1> HIDE DEF floor
<1>2. TenantCap = IF ShareNum = 0 \/ ShareNum >= ShareDen THEN 0
                  ELSE IF floor < 1 THEN 1 ELSE floor
  BY DEF TenantCap, floor
<1> QED
  BY <1>1, <1>2

(* The models that have waiters are finitely many: each has a request. *)
LEMMA QueuedModelsFinite ==
    ASSUME IInv
    PROVE  IsFiniteSet(QueuedModels)
<1> DEFINE f == [r \in Requests |-> ModelOf[r]]
           S == {ModelOf[r] : r \in Requests}
<1>1. f \in Surjection(Requests, S)
  BY Zenon DEF Surjection
<1>2. IsFiniteSet(S)
  <2> HIDE DEF f, S
  <2> QED
    BY <1>1, RequestsAssumption, FS_Surjection
<1>3. ASSUME NEW m \in QueuedModels PROVE m \in S
  <2>1. queue[m] \in Seq(Requests) /\ queue[m] # <<>> /\ m \in Models /\ Injective(queue[m])
    BY DEF QueuedModels, Busy, IInv, TypeOK, QueueShape
  <2>2. Head(queue[m]) \in Range(queue[m])
    BY <2>1, TailProps
  <2> QED
    BY <2>1, <2>2, QueuedHere
<1>4. QueuedModels \in SUBSET S
  BY <1>3
<1> HIDE DEF S
<1> QED
  BY <1>2, <1>4, FS_Subset, Zenon


(* The limits, of one model and of all of them. *)
ModelLimits(m) ==
    /\ Len(queue[m]) <= MaxModelDepth
    /\ \A t \in Tenants :
        /\ tenants[m][t] = Cardinality(PlacesOf(queue[m], t))
        /\ TenantCap > 0 => tenants[m][t] <= TenantCap

LEMMA LimitsByModel ==
    LimitsKept <=> /\ MaxModels > 0 => Cardinality(QueuedModels) <= MaxModels
                   /\ \A m \in Models : ModelLimits(m)
  BY Zenon DEF LimitsKept, ModelLimits, PlacesOf

(* A step that leaves the queue of m alone leaves its limits alone. *)
LEMMA OtherModelLimits ==
    ASSUME NEW m \in Models, ModelLimits(m), queue'[m] = queue[m], tenants'[m] = tenants[m]
    PROVE  ModelLimits(m)'
  BY DEF ModelLimits, PlacesOf

LEMMA SameQueueLimits ==
    ASSUME LimitsKept, UNCHANGED <<queue, tenants>>
    PROVE  LimitsKept'
  BY DEF LimitsKept, QueuedModels, Busy

(* Enqueue looks at every limit in the critical section that adds. *)
LEMMA EnqueueLimits ==
    ASSUME IInv, LimitsKept, NEW r \in Requests, Enqueue(r)
    PROVE  LimitsKept'
<1> DEFINE m == ModelOf[r]
           a == Append(queue[m], r)
<1>1. m \in Models /\ TenantOf[r] \in Tenants \cup {NoTenant}
  BY RequestsAssumption
<1>2. /\ queue \in [Models -> Seq(Requests)] /\ tenants \in [Models -> [Tenants -> Nat]]
      /\ queue[m] \in Seq(Requests) /\ Injective(queue[m])
      /\ r \notin Range(queue[m])
  BY <1>1, Zenon DEF IInv, TypeOK, QueueShape, WaiterState, InQueue, Enqueue, SlotsAssumption
<1>3. /\ queue' = [queue EXCEPT ![m] = a]
      /\ tenants' = [tenants EXCEPT ![m] = CountIn(TenantOf[r], @)]
      /\ Refusal(m, TenantOf[r]) = ""
  BY Zenon DEF Enqueue
<1>4. a \in Seq(Requests) /\ Injective(a) /\ Range(a) = Range(queue[m]) \cup {r} /\ a # <<>>
  BY <1>2, AppendProps, Zenon
<1>5. Len(a) = Len(queue[m]) + 1 /\ Len(queue[m]) \in Nat
  BY <1>2
<1>6. /\ Len(queue[m]) < MaxModelDepth
      /\ ~Busy(m) /\ MaxModels > 0 => Cardinality(QueuedModels) < MaxModels
      /\ Busy(m) /\ TenantCap > 0 /\ TenantOf[r] # NoTenant => tenants[m][TenantOf[r]] < TenantCap
  <2>1. ~closed /\ MaxModelDepth > 0
    BY <1>3, ParamsAssumption DEF Refusal
  <2>2. CASE ~Busy(m)
    <3>1. Len(queue[m]) = 0
      BY <1>2, <2>2 DEF Busy
    <3>2. MaxModels > 0 => ~(Cardinality(QueuedModels) >= MaxModels)
      BY <1>3, <2>1, <2>2 DEF Refusal
    <3>3. Cardinality(QueuedModels) \in Nat
      BY QueuedModelsFinite, FS_CardinalityType
    <3> QED
      BY <2>1, <2>2, <3>1, <3>2, <3>3, ParamsAssumption
  <2>3. CASE Busy(m)
    <3>1. /\ ~(Len(queue[m]) >= MaxModelDepth)
          /\ ~(TenantCap > 0 /\ TenantOf[r] # NoTenant /\ tenants[m][TenantOf[r]] >= TenantCap)
      BY <1>3, <2>1, <2>3 DEF Refusal
    <3>2. TenantOf[r] # NoTenant => tenants[m][TenantOf[r]] \in Nat
      BY <1>1, <1>2, Zenon
    <3> QED
      BY <1>5, <2>3, <3>1, <3>2, CapType, ParamsAssumption
  <2> QED
    BY <2>2, <2>3, Zenon
<1> HIDE DEF m, a
<1>7. /\ queue'[m] = a /\ tenants'[m] = CountIn(TenantOf[r], tenants[m])
      /\ \A k \in Models : k # m => queue'[k] = queue[k] /\ tenants'[k] = tenants[k]
  BY <1>1, <1>2, <1>3, Zenon
<1>8. ModelLimits(m)'
  <2>1. Len(queue'[m]) <= MaxModelDepth
    BY <1>5, <1>6, <1>7, ParamsAssumption
  <2>2. ASSUME NEW t \in Tenants
        PROVE  /\ tenants'[m][t] = Cardinality(PlacesOf(queue'[m], t))
               /\ TenantCap > 0 => tenants'[m][t] <= TenantCap
    <3>1. /\ tenants[m] \in [Tenants -> Nat]
          /\ tenants[m][t] = Cardinality(PlacesOf(queue[m], t))
          /\ TenantCap > 0 => tenants[m][t] <= TenantCap
      BY <1>1, <1>2, LimitsByModel DEF ModelLimits
    <3>2. tenants'[m][t] = Cardinality(PlacesOf(queue'[m], t))
      <4>1. CountIn(TenantOf[r], tenants[m])[t] = Cardinality(PlacesOf(a, t))
        <5> DEFINE s == queue[m]
                   counts == tenants[m]
        <5>1. s \in Seq(Requests) /\ Injective(s) /\ r \notin Range(s) /\ Range(a) = Range(s) \cup {r}
          BY <1>2, <1>4
        <5>2. counts \in [Tenants -> Nat] /\ counts[t] = Cardinality(PlacesOf(s, t))
          BY <3>1
        <5> HIDE DEF s, counts
        <5>3. CountIn(TenantOf[r], counts)[t] = Cardinality(PlacesOf(a, t))
          BY <1>4, <5>1, <5>2, CountedIn
        <5> QED
          BY <5>3 DEF counts
      <4> QED
        BY <1>7, <4>1, Zenon
    <3>3. ASSUME TenantCap > 0 PROVE tenants'[m][t] <= TenantCap
      <4>1. CASE TenantOf[r] # t
        <5>1. tenants'[m][t] = tenants[m][t]
          BY <1>7, <3>1, <4>1, Zenon DEF CountIn
        <5> QED
          BY <3>1, <3>3, <5>1
      <4>2. CASE TenantOf[r] = t
        <5>1. t # NoTenant
          BY RequestsAssumption
        <5>2. tenants'[m][t] = tenants[m][t] + 1
          BY <1>7, <3>1, <4>2, <5>1 DEF CountIn
        <5>3. CASE Busy(m)
          BY <1>6, <3>1, <3>3, <4>2, <5>1, <5>2, <5>3, CapType
        <5>4. CASE ~Busy(m)
          <6>1. PlacesOf(queue[m], t) = {}
            BY <1>2, <5>4 DEF PlacesOf, Busy
          <6>2. tenants[m][t] = 0
            BY <3>1, <6>1, FS_EmptySet, Zenon
          <6> QED
            BY <3>3, <5>2, <6>2, CapType
        <5> QED
          BY <5>3, <5>4, Zenon
      <4> QED
        BY <4>1, <4>2
    <3> QED
      BY <3>2, <3>3
  <2> QED
    BY <2>1, <2>2 DEF ModelLimits, PlacesOf
<1>9. ASSUME NEW k \in Models, k # m PROVE ModelLimits(k)'
  BY <1>7, <1>9, OtherModelLimits, LimitsByModel
<1>10. ASSUME MaxModels > 0 PROVE Cardinality(QueuedModels') <= MaxModels
  <2>1. QueuedModels' = QueuedModels \cup {m}
    BY <1>1, <1>4, <1>7, Zenon DEF QueuedModels, Busy
  <2>2. m \in QueuedModels <=> Busy(m)
    BY <1>1 DEF QueuedModels
  <2>3. Cardinality(QueuedModels) \in Nat /\ Cardinality(QueuedModels) <= MaxModels
    BY <1>10, QueuedModelsFinite, FS_CardinalityType, LimitsByModel
  <2>4. Cardinality(QueuedModels') = IF m \in QueuedModels THEN Cardinality(QueuedModels)
                                     ELSE Cardinality(QueuedModels) + 1
    BY <2>1, QueuedModelsFinite, FS_AddElement, Zenon
  <2> QED
    BY <1>6, <1>10, <2>2, <2>3, <2>4, ParamsAssumption
<1>11. \A k \in Models : ModelLimits(k)'
  BY <1>8, <1>9, Zenon
<1> QED
  BY <1>10, <1>11, Zenon DEF LimitsKept, ModelLimits, PlacesOf

(* A waiter leaves, in whatever way: the entry that decrements is its own. *)
LEMMA DepartLimits ==
    ASSUME IInv, LimitsKept, NEW m \in Models, NEW r \in Range(queue[m]),
           NEW rest \in Seq(Requests), Injective(rest),
           Range(rest) = Range(queue[m]) \ {r}, Len(rest) <= Len(queue[m]),
           queue' = [queue EXCEPT ![m] = rest],
           tenants' = [tenants EXCEPT ![m] = CountOut(TenantOf[r], @)]
    PROVE  LimitsKept'
<1>1. /\ queue \in [Models -> Seq(Requests)] /\ tenants \in [Models -> [Tenants -> Nat]]
      /\ queue[m] \in Seq(Requests) /\ Injective(queue[m])
  BY Zenon DEF IInv, TypeOK, QueueShape
<1>2. /\ queue'[m] = rest /\ tenants'[m] = CountOut(TenantOf[r], tenants[m])
      /\ \A k \in Models : k # m => queue'[k] = queue[k] /\ tenants'[k] = tenants[k]
  BY <1>1, Zenon
<1>3. ModelLimits(m)'
  <2>1. Len(queue'[m]) <= MaxModelDepth
    <3>1. Len(queue[m]) <= MaxModelDepth /\ Len(queue[m]) \in Nat /\ Len(rest) \in Nat
      BY <1>1, LimitsByModel DEF ModelLimits
    <3> QED
      BY <1>2, <3>1, ParamsAssumption
  <2>2. ASSUME NEW t \in Tenants
        PROVE  /\ tenants'[m][t] = Cardinality(PlacesOf(queue'[m], t))
               /\ TenantCap > 0 => tenants'[m][t] <= TenantCap
    <3>1. /\ tenants[m] \in [Tenants -> Nat] /\ tenants[m][t] \in Nat
          /\ tenants[m][t] = Cardinality(PlacesOf(queue[m], t))
          /\ TenantCap > 0 => tenants[m][t] <= TenantCap
      BY <1>1, LimitsByModel DEF ModelLimits
    <3>2. /\ tenants'[m][t] = Cardinality(PlacesOf(rest, t))
          /\ tenants'[m][t] <= tenants[m][t]
      <4>1. /\ CountOut(TenantOf[r], tenants[m])[t] = Cardinality(PlacesOf(rest, t))
            /\ CountOut(TenantOf[r], tenants[m])[t] <= tenants[m][t]
        <5> DEFINE s == queue[m]
                   counts == tenants[m]
        <5>1. /\ s \in Seq(Requests) /\ Injective(s) /\ r \in Range(s) /\ Range(rest) = Range(s) \ {r}
              /\ rest \in Seq(Requests) /\ Injective(rest)
          BY <1>1, Zenon
        <5>2. counts \in [Tenants -> Nat] /\ counts[t] = Cardinality(PlacesOf(s, t))
          BY <3>1, Zenon
        <5> HIDE DEF s, counts
        <5>3. /\ CountOut(TenantOf[r], counts)[t] = Cardinality(PlacesOf(rest, t))
              /\ CountOut(TenantOf[r], counts)[t] <= counts[t]
          BY <5>1, <5>2, CountedOut, Zenon
        <5> QED
          BY <5>3, Zenon DEF counts
      <4> QED
        BY <1>2, <4>1
    <3>3. tenants'[m][t] \in Nat
      BY <3>2, TenantPlaces
    <3> QED
      BY <1>2, <3>1, <3>2, <3>3, CapType
  <2> QED
    BY <2>1, <2>2, Zenon DEF ModelLimits, PlacesOf
<1>4. ASSUME NEW k \in Models, k # m PROVE ModelLimits(k)'
  BY <1>2, <1>4, OtherModelLimits, LimitsByModel
<1>5. ASSUME MaxModels > 0 PROVE Cardinality(QueuedModels') <= MaxModels
  <2>1. m \in QueuedModels
    BY <1>1 DEF QueuedModels, Busy, Range
  <2>2. QueuedModels' \in SUBSET QueuedModels
    BY <1>2, <2>1 DEF QueuedModels, Busy
  <2>3. /\ Cardinality(QueuedModels) \in Nat /\ Cardinality(QueuedModels) <= MaxModels
        /\ Cardinality(QueuedModels') \in Nat
        /\ Cardinality(QueuedModels') <= Cardinality(QueuedModels)
    BY <1>5, <2>2, QueuedModelsFinite, FS_Subset, FS_CardinalityType, LimitsByModel
  <2> QED
    BY <2>3, ParamsAssumption
<1>6. \A k \in Models : ModelLimits(k)'
  BY <1>3, <1>4
<1> QED
  BY <1>5, <1>6, Zenon DEF LimitsKept, ModelLimits, PlacesOf


LEMMA InitLimits == Init => LimitsKept
<1> SUFFICES ASSUME Init PROVE LimitsKept
  OBVIOUS
<1>1. QueuedModels = {}
  BY DEF Init, QueuedModels, Busy
<1>2. ASSUME NEW m \in Models PROVE ModelLimits(m)
  <2>1. queue[m] = <<>> /\ \A t \in Tenants : tenants[m][t] = 0 /\ PlacesOf(queue[m], t) = {}
    BY DEF Init, PlacesOf
  <2>2. Len(queue[m]) <= MaxModelDepth
    BY <2>1, ParamsAssumption
  <2>3. Cardinality({}) = 0 /\ (TenantCap > 0 => 0 <= TenantCap)
    BY FS_EmptySet, CapType
  <2> QED
    BY <2>1, <2>2, <2>3, Zenon DEF ModelLimits
<1> QED
  BY <1>1, <1>2, FS_EmptySet, LimitsByModel, ParamsAssumption

LEMMA FlushLimits == Flush => LimitsKept'
<1> SUFFICES ASSUME Flush PROVE LimitsKept'
  OBVIOUS
<1>1. QueuedModels' = {}
  BY Zenon DEF Flush, QueuedModels, Busy
<1>2. ASSUME NEW m \in Models PROVE ModelLimits(m)'
  <2>1. queue'[m] = <<>> /\ \A t \in Tenants : tenants'[m][t] = 0 /\ PlacesOf(queue'[m], t) = {}
    BY DEF Flush, PlacesOf
  <2> QED
    BY <2>1, FS_EmptySet, CapType, ParamsAssumption DEF ModelLimits, PlacesOf
<1> QED
  BY <1>1, <1>2, FS_EmptySet, ParamsAssumption DEF LimitsKept, ModelLimits, PlacesOf

LEMMA LeaveAndSettleLimits ==
    ASSUME IInv, LimitsKept, NEW r \in Requests, NEW giveBack \in BOOLEAN, InQueue(r),
           LeaveAndSettle(r, giveBack)
    PROVE  LimitsKept'
<1> DEFINE m == ModelOf[r]
           rest == Without(queue[m], r)
<1>1. m \in Models /\ r \in Range(queue[m])
  BY RequestsAssumption DEF InQueue
<1>2. queue[m] \in Seq(Requests) /\ Injective(queue[m])
  BY <1>1 DEF IInv, TypeOK, QueueShape
<1>3. /\ rest \in Seq(Requests) /\ Injective(rest) /\ Range(rest) = Range(queue[m]) \ {r}
      /\ Len(rest) = Len(queue[m]) - 1
  BY <1>1, <1>2, WithoutProps, Zenon
<1>4. Len(rest) <= Len(queue[m])
  BY <1>2, <1>3
<1>5. /\ queue' = [queue EXCEPT ![m] = rest]
      /\ tenants' = [tenants EXCEPT ![m] = CountOut(TenantOf[r], @)]
  BY Zenon DEF LeaveAndSettle
<1> HIDE DEF m, rest
<1> QED
  BY <1>1, <1>3, <1>4, <1>5, DepartLimits, Zenon

LEMMA HandoffLimits ==
    ASSUME IInv, LimitsKept, NEW m \in Models, NEW slot, HandoffGiven(m, slot)
    PROVE  LimitsKept'
<1> DEFINE rest == Tail(queue[m])
           head == Head(queue[m])
<1>1. queue[m] \in Seq(Requests) /\ Injective(queue[m]) /\ queue[m] # <<>>
  BY DEF IInv, TypeOK, QueueShape, HandoffGiven, Busy
<1>2. /\ rest \in Seq(Requests) /\ Injective(rest) /\ Range(rest) = Range(queue[m]) \ {head}
      /\ head \in Range(queue[m])
  BY <1>1, TailProps, Zenon
<1>3. Len(rest) <= Len(queue[m])
  BY <1>1
<1>4. /\ queue' = [queue EXCEPT ![m] = rest]
      /\ tenants' = [tenants EXCEPT ![m] = CountOut(TenantOf[head], @)]
  BY DEF HandoffGiven
<1> HIDE DEF rest, head
<1> QED
  BY <1>2, <1>3, <1>4, DepartLimits, Zenon

LEMMA NextLimits ==
    ASSUME IInv, LimitsKept, [Next]_queueVars
    PROVE  LimitsKept'
<1>1. ASSUME NEW r \in Requests, RequestStep(r) PROVE LimitsKept'
  <2>1. CASE Enqueue(r)
    BY <2>1, EnqueueLimits
  <2>2. CASE ReceiveReroute(r) \/ ReceiveFinal(r) \/ LeaveAgain(r) \/ Park(r)
    BY <2>2, SameQueueLimits, Zenon DEF ReceiveReroute, ReceiveFinal, LeaveAgain, Park
  <2>3. CASE Leave(r)
    BY <2>3, LeaveAndSettleLimits, Zenon DEF Leave
  <2>4. CASE Done(r)
    <3>1. CASE InQueue(r)
      BY <2>4, <3>1, LeaveAndSettleLimits, Zenon DEF Done
    <3>2. CASE ~InQueue(r)
      BY <2>4, <3>2, SameQueueLimits DEF Done
    <3> QED
      BY <3>1, <3>2
  <2> QED
    BY <1>1, <2>1, <2>2, <2>3, <2>4 DEF RequestStep
<1>2. ASSUME NEW m \in Models, ModelStep(m) PROVE LimitsKept'
  <2>1. ASSUME NEW slot \in Slots, HandoffGiven(m, slot) PROVE LimitsKept'
    BY <2>1, HandoffLimits, Zenon
  <2>2. CASE HandoffDeclined(m) \/ \E n \in 1 .. Len(queue[m]) : Wake(m, n)
    BY <2>2, SameQueueLimits, Zenon DEF HandoffDeclined, Wake
  <2> QED
    BY <1>2, <2>1, <2>2 DEF ModelStep
<1>3. CASE Flush
  BY <1>3, FlushLimits
<1>4. CASE Close \/ UNCHANGED queueVars
  BY <1>4, SameQueueLimits DEF Close, queueVars
<1> QED
  BY <1>1, <1>2, <1>3, <1>4 DEF Next

-----------------------------------------------------------------------------
(* The wake-ups *)

WokenHere(m) == Range(queue[m]) \cap woken

LEMMA WakeupsType ==
    ASSUME IInv, NEW m \in Models
    PROVE  /\ IsFiniteSet(Range(queue[m])) /\ IsFiniteSet(WokenHere(m))
           /\ Cardinality(WokenHere(m)) \in Nat /\ credit[m] \in Nat
           /\ Wakeups(m) = credit[m] + Cardinality(WokenHere(m))
<1>1. Range(queue[m]) \in SUBSET Requests /\ credit[m] \in Nat
  BY DEF IInv, TypeOK, Range
<1>2. IsFiniteSet(Range(queue[m])) /\ IsFiniteSet(WokenHere(m))
  BY <1>1, RequestsAssumption, FS_Subset, FS_Intersection, Zenon DEF WokenHere
<1> QED
  BY <1>1, <1>2, FS_CardinalityType, Zenon DEF Wakeups, WokenHere

(* No unit of credit, and nobody's wake-up, is taken away. *)
LEMMA WakeupsGrow ==
    ASSUME IInv, IInv', NEW m \in Models, credit'[m] >= credit[m],
           WokenHere(m) \subseteq WokenHere(m)'
    PROVE  ~(Wakeups(m)' < Wakeups(m))
<1>1. /\ credit[m] \in Nat /\ Cardinality(WokenHere(m)) \in Nat
      /\ Wakeups(m) = credit[m] + Cardinality(WokenHere(m))
  BY WakeupsType, Zenon
<1>2. /\ credit'[m] \in Nat /\ Cardinality(WokenHere(m)') \in Nat /\ IsFiniteSet(WokenHere(m)')
      /\ Wakeups(m)' = credit'[m] + Cardinality(WokenHere(m)')
  <2>1. Range(queue'[m]) \in SUBSET Requests /\ credit'[m] \in Nat
    BY DEF IInv, TypeOK, Range
  <2>2. IsFiniteSet(WokenHere(m)')
    BY <2>1, RequestsAssumption, FS_Subset, FS_Intersection, Zenon DEF WokenHere
  <2> QED
    BY <2>1, <2>2, FS_CardinalityType, Zenon DEF Wakeups, WokenHere
<1>3. Cardinality(WokenHere(m)) <= Cardinality(WokenHere(m)')
  <2> DEFINE S == WokenHere(m)
             T == WokenHere(m)'
  <2>1. S \in SUBSET T /\ IsFiniteSet(T)
    BY <1>2
  <2> HIDE DEF S, T
  <2>2. Cardinality(S) <= Cardinality(T)
    BY <2>1, FS_Subset
  <2> QED
    BY <2>2 DEF S, T
<1> QED
  BY <1>1, <1>2, <1>3

(* Settling turns units of credit into wake-ups, one for one. *)
LEMMA SettleExact ==
    ASSUME NEW s \in Seq(Requests), Injective(s), NEW wk, NEW c \in Nat
    PROVE  /\ Cardinality(Range(s) \cap wk) \in Nat
           /\ Unspent(s, wk, c) + Cardinality(Range(s) \cap (wk \cup FirstIdle(s, wk, c)))
                = c + Cardinality(Range(s) \cap wk)
<1> DEFINE told == FirstIdle(s, wk, c)
           here == Range(s) \cap wk
           idle == Cardinality(IdleAt(s, wk))
<1>1. idle \in Nat /\ told \subseteq Range(s) \ wk
  BY FirstIdleProps
<1>2. Cardinality(told) = IF idle < c THEN idle ELSE c
  BY FirstIdleCount
<1>3. Range(s) \in SUBSET Requests
  BY DEF Range
<1>4. IsFiniteSet(told) /\ IsFiniteSet(here)
  <2>1. told \in SUBSET Requests /\ here \in SUBSET Requests
    BY <1>1, <1>3
  <2> HIDE DEF told, here
  <2> QED
    BY <2>1, RequestsAssumption, FS_Subset
<1>5. Range(s) \cap (wk \cup told) = here \cup told /\ here \cap told = {}
  BY <1>1
<1>6. Unspent(s, wk, c) = IF idle < c THEN c - idle ELSE 0
  BY DEF Unspent
<1> HIDE DEF told, here, idle
<1>7. Cardinality(here \cup told) = Cardinality(here) + Cardinality(told) /\ Cardinality(here) \in Nat
  <2>1. Cardinality(here \cup told) = Cardinality(here) + Cardinality(told) - Cardinality({})
    BY <1>4, <1>5, FS_Union
  <2>2. Cardinality(here) \in Nat /\ Cardinality(told) \in Nat
    BY <1>4, FS_CardinalityType
  <2> QED
    BY <2>1, <2>2, FS_EmptySet
<1>8. Cardinality(Range(s) \cap (wk \cup told)) = Cardinality(here) + Cardinality(told)
  BY <1>5, <1>7, Zenon
<1>9. Unspent(s, wk, c) + (Cardinality(here) + Cardinality(told)) = c + Cardinality(here)
  <2>1. CASE idle < c
    <3>1. Unspent(s, wk, c) = c - idle /\ Cardinality(told) = idle
      BY <1>2, <1>6, <2>1
    <3> QED
      BY <1>1, <1>7, <3>1
  <2>2. CASE ~(idle < c)
    <3>1. Unspent(s, wk, c) = 0 /\ Cardinality(told) = c
      BY <1>2, <1>6, <2>2
    <3> QED
      BY <1>1, <1>7, <3>1
  <2> QED
    BY <2>1, <2>2
<1>10. Unspent(s, wk, c) + Cardinality(Range(s) \cap (wk \cup told)) = c + Cardinality(here)
  BY <1>8, <1>9, Zenon
<1> QED
  BY <1>7, <1>10 DEF told, here


(* A waiter that gives up before it routed passes its wake-up on. *)
LEMMA LeaveWakeups ==
    ASSUME IInv, IInv', NEW r \in Requests, Leave(r), phase[r] = "waiting",
           Busy(ModelOf[r])'
    PROVE  ~(Wakeups(ModelOf[r])' < Wakeups(ModelOf[r]))
<1> DEFINE m == ModelOf[r]
           rest == Without(queue[m], r)
           c == credit[m] + (IF r \in woken THEN 1 ELSE 0)
           wk == woken \ {r}
<1>1. m \in Models /\ r \in Range(queue[m])
  BY RequestsAssumption DEF Leave, InQueue
<1>2. /\ queue \in [Models -> Seq(Requests)] /\ credit \in [Models -> Nat]
      /\ queue[m] \in Seq(Requests) /\ Injective(queue[m]) /\ c \in Nat
  BY <1>1 DEF IInv, TypeOK, QueueShape
<1>3. rest \in Seq(Requests) /\ Injective(rest) /\ Range(rest) = Range(queue[m]) \ {r}
  BY <1>1, <1>2, WithoutProps, Zenon
<1>4. queue' = [queue EXCEPT ![m] = rest] /\ queue'[m] = rest /\ rest # <<>>
  BY <1>1, <1>2, Zenon DEF Leave, LeaveAndSettle, Busy
<1>5. woken' = wk \cup FirstIdle(rest, wk, c) /\ credit'[m] = Unspent(rest, wk, c)
  BY <1>1, <1>2, <1>4, Zenon DEF Leave, LeaveAndSettle, Settle, Unspent
<1> HIDE DEF rest, c, wk
<1>6. credit'[m] + Cardinality(Range(rest) \cap woken') = c + Cardinality(Range(rest) \cap wk)
  <2>1. /\ Unspent(rest, wk, c) + Cardinality(Range(rest) \cap (wk \cup FirstIdle(rest, wk, c)))
             = c + Cardinality(Range(rest) \cap wk)
    BY <1>2, <1>3, SettleExact, Zenon
  <2> QED
    BY <1>5, <2>1, Zenon
<1>7. Range(rest) \cap wk = WokenHere(m) \ {r}
  BY <1>3, Zenon DEF WokenHere, wk
<1>8. /\ IsFiniteSet(WokenHere(m)) /\ Cardinality(WokenHere(m)) \in Nat /\ credit[m] \in Nat
      /\ Wakeups(m) = credit[m] + Cardinality(WokenHere(m))
  BY <1>1, WakeupsType, Zenon
<1>9. Cardinality(WokenHere(m) \ {r}) = Cardinality(WokenHere(m)) - (IF r \in woken THEN 1 ELSE 0)
  <2> DEFINE S == WokenHere(m)
  <2>1. r \in S <=> r \in woken
    BY <1>1 DEF WokenHere
  <2>2. IsFiniteSet(S) /\ Cardinality(S) \in Nat
    BY <1>8, Zenon
  <2> HIDE DEF S
  <2>3. Cardinality(S \ {r}) = IF r \in S THEN Cardinality(S) - 1 ELSE Cardinality(S)
    BY <2>2, FS_RemoveElement, Zenon
  <2>4. Cardinality(S \ {r}) = Cardinality(S) - (IF r \in woken THEN 1 ELSE 0)
    BY <2>1, <2>2, <2>3
  <2> QED
    BY <2>4, Zenon DEF S
<1>10. Wakeups(m)' = credit'[m] + Cardinality(Range(rest) \cap woken')
  BY <1>4, Zenon DEF Wakeups
<1>11. Wakeups(m)' = Wakeups(m)
  <2>1. Wakeups(m)' = c + Cardinality(WokenHere(m) \ {r})
    BY <1>6, <1>7, <1>10, Zenon
  <2>2. CASE r \in woken
    BY <1>8, <1>9, <2>1, <2>2 DEF c
  <2>3. CASE r \notin woken
    BY <1>8, <1>9, <2>1, <2>3 DEF c
  <2> QED
    BY <2>2, <2>3, Zenon
<1> QED
  BY <1>8, <1>11

(* A waiter of another model leaves or parks: nothing happens here. *)
LEMMA ElsewhereWakeups ==
    ASSUME IInv, IInv', NEW r \in Requests, NEW m \in Models, m # ModelOf[r],
           Leave(r) \/ Done(r) \/ Park(r)
    PROVE  ~(Wakeups(m)' < Wakeups(m))
<1> DEFINE k == ModelOf[r]
<1>1. k \in Models /\ queue \in [Models -> Seq(Requests)] /\ credit \in [Models -> Nat]
  BY RequestsAssumption, Zenon DEF IInv, TypeOK
<1>2. queue'[m] = queue[m] /\ credit'[m] = credit[m] /\ woken \ {r} \subseteq woken'
  <2>1. ASSUME NEW b \in BOOLEAN, LeaveAndSettle(r, b)
        PROVE  queue'[m] = queue[m] /\ credit'[m] = credit[m] /\ woken \ {r} \subseteq woken'
    BY <1>1, <2>1, Zenon DEF LeaveAndSettle, Settle
  <2>2. CASE Leave(r)
    BY <2>1, <2>2, Zenon DEF Leave
  <2>3. CASE Done(r)
    BY <2>1, <2>3, Zenon DEF Done
  <2>4. CASE Park(r)
    BY <1>1, <2>4, Zenon DEF Park, Settle
  <2> QED
    BY <2>2, <2>3, <2>4, Zenon
<1>3. r \notin Range(queue[m])
  BY QueuedHere
<1>4. WokenHere(m) \subseteq WokenHere(m)'
  BY <1>2, <1>3, Zenon DEF WokenHere
<1>5. credit'[m] >= credit[m]
  BY <1>1, <1>2
<1> QED
  BY <1>4, <1>5, WakeupsGrow, Zenon

LEMMA NextWakeups ==
    ASSUME IInv, IInv', [Next]_queueVars, NEW m \in Models, Busy(m)',
           \A r \in Requests : ModelOf[r] = m => phase[r] # "routing"
    PROVE  ~(Wakeups(m)' < Wakeups(m))
<1>1. /\ queue \in [Models -> Seq(Requests)] /\ credit \in [Models -> Nat]
      /\ credit[m] \in Nat
  BY Zenon DEF IInv, TypeOK
<1>2. ASSUME credit'[m] = credit[m], WokenHere(m) \subseteq WokenHere(m)'
      PROVE  ~(Wakeups(m)' < Wakeups(m))
  <2>1. credit'[m] >= credit[m]
    BY <1>1, <1>2
  <2> QED
    BY <1>2, <2>1, WakeupsGrow, Zenon
<1>3. ASSUME NEW r \in Requests, RequestStep(r) PROVE ~(Wakeups(m)' < Wakeups(m))
  <2>1. CASE Enqueue(r)
    <3>1. Range(queue[m]) \subseteq Range(queue'[m])
      <4> DEFINE k == ModelOf[r]
      <4>1. k \in Models /\ Injective(queue[k]) /\ queue[k] \in Seq(Requests) /\ r \notin Range(queue[k])
        BY <1>1, <2>1, RequestsAssumption, Zenon
           DEF IInv, QueueShape, WaiterState, InQueue, Enqueue
      <4>2. Range(Append(queue[k], r)) = Range(queue[k]) \cup {r}
        BY <4>1, AppendProps, Zenon
      <4>3. queue' = [queue EXCEPT ![k] = Append(@, r)]
        BY <2>1, Zenon DEF Enqueue
      <4> HIDE DEF k
      <4>4. queue'[m] = IF m = k THEN Append(queue[k], r) ELSE queue[m]
        BY <1>1, <4>1, <4>3, Zenon
      <4> QED
        BY <4>2, <4>4
    <3>2. UNCHANGED <<woken, credit>>
      BY <2>1, Zenon DEF Enqueue
    <3> QED
      BY <1>2, <3>1, <3>2, Zenon DEF WokenHere
  <2>2. CASE ReceiveReroute(r) \/ ReceiveFinal(r) \/ LeaveAgain(r)
    <3>1. UNCHANGED <<queue, woken, credit>>
      BY <2>2 DEF ReceiveReroute, ReceiveFinal, LeaveAgain
    <3> QED
      BY <1>2, <3>1, Zenon DEF WokenHere
  <2>3. CASE Leave(r)
    <3>1. CASE ModelOf[r] = m
      <4>1. phase[r] = "waiting"
        BY <2>3, <3>1, Zenon DEF Leave
      <4> QED
        BY <2>3, <3>1, <4>1, LeaveWakeups, Zenon
    <3>2. CASE ModelOf[r] # m
      BY <2>3, <3>2, ElsewhereWakeups, Zenon
    <3> QED
      BY <3>1, <3>2, Zenon
  <2>4. CASE Done(r) \/ Park(r)
    <3>1. ModelOf[r] # m
      BY <2>4, Zenon DEF Done, Park
    <3> QED
      BY <2>4, <3>1, ElsewhereWakeups, Zenon
  <2> QED
    BY <1>3, <2>1, <2>2, <2>3, <2>4, Zenon DEF RequestStep
<1>4. ASSUME NEW k \in Models, ModelStep(k) PROVE ~(Wakeups(m)' < Wakeups(m))
  <2>1. ASSUME NEW slot \in Slots, HandoffGiven(k, slot) PROVE ~(Wakeups(m)' < Wakeups(m))
    <3>1. queue[k] \in Seq(Requests) /\ Injective(queue[k]) /\ queue[k] # <<>>
      BY <1>1, <2>1, Zenon DEF IInv, QueueShape, HandoffGiven, Busy
    <3>2. Range(Tail(queue[k])) = Range(queue[k]) \ {Head(queue[k])}
      BY <3>1, TailProps, Zenon
    <3>3. /\ queue' = [queue EXCEPT ![k] = Tail(@)] /\ woken' = woken
          /\ Head(queue[k]) \notin woken
          /\ credit' = IF Len(queue[k]) = 1 THEN [credit EXCEPT ![k] = 0] ELSE credit
      BY <2>1, Zenon DEF HandoffGiven
    <3>4. credit[k] = 0
      BY <1>1, <3>3 DEF IInv, CreditOnlyBehindRoutingHead
    <3>5. credit'[m] = credit[m]
      BY <1>1, <3>3, <3>4, Zenon
    <3>6. queue'[m] = IF m = k THEN Tail(queue[k]) ELSE queue[m]
      BY <1>1, <3>3, Zenon
    <3>7. WokenHere(m) \subseteq WokenHere(m)'
      BY <3>2, <3>3, <3>6, Zenon DEF WokenHere
    <3> QED
      BY <1>2, <3>5, <3>7, Zenon
  <2>2. CASE HandoffDeclined(k)
    <3>1. /\ queue' = queue /\ Settle(k, queue[k], woken, credit[k] + 1, ch, None)
      BY <2>2, Zenon DEF HandoffDeclined
    <3>2. /\ woken' = woken \cup FirstIdle(queue[k], woken, credit[k] + 1)
          /\ credit' = [credit EXCEPT ![k] = Unspent(queue[k], woken, credit[k] + 1)]
      BY <3>1, Zenon DEF Settle, Unspent
    <3>3. CASE k # m
      <4>1. credit'[m] = credit[m] /\ WokenHere(m) \subseteq WokenHere(m)'
        BY <1>1, <3>1, <3>2, <3>3, Zenon DEF WokenHere
      <4> QED
        BY <1>2, <4>1, Zenon
    <3>4. CASE k = m
      <4>1. queue[m] \in Seq(Requests) /\ Injective(queue[m]) /\ credit[m] + 1 \in Nat
        BY <1>1 DEF IInv, QueueShape
      <4>2. credit'[m] + Cardinality(Range(queue[m]) \cap woken')
              = credit[m] + 1 + Cardinality(WokenHere(m))
        <5>1. /\ woken' = woken \cup FirstIdle(queue[m], woken, credit[m] + 1)
              /\ credit'[m] = Unspent(queue[m], woken, credit[m] + 1)
          BY <1>1, <3>2, <3>4, Zenon
        <5>2. WokenHere(m) = Range(queue[m]) \cap woken
          BY Zenon DEF WokenHere
        <5>3. Unspent(queue[m], woken, credit[m] + 1)
                + Cardinality(Range(queue[m]) \cap (woken \cup FirstIdle(queue[m], woken, credit[m] + 1)))
                = (credit[m] + 1) + Cardinality(Range(queue[m]) \cap woken)
          BY <4>1, SettleExact, Zenon
        <5> QED
          BY <5>1, <5>2, <5>3, Zenon
      <4>3. Wakeups(m)' = credit'[m] + Cardinality(Range(queue[m]) \cap woken')
        BY <3>1, Zenon DEF Wakeups
      <4> QED
        BY <4>2, <4>3, WakeupsType
    <3> QED
      BY <3>3, <3>4, Zenon
  <2>3. ASSUME NEW n \in 1 .. Len(queue[k]), Wake(k, n) PROVE ~(Wakeups(m)' < Wakeups(m))
    <3>1. UNCHANGED <<queue, credit>> /\ woken \subseteq woken'
      BY <2>3, Zenon DEF Wake
    <3> QED
      BY <1>2, <3>1, Zenon DEF WokenHere
  <2> QED
    BY <1>4, <2>1, <2>2, <2>3, Zenon DEF ModelStep
<1>5. ~Flush
  BY Zenon DEF Flush, Busy
<1>6. CASE Close \/ UNCHANGED queueVars
  <2>1. UNCHANGED <<queue, woken, credit>>
    BY <1>6, Zenon DEF Close, queueVars
  <2> QED
    BY <1>2, <2>1, Zenon DEF WokenHere
<1> QED
  BY <1>3, <1>4, <1>5, <1>6, Zenon DEF Next

-----------------------------------------------------------------------------
(* The theorems *)

(* The inductive invariant holds in every reachable state of the queue,    *)
(* for every configuration of it.                                          *)
THEOREM QueueInvariant == Spec => []IInv
<1>1. Init => IInv
  BY InitIInv
<1>2. IInv /\ [Next]_queueVars => IInv'
  BY NextKeeps
<1> QED
  BY <1>1, <1>2, PTL DEF Spec

(* Every variable keeps its type: in particular no counter of the queue    *)
(* goes negative, in whatever order waiters come and go.                   *)
THEOREM QueueTypeCorrect == Spec => []TypeOK
<1>1. IInv => TypeOK
  BY DEF IInv
<1> QED
  BY <1>1, QueueInvariant, PTL

(* The rule that the comment on modelQueue.credit states: credit is kept   *)
(* only behind a routing head, whose Park, Done or Leave spends it.        *)
THEOREM CreditRule == Spec => []CreditOnlyBehindRoutingHead
<1>1. IInv => CreditOnlyBehindRoutingHead
  BY Zenon DEF IInv
<1> QED
  BY <1>1, QueueInvariant, PTL

(* A slot handed over is never lost: it is never in the channel of a       *)
(* waiter that will not read it, nor of one that may get a second grant.   *)
THEOREM HandedSlotsReceived == Spec => []NoSlotDropped
<1>1. IInv => NoSlotDropped
  BY SlotsAssumption DEF IInv, TypeOK, WaiterState, NoSlotDropped
<1> QED
  BY <1>1, QueueInvariant, PTL

(* The queue's record of who has a wake-up outstanding agrees with what    *)
(* the goroutines are doing.                                               *)
THEOREM WokenIsExact == Spec => []WokenMeansWakeupOutstanding
<1>1. IInv => WokenMeansWakeupOutstanding
  BY Zenon DEF IInv, WaiterState, WokenMeansWakeupOutstanding
<1> QED
  BY <1>1, QueueInvariant, PTL

(* No goroutine waits on a channel that nobody will write to: it is in the *)
(* queue, or its last grant is there already.                              *)
THEOREM NobodyIsForgotten == Spec => []NobodyForgotten
<1>1. IInv => NobodyForgotten
  BY Zenon DEF IInv, WaiterState, NobodyForgotten
<1> QED
  BY <1>1, QueueInvariant, PTL

(* Nobody who waits is left behind, in every interleaving of hand-offs,    *)
(* wake-ups and give-ups: the three facts above together.                  *)
THEOREM WaitersAreKept == Spec => []WaitersKept
<1>1. NoSlotDropped /\ WokenMeansWakeupOutstanding /\ NobodyForgotten => WaitersKept
  BY DEF WaitersKept
<1> QED
  BY <1>1, HandedSlotsReceived, WokenIsExact, NobodyIsForgotten, PTL

(* queue.max_model_depth, metrics.max_models and queue.max_tenant_share    *)
(* hold for every setting of them, and the tenant counters, which every    *)
(* way out of the queue decrements, agree with the queues.                 *)
THEOREM LimitsAreKept == Spec => []LimitsKept
<1>1. Init => IInv /\ LimitsKept
  BY InitIInv, InitLimits
<1>2. IInv /\ LimitsKept /\ [Next]_queueVars => (IInv /\ LimitsKept)'
  BY NextKeeps, NextLimits
<1> QED
  BY <1>1, <1>2, PTL DEF Spec

(* No step takes a wake-up away from a model that still has waiters unless *)
(* one of them was routing: Leave gives an unread one back, and settle     *)
(* turns credit into wake-ups one for one.                                 *)
THEOREM WakeupsAreNotLost == Spec => WakeupsNotLost
<1> DEFINE Kept == \A m \in Models :
                      Busy(m)' /\ Wakeups(m)' < Wakeups(m)
                        => \E r \in Requests : ModelOf[r] = m /\ phase[r] = "routing"
<1>1. IInv /\ IInv' /\ [Next]_queueVars => [Kept]_queueVars
  BY NextWakeups
<1> QED
  BY <1>1, QueueInvariant, PTL DEF Spec, WakeupsNotLost
=============================================================================
