---------------------------- MODULE Guards_proofs ----------------------------
(***************************************************************************)
(* Proofs about what keeps requests off workers and tenants that have had  *)
(* enough: the token buckets and leases of the limiter (TokenBuckets), and *)
(* the list through which the circuit breakers tell of their changes       *)
(* (BreakerEvents).                                                        *)
(***************************************************************************)
EXTENDS TokenBuckets, BreakerEvents, FiniteSetTheorems, TLAPS

-----------------------------------------------------------------------------
(* Arithmetic *)

LEMMA MinOfTwo ==
    ASSUME NEW a \in Int, NEW b \in Int
    PROVE  /\ Min({a, b}) \in Int /\ Min({a, b}) <= a /\ Min({a, b}) <= b
           /\ Min({a, b}) = a \/ Min({a, b}) = b
<1>1. \E x \in {a, b} : \A y \in {a, b} : x <= y
  <2>1. a <= b \/ b <= a
    OBVIOUS
  <2> QED
    BY <2>1
<1>2. Min({a, b}) \in {a, b} /\ \A y \in {a, b} : Min({a, b}) <= y
  BY <1>1, Zenon DEF Min
<1> QED
  BY <1>2

LEMMA MaxOfTwo ==
    ASSUME NEW a \in Int, NEW b \in Int
    PROVE  /\ Max({a, b}) \in Int /\ Max({a, b}) >= a /\ Max({a, b}) >= b
           /\ Max({a, b}) = a \/ Max({a, b}) = b
<1>1. \E x \in {a, b} : \A y \in {a, b} : x >= y
  <2>1. a >= b \/ b >= a
    OBVIOUS
  <2> QED
    BY <2>1
<1>2. Max({a, b}) \in {a, b} /\ \A y \in {a, b} : Max({a, b}) >= y
  BY <1>1, Zenon DEF Max
<1> QED
  BY <1>2

(* A larger factor makes a product no smaller. *)
LEMMA TimesGrows ==
    ASSUME NEW a \in Int, NEW b \in Int, NEW q \in Nat, a <= b
    PROVE  a * q \in Int /\ b * q \in Int /\ a * q <= b * q
OBVIOUS

LEMMA TimesSum ==
    ASSUME NEW a \in Int, NEW b \in Int, NEW q \in Nat
    PROVE  /\ (a + b) * q = a * q + b * q
           /\ (a - b) * q = a * q - b * q
           /\ a * q = q * a
           /\ a * q \in Int
OBVIOUS

(* Rounding up: q parts of size b cover a, and q - 1 do not. *)
LEMMA CeilCovers ==
    ASSUME NEW a \in Nat \ {0}, NEW b \in Nat \ {0}
    PROVE  /\ TokCeilDiv(a, b) \in Nat \ {0}
           /\ TokCeilDiv(a, b) * b >= a
           /\ (TokCeilDiv(a, b) - 1) * b < a
<1> DEFINE q == (a + b - 1) \div b
           r == (a + b - 1) % b
<1>1. q \in Int /\ r \in 0 .. b - 1 /\ a + b - 1 = b * q + r
  OBVIOUS
<1> HIDE DEF q, r
<1>2. b * q = q * b /\ q * b \in Int
  BY <1>1
<1>3. q * b >= a
  BY <1>1, <1>2
<1>4. (q - 1) * b = q * b - b
  BY <1>1
<1>5. (q - 1) * b < a
  BY <1>1, <1>2, <1>4
<1>6. q > 0
  BY <1>1, <1>3
<1> QED
  BY <1>1, <1>3, <1>5, <1>6 DEF TokCeilDiv, q

-----------------------------------------------------------------------------
(* One bucket *)

TokElapsed(at, now) == Min({TokWindow, Max({0, now - at})})

(* What a bucket's state is.  As long as the clock is near its maximum,    *)
(* what it may have granted: one full bucket and the refill up to its      *)
(* stamp, and its key outlives the time it needs to be full again by half  *)
(* a window.  A bucket that is gone has granted no more than the refill of *)
(* a time that the clock, near its maximum, is never before.               *)
TokTypes ==
  /\ tokNow \in Nat \ {0} /\ tokTop \in Nat /\ tokNow <= tokTop
  /\ tokBucket \in [TokKinds -> [level : Nat, at : Nat, until : Nat, set : BOOLEAN]]
  /\ tokLease \in [TokCalls -> Nat] /\ tokSpent \in [TokKinds -> Nat]

TokShape(k) ==
  /\ tokBucket[k].level <= TokCapacity(k)
  /\ tokBucket[k].set => tokBucket[k].at \in Nat \ {0} /\ tokBucket[k].at <= tokTop
  /\ ~tokBucket[k].set => tokBucket[k].level = 0

TokPaid(k) ==
  /\ tokSpent[k] + tokBucket[k].level <= TokCapacity(k) + TokQuota[k] * (tokBucket[k].at - 1)
  /\ 2 * tokBucket[k].until >= 2 * tokBucket[k].at + 3 * TokWindow

TokEarned(k) ==
  \/ tokSpent[k] = 0
  \/ \E b \in Nat \ {0} : tokSpent[k] <= TokQuota[k] * (b - 1) /\ 2 * b + TokWindow <= 2 * tokTop

TokGranted(k) ==
  /\ TokShape(k)
  /\ ~tokFar /\ tokBucket[k].set => TokPaid(k)
  /\ ~tokFar /\ ~tokBucket[k].set => TokEarned(k)

TokNear == ~tokFar => 2 * (tokTop - tokNow) <= TokWindow

TokInv == TokTypes /\ TokLeasesBounded /\ TokNear /\ \A k \in TokKinds : TokGranted(k)

LEMMA TokConstants ==
    /\ IsFiniteSet(TokCalls)
    /\ TokWindow \in Nat \ {0} /\ TokScale \in Nat \ {0} /\ TokConcHint \in Nat \ {0}
    /\ TokMaxConcurrent \in Nat \ {0} /\ TokTTL \in Nat \ {0}
    /\ \A k \in TokKinds : TokQuota[k] \in Nat \ {0}
    /\ \A c \in TokCalls : TokCost[c] \in Nat /\ TokActive[c] \subseteq TokKinds \cup {"concurrency"}
BY TokAssumption

LEMMA TokCapacityType ==
    ASSUME NEW k \in TokKinds
    PROVE  /\ TokQuota[k] \in Nat \ {0} /\ TokCapacity(k) \in Nat
           /\ TokCapacity(k) = TokWindow * TokQuota[k]
<1>1. TokQuota[k] \in Nat \ {0} /\ TokWindow \in Nat \ {0}
  BY TokConstants, Zenon
<1> DEFINE q == TokQuota[k]
<1>2. q * TokWindow = TokWindow * q /\ q * TokWindow \in Nat
  <2> HIDE DEF q
  <2> QED
    BY <1>1 DEF q
<1> QED
  BY <1>1, <1>2, Zenon DEF TokCapacity

LEMMA TokNeedType ==
    ASSUME NEW c \in TokCalls, NEW k \in TokKinds
    PROVE  TokNeed(c, k) \in Nat /\ TokNeed(c, k) <= TokCapacity(k)
<1> DEFINE n == IF k = "tokens" THEN TokCost[c] ELSE 1
<1>1. n \in Nat /\ TokScale \in Nat
  BY TokConstants
<1> HIDE DEF n
<1>2. n * TokScale \in Nat
  BY <1>1
<1>3. TokCapacity(k) \in Nat
  BY TokCapacityType
<1>4. TokNeed(c, k) = Min({n * TokScale, TokCapacity(k)})
  BY Zenon DEF TokNeed, n
<1>5. /\ Min({n * TokScale, TokCapacity(k)}) <= TokCapacity(k)
      /\ Min({n * TokScale, TokCapacity(k)}) = n * TokScale \/ Min({n * TokScale, TokCapacity(k)}) = TokCapacity(k)
  <2>1. n * TokScale \in Int /\ TokCapacity(k) \in Int
    BY <1>2, <1>3
  <2> QED
    BY <2>1, MinOfTwo, Zenon
<1> QED
  BY <1>2, <1>3, <1>4, <1>5, Zenon

LEMMA ElapsedBounds ==
    ASSUME NEW from \in Nat, NEW to \in Nat
    PROVE  /\ TokElapsed(from, to) \in Nat /\ TokElapsed(from, to) <= TokWindow
           /\ from <= to => TokElapsed(from, to) <= to - from
           /\ to < from => TokElapsed(from, to) = 0
           /\ from <= to /\ TokElapsed(from, to) < TokWindow => TokElapsed(from, to) = to - from
<1>1. TokWindow \in Nat
  BY TokConstants
<1> DEFINE d == Max({0, to - from})
<1>2. /\ d \in Int /\ d >= 0 /\ d >= to - from
      /\ d = 0 \/ d = to - from
  BY MaxOfTwo
<1> HIDE DEF d
<1>3. /\ Min({TokWindow, d}) \in Int /\ Min({TokWindow, d}) <= TokWindow /\ Min({TokWindow, d}) <= d
      /\ Min({TokWindow, d}) = TokWindow \/ Min({TokWindow, d}) = d
  <2>1. TokWindow \in Int /\ d \in Int
    BY <1>1, <1>2
  <2> QED
    BY <2>1, MinOfTwo, Zenon
<1>4. TokElapsed(from, to) = Min({TokWindow, d})
  BY Zenon DEF TokElapsed, d
<1> QED
  BY <1>1, <1>2, <1>3, <1>4

(* TokPeek: a bucket that is not there is full; another has what it had     *)
(* and the refill of the time since, but never more than a full one.       *)
LEMMA PeekShape ==
    ASSUME TokTypes, NEW k \in TokKinds, NEW now \in Nat
    PROVE  /\ TokPeek(k, now) \in Nat /\ TokPeek(k, now) <= TokCapacity(k)
           /\ ~TokThere(k, now) => TokPeek(k, now) = TokCapacity(k)
           /\ TokThere(k, now) =>
                /\ TokPeek(k, now) <= tokBucket[k].level + TokElapsed(tokBucket[k].at, now) * TokQuota[k]
                /\ \/ TokPeek(k, now) = TokCapacity(k)
                   \/ TokPeek(k, now) = tokBucket[k].level + TokElapsed(tokBucket[k].at, now) * TokQuota[k]
<1> DEFINE q == TokQuota[k]
           l == tokBucket[k].level
           e == TokElapsed(tokBucket[k].at, now)
           v == l + e * q
<1>1. l \in Nat /\ tokBucket[k].at \in Nat
  BY DEF TokTypes
<1>2. q \in Nat /\ TokCapacity(k) \in Nat
  BY TokCapacityType
<1>3. e \in Nat
  BY <1>1, ElapsedBounds, Zenon
<1>4. v \in Nat
  <2> HIDE DEF l, e, q
  <2> QED
    BY <1>1, <1>2, <1>3
<1>5. CASE TokThere(k, now)
  <2>1. TokPeek(k, now) = Min({TokCapacity(k), v})
    BY <1>5, Zenon DEF TokPeek, TokElapsed
  <2> HIDE DEF v
  <2>2. TokCapacity(k) \in Int /\ v \in Int
    BY <1>2, <1>4
  <2>3. /\ Min({TokCapacity(k), v}) <= TokCapacity(k) /\ Min({TokCapacity(k), v}) <= v
        /\ Min({TokCapacity(k), v}) = TokCapacity(k) \/ Min({TokCapacity(k), v}) = v
    BY <2>2, MinOfTwo, Zenon
  <2> QED
    BY <1>2, <1>4, <1>5, <2>1, <2>3, Zenon DEF v
<1>6. CASE ~TokThere(k, now)
  <2>1. TokPeek(k, now) = TokCapacity(k)
    BY <1>6, Zenon DEF TokPeek
  <2> QED
    BY <1>2, <1>6, <2>1
<1> QED
  BY <1>5, <1>6, Zenon

(* TokStamp never goes back, and a bucket that is not there gets the       *)
(* clock's.                                                                *)
LEMMA StampShape ==
    ASSUME TokInv, NEW k \in TokKinds
    PROVE  /\ TokStamp(k) \in Nat \ {0} /\ TokStamp(k) <= tokTop /\ TokStamp(k) >= tokNow
           /\ TokThere(k, tokNow) => TokStamp(k) >= tokBucket[k].at
           /\ ~TokThere(k, tokNow) => TokStamp(k) = tokNow
<1>1. /\ tokNow \in Nat \ {0} /\ tokTop \in Nat /\ tokNow <= tokTop
      /\ tokBucket[k].at \in Nat
  BY DEF TokInv, TokTypes
<1>2. TokThere(k, tokNow) => tokBucket[k].at <= tokTop
  BY Zenon DEF TokInv, TokGranted, TokShape, TokThere
<1> DEFINE b == tokBucket[k].at
           m == Max({tokNow, b})
<1>3. m \in Int /\ m >= tokNow /\ m >= b /\ (m = tokNow \/ m = b)
  <2>1. tokNow \in Int /\ b \in Int
    BY <1>1
  <2> HIDE DEF b
  <2> QED
    BY <2>1, MaxOfTwo, Zenon
<1>4. TokStamp(k) = IF TokThere(k, tokNow) THEN m ELSE tokNow
  BY Zenon DEF TokStamp
<1> HIDE DEF m
<1> QED
  BY <1>1, <1>2, <1>3, <1>4

(* A bucket paid for up to its stamp has granted no more than the refill   *)
(* of the time at which it is full again.                                  *)
LEMMA PaidUntilFull ==
    ASSUME TokTypes, NEW k \in TokKinds, tokBucket[k].at \in Nat \ {0}, TokPaid(k)
    PROVE  /\ tokSpent[k] <= TokQuota[k] * ((tokBucket[k].at + TokWindow) - 1)
           /\ 2 * (tokBucket[k].at + TokWindow) + TokWindow <= 2 * tokBucket[k].until
<1> DEFINE q == TokQuota[k]
           b == tokBucket[k].at
           l == tokBucket[k].level
           u == tokSpent[k]
           W == TokWindow
           C == TokCapacity(k)
           e == tokBucket[k].until
<1>1. q \in Nat /\ C = W * q /\ W \in Nat
  BY TokCapacityType, TokConstants
<1>2. b \in Nat \ {0} /\ l \in Nat /\ u \in Nat /\ e \in Nat
  BY DEF TokTypes
<1>3. u + l <= C + q * (b - 1) /\ 2 * e >= 2 * b + 3 * W
  BY Zenon DEF TokPaid
<1> HIDE DEF q, b, l, u, W, C, e
<1>4. q * (b - 1) = (b - 1) * q /\ q * ((b + W) - 1) = ((b + W) - 1) * q /\ W * q \in Int /\ (b - 1) * q \in Int
  BY <1>1, <1>2, TimesSum
<1>5. ((b + W) - 1) * q = W * q + (b - 1) * q
  <2>1. (W + (b - 1)) * q = W * q + (b - 1) * q
    BY <1>1, <1>2, TimesSum
  <2>2. (b + W) - 1 = W + (b - 1)
    BY <1>1, <1>2
  <2> QED
    BY <2>1, <2>2, Zenon
<1> DEFINE x == W * q
           y == (b - 1) * q
           z == q * ((b + W) - 1)
<1>6. u + l <= x + y /\ z = x + y /\ x \in Int /\ y \in Int
  BY <1>1, <1>3, <1>4, <1>5, Zenon
<1> HIDE DEF x, y, z
<1>7. u <= z
  BY <1>2, <1>6
<1>8. 2 * (b + W) + W <= 2 * e
  BY <1>1, <1>2, <1>3
<1> QED
  BY <1>7, <1>8, Zenon DEF z, q, b, u, W, e

(* A bucket that is not there may be full: the time that passed has        *)
(* earned what it granted.                                                 *)
LEMMA EarnedNow ==
    ASSUME TokInv, ~tokFar, NEW k \in TokKinds, ~TokThere(k, tokNow)
    PROVE  tokSpent[k] <= TokQuota[k] * (tokNow - 1)
<1> DEFINE q == TokQuota[k]
           u == tokSpent[k]
           W == TokWindow
<1>1. q \in Nat /\ W \in Nat /\ u \in Nat /\ tokNow \in Nat \ {0} /\ tokTop \in Nat
  BY TokCapacityType, TokConstants DEF TokInv, TokTypes
<1>2. 2 * (tokTop - tokNow) <= W
  BY Zenon DEF TokInv, TokNear
<1>3. TokGranted(k)
  BY Zenon DEF TokInv
<1>4. ASSUME NEW b \in Nat \ {0}, u <= q * (b - 1), b <= tokNow
      PROVE  u <= q * (tokNow - 1)
  <2> HIDE DEF q, u
  <2>1. (b - 1) * q <= (tokNow - 1) * q
    BY <1>1, <1>4, TimesGrows
  <2>2. q * (b - 1) = (b - 1) * q /\ q * (tokNow - 1) = (tokNow - 1) * q /\ (b - 1) * q \in Int /\ (tokNow - 1) * q \in Int
    BY <1>1, TimesSum
  <2> DEFINE x == (b - 1) * q
             y == (tokNow - 1) * q
  <2>3. u <= x /\ x <= y /\ x \in Int /\ y \in Int
    BY <1>4, <2>1, <2>2, Zenon
  <2> HIDE DEF x, y
  <2>4. u <= y
    BY <1>1, <2>3
  <2> QED
    BY <2>2, <2>4, Zenon DEF y
<1>5. CASE tokBucket[k].set
  <2> DEFINE a == tokBucket[k].at
             e == tokBucket[k].until
             b == a + W
  <2>1. a \in Nat \ {0} /\ TokPaid(k) /\ ~(tokNow <= e)
    BY <1>3, <1>5, Zenon DEF TokGranted, TokShape, TokThere
  <2>2. u <= q * (b - 1) /\ 2 * b + W <= 2 * e
    BY <2>1, PaidUntilFull, Zenon DEF TokInv
  <2>3. e \in Nat
    BY DEF TokInv, TokTypes
  <2> HIDE DEF a, e, W
  <2>4. b \in Nat \ {0} /\ b <= tokNow
    BY <1>1, <2>1, <2>2, <2>3
  <2> HIDE DEF b
  <2> QED
    BY <1>4, <2>2, <2>4, Zenon
<1>6. CASE ~tokBucket[k].set
  <2>1. TokEarned(k)
    BY <1>3, <1>6, Zenon DEF TokGranted
  <2>2. CASE u = 0
    <3>1. q * (tokNow - 1) \in Nat
      <4> HIDE DEF q
      <4> QED
        BY <1>1
    <3> QED
      BY <2>2, <3>1
  <2>3. CASE u # 0
    <3>1. PICK b \in Nat \ {0} : u <= q * (b - 1) /\ 2 * b + W <= 2 * tokTop
      BY <2>1, <2>3, Zenon DEF TokEarned
    <3>2. b <= tokNow
      BY <1>1, <1>2, <3>1
    <3> QED
      BY <1>4, <3>1, <3>2, Zenon
  <2> QED
    BY <2>2, <2>3, Zenon
<1> QED
  BY <1>5, <1>6, Zenon

(* What a bucket granted and would have now, at the stamp it would get. *)
LEMMA PeekPaid ==
    ASSUME TokInv, ~tokFar, NEW k \in TokKinds
    PROVE  tokSpent[k] + TokPeek(k, tokNow) <= TokCapacity(k) + TokQuota[k] * (TokStamp(k) - 1)
<1> DEFINE q == TokQuota[k]
           l == tokBucket[k].level
           b == tokBucket[k].at
           t == TokStamp(k)
           e == TokElapsed(b, tokNow)
           C == TokCapacity(k)
           p == TokPeek(k, tokNow)
           u == tokSpent[k]
<1>1. q \in Nat /\ l \in Nat /\ b \in Nat /\ u \in Nat /\ tokNow \in Nat /\ C \in Nat
  BY TokCapacityType DEF TokInv, TokTypes
<1>2. t \in Nat \ {0} /\ t >= tokNow /\ (TokThere(k, tokNow) => t >= b)
  BY StampShape, Zenon
<1>3. p \in Nat /\ p <= C /\ (TokThere(k, tokNow) => p <= l + e * q)
  BY <1>1, PeekShape, Zenon DEF TokInv
<1>4. e \in Nat /\ (b <= tokNow => e <= tokNow - b) /\ (tokNow < b => e = 0)
  BY <1>1, ElapsedBounds, Zenon
<1>5. TokThere(k, tokNow) => b # 0 /\ u + l <= C + q * (b - 1)
  <2>1. TokGranted(k)
    BY Zenon DEF TokInv
  <2> QED
    BY <2>1 DEF TokGranted, TokShape, TokPaid, TokThere
<1>6. ~TokThere(k, tokNow) => u <= q * (tokNow - 1) /\ t = tokNow
  BY EarnedNow, StampShape, Zenon
<1> HIDE DEF q, l, b, t, e, C, p, u
<1>7. CASE TokThere(k, tokNow)
  <2>1. e <= t - b
    BY <1>1, <1>2, <1>4, <1>7
  <2>2. e * q <= (t - b) * q
    BY <1>1, <1>2, <1>4, <2>1, TimesGrows
  <2>3. (t - b) * q + (b - 1) * q = (t - 1) * q
    <3>1. (t - b) * q + (b - 1) * q = ((t - b) + (b - 1)) * q
      BY <1>1, <1>2, TimesSum
    <3>2. (t - b) + (b - 1) = t - 1
      BY <1>1, <1>2
    <3> QED
      BY <3>1, <3>2, Zenon
  <2>4. q * (b - 1) = (b - 1) * q /\ q * (t - 1) = (t - 1) * q
    BY <1>1, <1>2, TimesSum
  <2>5. /\ e * q \in Int /\ (t - b) * q \in Int /\ (b - 1) * q \in Int /\ (t - 1) * q \in Int
    BY <1>1, <1>2, <1>4, TimesSum
  <2> DEFINE x == e * q
             y == (t - b) * q
             z == (b - 1) * q
             o == (t - 1) * q
  <2>6. x <= y /\ y + z = o /\ x \in Int /\ y \in Int /\ z \in Int /\ o \in Int
    BY <2>2, <2>3, <2>5, Zenon
  <2>7. p <= l + x /\ u + l <= C + z
    BY <1>3, <1>5, <1>7, <2>4, Zenon
  <2> HIDE DEF x, y, z, o
  <2>8. u + p <= C + o
    BY <1>1, <1>3, <2>6, <2>7
  <2> QED
    BY <2>4, <2>8, Zenon DEF q, t, C, p, u, o
<1>8. CASE ~TokThere(k, tokNow)
  <2> DEFINE y == q * (t - 1)
  <2>1. y \in Nat
    BY <1>1, <1>2
  <2>2. u <= y
    BY <1>6, <1>8, Zenon
  <2> HIDE DEF y
  <2>3. u + p <= C + y
    BY <1>1, <1>3, <2>1, <2>2
  <2> QED
    BY <2>3, Zenon DEF q, t, C, p, u, y
<1> QED
  BY <1>7, <1>8, Zenon

-----------------------------------------------------------------------------
(* The wait of a refusal *)

HasMax(S) == \E m \in S : \A y \in S : m >= y

LEMMA HasMaxAdd ==
    ASSUME NEW S \in SUBSET Int, HasMax(S), NEW x \in Int
    PROVE  HasMax(S \cup {x})
<1>1. PICK m \in S : \A y \in S : m >= y
  BY Zenon DEF HasMax
<1>2. CASE m >= x
  BY <1>1, <1>2 DEF HasMax
<1>3. CASE x > m
  <2>1. \A y \in S \cup {x} : x >= y
    BY <1>1, <1>3
  <2> QED
    BY <2>1, Zenon DEF HasMax
<1> QED
  BY <1>1, <1>2, <1>3

LEMMA MaxIsMax ==
    ASSUME NEW S, HasMax(S)
    PROVE  Max(S) \in S /\ \A y \in S : Max(S) >= y
BY Zenon DEF HasMax, Max

LEMMA WaitType ==
    ASSUME TokTypes, NEW c \in TokCalls, NEW k \in TokKinds
    PROVE  /\ TokWait(c, k) \in Nat
           /\ TokWait(c, k) = 0 <=> TokNeed(c, k) <= TokPeek(k, tokNow)
           /\ TokNeed(c, k) > TokPeek(k, tokNow) =>
                /\ TokWait(c, k) * TokQuota[k] >= TokNeed(c, k) - TokPeek(k, tokNow)
                /\ (TokWait(c, k) - 1) * TokQuota[k] < TokNeed(c, k) - TokPeek(k, tokNow)
<1> DEFINE n == TokNeed(c, k)
           p == TokPeek(k, tokNow)
           q == TokQuota[k]
           w == TokWait(c, k)
<1>1. n \in Nat /\ q \in Nat \ {0}
  BY TokNeedType, TokCapacityType, Zenon
<1>2. p \in Nat
  BY PeekShape DEF TokTypes
<1>3. w = IF n - p > 0 THEN TokCeilDiv(n - p, q) ELSE 0
  BY Zenon DEF TokWait
<1> HIDE DEF n, p, q, w
<1>4. CASE n > p
  <2>1. n - p \in Nat \ {0} /\ w = TokCeilDiv(n - p, q)
    BY <1>1, <1>2, <1>3, <1>4
  <2>2. w \in Nat \ {0} /\ w * q >= n - p /\ (w - 1) * q < n - p
    BY <1>1, <2>1, CeilCovers, Zenon
  <2>3. ~(n <= p) /\ w \in Nat /\ w # 0
    BY <1>1, <1>2, <1>4, <2>2
  <2> QED
    BY <1>4, <2>2, <2>3, Zenon DEF n, p, q, w
<1>5. CASE n <= p
  <2>1. w = 0 /\ ~(n > p) /\ w \in Nat
    BY <1>1, <1>2, <1>3, <1>5
  <2> QED
    BY <1>5, <2>1, Zenon DEF n, p, q, w
<1> QED
  BY <1>1, <1>2, <1>4, <1>5

(* The waits that consider compares have a longest one. *)
LEMMA WaitsHaveMax ==
    ASSUME TokTypes, NEW c \in TokCalls
    PROVE  /\ {0} \cup {TokWait(c, k) : k \in TokBuckets(c)} \in SUBSET Int
           /\ HasMax({0} \cup {TokWait(c, k) : k \in TokBuckets(c)})
<1> DEFINE W(k) == TokWait(c, k)
           one(k) == IF k \in TokBuckets(c) THEN {W(k)} ELSE {}
           all == {0} \cup {TokWait(c, k) : k \in TokBuckets(c)}
<1>1. \A k \in TokKinds : W(k) \in Int
  BY WaitType
<1>2. TokBuckets(c) \subseteq TokKinds /\ TokKinds = {"requests", "tokens", "model"}
  BY DEF TokBuckets, TokKinds
<1>3. all = (({0} \cup one("requests")) \cup one("tokens")) \cup one("model")
  BY <1>2
<1>4. all \in SUBSET Int
  BY <1>1, <1>2
<1>5. ASSUME NEW S \in SUBSET Int, HasMax(S), NEW k \in TokKinds
      PROVE  S \cup one(k) \in SUBSET Int /\ HasMax(S \cup one(k))
  <2>1. CASE k \in TokBuckets(c)
    <3>1. one(k) = {W(k)} /\ W(k) \in Int
      BY <1>1, <2>1, Zenon
    <3> HIDE DEF one, W
    <3> QED
      BY <1>5, <3>1, HasMaxAdd, Zenon
  <2>2. CASE k \notin TokBuckets(c)
    <3>1. S \cup one(k) = S
      BY <2>2
    <3> QED
      BY <1>5, <3>1, Zenon
  <2> QED
    BY <2>1, <2>2, Zenon
<1> HIDE DEF one, all
<1>6. HasMax({0}) /\ {0} \in SUBSET Int
  BY DEF HasMax
<1>7. "requests" \in TokKinds /\ "tokens" \in TokKinds /\ "model" \in TokKinds
  BY DEF TokKinds
<1>8. HasMax({0} \cup one("requests")) /\ {0} \cup one("requests") \in SUBSET Int
  BY <1>5, <1>6, <1>7, Zenon
<1>9. HasMax(({0} \cup one("requests")) \cup one("tokens")) /\ ({0} \cup one("requests")) \cup one("tokens") \in SUBSET Int
  BY <1>5, <1>7, <1>8, Zenon
<1>10. HasMax(all)
  BY <1>3, <1>5, <1>7, <1>9, Zenon
<1> QED
  BY <1>4, <1>10, Zenon DEF all

(* An admitted request finds enough in every bucket, and a place for its   *)
(* lease.                                                                  *)
LEMMA AdmittedFits ==
    ASSUME TokTypes, NEW c \in TokCalls, TokWorst(c) = 0
    PROVE  /\ \A k \in TokBuckets(c) : TokNeed(c, k) <= TokPeek(k, tokNow)
           /\ ~TokFull(c)
<1> DEFINE S == {0} \cup {TokWait(c, k) : k \in TokBuckets(c)}
           T == S \cup (IF TokFull(c) THEN {TokConcHint} ELSE {})
<1>1. S \in SUBSET Int /\ HasMax(S)
  BY WaitsHaveMax, Zenon
<1>2. TokConcHint \in Int /\ TokConcHint > 0
  BY TokConstants
<1>3. \A k \in TokBuckets(c) : TokWait(c, k) \in T
  BY Zenon
<1>4. TokFull(c) => TokConcHint \in T
  BY Zenon
<1>5. HasMax(T)
  <2>1. CASE TokFull(c)
    <3>1. T = S \cup {TokConcHint}
      BY <2>1, Zenon
    <3> HIDE DEF S, T
    <3> QED
      BY <1>1, <1>2, <3>1, HasMaxAdd
  <2>2. CASE ~TokFull(c)
    <3>1. T = S
      BY <2>2, Zenon
    <3> QED
      BY <1>1, <3>1, Zenon
  <2> QED
    BY <2>1, <2>2, Zenon
<1>6. Max(T) = 0
  BY Zenon DEF TokWorst
<1> HIDE DEF S, T
<1>7. \A y \in T : 0 >= y
  BY <1>5, <1>6, MaxIsMax
<1>8. ~TokFull(c)
  BY <1>2, <1>4, <1>7
<1>9. ASSUME NEW k \in TokBuckets(c)
      PROVE  TokNeed(c, k) <= TokPeek(k, tokNow)
  <2>1. k \in TokKinds
    BY DEF TokBuckets
  <2>2. TokWait(c, k) \in Nat /\ 0 >= TokWait(c, k)
    BY <1>3, <1>7, <2>1, WaitType
  <2> QED
    BY <2>1, <2>2, WaitType
<1> QED
  BY <1>8, <1>9, Zenon

-----------------------------------------------------------------------------
(* The invariant *)

TokLeased == {c \in TokCalls : tokLease[c] > 0}

LEMMA FewerLeases ==
    ASSUME TokInv, NEW L \in SUBSET TokLeased
    PROVE  Cardinality(L) <= TokMaxConcurrent
<1>1. IsFiniteSet(TokLeased)
  BY TokConstants, FS_Subset DEF TokLeased
<1>2. Cardinality(L) <= Cardinality(TokLeased) /\ Cardinality(L) \in Nat /\ Cardinality(TokLeased) \in Nat
  BY <1>1, FS_Subset, FS_CardinalityType
<1>3. Cardinality(TokLeased) <= TokMaxConcurrent
  BY Zenon DEF TokInv, TokLeasesBounded, TokLeased
<1> QED
  BY <1>2, <1>3, TokConstants

LEMMA TokInitInv == TokInit => TokInv
<1> SUFFICES ASSUME TokInit
             PROVE  TokInv
  OBVIOUS
<1>1. TokTypes
  BY DEF TokInit, TokTypes, TokNoBucket
<1>2. {c \in TokCalls : tokLease[c] > 0} = {}
  BY DEF TokInit
<1>3. TokLeasesBounded
  BY <1>2, FS_EmptySet, TokConstants DEF TokLeasesBounded
<1>4. ASSUME NEW k \in TokKinds
      PROVE  TokGranted(k)
  <2>1. TokCapacity(k) \in Nat
    BY TokCapacityType
  <2>2. tokBucket[k] = TokNoBucket /\ tokSpent[k] = 0
    BY DEF TokInit
  <2>3. tokBucket[k].level = 0 /\ ~tokBucket[k].set
    BY <2>2 DEF TokNoBucket
  <2>4. TokShape(k)
    BY <2>1, <2>3 DEF TokShape
  <2> QED
    BY <2>2, <2>3, <2>4, Zenon DEF TokGranted, TokEarned
<1>5. TokNear
  BY TokConstants DEF TokInit, TokNear
<1> QED
  BY <1>1, <1>3, <1>4, <1>5, Zenon DEF TokInv

(* Allow: the buckets that grant pay from what they have now. *)
LEMMA AllowGranted ==
    ASSUME TokInv, NEW c \in TokCalls, TokAllow(c)
    PROVE  /\ TokTypes' /\ TokNear'
           /\ \A k \in TokKinds : TokGranted(k)'
<1> DEFINE G(k) == TokWorst(c) = 0 /\ k \in TokBuckets(c)
<1>1. /\ tokBucket' = [k \in TokKinds |-> IF G(k)
                         THEN [level |-> TokPeek(k, tokNow) - TokNeed(c, k), at |-> TokStamp(k),
                               until |-> tokNow + 2 * TokWindow, set |-> TRUE]
                         ELSE tokBucket[k]]
      /\ tokSpent' = [k \in TokKinds |-> tokSpent[k] + IF G(k) THEN TokNeed(c, k) ELSE 0]
      /\ tokNow' = tokNow /\ tokTop' = tokTop /\ tokFar' = tokFar
  BY Zenon DEF TokAllow
<1>2. TokTypes
  BY Zenon DEF TokInv
<1>3. ASSUME NEW k \in TokKinds
      PROVE  /\ TokNeed(c, k) \in Nat /\ TokPeek(k, tokNow) \in Nat /\ TokStamp(k) \in Nat \ {0} /\ TokStamp(k) <= tokTop
             /\ TokCapacity(k) \in Nat /\ TokPeek(k, tokNow) <= TokCapacity(k)
             /\ G(k) => TokNeed(c, k) <= TokPeek(k, tokNow)
  <2>1. tokNow \in Nat
    BY <1>2 DEF TokTypes
  <2> QED
    BY <1>2, <2>1, TokNeedType, PeekShape, StampShape, TokCapacityType, AdmittedFits, Zenon
<1>4. ASSUME NEW k \in TokKinds
      PROVE  /\ tokBucket'[k] \in [level : Nat, at : Nat, until : Nat, set : BOOLEAN]
             /\ tokSpent'[k] \in Nat
  <2>1. tokBucket[k] \in [level : Nat, at : Nat, until : Nat, set : BOOLEAN] /\ tokSpent[k] \in Nat
    BY <1>2, Zenon DEF TokTypes
  <2> HIDE DEF G
  <2>2. CASE G(k)
    <3>1. /\ tokBucket'[k] = [level |-> TokPeek(k, tokNow) - TokNeed(c, k), at |-> TokStamp(k),
                              until |-> tokNow + 2 * TokWindow, set |-> TRUE]
          /\ tokSpent'[k] = tokSpent[k] + TokNeed(c, k)
      BY <1>1, <2>2, Zenon
    <3>2. TokPeek(k, tokNow) - TokNeed(c, k) \in Nat /\ TokStamp(k) \in Nat /\ tokSpent[k] + TokNeed(c, k) \in Nat
      BY <1>3, <2>1, <2>2
    <3>3. tokNow + 2 * TokWindow \in Nat
      BY <1>2, TokConstants DEF TokTypes
    <3> QED
      BY <3>1, <3>2, <3>3
  <2>3. CASE ~G(k)
    BY <1>1, <2>1, <2>3
  <2> QED
    BY <2>2, <2>3, Zenon
<1>5. tokLease' \in [TokCalls -> Nat]
  <2>1. tokNow \in Nat /\ TokTTL \in Nat /\ tokLease \in [TokCalls -> Nat]
    BY <1>2, TokConstants DEF TokTypes
  <2>2. tokNow + TokTTL \in Nat
    BY <2>1
  <2> QED
    BY <2>1, <2>2 DEF TokAllow
<1>6. TokTypes'
  <2>1. tokBucket' \in [TokKinds -> [level : Nat, at : Nat, until : Nat, set : BOOLEAN]] /\ tokSpent' \in [TokKinds -> Nat]
    BY <1>1, <1>4, Zenon
  <2> QED
    BY <1>1, <1>2, <1>5, <2>1, Zenon DEF TokTypes
<1>7. ASSUME NEW k \in TokKinds
      PROVE  TokGranted(k)'
  <2> DEFINE p == TokPeek(k, tokNow)
             n == TokNeed(c, k)
             t == TokStamp(k)
             C == TokCapacity(k)
             W == TokWindow
             y == TokQuota[k] * (t - 1)
  <2>1. CASE G(k)
    <3>1. /\ tokBucket'[k].level = p - n /\ tokBucket'[k].at = t /\ tokBucket'[k].set
          /\ tokBucket'[k].until = tokNow + 2 * W
          /\ tokSpent'[k] = tokSpent[k] + n
      BY <1>1, <2>1
    <3>2. p \in Nat /\ n \in Nat /\ n <= p /\ p <= C /\ C \in Nat /\ t \in Nat \ {0} /\ t <= tokTop
      BY <1>3, <2>1, Zenon
    <3>3. ~tokFar => tokSpent[k] + p <= C + y
      BY PeekPaid, Zenon
    <3>4. tokSpent[k] \in Nat /\ TokQuota[k] \in Nat /\ W \in Nat /\ tokNow \in Nat /\ tokTop \in Nat
      BY <1>2, TokCapacityType, TokConstants DEF TokTypes
    <3>5. y \in Int
      BY <3>2, <3>4
    <3> DEFINE u == tokSpent[k]
    <3> HIDE DEF p, n, C, y, u
    <3>6. p - n <= C /\ (~tokFar => (u + n) + (p - n) <= C + y)
      BY <3>2, <3>3, <3>4, <3>5 DEF u
    <3> HIDE DEF t
    <3>7. /\ tokBucket'[k].level <= C
          /\ ~tokFar => tokSpent'[k] + tokBucket'[k].level <= C + TokQuota[k] * (tokBucket'[k].at - 1)
      BY <3>1, <3>6, Zenon DEF y, u
    <3>8. tokBucket'[k].at \in Nat \ {0} /\ tokBucket'[k].at <= tokTop'
      BY <1>1, <3>1, <3>2, Zenon
    <3>9. TokShape(k)'
      BY <3>1, <3>7, <3>8, Zenon DEF TokShape, C, TokCapacity
    <3>10. ~tokFar => 2 * (tokNow + 2 * W) >= 2 * t + 3 * W
      <4>1. ~tokFar => 2 * (tokTop - tokNow) <= W
        BY Zenon DEF TokInv, TokNear
      <4> HIDE DEF W
      <4> QED
        BY <3>2, <3>4, <4>1
    <3>11. ~tokFar => 2 * tokBucket'[k].until >= 2 * tokBucket'[k].at + 3 * W
      BY <3>1, <3>10, Zenon
    <3>12. ~tokFar => TokPaid(k)'
      BY <3>7, <3>11, Zenon DEF TokPaid, C, TokCapacity, W
    <3> QED
      BY <1>1, <3>1, <3>9, <3>12, Zenon DEF TokGranted
  <2>2. CASE ~G(k)
    <3>1. tokBucket'[k] = tokBucket[k] /\ tokSpent'[k] = tokSpent[k] + 0 /\ tokSpent[k] \in Nat
      BY <1>1, <1>2, <2>2, Zenon DEF TokTypes
    <3>2. tokSpent'[k] = tokSpent[k]
      BY <3>1
    <3>3. TokGranted(k)
      BY Zenon DEF TokInv
    <3> QED
      BY <1>1, <3>1, <3>2, <3>3, Zenon DEF TokGranted, TokShape, TokPaid, TokEarned, TokCapacity
  <2> QED
    BY <2>1, <2>2, Zenon
<1>8. TokNear'
  BY <1>1, Zenon DEF TokInv, TokNear
<1> QED
  BY <1>6, <1>7, <1>8, Zenon

(* Allow: a lease is given only when those that live leave room for it,    *)
(* and those that do not are removed.                                      *)
LEMMA AllowLeases ==
    ASSUME TokInv, NEW c \in TokCalls, TokAllow(c)
    PROVE  TokLeasesBounded'
<1> DEFINE leased == "concurrency" \in TokActive[c]
           L == {d \in TokCalls : tokLease'[d] > 0}
<1>1. tokLease' = [d \in TokCalls |-> IF d = c /\ TokWorst(c) = 0 /\ leased THEN tokNow + TokTTL
                                      ELSE IF leased /\ d \notin TokHeld THEN 0 ELSE tokLease[d]]
  BY Zenon DEF TokAllow
<1>2. TokLeasesBounded' <=> Cardinality(L) <= TokMaxConcurrent
  BY Zenon DEF TokLeasesBounded
<1>3. CASE TokWorst(c) = 0 /\ leased
  <2>1. ~TokFull(c)
    BY <1>3, AdmittedFits, Zenon DEF TokInv
  <2>2. ~(Cardinality(TokHeld) >= TokMaxConcurrent)
    BY <1>3, <2>1, Zenon DEF TokFull
  <2>3. IsFiniteSet(TokHeld)
    BY TokConstants, FS_Subset DEF TokHeld
  <2>4. L \subseteq TokHeld \cup {c}
    BY <1>1, <1>3
  <2>5. /\ IsFiniteSet(TokHeld \cup {c})
        /\ Cardinality(TokHeld) \in Nat
        /\ Cardinality(TokHeld \cup {c}) = Cardinality(TokHeld) \/ Cardinality(TokHeld \cup {c}) = Cardinality(TokHeld) + 1
    BY <2>3, FS_AddElement, FS_CardinalityType
  <2>6. Cardinality(L) <= Cardinality(TokHeld \cup {c}) /\ Cardinality(L) \in Nat
    BY <2>4, <2>5, FS_Subset, FS_CardinalityType
  <2>7. TokMaxConcurrent \in Nat
    BY TokConstants
  <2> HIDE DEF L
  <2>8. Cardinality(L) <= TokMaxConcurrent
    BY <2>2, <2>5, <2>6, <2>7
  <2> QED
    BY <1>2, <2>8, Zenon
<1>4. CASE ~(TokWorst(c) = 0 /\ leased)
  <2>1. L \in SUBSET TokLeased
    BY <1>1, <1>4 DEF TokLeased
  <2> QED
    BY <1>2, <2>1, FewerLeases, Zenon
<1> QED
  BY <1>3, <1>4, Zenon

(* Release, Renew and the expiry of the set give no lease to a request     *)
(* that has none.                                                          *)
LEMMA LeaseStepKeeps ==
    ASSUME TokInv, (\E c \in TokCalls : TokRelease(c) \/ TokRenew(c)) \/ TokLeasesGone
    PROVE  TokInv'
<1>1. tokNow' = tokNow /\ tokTop' = tokTop /\ tokBucket' = tokBucket /\ tokSpent' = tokSpent /\ tokFar' = tokFar
  BY Zenon DEF TokRelease, TokRenew, TokLeasesGone
<1>2. TokTypes /\ tokLease \in [TokCalls -> Nat] /\ tokNow \in Nat /\ TokTTL \in Nat
  BY TokConstants DEF TokInv, TokTypes
<1>3. tokLease' \in [TokCalls -> Nat] /\ {d \in TokCalls : tokLease'[d] > 0} \in SUBSET TokLeased
  <2>1. tokNow + TokTTL \in Nat
    BY <1>2
  <2>2. CASE TokLeasesGone
    <3>1. tokLease' = [d \in TokCalls |-> 0]
      BY <2>2, Zenon DEF TokLeasesGone
    <3> QED
      BY <3>1
  <2>3. ASSUME NEW c \in TokCalls, TokRelease(c) \/ TokRenew(c)
        PROVE  tokLease' \in [TokCalls -> Nat] /\ {d \in TokCalls : tokLease'[d] > 0} \in SUBSET TokLeased
    <3>1. \/ tokLease' = [tokLease EXCEPT ![c] = 0]
          \/ tokLease' = [tokLease EXCEPT ![c] = tokNow + TokTTL] /\ c \in TokHeld
      BY <2>3, Zenon DEF TokRelease, TokRenew
    <3> QED
      BY <1>2, <2>1, <3>1 DEF TokLeased, TokHeld
  <2> QED
    BY <2>2, <2>3, Zenon
<1>4. TokTypes'
  BY <1>1, <1>2, <1>3, Zenon DEF TokTypes
<1>5. TokLeasesBounded'
  BY <1>3, FewerLeases, Zenon DEF TokLeasesBounded
<1>6. \A k \in TokKinds : TokGranted(k)'
  BY <1>1, Zenon DEF TokInv, TokGranted, TokShape, TokPaid, TokEarned, TokCapacity
<1>7. TokNear'
  BY <1>1, Zenon DEF TokInv, TokNear
<1> QED
  BY <1>4, <1>5, <1>6, <1>7, Zenon DEF TokInv

(* A bucket that expires has been full for a while. *)
LEMMA BucketGoneKeeps ==
    ASSUME TokInv, NEW g \in TokKinds, TokBucketGone(g)
    PROVE  TokInv'
<1>1. /\ tokNow' = tokNow /\ tokTop' = tokTop /\ tokSpent' = tokSpent /\ tokFar' = tokFar /\ tokLease' = tokLease
      /\ tokBucket' = [tokBucket EXCEPT ![g] = TokNoBucket] /\ tokBucket[g].set /\ ~TokThere(g, tokNow)
  BY Zenon DEF TokBucketGone
<1>2. TokTypes /\ tokBucket \in [TokKinds -> [level : Nat, at : Nat, until : Nat, set : BOOLEAN]]
  BY Zenon DEF TokInv, TokTypes
<1>3. TokNoBucket \in [level : Nat, at : Nat, until : Nat, set : BOOLEAN] /\ TokNoBucket.level = 0 /\ ~TokNoBucket.set
  BY DEF TokNoBucket
<1>4. tokBucket' \in [TokKinds -> [level : Nat, at : Nat, until : Nat, set : BOOLEAN]]
  BY <1>1, <1>2, <1>3, Zenon
<1>5. TokTypes'
  BY <1>1, <1>2, <1>4, Zenon DEF TokTypes
<1>6. TokLeasesBounded' /\ TokNear'
  BY <1>1, Zenon DEF TokInv, TokLeasesBounded, TokNear
<1>7. ASSUME NEW k \in TokKinds
      PROVE  TokGranted(k)'
  <2>1. TokGranted(k)
    BY Zenon DEF TokInv
  <2>2. CASE k # g
    <3>1. tokBucket'[k] = tokBucket[k]
      BY <1>1, <1>2, <2>2, Zenon
    <3> QED
      BY <1>1, <2>1, <3>1, Zenon DEF TokGranted, TokShape, TokPaid, TokEarned, TokCapacity
  <2>3. CASE k = g
    <3>1. tokBucket'[k] = TokNoBucket
      BY <1>1, <1>2, <2>3, Zenon
    <3>2. tokBucket'[k].level = 0 /\ ~tokBucket'[k].set
      BY <1>3, <3>1, Zenon
    <3>3. TokCapacity(k) \in Nat /\ TokCapacity(k)' = TokCapacity(k)
      BY TokCapacityType, Zenon DEF TokCapacity
    <3>4. 0 <= TokCapacity(k)
      BY <3>3
    <3>5. TokShape(k)'
      BY <3>2, <3>3, <3>4, Zenon DEF TokShape
    <3>6. ASSUME ~tokFar
          PROVE  TokEarned(k)'
      <4> DEFINE a == tokBucket[k].at
                 e == tokBucket[k].until
                 W == TokWindow
                 b == a + W
      <4>1. a \in Nat \ {0} /\ TokPaid(k) /\ ~(tokNow <= e)
        BY <1>1, <2>1, <2>3, <3>6, Zenon DEF TokGranted, TokShape, TokThere
      <4>2. tokSpent[k] <= TokQuota[k] * (b - 1) /\ 2 * b + W <= 2 * e
        BY <1>2, <4>1, PaidUntilFull, Zenon
      <4>3. e \in Nat /\ W \in Nat /\ tokNow \in Nat /\ tokTop \in Nat /\ tokNow <= tokTop
        BY <1>2, TokConstants DEF TokTypes
      <4> HIDE DEF a, e, W
      <4>4. b \in Nat \ {0} /\ 2 * b + W <= 2 * tokTop
        BY <4>1, <4>2, <4>3
      <4> HIDE DEF b
      <4> QED
        BY <1>1, <4>2, <4>4, Zenon DEF TokEarned, W
    <3> QED
      BY <1>1, <3>2, <3>5, <3>6, Zenon DEF TokGranted
  <2> QED
    BY <2>2, <2>3, Zenon
<1> QED
  BY <1>5, <1>6, <1>7, Zenon DEF TokInv

(* The clock: only its maximum says how much was refilled. *)
LEMMA ClockKeeps ==
    ASSUME TokInv, TokTick \/ TokStepBack
    PROVE  TokInv'
<1>1. /\ tokLease' = tokLease /\ tokBucket' = tokBucket /\ tokSpent' = tokSpent
      /\ tokFar => tokFar'
  <2>1. CASE TokTick
    BY <2>1, Zenon DEF TokTick
  <2>2. CASE TokStepBack
    <3>1. PICK now \in 1 .. tokNow - 1 : tokFar' = (tokFar \/ 2 * (tokTop - now) > TokWindow)
      BY <2>2, Zenon DEF TokStepBack
    <3>2. tokFar => tokFar'
      BY <3>1, Zenon
    <3> QED
      BY <2>2, <3>2, Zenon DEF TokStepBack
  <2> QED
    BY <2>1, <2>2, Zenon
<1>2. TokTypes /\ tokNow \in Nat \ {0} /\ tokTop \in Nat /\ tokNow <= tokTop /\ TokWindow \in Nat
  BY TokConstants DEF TokInv, TokTypes
<1>3. ~tokFar => 2 * (tokTop - tokNow) <= TokWindow
  BY Zenon DEF TokInv, TokNear
<1>4. tokNow' \in Nat \ {0} /\ tokTop' \in Nat /\ tokNow' <= tokTop' /\ tokTop <= tokTop' /\ TokNear'
  <2>1. CASE TokTick
    <3> DEFINE m == Max({tokTop, tokNow + 1})
    <3>1. tokNow' = tokNow + 1 /\ tokTop' = m /\ tokFar' = tokFar
      BY <2>1, Zenon DEF TokTick
    <3>2. tokTop \in Int /\ tokNow + 1 \in Int
      BY <1>2
    <3>3. m \in Int /\ m >= tokTop /\ m >= tokNow + 1 /\ (m = tokTop \/ m = tokNow + 1)
      BY <3>2, MaxOfTwo, Zenon
    <3> HIDE DEF m
    <3>4. ~tokFar => 2 * (m - (tokNow + 1)) <= TokWindow
      BY <1>2, <1>3, <3>3
    <3>5. TokNear'
      BY <3>1, <3>4, Zenon DEF TokNear
    <3> QED
      BY <1>2, <3>1, <3>3, <3>5
  <2>2. CASE TokStepBack
    <3>1. PICK now \in 1 .. tokNow - 1 : tokNow' = now /\ tokFar' = (tokFar \/ 2 * (tokTop - now) > TokWindow)
      BY <2>2, Zenon DEF TokStepBack
    <3>2. tokTop' = tokTop
      BY <2>2, Zenon DEF TokStepBack
    <3>3. ~tokFar' => ~(2 * (tokTop - now) > TokWindow)
      BY <3>1, Zenon
    <3>4. ~tokFar' => 2 * (tokTop - now) <= TokWindow
      BY <1>2, <3>3
    <3>5. TokNear'
      BY <3>1, <3>2, <3>4, Zenon DEF TokNear
    <3> QED
      BY <1>2, <3>1, <3>2, <3>5
  <2> QED
    BY <2>1, <2>2, Zenon
<1>5. TokTypes'
  BY <1>1, <1>2, <1>4, Zenon DEF TokTypes
<1>6. TokLeasesBounded'
  BY <1>1, Zenon DEF TokInv, TokLeasesBounded
<1>7. ASSUME NEW k \in TokKinds
      PROVE  TokGranted(k)'
  <2>1. TokGranted(k) /\ tokBucket[k].at \in Nat
    BY <1>2 DEF TokInv, TokTypes
  <2>2. tokBucket[k].set => tokBucket[k].at <= tokTop'
    BY <1>2, <1>4, <2>1 DEF TokGranted, TokShape
  <2>3. TokShape(k)'
    BY <1>1, <2>1, <2>2, Zenon DEF TokGranted, TokShape, TokCapacity
  <2>4. TokPaid(k) => TokPaid(k)'
    BY <1>1, Zenon DEF TokPaid, TokCapacity
  <2>5. ASSUME TokEarned(k)
        PROVE  TokEarned(k)'
    <3>1. CASE tokSpent[k] = 0
      BY <1>1, <3>1, Zenon DEF TokEarned
    <3>2. CASE tokSpent[k] # 0
      <4>1. PICK b \in Nat \ {0} : tokSpent[k] <= TokQuota[k] * (b - 1) /\ 2 * b + TokWindow <= 2 * tokTop
        BY <2>5, <3>2, Zenon DEF TokEarned
      <4>2. 2 * b + TokWindow <= 2 * tokTop'
        BY <1>2, <1>4, <4>1
      <4> QED
        BY <1>1, <4>1, <4>2, Zenon DEF TokEarned
    <3> QED
      BY <3>1, <3>2, Zenon
  <2> QED
    BY <1>1, <2>1, <2>3, <2>4, <2>5, Zenon DEF TokGranted
<1> QED
  BY <1>4, <1>5, <1>6, <1>7, Zenon DEF TokInv

LEMMA TokNextKeeps == TokInv /\ [TokNext]_tokVars => TokInv'
<1> SUFFICES ASSUME TokInv, [TokNext]_tokVars
             PROVE  TokInv'
  OBVIOUS
<1>1. ASSUME NEW c \in TokCalls, TokAllow(c)
      PROVE  TokInv'
  BY <1>1, AllowGranted, AllowLeases, Zenon DEF TokInv
<1>2. ASSUME (\E c \in TokCalls : TokRelease(c) \/ TokRenew(c)) \/ TokLeasesGone
      PROVE  TokInv'
  BY <1>2, LeaseStepKeeps, Zenon
<1>3. ASSUME TokTick \/ TokStepBack
      PROVE  TokInv'
  BY <1>3, ClockKeeps, Zenon
<1>4. ASSUME NEW k \in TokKinds, TokBucketGone(k)
      PROVE  TokInv'
  BY <1>4, BucketGoneKeeps, Zenon
<1>5. CASE UNCHANGED tokVars
  BY <1>5, Zenon DEF TokInv, TokTypes, TokLeasesBounded, TokNear, TokGranted, TokShape, TokPaid, TokEarned, TokCapacity, tokVars
<1> QED
  BY <1>1, <1>2, <1>3, <1>4, <1>5, Zenon DEF TokNext

(* What the invariant says of the grants, by the clock's maximum. *)
LEMMA TokInvBounds == TokInv /\ ~tokFar => TokRateBounded
<1> SUFFICES ASSUME TokInv, ~tokFar, NEW k \in TokKinds
             PROVE  tokSpent[k] + tokBucket[k].level <= TokCapacity(k) + TokQuota[k] * (tokTop - 1)
  BY Zenon DEF TokRateBounded
<1> DEFINE C == TokCapacity(k)
           q == TokQuota[k]
           l == tokBucket[k].level
           b == tokBucket[k].at
           u == tokSpent[k]
<1>1. C \in Nat /\ q \in Nat /\ l \in Nat /\ b \in Nat /\ u \in Nat /\ tokTop \in Nat /\ tokTop >= 1
  BY TokCapacityType DEF TokInv, TokTypes
<1>2. TokGranted(k) /\ TokWindow \in Nat
  BY TokConstants, Zenon DEF TokInv
<1>3. tokBucket[k].set => b <= tokTop /\ u + l <= C + q * (b - 1)
  BY <1>2, Zenon DEF TokGranted, TokShape, TokPaid
<1>4. ~tokBucket[k].set => l = 0 /\ TokEarned(k)
  BY <1>2, Zenon DEF TokGranted, TokShape
<1>5. ASSUME NEW a \in Nat, a <= tokTop, u + l <= C + q * (a - 1)
      PROVE  u + l <= C + q * (tokTop - 1)
  <2> HIDE DEF C, q, l, b, u
  <2>1. (a - 1) * q <= (tokTop - 1) * q
    BY <1>1, <1>5, TimesGrows
  <2>2. q * (a - 1) = (a - 1) * q /\ q * (tokTop - 1) = (tokTop - 1) * q /\ (a - 1) * q \in Int /\ (tokTop - 1) * q \in Int
    BY <1>1, TimesSum
  <2> DEFINE x == q * (a - 1)
             y == q * (tokTop - 1)
  <2>3. x <= y /\ x \in Int /\ y \in Int
    BY <2>1, <2>2, Zenon
  <2>4. u + l <= C + x
    BY <1>5, Zenon
  <2> HIDE DEF x, y
  <2>5. u + l <= C + y
    BY <1>1, <2>3, <2>4
  <2> QED
    BY <2>5, Zenon DEF y
<1>6. CASE tokBucket[k].set
  BY <1>1, <1>3, <1>5, <1>6, Zenon
<1>7. CASE ~tokBucket[k].set
  <2>1. CASE u = 0
    <3> HIDE DEF C, q, l, b, u
    <3>1. q * (tokTop - 1) \in Nat
      BY <1>1
    <3>2. u + l <= C + q * (tokTop - 1)
      BY <1>1, <1>4, <1>7, <2>1, <3>1
    <3> QED
      BY <3>2, Zenon DEF C, q, l, u
  <2>2. CASE u # 0
    <3>1. PICK a \in Nat \ {0} : u <= q * (a - 1) /\ 2 * a + TokWindow <= 2 * tokTop
      BY <1>4, <1>7, <2>2, Zenon DEF TokEarned
    <3> HIDE DEF C, q, l, b, u
    <3>2. q * (a - 1) \in Int
      BY <1>1
    <3>3. u + l <= C + q * (a - 1)
      BY <1>1, <1>4, <1>7, <3>1, <3>2
    <3>4. a \in Nat /\ a <= tokTop
      BY <1>1, <1>2, <3>1
    <3>5. u + l <= C + q * (tokTop - 1)
      BY <1>5, <3>3, <3>4, Zenon
    <3> QED
      BY <3>5, Zenon DEF C, q, l, u
  <2> QED
    BY <2>1, <2>2, Zenon
<1> QED
  BY <1>6, <1>7, Zenon

-----------------------------------------------------------------------------
(* The wait that a refusal names *)

(* What the numbers of one bucket are now and w later. *)
LEMMA BucketNow ==
    ASSUME TokInv, NEW c \in TokCalls, NEW k \in TokBuckets(c), tokBucket[k].at <= tokNow, NEW w \in Nat
    PROVE  /\ k \in TokKinds /\ TokQuota[k] \in Nat \ {0} /\ TokCapacity(k) \in Nat /\ tokNow \in Nat
           /\ TokNeed(c, k) \in Nat /\ TokNeed(c, k) <= TokCapacity(k)
           /\ tokBucket[k].level \in Nat /\ tokBucket[k].at \in Nat
           /\ TokPeek(k, tokNow + w) \in Nat
           /\ TokElapsed(tokBucket[k].at, tokNow + w) \in Nat
           /\ TokElapsed(tokBucket[k].at, tokNow + w) <= TokWindow
           /\ TokElapsed(tokBucket[k].at, tokNow + w) <= (tokNow + w) - tokBucket[k].at
           /\ \/ TokElapsed(tokBucket[k].at, tokNow + w) * TokQuota[k] = TokCapacity(k)
              \/ TokElapsed(tokBucket[k].at, tokNow + w) = (tokNow + w) - tokBucket[k].at
<1>1. k \in TokKinds
  BY DEF TokBuckets
<1>2. tokNow \in Nat /\ tokNow + w \in Nat /\ tokBucket[k].at \in Nat /\ tokBucket[k].level \in Nat /\ tokBucket[k].at <= tokNow + w
  BY <1>1 DEF TokInv, TokTypes
<1>3. TokPeek(k, tokNow + w) \in Nat
  BY <1>1, <1>2, PeekShape, Zenon DEF TokInv
<1>4. TokQuota[k] \in Nat \ {0} /\ TokCapacity(k) \in Nat /\ TokCapacity(k) = TokWindow * TokQuota[k]
  BY <1>1, TokCapacityType, Zenon
<1>5. TokNeed(c, k) \in Nat /\ TokNeed(c, k) <= TokCapacity(k)
  BY <1>1, TokNeedType, Zenon
<1> DEFINE e == TokElapsed(tokBucket[k].at, tokNow + w)
<1>6. /\ e \in Nat /\ e <= TokWindow /\ e <= (tokNow + w) - tokBucket[k].at
      /\ e < TokWindow => e = (tokNow + w) - tokBucket[k].at
  BY <1>2, ElapsedBounds, Zenon
<1>7. TokWindow \in Nat
  BY TokConstants
<1>8. e = TokWindow \/ e < TokWindow
  <2> HIDE DEF e
  <2> QED
    BY <1>6, <1>7
<1>9. e * TokQuota[k] = TokCapacity(k) \/ e = (tokNow + w) - tokBucket[k].at
  BY <1>4, <1>6, <1>8, Zenon
<1> QED
  BY <1>1, <1>2, <1>3, <1>4, <1>5, <1>6, <1>9, Zenon

LEMMA WaitEnough ==
    ASSUME TokInv, NEW c \in TokCalls, NEW k \in TokBuckets(c), tokBucket[k].at <= tokNow,
           NEW w \in Nat, TokWait(c, k) <= w
    PROVE  TokPeek(k, tokNow + w) >= TokNeed(c, k)
<1> DEFINE C == TokCapacity(k)
           q == TokQuota[k]
           l == tokBucket[k].level
           b == tokBucket[k].at
           n == TokNeed(c, k)
           p1 == TokPeek(k, tokNow)
           p2 == TokPeek(k, tokNow + w)
           e1 == TokElapsed(b, tokNow)
           e2 == TokElapsed(b, tokNow + w)
           v == TokWait(c, k)
<1>1. /\ k \in TokKinds /\ q \in Nat \ {0} /\ C \in Nat /\ tokNow \in Nat /\ n \in Nat /\ n <= C /\ l \in Nat /\ b \in Nat
      /\ p2 \in Nat /\ e2 \in Nat /\ (e2 * q = C \/ e2 = (tokNow + w) - b)
  BY BucketNow, Zenon
<1>2. p1 \in Nat /\ e1 \in Nat /\ e1 <= tokNow - b
  <2>1. tokNow + 0 = tokNow
    BY <1>1
  <2>2. 0 \in Nat
    OBVIOUS
  <2>3. TokPeek(k, tokNow + 0) \in Nat /\ TokElapsed(b, tokNow + 0) \in Nat /\ TokElapsed(b, tokNow + 0) <= (tokNow + 0) - b
    BY <2>2, BucketNow, Zenon
  <2> QED
    BY <2>1, <2>3, Zenon
<1>3. tokNow + w \in Nat
  BY <1>1
<1>4. p2 = C \/ (p2 = l + e2 * q /\ p1 <= l + e1 * q)
  <2>1. TokThere(k, tokNow + w) => TokThere(k, tokNow)
    <3>1. tokBucket[k].until \in Nat
      BY <1>1 DEF TokInv, TokTypes
    <3> QED
      BY <1>1, <3>1 DEF TokThere
  <2>2. /\ ~TokThere(k, tokNow + w) => p2 = C
        /\ TokThere(k, tokNow + w) => p2 = C \/ p2 = l + e2 * q
        /\ TokThere(k, tokNow) => p1 <= l + e1 * q
    BY <1>1, <1>3, PeekShape, Zenon DEF TokInv
  <2> QED
    BY <2>1, <2>2, Zenon
<1>5. v \in Nat /\ v <= w /\ (n > p1 => v * q >= n - p1)
  BY <1>1, WaitType, Zenon DEF TokInv
<1> HIDE DEF C, q, l, b, n, p1, p2, e1, e2, v
<1>6. CASE p2 = C
  <2>1. p2 >= n
    BY <1>1, <1>6
  <2> QED
    BY <2>1 DEF p2, n
<1>7. CASE p2 # C
  <2>1. p2 = l + e2 * q /\ p1 <= l + e1 * q
    BY <1>4, <1>7, Zenon
  <2>2. e2 * q \in Nat
    BY <1>1
  <2>3. CASE e2 * q = C
    <3>1. p2 >= n
      BY <1>1, <2>1, <2>2, <2>3
    <3> QED
      BY <3>1 DEF p2, n
  <2>4. CASE e2 = (tokNow + w) - b
    <3>1. e1 + w <= e2
      BY <1>1, <1>2, <2>4
    <3>2. (e1 + w) * q <= e2 * q /\ v * q <= w * q
      BY <1>1, <1>2, <1>5, <3>1, TimesGrows
    <3>3. (e1 + w) * q = e1 * q + w * q /\ e1 * q \in Int /\ w * q \in Int /\ v * q \in Int
      BY <1>1, <1>2, <1>5, TimesSum
    <3>4. v * q >= 0
      BY <1>1, <1>5
    <3> DEFINE x == e1 * q
               y == w * q
               z == v * q
               o == e2 * q
    <3>5. x + y <= o /\ z <= y /\ x \in Int /\ y \in Int /\ z \in Int /\ o \in Int /\ z >= 0
      BY <2>2, <3>2, <3>3, <3>4
    <3>6. p2 = l + o /\ p1 <= l + x /\ (n > p1 => z >= n - p1)
      BY <1>5, <2>1, Zenon
    <3> HIDE DEF x, y, z, o
    <3>7. p2 >= n
      BY <1>1, <1>2, <3>5, <3>6
    <3> QED
      BY <3>7 DEF p2, n
  <2> QED
    BY <1>1, <2>3, <2>4, Zenon
<1> QED
  BY <1>6, <1>7, Zenon

LEMMA WaitNeeded ==
    ASSUME TokInv, ~tokFar, NEW c \in TokCalls, NEW k \in TokBuckets(c), tokBucket[k].at <= tokNow, TokWait(c, k) > 0
    PROVE  TokPeek(k, tokNow + TokWait(c, k) - 1) < TokNeed(c, k)
<1> DEFINE C == TokCapacity(k)
           q == TokQuota[k]
           l == tokBucket[k].level
           b == tokBucket[k].at
           n == TokNeed(c, k)
           v == TokWait(c, k)
           w == v - 1
           p1 == TokPeek(k, tokNow)
           p2 == TokPeek(k, tokNow + w)
           e1 == TokElapsed(b, tokNow)
           e2 == TokElapsed(b, tokNow + w)
<1>1. k \in TokKinds /\ tokNow \in Nat
  BY DEF TokBuckets, TokInv, TokTypes
<1>2. v \in Nat /\ v > 0 /\ (v = 0 <=> n <= p1) /\ (n > p1 => w * q < n - p1)
  BY <1>1, WaitType, Zenon DEF TokInv
<1>3. w \in Nat
  <2> HIDE DEF v
  <2> QED
    BY <1>2
<1>4. /\ q \in Nat \ {0} /\ C \in Nat /\ n \in Nat /\ n <= C /\ l \in Nat /\ b \in Nat
      /\ p2 \in Nat /\ e2 \in Nat /\ e2 <= (tokNow + w) - b
  BY <1>3, BucketNow, Zenon
<1>5. p1 \in Nat /\ e1 \in Nat /\ (e1 * q = C \/ e1 = tokNow - b)
  <2>1. tokNow + 0 = tokNow
    BY <1>1
  <2>2. 0 \in Nat
    OBVIOUS
  <2>3. /\ TokPeek(k, tokNow + 0) \in Nat /\ TokElapsed(b, tokNow + 0) \in Nat
        /\ TokElapsed(b, tokNow + 0) * q = C \/ TokElapsed(b, tokNow + 0) = (tokNow + 0) - b
    BY <2>2, BucketNow, Zenon
  <2> QED
    BY <2>1, <2>3, Zenon
<1>6. tokNow + w \in Nat
  BY <1>1, <1>3
<1>7. /\ ~TokThere(k, tokNow) => p1 = C
      /\ TokThere(k, tokNow) => p1 = C \/ p1 = l + e1 * q
      /\ TokThere(k, tokNow + w) => p2 <= l + e2 * q
  BY <1>1, <1>6, PeekShape, Zenon DEF TokInv
<1>8. tokNow + w = tokNow + TokWait(c, k) - 1
  <2> HIDE DEF v
  <2>1. tokNow + (v - 1) = tokNow + v - 1
    BY <1>1, <1>2
  <2> QED
    BY <2>1, Zenon DEF v
<1> HIDE DEF C, q, l, b, n, p1, p2, e1, e2, v, w
<1>9. n > p1 /\ p1 # C /\ w * q < n - p1
  <2>1. n > p1
    BY <1>2, <1>4, <1>5
  <2> QED
    BY <1>2, <1>4, <1>5, <2>1
<1>10. p1 = l + e1 * q /\ TokThere(k, tokNow)
  BY <1>7, <1>9, Zenon
<1>11. e1 * q \in Nat /\ e1 * q # C
  <2>1. e1 * q \in Nat
    BY <1>4, <1>5
  <2> DEFINE x == e1 * q
  <2>2. x \in Nat /\ p1 = l + x
    BY <1>10, <2>1, Zenon
  <2> HIDE DEF x
  <2>3. x # C
    BY <1>4, <1>5, <1>9, <2>2
  <2> QED
    BY <2>1, <2>3, Zenon DEF x
(* The key outlives the wait: it expires after the time the bucket needs   *)
(* to be full.                                                             *)
<1>12. p2 <= l + e2 * q
  <2> DEFINE u == tokBucket[k].until
             W == TokWindow
  <2>1. TokPaid(k) /\ u \in Nat
    <3>1. TokGranted(k) /\ tokBucket[k].set
      BY <1>1, <1>10, Zenon DEF TokInv, TokThere
    <3>2. TokPaid(k)
      BY <3>1, Zenon DEF TokGranted
    <3> QED
      BY <1>1, <3>2 DEF TokInv, TokTypes
  <2>2. 2 * u >= 2 * b + 3 * W
    BY <2>1, Zenon DEF TokPaid, b
  <2>3. W \in Nat /\ C = W * q
    BY <1>1, TokConstants, TokCapacityType, Zenon DEF C, q
  <2>4. e1 = tokNow - b
    BY <1>5, <1>11, Zenon
  <2> HIDE DEF u, W
  <2>5. ~(e1 + w >= W)
    <3> SUFFICES ASSUME e1 + w >= W
                 PROVE  FALSE
      OBVIOUS
    <3>1. W * q <= (e1 + w) * q
      BY <1>3, <1>4, <1>5, <2>3, TimesGrows
    <3>2. (e1 + w) * q = e1 * q + w * q /\ w * q \in Int
      BY <1>3, <1>4, <1>5, TimesSum
    <3> DEFINE x == e1 * q
               y == w * q
    <3>3. C <= x + y /\ y < n - p1 /\ p1 = l + x /\ x \in Nat /\ y \in Int
      BY <1>9, <1>10, <1>11, <2>3, <3>1, <3>2, Zenon
    <3> HIDE DEF x, y
    <3> QED
      BY <1>4, <1>5, <3>3
  <2>6. tokNow + w <= u
    BY <1>1, <1>3, <1>4, <1>5, <2>1, <2>2, <2>3, <2>4, <2>5
  <2>7. TokThere(k, tokNow + w)
    BY <1>10, <2>6, Zenon DEF TokThere, u
  <2> QED
    BY <1>7, <2>7, Zenon
<1>13. e2 <= e1 + w
  BY <1>1, <1>3, <1>4, <1>5, <1>11
<1>14. e2 * q <= (e1 + w) * q
  BY <1>3, <1>4, <1>5, <1>13, TimesGrows
<1>15. (e1 + w) * q = e1 * q + w * q /\ w * q \in Int /\ e2 * q \in Int
  BY <1>3, <1>4, <1>5, TimesSum
<1>16. p2 < n
  <2> DEFINE x == e1 * q
             y == w * q
             z == e2 * q
  <2>1. z <= x + y /\ x \in Int /\ y \in Int /\ z \in Int /\ p1 = l + x /\ p2 <= l + z /\ y < n - p1
    BY <1>9, <1>10, <1>11, <1>14, <1>15, <1>12
  <2> HIDE DEF x, y, z
  <2> QED
    BY <1>4, <1>5, <2>1
<1> QED
  BY <1>8, <1>16, Zenon DEF p2, n

LEMMA TokInvRetry == TokInv /\ ~tokFar => TokRetryHonest
<1> SUFFICES ASSUME TokInv, ~tokFar, NEW c \in TokCalls
             PROVE  LET wait == Max({0} \cup {TokWait(c, k) : k \in TokBuckets(c)}) IN
                    wait > 0 /\ (\A k \in TokBuckets(c) : tokBucket[k].at <= tokNow) =>
                      /\ \A k \in TokBuckets(c) : TokPeek(k, tokNow + wait) >= TokNeed(c, k)
                      /\ \E k \in TokBuckets(c) : TokPeek(k, tokNow + wait - 1) < TokNeed(c, k)
  BY Zenon DEF TokRetryHonest
<1> DEFINE S == {0} \cup {TokWait(c, k) : k \in TokBuckets(c)}
           w == Max(S)
<1>1. S \in SUBSET Int /\ HasMax(S)
  BY WaitsHaveMax, Zenon DEF TokInv
<1>2. w \in S /\ \A y \in S : w >= y
  <2> HIDE DEF S
  <2> QED
    BY <1>1, MaxIsMax, Zenon
<1>3. \A k \in TokBuckets(c) : TokWait(c, k) \in S /\ TokWait(c, k) \in Nat
  BY WaitType, Zenon DEF TokBuckets, TokInv
<1>4. w = 0 \/ \E k \in TokBuckets(c) : w = TokWait(c, k)
  BY <1>2, Zenon
<1> HIDE DEF S, w
<1> SUFFICES ASSUME w > 0, \A k \in TokBuckets(c) : tokBucket[k].at <= tokNow
             PROVE  /\ \A k \in TokBuckets(c) : TokPeek(k, tokNow + w) >= TokNeed(c, k)
                    /\ \E k \in TokBuckets(c) : TokPeek(k, tokNow + w - 1) < TokNeed(c, k)
  BY Zenon DEF w, S
<1>5. PICK s \in TokBuckets(c) : w = TokWait(c, s)
  <2>1. w # 0
    OBVIOUS
  <2> QED
    BY <1>4, <2>1, Zenon
<1>6. w \in Nat
  BY <1>3, <1>5, Zenon
<1>7. \A k \in TokBuckets(c) : TokWait(c, k) <= w
  BY <1>2, <1>3, <1>6
<1>8. \A k \in TokBuckets(c) : TokPeek(k, tokNow + w) >= TokNeed(c, k)
  BY <1>6, <1>7, WaitEnough, Zenon
<1>9. TokPeek(s, tokNow + w - 1) < TokNeed(c, s)
  BY <1>5, WaitNeeded, Zenon
<1> QED
  BY <1>8, <1>9, Zenon

(* The limiter's promises (check, Allow and the acquire script), for every *)
(* tenant's quotas, window, costs and lease life: the leases stay within   *)
(* the tenant's limit whatever the clock does; and as long as the clock,   *)
(* however often it steps back, is never further behind its maximum than   *)
(* half a window, no bucket grants more than it holds and what the time    *)
(* that really passed refills, though Redis expires its key, and the wait  *)
(* a refusal names is exactly long enough.                                 *)
THEOREM LimitsAlwaysHold == TokSpec => []TokLimitsHold
<1>1. TokInit => TokInv
  BY TokInitInv
<1>2. TokInv /\ [TokNext]_tokVars => TokInv'
  BY TokNextKeeps
<1>3. TokInv => TokLimitsHold
  BY TokInvBounds, TokInvRetry, Zenon DEF TokLimitsHold, TokInv
<1> QED
  BY <1>1, <1>2, <1>3, PTL DEF TokSpec

-----------------------------------------------------------------------------
(* Breaker events *)

BevEvent == [w : BevWorkers, n : 1 .. BevMaxChanges, opens : BOOLEAN, own : BOOLEAN]

(* An event is known by its worker and its number. *)
BevKey(e) == <<e.w, e.n>>

BevKeys(s) == {<<s[i].w, s[i].n>> : i \in DOMAIN s}

BevDistinct(s) == \A i, j \in DOMAIN s : BevKey(s[i]) = BevKey(s[j]) => i = j

(* Every transition there was; the events on their way through the queue   *)
(* or delivered; and the goroutines that carry one to the queue.           *)
BevHappened == {e \in BevWorkers \X (1 .. BevMaxChanges) : e[2] <= bevSerial[e[1]]}

BevKnown == BevKeys(bevDelivered) \cup BevKeys(bevQueue) \cup UNION {BevKeys(bevBatch[p]) : p \in BevProcs}

BevCarrying == {p \in BevProcs : bevPc[p] \in {"hook", "push"}}

BevTypes ==
  /\ BevTypeOK /\ bevReported \in Nat /\ bevSnap \in [BevProcs -> Int]
  /\ bevQueue \in Seq(BevEvent) /\ bevDelivered \in Seq(BevEvent) /\ bevBatch \in [BevProcs -> Seq(BevEvent)]
  /\ bevChange = [p \in BevProcs |-> bevChange[p]]

(* The flag is the deliverer's, and the deliverer alone holds a batch. *)
BevTurns ==
  /\ \A p, q \in BevProcs : bevPc[p] \in BevDelivering /\ bevPc[q] \in BevDelivering => p = q
  /\ bevFlushing <=> \E p \in BevProcs : bevPc[p] \in BevDelivering
  /\ \A p \in BevProcs : bevPc[p] = "dispatch" <=> bevBatch[p] # <<>>

(* No event is in two places. *)
BevApart ==
  /\ BevDistinct(bevQueue) /\ BevKeys(bevDelivered) \cap BevKeys(bevQueue) = {}
  /\ \A p \in BevProcs :
       /\ BevDistinct(bevBatch[p])
       /\ BevKeys(bevBatch[p]) \cap BevKeys(bevQueue) = {}
       /\ BevKeys(bevBatch[p]) \cap BevKeys(bevDelivered) = {}

(* What a goroutine carries is new to the queue. *)
BevCarried ==
  /\ \A p \in BevCarrying : bevChange[p] \in BevEvent /\ BevKey(bevChange[p]) \in BevHappened \ BevKnown
  /\ \A p, q \in BevCarrying : BevKey(bevChange[p]) = BevKey(bevChange[q]) => p = q

BevCount ==
  /\ Cardinality(BevKeys(bevDelivered)) = Len(bevDelivered)
  /\ Cardinality(BevKnown) + Cardinality(BevCarrying) + bevDropped + bevReported = Cardinality(BevHappened)

BevInv ==
  /\ BevTypes /\ BevTurns /\ NoEventStranded /\ BevApart /\ BevCarried
  /\ BevKnown \subseteq BevHappened /\ BevCount

LEMMA KeysEmpty == BevKeys(<<>>) = {} /\ BevDistinct(<<>>)
BY DEF BevKeys, BevDistinct

LEMMA KeysAppend ==
    ASSUME NEW s \in Seq(BevEvent), NEW e \in BevEvent
    PROVE  /\ BevKeys(Append(s, e)) = BevKeys(s) \cup {BevKey(e)}
           /\ BevDistinct(s) /\ BevKey(e) \notin BevKeys(s) => BevDistinct(Append(s, e))
<1> DEFINE t == Append(s, e)
           n == Len(s)
<1>1. /\ n \in Nat /\ DOMAIN s = 1 .. n /\ t \in Seq(BevEvent) /\ DOMAIN t = 1 .. n + 1
      /\ t[n + 1] = e /\ \A i \in 1 .. n : t[i] = s[i]
  OBVIOUS
<1> HIDE DEF t, n
<1>2. n + 1 \in 1 .. n + 1 /\ \A i \in 1 .. n + 1 : i \in 1 .. n \/ i = n + 1
  BY <1>1
<1>3. \A i \in 1 .. n : i \in 1 .. n + 1
  BY <1>1
<1>4. BevKeys(t) = BevKeys(s) \cup {BevKey(e)}
  BY <1>1, <1>2, <1>3, Zenon DEF BevKeys, BevKey
<1>5. BevDistinct(s) /\ BevKey(e) \notin BevKeys(s) => BevDistinct(t)
  BY <1>1, <1>2 DEF BevKeys, BevKey, BevDistinct
<1> QED
  BY <1>4, <1>5 DEF t

LEMMA KeysTail ==
    ASSUME NEW s \in Seq(BevEvent), s # <<>>
    PROVE  /\ Head(s) \in BevEvent /\ Tail(s) \in Seq(BevEvent) /\ Len(Tail(s)) = Len(s) - 1 /\ Len(s) \in Nat
           /\ BevKeys(s) = {BevKey(Head(s))} \cup BevKeys(Tail(s))
           /\ BevDistinct(s) => BevDistinct(Tail(s)) /\ BevKey(Head(s)) \notin BevKeys(Tail(s))
<1> DEFINE t == Tail(s)
           n == Len(s)
<1>1. /\ n \in Nat \ {0} /\ DOMAIN s = 1 .. n /\ t \in Seq(BevEvent) /\ Len(t) = n - 1 /\ DOMAIN t = 1 .. n - 1
      /\ Head(s) = s[1] /\ s[1] \in BevEvent /\ \A i \in 1 .. n - 1 : t[i] = s[i + 1]
  OBVIOUS
<1> HIDE DEF t, n
<1>2. 1 \in 1 .. n /\ \A i \in 1 .. n - 1 : i + 1 \in 1 .. n /\ i + 1 # 1
  BY <1>1
<1>3. \A i \in 1 .. n : i = 1 \/ (i - 1 \in 1 .. n - 1 /\ (i - 1) + 1 = i)
  BY <1>1
<1>4. BevKeys(s) = {BevKey(s[1])} \cup BevKeys(t)
  <2>1. \A i \in 1 .. n : i = 1 \/ \E j \in 1 .. n - 1 : t[j] = s[i]
    BY <1>1, <1>3, Zenon
  <2>2. \A i \in 1 .. n - 1 : \E j \in 1 .. n : s[j] = t[i]
    BY <1>1, <1>2
  <2>3. ASSUME NEW k \in BevKeys(s) PROVE k \in {BevKey(s[1])} \cup BevKeys(t)
    <3>1. PICK i \in 1 .. n : k = BevKey(s[i])
      BY <1>1 DEF BevKeys, BevKey
    <3>2. i = 1 \/ \E j \in 1 .. n - 1 : k = BevKey(t[j])
      BY <2>1, <3>1, Zenon
    <3> QED
      BY <1>1, <3>1, <3>2, Zenon DEF BevKeys, BevKey
  <2>4. ASSUME NEW k \in {BevKey(s[1])} \cup BevKeys(t) PROVE k \in BevKeys(s)
    <3>1. k = BevKey(s[1]) \/ \E i \in 1 .. n - 1 : k = BevKey(t[i])
      BY <1>1, <2>4 DEF BevKeys, BevKey
    <3>2. PICK j \in 1 .. n : k = BevKey(s[j])
      BY <1>2, <2>2, <3>1
    <3> QED
      BY <1>1, <3>2, Zenon DEF BevKeys, BevKey
  <2> QED
    BY <2>3, <2>4, Zenon
<1>5. ASSUME BevDistinct(s) PROVE BevDistinct(t) /\ BevKey(s[1]) \notin BevKeys(t)
  <2>1. \A i, j \in 1 .. n - 1 : i + 1 = j + 1 => i = j
    BY <1>1
  <2>2. ASSUME NEW i \in 1 .. n - 1, NEW j \in 1 .. n - 1, BevKey(t[i]) = BevKey(t[j]) PROVE i = j
    <3>1. t[i] = s[i + 1] /\ t[j] = s[j + 1] /\ i + 1 \in DOMAIN s /\ j + 1 \in DOMAIN s
      BY <1>1, <1>2
    <3>2. i + 1 = j + 1
      BY <1>5, <2>2, <3>1 DEF BevDistinct
    <3> QED
      BY <2>1, <3>2
  <2>3. ASSUME NEW i \in 1 .. n - 1 PROVE BevKey(s[1]) # BevKey(t[i])
    <3>1. t[i] = s[i + 1] /\ i + 1 \in DOMAIN s /\ 1 \in DOMAIN s /\ i + 1 # 1
      BY <1>1, <1>2, Zenon
    <3> QED
      BY <1>5, <3>1 DEF BevDistinct
  <2>4. BevDistinct(t)
    BY <1>1, <2>2 DEF BevDistinct
  <2>5. BevKey(s[1]) \notin BevKeys(t)
    BY <1>1, <2>3, Zenon DEF BevKeys, BevKey
  <2> QED
    BY <2>4, <2>5
<1> QED
  BY <1>1, <1>4, <1>5 DEF t, n

LEMMA KnownIs ==
    \A e : e \in BevKnown <=> \/ e \in BevKeys(bevDelivered) \/ e \in BevKeys(bevQueue)
                              \/ \E p \in BevProcs : e \in BevKeys(bevBatch[p])
BY DEF BevKnown

(* The counted sets are finite. *)
LEMMA EventSetsFinite ==
    /\ IsFiniteSet(BevCarrying) /\ IsFiniteSet(BevHappened)
    /\ \A S \in SUBSET BevHappened : IsFiniteSet(S) /\ Cardinality(S) \in Nat
    /\ Cardinality(BevCarrying) \in Nat /\ Cardinality(BevHappened) \in Nat
<1>1. IsFiniteSet(BevProcs) /\ IsFiniteSet(BevWorkers) /\ IsFiniteSet(1 .. BevMaxChanges)
  BY EventsAssumption, FS_Interval
<1>2. BevCarrying \in SUBSET BevProcs /\ BevHappened \in SUBSET (BevWorkers \X (1 .. BevMaxChanges))
  BY DEF BevCarrying, BevHappened
<1>3. IsFiniteSet(BevCarrying) /\ IsFiniteSet(BevHappened)
  BY <1>1, <1>2, FS_Product, FS_Subset, Zenon
<1>4. \A S \in SUBSET BevHappened : IsFiniteSet(S)
  BY <1>3, FS_Subset
<1> QED
  BY <1>3, <1>4, FS_CardinalityType

LEMMA PcMoves ==
    ASSUME BevInv, NEW p \in BevProcs, NEW from, NEW to, BevGo(p, from, to),
           to \in {"idle", "hook", "push", "flush", "warn", "recheck", "store"} \cup BevDelivering
    PROVE  /\ bevPc' \in [BevProcs -> {"idle", "hook", "push", "flush", "warn", "recheck", "store"} \cup BevDelivering]
           /\ bevPc[p] = from /\ bevPc'[p] = to /\ \A q \in BevProcs : q # p => bevPc'[q] = bevPc[q]
BY DEF BevGo, BevInv, BevTypes, BevTypeOK

(* A step that leaves the events where they are. *)
LEMMA EventsStay ==
    ASSUME BevInv, UNCHANGED <<bevSerial, bevQueue, bevBatch, bevDelivered, bevChange>>,
           BevCarrying' = BevCarrying,
           \/ bevDropped' = bevDropped /\ bevReported' = bevReported
           \/ bevDropped' = 0 /\ bevReported' = bevReported + bevDropped
    PROVE  BevApart' /\ BevCarried' /\ (BevKnown \subseteq BevHappened)' /\ BevCount'
<1>1. BevKnown' = BevKnown /\ BevHappened' = BevHappened
  BY DEF BevKnown, BevHappened
<1>2. BevApart'
  BY DEF BevInv, BevApart
<1>3. BevCarried'
  BY <1>1, Zenon DEF BevInv, BevCarried
<1>4. BevKnown \in SUBSET BevHappened /\ bevDropped \in Nat /\ bevReported \in Nat
  BY DEF BevInv, BevTypes, BevTypeOK
<1>5. Cardinality(BevKnown) \in Nat /\ Cardinality(BevCarrying) \in Nat /\ Cardinality(BevHappened) \in Nat
  BY <1>4, EventSetsFinite
<1>6. Cardinality(BevKnown) + Cardinality(BevCarrying) + bevDropped' + bevReported' = Cardinality(BevHappened)
  <2>1. Cardinality(BevKnown) + Cardinality(BevCarrying) + bevDropped + bevReported = Cardinality(BevHappened)
    BY DEF BevInv, BevCount
  <2>2. CASE bevDropped' = bevDropped /\ bevReported' = bevReported
    BY <2>1, <2>2
  <2>3. CASE bevDropped' = 0 /\ bevReported' = bevReported + bevDropped
    BY <1>4, <1>5, <2>1, <2>3
  <2> QED
    BY <2>2, <2>3
<1>7. BevCount'
  BY <1>1, <1>6 DEF BevInv, BevCount
<1> QED
  BY <1>1, <1>2, <1>3, <1>4, <1>7

(* Steps that move no event: push's counter, the ends of flush, sync. *)
LEMMA QuietKeeps ==
    ASSUME BevInv, NEW p \in BevProcs,
           BevPushCounts(p) \/ BevFlushLeaves(p) \/ BevFlushWarns(p) \/ BevFlushRechecks(p) \/ BevSyncs(p)
             \/ BevFlushEnters(p)
    PROVE  BevInv'
<1> USE DEF BevDelivering
<1>1. /\ UNCHANGED <<bevEjected, bevSerial, bevQueue, bevBatch, bevDelivered, bevChange>>
      /\ \/ bevDropped' = bevDropped /\ bevReported' = bevReported
         \/ bevDropped' = 0 /\ bevReported' = bevReported + bevDropped
  BY Zenon DEF BevPushCounts, BevFlushLeaves, BevFlushWarns, BevFlushRechecks, BevSyncs, BevSyncCounts, BevSyncStores,
         BevFlushEnters, bevFlushVars
<1>2. PICK from, to :
        /\ BevGo(p, from, to)
        /\ \/ from = "hook" /\ to = "push" /\ UNCHANGED bevFlushing
           \/ from = "leave" /\ to = "warn" /\ bevFlushing' = FALSE
           \/ from = "warn" /\ to = "recheck" /\ UNCHANGED bevFlushing
           \/ from = "recheck" /\ to = (IF bevQueue = <<>> THEN "idle" ELSE "flush") /\ UNCHANGED bevFlushing
           \/ from = "idle" /\ to = "store" /\ UNCHANGED bevFlushing
           \/ from = "store" /\ to = "flush" /\ UNCHANGED bevFlushing
           \/ from = "flush" /\ to = "idle" /\ bevFlushing /\ bevFlushing' = TRUE
           \/ from = "flush" /\ to = "take" /\ ~bevFlushing /\ bevFlushing' = TRUE
  <2>1. bevFlushing \in BOOLEAN
    BY DEF BevInv, BevTypes, BevTypeOK
  <2> QED
    BY <2>1, Zenon DEF BevPushCounts, BevFlushLeaves, BevFlushWarns, BevFlushRechecks, BevSyncs, BevSyncCounts, BevSyncStores,
                BevFlushEnters, bevFlushVars
<1>3. /\ bevPc' \in [BevProcs -> {"idle", "hook", "push", "flush", "warn", "recheck", "store"} \cup BevDelivering]
      /\ bevPc[p] = from /\ bevPc'[p] = to /\ \A q \in BevProcs : q # p => bevPc'[q] = bevPc[q]
  BY <1>2, PcMoves, Zenon
<1>4. bevNonClosed' \in Int /\ bevSnap' \in [BevProcs -> Int] /\ bevFlushing' \in BOOLEAN
  <2>1. bevNonClosed \in Int /\ bevSnap \in [BevProcs -> Int] /\ bevFlushing \in BOOLEAN
    BY Zenon DEF BevInv, BevTypes, BevTypeOK
  <2>2. Cardinality(bevEjected) \in Int
    BY EventsAssumption, FS_Subset, FS_CardinalityType DEF BevInv, BevTypes, BevTypeOK
  <2>3. bevNonClosed' \in Int
    BY <2>1 DEF BevPushCounts, BevFlushLeaves, BevFlushWarns, BevFlushRechecks, BevSyncs, BevSyncCounts, BevSyncStores,
                BevFlushEnters, bevFlushVars
  <2>4. bevSnap' \in [BevProcs -> Int]
    BY <2>1, <2>2 DEF BevPushCounts, BevFlushLeaves, BevFlushWarns, BevFlushRechecks, BevSyncs, BevSyncCounts,
                BevSyncStores, BevFlushEnters, bevFlushVars
  <2> QED
    BY <1>2, <2>1, <2>3, <2>4, Zenon
<1>5. BevTypes'
  <2>1. bevDropped \in Nat /\ bevReported \in Nat
    BY Zenon DEF BevInv, BevTypes, BevTypeOK
  <2>2. bevDropped' \in Nat /\ bevReported' \in Nat
    BY <1>1, <2>1
  <2> QED
    BY <1>1, <1>3, <1>4, <2>2, Zenon DEF BevInv, BevTypes, BevTypeOK
<1>6. BevTurns'
  <2>1. /\ \A x, y \in BevProcs : bevPc[x] \in BevDelivering /\ bevPc[y] \in BevDelivering => x = y
        /\ (bevFlushing <=> \E x \in BevProcs : bevPc[x] \in BevDelivering)
        /\ \A x \in BevProcs : bevPc[x] = "dispatch" <=> bevBatch[x] # <<>>
    BY Zenon DEF BevInv, BevTurns
  <2>2. /\ from # "dispatch" /\ to # "dispatch" /\ bevBatch' = bevBatch
        /\ \/ from \notin BevDelivering /\ to \notin BevDelivering /\ (bevFlushing' <=> bevFlushing)
           \/ from \in BevDelivering /\ to \notin BevDelivering /\ ~bevFlushing'
           \/ to \in BevDelivering /\ ~bevFlushing /\ bevFlushing'
    BY <1>1, <1>2
  <2> HIDE DEF BevDelivering
  <2>3. \A x, y \in BevProcs : bevPc'[x] \in BevDelivering /\ bevPc'[y] \in BevDelivering => x = y
    BY <1>3, <2>1, <2>2, Zenon
  <2>4. bevFlushing' <=> \E x \in BevProcs : bevPc'[x] \in BevDelivering
    BY <1>3, <2>1, <2>2, Zenon
  <2>5. \A x \in BevProcs : bevPc'[x] = "dispatch" <=> bevBatch'[x] # <<>>
    BY <1>3, <2>1, <2>2, Zenon
  <2>6. BevDelivering' = BevDelivering
    BY Zenon DEF BevDelivering
  <2> QED
    BY <2>3, <2>4, <2>5, <2>6, Zenon DEF BevTurns
<1>7. NoEventStranded'
  <2> SUFFICES ASSUME \E i \in DOMAIN bevQueue : bevQueue[i].own
               PROVE  \E q \in BevProcs : bevPc'[q] \in BevDelivering \cup {"flush", "warn", "recheck"}
    BY <1>1 DEF NoEventStranded
  <2>1. bevQueue # <<>>
    OBVIOUS
  <2>2. PICK q \in BevProcs : bevPc[q] \in BevDelivering \cup {"flush", "warn", "recheck"}
    BY DEF BevInv, NoEventStranded
  <2>3. CASE q # p
    BY <1>3, <2>2, <2>3, Zenon
  <2>4. CASE q = p /\ to = "idle"
    <3>1. PICK r \in BevProcs : bevPc[r] \in BevDelivering
      BY <1>2, <1>3, <2>1, <2>2, <2>4, Zenon DEF BevInv, BevTurns
    <3> QED
      BY <1>2, <1>3, <2>1, <2>4, <3>1, Zenon
  <2>5. CASE q = p /\ to # "idle"
    BY <1>2, <1>3, <2>2, <2>5, Zenon
  <2> QED
    BY <2>3, <2>4, <2>5, Zenon
<1>8. BevCarrying' = BevCarrying
  BY <1>2, <1>3 DEF BevCarrying
<1> QED
  BY <1>1, <1>5, <1>6, <1>7, <1>8, EventsStay, Zenon DEF BevInv

(* A transition: one event more, in the hands of its goroutine. *)
LEMMA TransitionKeeps ==
    ASSUME BevInv, NEW p \in BevProcs, NEW w \in BevWorkers, NEW own \in BOOLEAN, BevTransition(p, w, own)
    PROVE  BevInv'
<1> USE DEF BevDelivering
<1> DEFINE e == [w |-> w, n |-> bevSerial[w] + 1, opens |-> w \notin bevEjected, own |-> own]
           k == BevKey(e)
<1>1. /\ bevSerial[w] < BevMaxChanges /\ BevGo(p, "idle", "hook")
      /\ bevSerial' = [bevSerial EXCEPT ![w] = @ + 1] /\ bevChange' = [bevChange EXCEPT ![p] = e]
      /\ bevEjected' \in {bevEjected \ {w}, bevEjected \cup {w}}
      /\ UNCHANGED <<bevNonClosed, bevSnap, bevFlushVars>>
  BY Zenon DEF BevTransition
<1>2. /\ bevPc' \in [BevProcs -> {"idle", "hook", "push", "flush", "warn", "recheck", "store"} \cup BevDelivering]
      /\ bevPc[p] = "idle" /\ bevPc'[p] = "hook" /\ \A q \in BevProcs : q # p => bevPc'[q] = bevPc[q]
  BY <1>1, PcMoves, Zenon
<1>3. /\ bevSerial \in [BevWorkers -> 0 .. BevMaxChanges] /\ BevMaxChanges \in Nat
      /\ bevDropped \in Nat /\ bevReported \in Nat /\ bevChange = [q \in BevProcs |-> bevChange[q]]
  BY EventsAssumption, Zenon DEF BevInv, BevTypes, BevTypeOK
<1>4. bevSerial[w] + 1 \in 1 .. BevMaxChanges /\ e \in BevEvent /\ k = <<w, bevSerial[w] + 1>>
  BY <1>1, <1>3 DEF BevEvent, BevKey
<1>5. /\ bevSerial' \in [BevWorkers -> 0 .. BevMaxChanges] /\ bevSerial'[w] = bevSerial[w] + 1
      /\ \A v \in BevWorkers : v # w => bevSerial'[v] = bevSerial[v]
  BY <1>1, <1>3
<1>6. BevHappened' = BevHappened \cup {k} /\ k \notin BevHappened
  BY <1>3, <1>4, <1>5 DEF BevHappened
<1>7. BevKnown' = BevKnown /\ BevCarrying' = BevCarrying \cup {p} /\ p \notin BevCarrying
  BY <1>1, <1>2 DEF BevKnown, BevCarrying, bevFlushVars
<1>8. /\ bevChange' = [q \in BevProcs |-> bevChange'[q]] /\ bevChange'[p] = e
      /\ \A q \in BevProcs : q # p => bevChange'[q] = bevChange[q]
  <2> HIDE DEF e
  <2> QED
    BY <1>1, <1>3, Zenon
<1>9. BevKnown \subseteq BevHappened
  BY Zenon DEF BevInv
<1> HIDE DEF e, k
<1>10. BevTypes'
  BY <1>1, <1>2, <1>5, <1>8, Zenon DEF BevInv, BevTypes, BevTypeOK, bevFlushVars
<1>11. BevTurns'
  BY <1>1, <1>2, Zenon DEF BevInv, BevTurns, bevFlushVars
<1>12. NoEventStranded'
  BY <1>1, <1>2, Zenon DEF BevInv, NoEventStranded, bevFlushVars
<1>13. BevApart'
  BY <1>1, Zenon DEF BevInv, BevApart, bevFlushVars
<1>14. BevCarried'
  <2>1. \A q \in BevCarrying : /\ bevChange'[q] = bevChange[q] /\ bevChange[q] \in BevEvent
                               /\ BevKey(bevChange[q]) \in BevHappened \ BevKnown
    BY <1>7, <1>8, Zenon DEF BevInv, BevCarried, BevCarrying
  <2>2. k = BevKey(bevChange'[p]) /\ bevChange'[p] \in BevEvent
    BY <1>4, <1>8, Zenon DEF k
  <2>3. \A q \in BevCarrying' : bevChange'[q] \in BevEvent /\ BevKey(bevChange'[q]) \in BevHappened' \ BevKnown'
    BY <1>6, <1>7, <1>9, <2>1, <2>2, Zenon
  <2>4. \A q, r \in BevCarrying' : BevKey(bevChange'[q]) = BevKey(bevChange'[r]) => q = r
    BY <1>6, <1>7, <2>1, <2>2 DEF BevInv, BevCarried
  <2> QED
    BY <2>3, <2>4 DEF BevCarried
<1>15. BevCount'
  <2>1. /\ Cardinality(BevHappened') = Cardinality(BevHappened) + 1
        /\ Cardinality(BevCarrying') = Cardinality(BevCarrying) + 1
    BY <1>6, <1>7, EventSetsFinite, FS_AddElement, Zenon
  <2>2. Cardinality(BevKnown) \in Nat /\ Cardinality(BevCarrying) \in Nat /\ Cardinality(BevHappened) \in Nat
    BY <1>9, EventSetsFinite
  <2>3. Cardinality(BevKnown) + Cardinality(BevCarrying) + bevDropped + bevReported = Cardinality(BevHappened)
    BY DEF BevInv, BevCount
  <2>4. Cardinality(BevKnown) + (Cardinality(BevCarrying) + 1) + bevDropped + bevReported = Cardinality(BevHappened) + 1
    BY <1>3, <2>2, <2>3
  <2> QED
    BY <1>1, <1>7, <2>1, <2>4, Zenon DEF BevInv, BevCount, bevFlushVars
<1> QED
  BY <1>6, <1>7, <1>9, <1>10, <1>11, <1>12, <1>13, <1>14, <1>15, Zenon DEF BevInv

(* The event goes to the queue, or is counted as dropped. *)
LEMMA PushQueuesKeeps ==
    ASSUME BevInv, NEW p \in BevProcs, BevPushQueues(p)
    PROVE  BevInv'
<1> USE DEF BevDelivering
<1> DEFINE e == bevChange[p]
           k == BevKey(e)
           full == Len(bevQueue) >= BevMaxPending
           to == IF e.own THEN "flush" ELSE "idle"
<1>1. /\ BevGo(p, "push", to) /\ bevChange' = [bevChange EXCEPT ![p] = BevNoChange]
      /\ full => bevDropped' = bevDropped + 1 /\ bevQueue' = bevQueue
      /\ ~full => bevQueue' = Append(bevQueue, e) /\ bevDropped' = bevDropped
      /\ UNCHANGED <<bevEjected, bevSerial, bevNonClosed, bevSnap, bevFlushing, bevBatch, bevDelivered, bevReported>>
  BY Zenon DEF BevPushQueues
<1>2. to \in {"flush", "idle"} /\ (e.own => to = "flush")
  OBVIOUS
<1> HIDE DEF to
<1>3. /\ bevPc' \in [BevProcs -> {"idle", "hook", "push", "flush", "warn", "recheck", "store"} \cup BevDelivering]
      /\ bevPc[p] = "push" /\ bevPc'[p] = to /\ \A q \in BevProcs : q # p => bevPc'[q] = bevPc[q]
  BY <1>1, <1>2, PcMoves, Zenon
<1>4. p \in BevCarrying /\ BevCarrying' = BevCarrying \ {p}
  BY <1>2, <1>3 DEF BevCarrying
<1>5. e \in BevEvent /\ k \in BevHappened /\ k \notin BevKnown
  BY <1>4 DEF BevInv, BevCarried
<1>6. /\ bevChange' = [q \in BevProcs |-> bevChange'[q]]
      /\ \A q \in BevProcs : q # p => bevChange'[q] = bevChange[q]
  BY <1>1, Zenon DEF BevInv, BevTypes
<1>7. /\ bevQueue \in Seq(BevEvent) /\ BevMaxPending \in Nat /\ Len(bevQueue) \in Nat /\ Len(bevQueue) <= BevMaxPending
      /\ bevDropped \in Nat /\ bevReported \in Nat /\ BevKnown \in SUBSET BevHappened
      /\ bevDelivered \in Seq(BevEvent) /\ bevBatch \in [BevProcs -> Seq(BevEvent)]
  BY EventsAssumption DEF BevInv, BevTypes, BevTypeOK
<1>8. BevHappened' = BevHappened
  BY <1>1 DEF BevHappened
<1>9. \A q, r \in BevCarrying : BevKey(bevChange[q]) = BevKey(bevChange[r]) => q = r
  BY Zenon DEF BevInv, BevCarried
<1>10. \A q \in BevCarrying' : /\ bevChange'[q] = bevChange[q] /\ q \in BevCarrying /\ bevChange[q] \in BevEvent
                               /\ BevKey(bevChange[q]) \in BevHappened \ BevKnown /\ BevKey(bevChange[q]) # k
  BY <1>4, <1>6, <1>9, Zenon DEF BevInv, BevCarried, BevCarrying
<1>11. Cardinality(BevCarrying') = Cardinality(BevCarrying) - 1 /\ Cardinality(BevCarrying) \in Nat
       /\ Cardinality(BevKnown) \in Nat /\ Cardinality(BevHappened) \in Nat /\ IsFiniteSet(BevKnown)
  BY <1>4, <1>7, EventSetsFinite, FS_RemoveElement, Zenon
<1>12. Cardinality(BevKnown) + Cardinality(BevCarrying) + bevDropped + bevReported = Cardinality(BevHappened)
  BY DEF BevInv, BevCount
<1>13. BevTurns'
  BY <1>1, <1>2, <1>3, Zenon DEF BevInv, BevTurns
<1> HIDE DEF e, k
<1>14. CASE full
  <2>1. BevKnown' = BevKnown
    BY <1>1, <1>14, Zenon DEF BevKnown
  <2>2. BevTypes'
    BY <1>1, <1>3, <1>6, <1>7, <1>14 DEF BevInv, BevTypes, BevTypeOK
  <2>3. NoEventStranded'
    <3> SUFFICES ASSUME \E i \in DOMAIN bevQueue : bevQueue[i].own
                 PROVE  \E q \in BevProcs : bevPc'[q] \in BevDelivering \cup {"flush", "warn", "recheck"}
      BY <1>1, <1>14, Zenon DEF NoEventStranded
    <3>1. PICK q \in BevProcs : bevPc[q] \in BevDelivering \cup {"flush", "warn", "recheck"}
      BY DEF BevInv, NoEventStranded
    <3> QED
      BY <1>3, <3>1
  <2>4. BevApart'
    BY <1>1, <1>14, Zenon DEF BevInv, BevApart
  <2>5. BevCarried'
    BY <1>8, <1>9, <1>10, <2>1, Zenon DEF BevCarried
  <2>6. Cardinality(BevKnown) + (Cardinality(BevCarrying) - 1) + (bevDropped + 1) + bevReported = Cardinality(BevHappened)
    <3>1. /\ Cardinality(BevKnown) \in Nat /\ Cardinality(BevCarrying) \in Nat /\ bevDropped \in Nat
          /\ bevReported \in Nat /\ Cardinality(BevHappened) \in Nat
      BY <1>7, <1>11, Zenon
    <3> QED
      BY <1>12, <3>1
  <2>7. BevCount'
    BY <1>1, <1>8, <1>11, <1>14, <2>1, <2>6, Zenon DEF BevInv, BevCount
  <2> QED
    BY <1>7, <1>8, <1>13, <2>1, <2>2, <2>3, <2>4, <2>5, <2>7, Zenon DEF BevInv
<1>15. CASE ~full
  <2>1. /\ BevKeys(bevQueue') = BevKeys(bevQueue) \cup {k}
        /\ BevDistinct(bevQueue) /\ k \notin BevKeys(bevQueue) => BevDistinct(bevQueue')
    BY <1>1, <1>5, <1>7, <1>15, KeysAppend, Zenon DEF k
  <2>2. BevKnown' = BevKnown \cup {k}
    BY <1>1, <2>1 DEF BevKnown
  <2>3. bevQueue' \in Seq(BevEvent) /\ Len(bevQueue') <= BevMaxPending
    <3>1. Len(bevQueue) < BevMaxPending /\ bevQueue' = Append(bevQueue, e)
      BY <1>1, <1>7, <1>15
    <3> QED
      BY <1>5, <1>7, <3>1
  <2>4. BevTypes'
    BY <1>1, <1>3, <1>6, <1>15, <2>3, Zenon DEF BevInv, BevTypes, BevTypeOK
  <2>5. NoEventStranded'
    <3> SUFFICES ASSUME \E i \in DOMAIN bevQueue' : bevQueue'[i].own
                 PROVE  \E q \in BevProcs : bevPc'[q] \in BevDelivering \cup {"flush", "warn", "recheck"}
      BY DEF NoEventStranded
    <3>1. (\E i \in DOMAIN bevQueue : bevQueue[i].own) \/ e.own
      <4>1. PICK i \in DOMAIN bevQueue' : bevQueue'[i].own
        OBVIOUS
      <4>2. bevQueue' = Append(bevQueue, e)
        BY <1>1, <1>15, Zenon
      <4>3. (i \in DOMAIN bevQueue /\ bevQueue'[i] = bevQueue[i]) \/ bevQueue'[i] = e
        BY <1>5, <1>7, <4>2
      <4> QED
        BY <4>1, <4>3
    <3>2. CASE e.own
      BY <1>2, <1>3, <3>2
    <3>3. CASE \E i \in DOMAIN bevQueue : bevQueue[i].own
      <4>1. PICK q \in BevProcs : bevPc[q] \in BevDelivering \cup {"flush", "warn", "recheck"}
        BY <3>3, Zenon DEF BevInv, NoEventStranded
      <4> QED
        BY <1>3, <4>1, Zenon
    <3> QED
      BY <3>1, <3>2, <3>3, Zenon
  <2>6. /\ k \notin BevKeys(bevQueue) /\ k \notin BevKeys(bevDelivered)
        /\ \A q \in BevProcs : k \notin BevKeys(bevBatch[q])
    BY <1>5, KnownIs, Zenon
  <2>7. BevApart'
    BY <1>1, <2>1, <2>6, Zenon DEF BevInv, BevApart
  <2>8. BevCarried'
    BY <1>8, <1>9, <1>10, <2>2, Zenon DEF BevCarried
  <2>9. Cardinality(BevKnown') = Cardinality(BevKnown) + 1
    BY <1>5, <1>11, <2>2, FS_AddElement, Zenon
  <2>10. (Cardinality(BevKnown) + 1) + (Cardinality(BevCarrying) - 1) + bevDropped + bevReported = Cardinality(BevHappened)
    BY <1>7, <1>11, <1>12
  <2>11. BevCount'
    BY <1>1, <1>8, <1>11, <1>15, <2>9, <2>10, Zenon DEF BevInv, BevCount
  <2> QED
    BY <1>5, <1>7, <1>8, <1>13, <2>2, <2>4, <2>5, <2>7, <2>8, <2>11, Zenon DEF BevInv
<1> QED
  BY <1>14, <1>15

(* Events move from the queue to a batch, or from the batch to the         *)
(* observers: none is gained or lost.                                      *)
LEMMA DeliveryKeeps ==
    ASSUME BevInv, NEW p \in BevProcs, BevFlushTakes(p) \/ BevFlushDispatches(p)
    PROVE  BevInv'
<1> USE DEF BevDelivering
<1>1. /\ bevQueue \in Seq(BevEvent) /\ bevDelivered \in Seq(BevEvent) /\ bevBatch \in [BevProcs -> Seq(BevEvent)]
      /\ BevKnown \in SUBSET BevHappened /\ BevMaxPending \in Nat /\ Len(bevQueue) <= BevMaxPending
      /\ <<>> \in Seq(BevEvent) /\ Len(<<>>) = 0
  BY EventsAssumption DEF BevInv, BevTypes, BevTypeOK
<1>2. /\ UNCHANGED <<bevEjected, bevSerial, bevChange, bevNonClosed, bevSnap, bevFlushing, bevDropped, bevReported>>
  BY DEF BevFlushTakes, BevFlushDispatches
<1>3. BevHappened' = BevHappened
  BY <1>2 DEF BevHappened
<1>4. PICK from, to \in BevDelivering : BevGo(p, from, to)
  BY DEF BevFlushTakes, BevFlushDispatches
<1>5. /\ bevPc' \in [BevProcs -> {"idle", "hook", "push", "flush", "warn", "recheck", "store"} \cup BevDelivering]
      /\ bevPc[p] = from /\ bevPc'[p] = to /\ \A q \in BevProcs : q # p => bevPc'[q] = bevPc[q]
  BY <1>4, PcMoves
<1>6. BevCarrying' = BevCarrying
  BY <1>4, <1>5 DEF BevCarrying
<1>7. NoEventStranded'
  BY <1>4, <1>5, Zenon DEF NoEventStranded
<1>8. ASSUME BevTypes', BevApart', BevKnown' = BevKnown, Cardinality(BevKeys(bevDelivered')) = Len(bevDelivered'),
             bevPc'[p] = "dispatch" <=> bevBatch'[p] # <<>>, \A q \in BevProcs : q # p => bevBatch'[q] = bevBatch[q]
      PROVE  BevInv'
  <2>1. BevTurns'
    BY <1>2, <1>4, <1>5, <1>8, Zenon DEF BevInv, BevTurns
  <2>2. BevCarried'
    BY <1>2, <1>3, <1>6, <1>8, Zenon DEF BevInv, BevCarried
  <2>3. BevCount'
    BY <1>2, <1>3, <1>6, <1>8, Zenon DEF BevInv, BevCount
  <2> QED
    BY <1>1, <1>3, <1>7, <1>8, <2>1, <2>2, <2>3, Zenon DEF BevInv
<1>9. CASE BevFlushTakes(p)
  <2>1. /\ bevPc[p] = "take" /\ bevPc'[p] = (IF bevQueue = <<>> THEN "leave" ELSE "dispatch")
        /\ bevBatch' = [bevBatch EXCEPT ![p] = bevQueue] /\ bevQueue' = <<>> /\ UNCHANGED bevDelivered
    BY <1>9, Zenon DEF BevFlushTakes, BevGo, BevInv, BevTypes, BevTypeOK
  <2>2. bevBatch[p] = <<>>
    BY <2>1, Zenon DEF BevInv, BevTurns
  <2>3. /\ bevBatch' \in [BevProcs -> Seq(BevEvent)] /\ bevBatch'[p] = bevQueue
        /\ \A q \in BevProcs : q # p => bevBatch'[q] = bevBatch[q]
    BY <1>1, <2>1, Zenon
  <2>4. BevTypes'
    BY <1>1, <1>2, <1>5, <2>1, <2>3 DEF BevInv, BevTypes, BevTypeOK
  <2>5. BevKeys(bevQueue') = {} /\ BevKeys(bevBatch[p]) = {} /\ BevDistinct(bevQueue')
    BY <2>1, <2>2, KeysEmpty, Zenon
  <2>6. BevApart'
    <3>1. \A q \in BevProcs : /\ BevDistinct(bevBatch'[q]) /\ BevKeys(bevBatch'[q]) \cap BevKeys(bevDelivered) = {}
      BY <2>3, Zenon DEF BevInv, BevApart
    <3> QED
      BY <2>1, <2>5, <3>1, Zenon DEF BevApart
  <2>7. BevKnown' = BevKnown
    <3>1. ASSUME NEW e PROVE e \in BevKnown' <=> e \in BevKnown
      <4>1. e \in BevKnown' <=> \/ e \in BevKeys(bevDelivered) \/ \E q \in BevProcs : e \in BevKeys(bevBatch'[q])
        BY <2>1, <2>5 DEF BevKnown
      <4>2. (\E q \in BevProcs : e \in BevKeys(bevBatch'[q]))
              <=> e \in BevKeys(bevQueue) \/ \E q \in BevProcs : e \in BevKeys(bevBatch[q])
        BY <2>3, <2>5, Zenon
      <4> QED
        BY <4>1, <4>2, KnownIs, Zenon
    <3> QED
      BY <3>1, Zenon
  <2>8. Cardinality(BevKeys(bevDelivered')) = Len(bevDelivered')
    BY <2>1, Zenon DEF BevInv, BevCount
  <2> QED
    BY <1>8, <2>1, <2>3, <2>4, <2>6, <2>7, <2>8, Zenon
<1>10. CASE BevFlushDispatches(p)
  <2> DEFINE s == bevBatch[p]
             k == BevKey(Head(s))
  <2>1. /\ bevPc[p] = "dispatch" /\ bevPc'[p] = (IF Len(s) = 1 THEN "take" ELSE "dispatch")
        /\ bevDelivered' = Append(bevDelivered, Head(s)) /\ bevBatch' = [bevBatch EXCEPT ![p] = Tail(s)]
        /\ UNCHANGED bevQueue
    BY <1>10, Zenon DEF BevFlushDispatches, BevGo, BevInv, BevTypes, BevTypeOK
  <2>2. s \in Seq(BevEvent) /\ s # <<>> /\ BevDistinct(s)
    BY <1>1, <2>1, Zenon DEF BevInv, BevTurns, BevApart
  <2>3. /\ bevBatch'[p] = Tail(s) /\ \A q \in BevProcs : q # p => bevBatch'[q] = bevBatch[q]
    BY <1>1, <2>1, Zenon
  <2>4. /\ BevKeys(s) \cap BevKeys(bevQueue) = {} /\ BevKeys(s) \cap BevKeys(bevDelivered) = {}
    BY Zenon DEF BevInv, BevApart
  <2>5. \A q \in BevProcs : q # p => bevBatch[q] = <<>> /\ BevKeys(bevBatch[q]) = {}
    BY <2>1, KeysEmpty, Zenon DEF BevInv, BevTurns
  <2>6. /\ Head(s) \in BevEvent /\ Tail(s) \in Seq(BevEvent) /\ Len(Tail(s)) = Len(s) - 1 /\ Len(s) \in Nat
        /\ BevKeys(s) = {k} \cup BevKeys(Tail(s)) /\ BevDistinct(Tail(s)) /\ k \notin BevKeys(Tail(s))
    <3> HIDE DEF s
    <3> QED
      BY <2>2, KeysTail
  <2>7. BevKeys(bevDelivered') = BevKeys(bevDelivered) \cup {k}
    BY <1>1, <2>1, <2>6, KeysAppend, Zenon
  <2>8. bevDelivered' \in Seq(BevEvent) /\ Len(bevDelivered') = Len(bevDelivered) + 1
        /\ bevBatch' \in [BevProcs -> Seq(BevEvent)]
    <3> DEFINE x == Head(s)
               t == Tail(s)
    <3>1. x \in BevEvent /\ t \in Seq(BevEvent) /\ bevDelivered' = Append(bevDelivered, x) /\ bevBatch' = [bevBatch EXCEPT ![p] = t]
      BY <2>1, <2>6, Zenon
    <3> HIDE DEF s, x, t
    <3> QED
      BY <1>1, <3>1
  <2>9. BevTypes'
    BY <1>1, <1>2, <1>5, <2>1, <2>8, Zenon DEF BevInv, BevTypes, BevTypeOK
  <2>10. BevKnown' = BevKnown
    <3>1. ASSUME NEW e PROVE e \in BevKnown' <=> e \in BevKnown
      <4>1. e \in BevKnown' <=> \/ e \in BevKeys(bevDelivered) \cup {k} \/ e \in BevKeys(bevQueue)
                                \/ \E q \in BevProcs : e \in BevKeys(bevBatch'[q])
        BY <2>1, <2>7, Zenon DEF BevKnown
      <4>2. (\E q \in BevProcs : e \in BevKeys(bevBatch'[q])) <=> e \in BevKeys(Tail(s))
        BY <2>3, <2>5, Zenon
      <4>3. (\E q \in BevProcs : e \in BevKeys(bevBatch[q])) <=> e \in BevKeys(s)
        BY <2>5, Zenon
      <4> HIDE DEF s, k
      <4> QED
        BY <2>6, <4>1, <4>2, <4>3, KnownIs, Zenon
    <3> QED
      BY <3>1
  <2>11. BevApart'
    <3>1. BevDistinct(bevQueue) /\ BevKeys(bevDelivered) \cap BevKeys(bevQueue) = {}
      BY DEF BevInv, BevApart
    <3>2. k \in BevKeys(s) /\ BevKeys(Tail(s)) \subseteq BevKeys(s)
      BY <2>6
    <3> HIDE DEF s, k
    <3>3. \A q \in BevProcs :
            /\ BevDistinct(bevBatch'[q]) /\ BevKeys(bevBatch'[q]) \cap BevKeys(bevQueue) = {}
            /\ BevKeys(bevBatch'[q]) \cap (BevKeys(bevDelivered) \cup {k}) = {}
      BY <2>3, <2>4, <2>5, <2>6, <3>2, KeysEmpty, Zenon
    <3>4. bevQueue' = bevQueue /\ BevKeys(bevDelivered') = BevKeys(bevDelivered) \cup {k} /\ k \notin BevKeys(bevQueue)
      BY <2>1, <2>4, <2>7, <3>2, Zenon
    <3>5. BevKeys(bevDelivered') \cap BevKeys(bevQueue') = {}
      BY <3>1, <3>4, Zenon
    <3> QED
      BY <3>1, <3>3, <3>4, <3>5, Zenon DEF BevApart
  <2>12. Cardinality(BevKeys(bevDelivered')) = Len(bevDelivered')
    <3>1. BevKeys(bevDelivered) \in SUBSET BevHappened
      BY <1>1 DEF BevKnown
    <3>2. IsFiniteSet(BevKeys(bevDelivered)) /\ k \notin BevKeys(bevDelivered)
      BY <2>4, <2>6, <3>1, EventSetsFinite
    <3>3. Cardinality(BevKeys(bevDelivered) \cup {k}) = Cardinality(BevKeys(bevDelivered)) + 1
      BY <3>2, FS_AddElement, Zenon
    <3> QED
      BY <2>7, <2>8, <3>3, Zenon DEF BevInv, BevCount
  <2>13. bevPc'[p] = "dispatch" <=> bevBatch'[p] # <<>>
    <3>1. Tail(s) = <<>> <=> Len(s) = 1
      <4> DEFINE t == Tail(s)
      <4>1. t \in Seq(BevEvent) /\ Len(t) = Len(s) - 1 /\ Len(s) \in Nat
        BY <2>6
      <4> HIDE DEF t, s
      <4>2. t = <<>> <=> Len(t) = 0
        BY <4>1
      <4> QED
        BY <4>1, <4>2 DEF t
    <3> QED
      BY <2>1, <2>3, <3>1, Zenon
  <2> QED
    BY <1>8, <2>3, <2>9, <2>10, <2>11, <2>12, <2>13, Zenon
<1> QED
  BY <1>9, <1>10

LEMMA BevInitInv == BevInit => BevInv
<1> SUFFICES ASSUME BevInit PROVE BevInv
  OBVIOUS
<1> USE DEF BevDelivering
<1>1. /\ bevEjected = {} /\ bevSerial = [w \in BevWorkers |-> 0] /\ bevPc = [p \in BevProcs |-> "idle"]
      /\ bevChange = [p \in BevProcs |-> BevNoChange] /\ bevQueue = <<>> /\ bevFlushing = FALSE /\ bevDropped = 0
      /\ bevBatch = [p \in BevProcs |-> <<>>] /\ bevNonClosed = 0 /\ bevSnap = [p \in BevProcs |-> 0]
      /\ bevDelivered = <<>> /\ bevReported = 0
  BY DEF BevInit
<1>2. <<>> \in Seq(BevEvent) /\ Len(<<>>) = 0 /\ BevMaxPending \in Nat /\ BevMaxChanges \in Nat
  BY EventsAssumption
<1>3. BevTypes
  <2>1. /\ bevSerial \in [BevWorkers -> 0 .. BevMaxChanges] /\ bevBatch \in [BevProcs -> Seq(BevEvent)]
        /\ bevSnap \in [BevProcs -> Int] /\ bevChange = [p \in BevProcs |-> bevChange[p]]
        /\ bevPc \in [BevProcs -> {"idle", "hook", "push", "flush", "warn", "recheck", "store"} \cup BevDelivering]
    BY <1>1, <1>2
  <2>2. bevQueue \in Seq(BevEvent) /\ bevDelivered \in Seq(BevEvent) /\ Len(bevQueue) <= BevMaxPending
    BY <1>1, <1>2
  <2>3. BevTypeOK
    <3>1. bevFlushing \in BOOLEAN /\ bevEjected \subseteq BevWorkers
      BY <1>1, Zenon
    <3>2. bevNonClosed \in Int /\ bevDropped \in Nat
      BY <1>1
    <3> QED
      BY <2>1, <2>2, <3>1, <3>2 DEF BevTypeOK
  <2> QED
    BY <1>1, <2>1, <2>2, <2>3 DEF BevTypes
<1>4. /\ \A p \in BevProcs : bevPc[p] = "idle" /\ bevBatch[p] = <<>> /\ BevKeys(bevBatch[p]) = {}
      /\ BevKeys(bevQueue) = {} /\ BevKeys(bevDelivered) = {}
  BY <1>1, KeysEmpty, Zenon
<1>5. BevCarrying = {} /\ BevKnown = {} /\ BevHappened = {}
  BY <1>1, <1>2, <1>4 DEF BevCarrying, BevKnown, BevHappened
<1>6. BevTurns /\ NoEventStranded
  BY <1>1, <1>4 DEF BevTurns, NoEventStranded
<1>7. BevApart
  BY <1>1, <1>4, KeysEmpty DEF BevApart
<1>8. BevCarried
  BY <1>5, Zenon DEF BevCarried
<1>9. BevCount
  <2>1. Cardinality({}) = 0
    BY FS_EmptySet, Zenon
  <2>2. Cardinality(BevCarrying) = 0 /\ Cardinality(BevKnown) = 0 /\ Cardinality(BevHappened) = 0
        /\ Cardinality(BevKeys(bevDelivered)) = 0
    BY <1>4, <1>5, <2>1, Zenon
  <2> QED
    BY <1>1, <1>2, <2>2 DEF BevCount
<1> QED
  BY <1>3, <1>5, <1>6, <1>7, <1>8, <1>9 DEF BevInv

LEMMA BevNextInv == BevInv /\ [BevNext]_bevVars => BevInv'
<1> SUFFICES ASSUME BevInv, [BevNext]_bevVars PROVE BevInv'
  BY Zenon
<1>1. CASE UNCHANGED bevVars
  <2>1. /\ UNCHANGED <<bevEjected, bevSerial, bevPc, bevChange, bevNonClosed, bevSnap>>
        /\ UNCHANGED <<bevQueue, bevFlushing, bevDropped, bevBatch, bevDelivered, bevReported>>
    BY <1>1 DEF bevVars, bevFlushVars
  <2>2. BevCarrying' = BevCarrying
    BY <2>1, Zenon DEF BevCarrying
  <2>3. BevTypes' /\ BevTurns' /\ NoEventStranded'
    BY <2>1, Zenon DEF BevInv, BevTypes, BevTypeOK, BevTurns, NoEventStranded
  <2> QED
    BY <2>1, <2>2, <2>3, EventsStay, Zenon DEF BevInv
<1>2. ASSUME NEW p \in BevProcs, BevPushes(p) \/ BevFlushes(p) \/ BevSyncs(p) PROVE BevInv'
  BY <1>2, QuietKeeps, PushQueuesKeeps, DeliveryKeeps DEF BevPushes, BevFlushes
<1> QED
  BY <1>1, <1>2, TransitionKeeps DEF BevNext

LEMMA BevInvSafe == BevInv => BevSafe
<1> SUFFICES ASSUME BevInv PROVE BevSafe
  OBVIOUS
<1>1. OneDeliverer
  <2> DEFINE busy == {p \in BevProcs : bevPc[p] \in BevDelivering}
  <2>1. CASE bevFlushing
    <3>1. PICK p \in BevProcs : bevPc[p] \in BevDelivering
      BY <2>1 DEF BevInv, BevTurns
    <3>2. busy = {p}
      BY <3>1 DEF BevInv, BevTurns
    <3>3. Cardinality(busy) = 1
      BY <3>2, FS_Singleton, Zenon
    <3> QED
      BY <2>1, <3>3 DEF OneDeliverer
  <2>2. CASE ~bevFlushing
    <3>1. busy = {}
      BY <2>2 DEF BevInv, BevTurns
    <3>2. Cardinality(busy) = 0
      BY <3>1, FS_EmptySet, Zenon
    <3> QED
      BY <2>2, <3>2 DEF OneDeliverer
  <2> QED
    BY <2>1, <2>2
<1>2. EveryEventAccounted
  BY Zenon DEF BevInv, BevCount, BevKnown, BevCarrying, BevHappened, BevKeys, EveryEventAccounted
<1> QED
  BY <1>1, <1>2 DEF BevInv, BevTypes, BevSafe

(* Of any number of goroutines and workers, one delivers at a time; every  *)
(* transition is delivered once, counted as dropped at the bound, or on    *)
(* its way; and one whose goroutine flushes is never left in the queue     *)
(* with nobody on the way to it (push, flush).                             *)
THEOREM BreakerEventsDelivered == BevSpec => []BevSafe
BY BevInitInv, BevNextInv, BevInvSafe, PTL DEF BevSpec
==============================================================================
