----------------------------- MODULE TokenBuckets -----------------------------
(***************************************************************************)
(* The limiter's algorithm (internal/ratelimit/model.go), which Redis runs *)
(* as one script: token buckets in integer arithmetic and concurrency      *)
(* leases, for one tenant and one capped model, on a clock that may step   *)
(* back (a failover). The script lets Redis expire a bucket two windows    *)
(* after its last charge, by the clock of that moment and not by the       *)
(* bucket's stamp; a bucket that is gone is a full one.                    *)
(***************************************************************************)
EXTENDS Integers, FiniteSets, FiniteSetsExt

CONSTANTS TokActive,                \* the quotas that apply to each request
          TokCost,                  \* its token estimate
          TokQuota, TokWindow, TokScale, TokConcHint, TokMaxConcurrent, TokTTL,
          TokMaxClock, TokMaxBack, TokMaxGrants  \* bounds: clock, steps back, admissions

TokCalls == DOMAIN TokActive

TokKinds == {"requests", "tokens", "model"}

ASSUME TokAssumption ==
  /\ IsFiniteSet(TokCalls)
  /\ TokActive \in [TokCalls -> SUBSET (TokKinds \cup {"concurrency"})] /\ TokCost \in [TokCalls -> Nat]
  /\ TokQuota \in [TokKinds -> Nat \ {0}]
  /\ {TokWindow, TokScale, TokConcHint, TokMaxConcurrent, TokTTL} \subseteq Nat \ {0}
  /\ {TokMaxClock, TokMaxBack, TokMaxGrants} \subseteq Nat

VARIABLES tokNow, tokBucket,
          tokLease, tokUntil,           \* each request's lease, by its expiry (0: none), and the expiry of their set
          tokBacks, tokSpent, tokTop,   \* history: steps back, what each bucket granted, the clock's maximum,
          tokFar                        \* and whether it was ever further behind that than half a window

tokVars == <<tokNow, tokBucket, tokLease, tokUntil, tokBacks, tokSpent, tokTop, tokFar>>

TokNoBucket == [level |-> 0, at |-> 0, until |-> 0, set |-> FALSE]

TokInit ==
  /\ tokNow = 1 /\ tokBucket = [k \in TokKinds |-> TokNoBucket]
  /\ tokLease = [c \in TokCalls |-> 0] /\ tokUntil = 0
  /\ tokBacks = 0 /\ tokSpent = [k \in TokKinds |-> 0] /\ tokTop = 1 /\ tokFar = FALSE

TokCapacity(k) == TokQuota[k] * TokWindow

\* Redis: a key that is past its expiry is not there, whether it was deleted already or not.
TokThere(k, now) == tokBucket[k].set /\ now <= tokBucket[k].until

\* The level of a bucket after refilling.
TokPeek(k, now) ==
  LET b == tokBucket[k]
      elapsed == Min({TokWindow, Max({0, now - b.at})})
  IN IF TokThere(k, now) THEN Min({TokCapacity(k), b.level + elapsed * TokQuota[k]}) ELSE TokCapacity(k)

\* A request bigger than the bucket needs a full bucket.
TokNeed(c, k) == Min({(IF k = "tokens" THEN TokCost[c] ELSE 1) * TokScale, TokCapacity(k)})

TokCeilDiv(a, b) == (a + b - 1) \div b

TokBuckets(c) == TokActive[c] \cap TokKinds

\* How long until the bucket admits the request.
TokWait(c, k) ==
  LET short == TokNeed(c, k) - TokPeek(k, tokNow) IN IF short > 0 THEN TokCeilDiv(short, TokQuota[k]) ELSE 0

\* Held: the leases that have not expired.
TokHeld == {c \in TokCalls : tokLease[c] > tokNow /\ tokNow <= tokUntil}

TokFull(c) == "concurrency" \in TokActive[c] /\ Cardinality(TokHeld) >= TokMaxConcurrent

\* consider: the longest wait of the quotas that refuse; 0 admits.
TokWorst(c) == Max({0} \cup {TokWait(c, k) : k \in TokBuckets(c)} \cup (IF TokFull(c) THEN {TokConcHint} ELSE {}))

(* Mutant: the stamp follows the clock back. *)
TokStampNow(k) == tokNow

\* The stamp never moves back.
TokStamp(k) == IF TokThere(k, tokNow) THEN Max({tokNow, tokBucket[k].at}) ELSE tokNow

\* Redis: a set without members is no key, and has no expiry.
TokLeft(lease) == IF \E c \in TokCalls : lease[c] > 0 THEN tokUntil ELSE 0

\* Allow, acquireScript: all quotas admit and are charged, or none is. Expired leases go first.
TokAllow(c) ==
  LET admitted == TokWorst(c) = 0
      leased == "concurrency" \in TokActive[c]
      grants(k) == admitted /\ k \in TokBuckets(c)
  IN /\ \A k \in TokKinds : tokSpent[k] < TokMaxGrants * TokScale
     /\ c \notin TokHeld
     /\ tokBucket' = [k \in TokKinds |-> IF grants(k)
                        THEN [level |-> TokPeek(k, tokNow) - TokNeed(c, k), at |-> TokStamp(k),
                              until |-> tokNow + 2 * TokWindow, set |-> TRUE]
                        ELSE tokBucket[k]]
     /\ tokSpent' = [k \in TokKinds |-> tokSpent[k] + IF grants(k) THEN TokNeed(c, k) ELSE 0]
     /\ tokLease' = [d \in TokCalls |-> IF d = c /\ admitted /\ leased THEN tokNow + TokTTL
                                        ELSE IF leased /\ d \notin TokHeld THEN 0 ELSE tokLease[d]]
     /\ tokUntil' = IF admitted /\ leased THEN tokNow + 2 * TokTTL ELSE TokLeft(tokLease')
     /\ UNCHANGED <<tokNow, tokBacks, tokTop, tokFar>>

\* Release, releaseScript.
TokRelease(c) ==
  /\ tokLease[c] > 0
  /\ tokLease' = [tokLease EXCEPT ![c] = 0] /\ tokUntil' = TokLeft(tokLease')
  /\ UNCHANGED <<tokNow, tokBucket, tokBacks, tokSpent, tokTop, tokFar>>

\* Renew, renewScript: only a lease that is still held.
TokRenew(c) ==
  /\ c \in TokHeld
  /\ tokLease' = [tokLease EXCEPT ![c] = tokNow + TokTTL] /\ tokUntil' = tokNow + 2 * TokTTL
  /\ UNCHANGED <<tokNow, tokBucket, tokBacks, tokSpent, tokTop, tokFar>>

\* Redis deletes a key that is past its expiry, now or later.
TokBucketGone(k) ==
  /\ tokBucket[k].set /\ ~TokThere(k, tokNow)
  /\ tokBucket' = [tokBucket EXCEPT ![k] = TokNoBucket]
  /\ UNCHANGED <<tokNow, tokLease, tokUntil, tokBacks, tokSpent, tokTop, tokFar>>

TokLeasesGone ==
  /\ tokNow > tokUntil /\ \E c \in TokCalls : tokLease[c] > 0
  /\ tokLease' = [c \in TokCalls |-> 0] /\ tokUntil' = 0
  /\ UNCHANGED <<tokNow, tokBucket, tokBacks, tokSpent, tokTop, tokFar>>

TokTick ==
  /\ tokNow < TokMaxClock
  /\ tokNow' = tokNow + 1 /\ tokTop' = Max({tokTop, tokNow + 1})
  /\ UNCHANGED <<tokBucket, tokLease, tokUntil, tokBacks, tokSpent, tokFar>>

\* A failover to a server whose clock is behind.
TokStepBack ==
  /\ tokBacks < TokMaxBack
  /\ \E now \in 1 .. tokNow - 1 : tokNow' = now /\ tokFar' = (tokFar \/ 2 * (tokTop - now) > TokWindow)
  /\ tokBacks' = tokBacks + 1
  /\ UNCHANGED <<tokBucket, tokLease, tokUntil, tokSpent, tokTop>>

TokNext ==
  \/ \E c \in TokCalls : TokAllow(c) \/ TokRelease(c) \/ TokRenew(c)
  \/ \E k \in TokKinds : TokBucketGone(k)
  \/ TokLeasesGone \/ TokTick \/ TokStepBack

TokSpec == TokInit /\ [][TokNext]_tokVars

-----------------------------------------------------------------------------
(* Properties. *)

\* What a bucket has granted since the start, with what it still has at its stamp, is at most one full bucket and
\* the refill of the time the clock has really advanced: steps back and forth create no quota (the stamp of check
\* and Allow), and neither does the expiry of a bucket that is not full yet.
TokRateBounded ==
  \A k \in TokKinds : tokSpent[k] + tokBucket[k].level <= TokCapacity(k) + TokQuota[k] * (tokTop - 1)

\* The wait a refusal reports is exact: at that time, if nobody else is admitted, every bucket admits the request,
\* and one millisecond earlier the slowest does not. (A stamp ahead of a clock that stepped back delays it.)
TokRetryHonest ==
  \A c \in TokCalls :
    LET wait == Max({0} \cup {TokWait(c, k) : k \in TokBuckets(c)}) IN
    wait > 0 /\ (\A k \in TokBuckets(c) : tokBucket[k].at <= tokNow) =>
      /\ \A k \in TokBuckets(c) : TokPeek(k, tokNow + wait) >= TokNeed(c, k)
      /\ \E k \in TokBuckets(c) : TokPeek(k, tokNow + wait - 1) < TokNeed(c, k)

\* The set never holds more leases than the tenant may have, expired ones included: a clock that steps back brings
\* an expired lease that nobody removed to life again, and the bound still holds.
TokLeasesBounded == Cardinality({c \in TokCalls : tokLease[c] > 0}) <= TokMaxConcurrent

\* The limits of a tenant hold, and a refusal names the right wait (check, Allow, the acquire script). The leases
\* are bounded whatever the clock of Redis does. The buckets are as long as that clock is never further behind its
\* maximum than half a window, however often it steps back: after a larger step a charged bucket expires (script.go:98
\* counts from the clock that stepped back) before the time it had earned, and comes back full, which the comment of
\* check ("the refill is only the real elapsed time") does not say.
TokLimitsHold == TokLeasesBounded /\ (~tokFar => TokRateBounded /\ TokRetryHonest)
=============================================================================
