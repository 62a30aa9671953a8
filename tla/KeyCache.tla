------------------------------ MODULE KeyCache ------------------------------
(***************************************************************************)
(* API keys: the key store (internal/postgres: keys and tenants, changed   *)
(* by the operator's commands) and the gateway's Authenticator             *)
(* (internal/auth): positive and negative LRU caches, one shared lookup    *)
(* per prefix, stale answers within a grace period while the store is down *)
(* or slow, lookup slots kept for refreshes, a backoff after a failure.    *)
(* Time passes in ticks; ages stop counting where they no longer matter.   *)
(* A wrong secret is refused after the same steps. A key's expiry is        *)
(* compared with the clock at every use, so it is not cached and left out; *)
(* so are the best-effort last_used_at writes.                             *)
(***************************************************************************)
EXTENDS Integers, FiniteSets, Sequences, SequencesExt

CONSTANTS KeyPrefixes, KeyInitially,  \* the prefixes, and those with a key at the start
          KeyAsks,                    \* the prefixes each request may present
          KeyTTL, KeyGrace, KeyNegTTL, KeyCacheSize, KeyMaxLookups,
          KeyLookupTicks,             \* LookupTimeout
          KeyMaxChanges

KeyRequests == DOMAIN KeyAsks

ASSUME KeyAssumption ==
  /\ KeyAsks \in [KeyRequests -> SUBSET KeyPrefixes]
  /\ {KeyTTL, KeyNegTTL, KeyCacheSize, KeyLookupTicks} \subseteq Nat \ {0}
  /\ {KeyGrace, KeyMaxChanges} \subseteq Nat /\ KeyMaxLookups \in Nat \ {0, 1} /\ KeyInitially \subseteq KeyPrefixes

VARIABLES
  keyRow, keyTenant,               \* the store: each key's row and the tenant's status
  keyChanges, keySince, keyKnown,  \* history: changes made; ticks since a key was last usable, and since it exists
  keyPos, keyNeg,                  \* the caches, most recently used first
  keyFlight, keyDown,  \* lookups in flight by prefix, the backoff
  keyReq                           \* the requests being authenticated

keyVars == <<keyRow, keyTenant, keyChanges, keySince, keyKnown, keyPos, keyNeg, keyFlight, keyDown, keyReq>>

keyDB == <<keyRow, keyTenant, keyChanges, keySince, keyKnown>>

\* The longest that a key which is no longer usable may be served, and that a new one may be unknown.
KeyStaleBound == KeyTTL + KeyGrace + KeyLookupTicks

KeyNewBound == KeyNegTTL + KeyLookupTicks

KeyNoFlight == [at |-> "none", refresh |-> FALSE, age |-> 0, rec |-> "none"]

\* A request: late says that it began after the bound on a key that is not usable, later after the one on a new key.
KeyIdle == [at |-> "idle", p |-> "", stale |-> "none", late |-> FALSE, later |-> FALSE]

KeyInit ==
  /\ keyRow = [p \in KeyPrefixes |-> IF p \in KeyInitially THEN "active" ELSE "none"] /\ keyTenant = "active"
  /\ keyChanges = 0 /\ keySince = [p \in KeyPrefixes |-> 0] /\ keyKnown = [p \in KeyPrefixes |-> IF p \in KeyInitially THEN KeyNewBound ELSE 0]
  /\ keyPos = <<>> /\ keyNeg = <<>>
  /\ keyFlight = [p \in KeyPrefixes |-> KeyNoFlight] /\ keyDown = FALSE
  /\ keyReq = [r \in KeyRequests |-> KeyIdle]

-----------------------------------------------------------------------------
(* The store and its operator. *)

\* What LookupKey reads: the key and its tenant in one query.
KeyRecord(p) == IF keyRow[p] = "active" /\ keyTenant = "suspended" THEN "suspended" ELSE keyRow[p]

\* CreateKey; a prefix is never reused.
CreateKey(p) ==
  /\ keyRow[p] = "none" /\ keyRow' = [keyRow EXCEPT ![p] = "active"] /\ keyKnown' = [keyKnown EXCEPT ![p] = 0]
  /\ UNCHANGED <<keyTenant, keySince>>

\* RevokeKey: idempotent, and there is no way back.
RevokeKey(p) ==
  /\ keyRow[p] = "active" /\ keyRow' = [keyRow EXCEPT ![p] = "revoked"]
  /\ UNCHANGED <<keyTenant, keyKnown, keySince>>

\* SetTenantStatus. A key whose tenant is active again is usable now.
SetTenantStatus ==
  /\ \E status \in {"active", "suspended"} \ {keyTenant} :
       /\ keyTenant' = status
       /\ keySince' = [p \in KeyPrefixes |-> IF status = "active" /\ keyRow[p] = "active" THEN 0 ELSE keySince[p]]
  /\ UNCHANGED <<keyRow, keyKnown>>

KeyOperator ==
  /\ keyChanges < KeyMaxChanges /\ keyChanges' = keyChanges + 1
  /\ SetTenantStatus \/ \E p \in KeyPrefixes : CreateKey(p) \/ RevokeKey(p)
  /\ UNCHANGED <<keyPos, keyNeg, keyFlight, keyDown, keyReq>>

-----------------------------------------------------------------------------
(* The caches: lru. *)

LruHas(lru, p) == \E i \in DOMAIN lru : lru[i].p = p

LruItem(lru, p) == lru[CHOOSE i \in DOMAIN lru : lru[i].p = p]

LruRemove(lru, p) == SelectSeq(lru, LAMBDA e : e.p # p)

\* put: to the front, and the least recently used beyond the size goes.
LruPut(lru, e) == LET all == <<e>> \o LruRemove(lru, e.p) IN SubSeq(all, 1, IF Len(all) > KeyCacheSize THEN KeyCacheSize ELSE Len(all))

\* get of an entry that is there: to the front.
LruGet(lru, p) == IF LruHas(lru, p) THEN LruPut(lru, LruItem(lru, p)) ELSE lru

(* Mutant: a stale copy is served without a limit. *)
KeyCachedNoGrace(p) ==
  LET fresh == LruHas(keyPos, p) /\ LruItem(keyPos, p).age < KeyTTL
      stale == LruHas(keyPos, p) /\ ~fresh
      unknown == LruHas(keyNeg, p) /\ LruItem(keyNeg, p).age < KeyNegTTL
      rec == LruItem(keyPos, p).rec
  IN IF fresh THEN [hit |-> TRUE, rec |-> rec, stale |-> "none", pos |-> LruGet(keyPos, p), neg |-> keyNeg]
     ELSE IF stale THEN [hit |-> FALSE, rec |-> "none", stale |-> rec, pos |-> LruGet(keyPos, p), neg |-> keyNeg]
     ELSE [hit |-> unknown, rec |-> "none", stale |-> "none", pos |-> LruRemove(keyPos, p),
           neg |-> IF unknown THEN LruGet(keyNeg, p) ELSE LruRemove(keyNeg, p)]

\* cachedLocked: what the caches answer ("miss" with or without a stale copy), and the caches after it.
KeyCached(p) ==
  LET fresh == LruHas(keyPos, p) /\ LruItem(keyPos, p).age < KeyTTL
      stale == LruHas(keyPos, p) /\ ~fresh /\ LruItem(keyPos, p).age < KeyTTL + KeyGrace
      unknown == LruHas(keyNeg, p) /\ LruItem(keyNeg, p).age < KeyNegTTL
      rec == LruItem(keyPos, p).rec
  IN IF fresh THEN [hit |-> TRUE, rec |-> rec, stale |-> "none", pos |-> LruGet(keyPos, p), neg |-> keyNeg]
     ELSE IF stale THEN [hit |-> FALSE, rec |-> "none", stale |-> rec, pos |-> LruGet(keyPos, p), neg |-> keyNeg]
     ELSE [hit |-> unknown, rec |-> "none", stale |-> "none", pos |-> LruRemove(keyPos, p),
           neg |-> IF unknown THEN LruGet(keyNeg, p) ELSE LruRemove(keyNeg, p)]

-----------------------------------------------------------------------------
(* The Authenticator. *)

\* Authenticate after record, for a caller who has the secret: the key's and the tenant's status.
KeyJudge(rec) == CASE rec = "none" -> "unknown" [] rec = "active" -> "granted" [] OTHER -> "refused"

\* record's last switch: the store's word about this key is final; a store that is down or busy leaves the stale copy.
KeyAnswer(stale, how) ==
  CASE how = "bad" -> "refused"
    [] how = "unavailable" -> IF stale # "none" THEN KeyJudge(stale) ELSE "refused"
    [] OTHER -> KeyJudge(how)

\* The request is answered. (Only the answers the properties speak of are kept.)
KeyDecided(req, answer) == IF answer = "refused" THEN KeyIdle ELSE [req EXCEPT !.at = answer, !.stale = "none"]

\* noteUse makes the key of a granted request the most recently used.
KeyUsed(pos, p, answer) == IF answer = "granted" THEN LruGet(pos, p) ELSE pos

\* record: the caches first; while the store is left alone, the stale copy or nothing.
KeyLookedUp(r) ==
  /\ keyReq[r].at \in {"idle", "granted", "unknown"}
  /\ \E p \in KeyAsks[r] :
       LET c == KeyCached(p)
           req == [at |-> "fetch", p |-> p, stale |-> c.stale, late |-> keySince[p] = KeyStaleBound, later |-> keyKnown[p] = KeyNewBound]
           answer == KeyAnswer(c.stale, IF c.hit THEN c.rec ELSE "unavailable")
       IN /\ keyNeg' = c.neg
          /\ \/ /\ c.hit \/ keyDown
                /\ keyReq' = [keyReq EXCEPT ![r] = KeyDecided(req, answer)] /\ keyPos' = KeyUsed(c.pos, p, answer)
             \/ /\ ~c.hit /\ ~keyDown
                /\ keyReq' = [keyReq EXCEPT ![r] = req] /\ keyPos' = c.pos
  /\ UNCHANGED <<keyDB, keyFlight, keyDown>>

KeyFlights(refresh) == {p \in KeyPrefixes : keyFlight[p].at # "none" /\ keyFlight[p].refresh = refresh}

KeyReserve == IF KeyMaxLookups \div 4 > 1 THEN KeyMaxLookups \div 4 ELSE 1

\* The lookup slots: the reserve is for refreshes.
KeyRoom(refresh) ==
  /\ Cardinality(KeyFlights(TRUE)) + Cardinality(KeyFlights(FALSE)) < KeyMaxLookups
  /\ refresh \/ Cardinality(KeyFlights(FALSE)) < KeyMaxLookups - KeyReserve

\* fetch: the caches again, the flight of another caller (waited for only without a stale copy), no room, or a lookup.
KeyFetch(r) ==
  LET p == keyReq[r].p
      c == KeyCached(p)
      refresh == keyReq[r].stale # "none"
      busy == keyFlight[p].at # "none"
      answered(answer) == /\ keyReq' = [keyReq EXCEPT ![r] = KeyDecided(@, answer)] /\ keyPos' = KeyUsed(c.pos, p, answer)
                          /\ UNCHANGED keyFlight
  IN /\ keyReq[r].at = "fetch"
     /\ keyNeg' = c.neg
     /\ \/ c.hit /\ answered(KeyAnswer(keyReq[r].stale, c.rec))
        \/ ~c.hit /\ (IF busy THEN refresh ELSE ~KeyRoom(refresh)) /\ answered(KeyAnswer(keyReq[r].stale, "unavailable"))
        \/ /\ ~c.hit /\ (IF busy THEN ~refresh ELSE KeyRoom(refresh))
           /\ keyReq' = [keyReq EXCEPT ![r].at = "waiting"]
           /\ keyFlight' = IF busy THEN keyFlight ELSE [keyFlight EXCEPT ![p] = [KeyNoFlight EXCEPT !.at = "asked", !.refresh = refresh]]
           /\ keyPos' = c.pos
     /\ UNCHANGED <<keyDB, keyDown>>

\* LookupKey's query reads the row.
KeyStoreReads(p) ==
  /\ keyFlight[p].at = "asked"
  /\ \E rec \in {KeyRecord(p), "busy", "error"} \cup (IF keyRow[p] = "none" THEN {} ELSE {"bad"}) :
       keyFlight' = [keyFlight EXCEPT ![p].at = "read", ![p].rec = rec]
  /\ UNCHANGED <<keyDB, keyPos, keyNeg, keyDown, keyReq>>

\* lookup's switch: what the caches keep of an answer.
KeyRecorded(p, rec) ==
  /\ keyPos' = IF rec \in {"active", "revoked", "suspended"}
               THEN LruPut(keyPos, [p |-> p, rec |-> rec, age |-> 0])
               ELSE IF rec = "none" THEN LruRemove(keyPos, p) ELSE keyPos
  /\ keyNeg' = IF rec = "none" THEN LruPut(keyNeg, [p |-> p, age |-> 0])
               ELSE IF rec \in {"bad", "busy", "error"} THEN keyNeg ELSE LruRemove(keyNeg, p)

\* lookup: the flight is over, and everyone who waits for it has its answer. Only an outage starts a backoff.
KeyLookup(p) ==
  LET rec == keyFlight[p].rec IN
  /\ keyFlight[p].at = "read"
  /\ KeyRecorded(p, rec)
  /\ keyFlight' = [keyFlight EXCEPT ![p] = KeyNoFlight]
  /\ keyDown' = (rec = "error" \/ (rec = "busy" /\ keyDown))
  /\ keyReq' = [r \in KeyRequests |-> IF keyReq[r].at = "waiting" /\ keyReq[r].p = p
       THEN KeyDecided(keyReq[r], KeyAnswer(keyReq[r].stale, IF rec \in {"busy", "error"} THEN "unavailable" ELSE rec)) ELSE keyReq[r]]
  /\ UNCHANGED keyDB

\* await without an answer: RefreshWait with a stale copy, the caller's context without.
KeyGivesUp(r) ==
  /\ keyReq[r].at = "waiting"
  /\ LET answer == KeyAnswer(keyReq[r].stale, "unavailable") IN
       /\ keyReq' = [keyReq EXCEPT ![r] = KeyDecided(@, answer)] /\ keyPos' = KeyUsed(keyPos, keyReq[r].p, answer)
  /\ UNCHANGED <<keyDB, keyNeg, keyFlight, keyDown>>

KeyBackoffEnds ==
  /\ keyDown /\ keyDown' = FALSE
  /\ UNCHANGED <<keyDB, keyPos, keyNeg, keyFlight, keyReq>>

KeyOlder(age, cap) == IF age < cap THEN age + 1 ELSE cap

\* Time passes; no lookup lasts longer than its timeout.
KeyTick ==
  /\ \A p \in KeyPrefixes : keyFlight[p].age < KeyLookupTicks
  /\ keyPos' = [i \in DOMAIN keyPos |-> [keyPos[i] EXCEPT !.age = KeyOlder(@, KeyTTL + KeyGrace)]]
  /\ keyNeg' = [i \in DOMAIN keyNeg |-> [keyNeg[i] EXCEPT !.age = KeyOlder(@, KeyNegTTL)]]
  /\ keyFlight' = [p \in KeyPrefixes |-> IF keyFlight[p].at = "none" THEN KeyNoFlight ELSE [keyFlight[p] EXCEPT !.age = @ + 1]]
  /\ keySince' = [p \in KeyPrefixes |-> IF KeyRecord(p) \in {"revoked", "suspended"} THEN KeyOlder(keySince[p], KeyStaleBound) ELSE 0]
  /\ keyKnown' = [p \in KeyPrefixes |-> IF keyRow[p] = "none" THEN 0 ELSE KeyOlder(keyKnown[p], KeyNewBound)]
  /\ UNCHANGED <<keyRow, keyTenant, keyChanges, keyDown, keyReq>>

KeyNext ==
  \/ \E r \in KeyRequests : KeyLookedUp(r) \/ KeyFetch(r) \/ KeyGivesUp(r)
  \/ \E p \in KeyPrefixes : KeyStoreReads(p) \/ KeyLookup(p)
  \/ KeyOperator \/ KeyBackoffEnds \/ KeyTick

KeySpec == KeyInit /\ [][KeyNext]_keyVars

-----------------------------------------------------------------------------
(* Properties. *)

KeyTypeOK ==
  /\ keyRow \in [KeyPrefixes -> {"none", "active", "revoked"}] /\ keyTenant \in {"active", "suspended"}
  /\ Len(keyPos) <= KeyCacheSize /\ Len(keyNeg) <= KeyCacheSize
  /\ \A r \in KeyRequests : keyReq[r].at \in {"idle", "fetch", "waiting", "granted", "unknown"}

\* A key that is revoked, or whose tenant is suspended, is noticed: no request that begins when that has lasted for
\* CacheTTL, StaleGrace and one lookup is granted, whatever the store, the evictions and the other requests do.
KeyRevocationNoticed == \A r \in KeyRequests : keyReq[r].at = "granted" => ~keyReq[r].late

\* A key that was looked for before it existed is noticed: no request that begins NegativeTTL and one lookup after
\* the key was created is told that there is none.
KeyCreationNoticed ==
  \A r \in KeyRequests : keyReq[r].at = "unknown" => ~keyReq[r].later

\* No prefix is in both caches: a record and the memory of its absence never contradict each other.
KeyCachesDisjoint == \A p \in KeyPrefixes : ~(LruHas(keyPos, p) /\ LruHas(keyNeg, p))

\* Lookups of keys that are not in the cache never take all the slots: a refresh finds one unless refreshes hold it,
\* so a flood of unknown keys cannot keep a revocation from being noticed.
KeyRefreshRoom == Cardinality(KeyFlights(TRUE)) < KeyReserve => KeyRoom(TRUE)

\* The key cache answers in time and keeps its bounds (Authenticate, lookup, record): a change of a key is noticed
\* within the documented time, the two caches do not contradict each other, and refreshes find a lookup slot.
KeysCurrent == KeyTypeOK /\ KeyRevocationNoticed /\ KeyCreationNoticed /\ KeyCachesDisjoint /\ KeyRefreshRoom
=============================================================================
