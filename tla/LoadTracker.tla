---------------------------- MODULE LoadTracker ----------------------------
(***************************************************************************)
(* The in-flight ledger and the start/finish history that the work-aware   *)
(* schedulers read (internal/scheduler/signals/tracker.go).  A request is  *)
(* begun on one incarnation of a worker (a key), may have its cost added,  *)
(* and is ended; a refresh of the registry snapshot meanwhile creates,     *)
(* resets and prunes entries.  Callers read the clock before they take the *)
(* tracker's lock, so the instants it is given may arrive out of order by  *)
(* up to TrkSkew.  The history keeps cumulative totals per bucket and      *)
(* trims old buckets; trkLog keeps every event, as the reference.          *)
(***************************************************************************)
EXTENDS Integers, Sequences, FiniteSets, FiniteSetsExt

CONSTANTS TrkKeys,       \* incarnations of workers
          TrkRequests,   \* requests of the gateway, each with a cost
          TrkCost,       \* [TrkRequests -> Nat \ {0}]
          TrkBucket,     \* clock units in a bucket
          TrkWindow,     \* clock units a report may be old and still be corrected
          TrkMaxWorkers, \* the cap on tracked entries
          TrkSkew,       \* how long a caller may hold an instant before the lock
          TrkMaxClock,   \* bound on the clock
          TrkMaxSyncs    \* bound on the refreshes that change something

ASSUME TrkAssumption == TrkWindow >= 2 * TrkBucket /\ TrkBucket > 0

VARIABLES trkNow, trkEntry, trkGen, trkTok, trkLog, trkSyncs

trkVars == <<trkNow, trkEntry, trkGen, trkTok, trkLog, trkSyncs>>

\* generation 0 marks a key without an entry, and the zero Token
TrkNoHistory == [recs |-> <<>>, tot |-> <<0, 0>>, base |-> <<0, 0>>, dropped |-> -1]

TrkNoEntry == [gen |-> 0, inflight |-> 0, work |-> 0, validFrom |-> 0, hist |-> TrkNoHistory]

TrkNoToken == [at |-> "idle", key |-> CHOOSE k \in TrkKeys : TRUE, gen |-> 0, owes |-> 0]

TrkInit ==
  /\ trkNow = 0 /\ trkGen = 0 /\ trkSyncs = 0
  /\ trkEntry = [k \in TrkKeys |-> TrkNoEntry]
  /\ trkTok = [r \in TrkRequests |-> TrkNoToken]
  /\ trkLog = [k \in TrkKeys |-> <<>>]

TrkTracked(entry) == {k \in TrkKeys : entry[k].gen # 0}

TrkBucketOf(x) == x \div TrkBucket

TrkKeep == TrkWindow \div TrkBucket + 2

\* history.record: one start (<<1, 0>>) or finish (<<0, 1>>) in bucket idx; an instant older than the
\* last record joins it, and a new record trims the ones older than keep buckets
TrkTrim(h, idx) ==
  LET old == {i \in DOMAIN h.recs : h.recs[i].idx < idx - TrkKeep}
      n   == Cardinality(old)
  IN  IF n = 0 THEN h
      ELSE [h EXCEPT !.recs = SubSeq(h.recs, n + 1, Len(h.recs)),
                     !.base = h.recs[n].cum, !.dropped = h.recs[n].idx]

TrkRecord(h, idx, ev) ==
  LET tot == <<h.tot[1] + ev[1], h.tot[2] + ev[2]>>
      n   == Len(h.recs)
  IN  IF n > 0 /\ idx <= h.recs[n].idx
      THEN [h EXCEPT !.tot = tot, !.recs[n].cum = tot]
      ELSE TrkTrim([h EXCEPT !.tot = tot, !.recs = Append(@, [idx |-> idx, cum |-> tot])], idx)

\* history.since: events in buckets at or after pivot, or ok = FALSE when the history is too short
TrkSince(h, pivot) ==
  LET before == {i \in DOMAIN h.recs : h.recs[i].idx < pivot}
      cum    == IF before = {} THEN h.base ELSE h.recs[Max(before)].cum
  IN  [ok |-> before # {} \/ h.dropped = -1 \/ pivot > h.dropped,
       started |-> h.tot[1] - cum[1], finished |-> h.tot[2] - cum[2]]

\* create: a new entry unless the cap is reached
TrkCanCreate(entry) == Cardinality(TrkTracked(entry)) < TrkMaxWorkers

TrkFresh(gen, now) == [TrkNoEntry EXCEPT !.gen = gen, !.validFrom = now]

TrkStamps == {t \in (trkNow - TrkSkew)..trkNow : t >= 0}

\* the log's own rule for late instants is the history's: they join the last bucket
TrkLogged(k, idx, ev) ==
  LET n == Len(trkLog[k]) IN
  Append(trkLog[k], [idx |-> IF n > 0 /\ idx < trkLog[k][n].idx THEN trkLog[k][n].idx ELSE idx, ev |-> ev])

\* Begin: reserve() and the hand-off path record a request sent to the worker
TrkBegin(r, k, now) ==
  LET known == trkEntry[k].gen # 0
      e     == IF known THEN trkEntry[k] ELSE TrkFresh(trkGen + 1, now)
      idx   == TrkBucketOf(now)
  IN  /\ trkTok[r].at = "idle"
      /\ IF known \/ TrkCanCreate(trkEntry)
         THEN /\ trkGen' = IF known THEN trkGen ELSE trkGen + 1
              /\ trkEntry' = [trkEntry EXCEPT ![k] = [e EXCEPT !.inflight = @ + 1,
                                !.hist = TrkRecord(e.hist, idx, <<1, 0>>)]]
              /\ trkLog' = [trkLog EXCEPT ![k] = TrkLogged(k, idx, <<1, 0>>)]
              /\ trkTok' = [trkTok EXCEPT ![r] = [at |-> "begun", key |-> k, gen |-> e.gen, owes |-> 0]]
         ELSE /\ trkTok' = [trkTok EXCEPT ![r] = [@ EXCEPT !.at = "begun", !.key = k]]
              /\ UNCHANGED <<trkEntry, trkGen, trkLog>>
      /\ UNCHANGED <<trkNow, trkSyncs>>

(* Mutant: a token is good for whatever entry its key has. *)
TrkHoldsAny(t) == t.gen # 0 /\ trkEntry[t.key].gen # 0

\* the entry the token was given for is still there
TrkHolds(t) == t.gen # 0 /\ trkEntry[t.key].gen = t.gen

\* AddCost: the caller owes End the cost only when it was taken
TrkAddCost(r) ==
  /\ trkTok[r].at = "begun"
  /\ IF TrkHolds(trkTok[r])
     THEN /\ trkEntry' = [trkEntry EXCEPT ![trkTok[r].key].work = @ + TrkCost[r]]
          /\ trkTok' = [trkTok EXCEPT ![r].at = "costed", ![r].owes = TrkCost[r]]
     ELSE /\ trkTok' = [trkTok EXCEPT ![r].at = "costed"]
          /\ UNCHANGED trkEntry
  /\ UNCHANGED <<trkNow, trkGen, trkLog, trkSyncs>>

TrkFloor(n) == IF n < 0 THEN 0 ELSE n

\* End: a stale or invalid token does nothing
TrkEnd(r, now) ==
  LET t == trkTok[r]
      e == trkEntry[t.key]
      idx == TrkBucketOf(now)
  IN  /\ t.at \in {"begun", "costed"}
      /\ trkTok' = [trkTok EXCEPT ![r].at = "done"]
      /\ IF TrkHolds(t)
         THEN /\ trkEntry' = [trkEntry EXCEPT ![t.key] = [e EXCEPT
                     !.inflight = TrkFloor(@ - 1), !.work = TrkFloor(@ - t.owes),
                     !.hist = TrkRecord(e.hist, idx, <<0, 1>>)]]
              /\ trkLog' = [trkLog EXCEPT ![t.key] = TrkLogged(t.key, idx, <<0, 1>>)]
         ELSE UNCHANGED <<trkEntry, trkLog>>
      /\ UNCHANGED <<trkNow, trkGen, trkSyncs>>

\* Sync: create the members not seen yet (as the cap allows, before anything is pruned), reset the
\* history of those whose last heartbeat went backwards, prune the rest
TrkSync(members, backwards) ==
  LET room    == TrkMaxWorkers - Cardinality(TrkTracked(trkEntry))
      missing == members \ TrkTracked(trkEntry)
  IN  \E new \in SUBSET missing :
        /\ Cardinality(new) = IF room < Cardinality(missing) THEN TrkFloor(room) ELSE Cardinality(missing)
        /\ \E gens \in {f \in [new -> 1..Cardinality(new)] : \A a, b \in new : f[a] = f[b] => a = b} :
             LET Synced(k) ==
                   CASE k \in new -> TrkFresh(trkGen + gens[k], trkNow)
                     [] k \in backwards \ new -> [trkEntry[k] EXCEPT !.hist = TrkNoHistory, !.validFrom = trkNow]
                     [] k \in members \ (new \union backwards) -> trkEntry[k]
                     [] OTHER -> TrkNoEntry
             IN  trkEntry' = [k \in TrkKeys |-> Synced(k)]
        /\ trkGen' = trkGen + Cardinality(new)
  /\ trkLog' = [k \in TrkKeys |-> IF k \in members \ backwards THEN trkLog[k] ELSE <<>>]
  /\ trkSyncs < TrkMaxSyncs /\ trkSyncs' = trkSyncs + 1
  /\ UNCHANGED <<trkNow, trkTok>>

TrkTick ==
  /\ trkNow < TrkMaxClock /\ trkNow' = trkNow + 1
  /\ UNCHANGED <<trkEntry, trkGen, trkTok, trkLog, trkSyncs>>

TrkNext ==
  \/ \E r \in TrkRequests, k \in TrkKeys, t \in TrkStamps : TrkBegin(r, k, t)
  \/ \E r \in TrkRequests : TrkAddCost(r) \/ \E t \in TrkStamps : TrkEnd(r, t)
  \/ \E members \in SUBSET TrkKeys : \E backwards \in SUBSET (members \intersect TrkTracked(trkEntry)) :
       TrkSync(members, backwards)
  \/ TrkTick

TrkSpec == TrkInit /\ [][TrkNext]_trkVars

\* a report the history cannot correct: the larger of the two counts, and the fallback is told
TrkFallback(local, reported) == [active |-> IF local > reported THEN local ELSE reported, ok |-> FALSE]

\* overlayLocked: the effective active count, and whether the history answered
TrkOverlay(k, now, local, reported, at) ==
  LET e == trkEntry[k]
      s == TrkSince(e.hist, TrkBucketOf(at))
      eff == reported + s.started - s.finished
  IN  IF e.gen = 0 \/ at < e.validFrom \/ now - at > TrkWindow \/ ~s.ok
      THEN TrkFallback(local, reported)
      ELSE [active |-> IF eff > local THEN eff ELSE local, ok |-> TRUE]

-----------------------------------------------------------------------------
(* Properties *)

TrkOpen(k) == {r \in TrkRequests : trkTok[r].at \in {"begun", "costed"} /\ trkTok[r].key = k
                                   /\ trkTok[r].gen = trkEntry[k].gen /\ trkEntry[k].gen # 0}

\* The ledger of an incarnation (Begin, AddCost, End, Sync) is exactly the open requests that were
\* counted on it and the costs they owe, however entries are pruned, recreated and reset between the
\* calls of one request: a token that outlived its entry never takes another request's share away.
TrkLedgerExact ==
  \A k \in TrkKeys :
    /\ trkEntry[k].inflight = Cardinality(TrkOpen(k))
    /\ trkEntry[k].work = MapThenSumSet(LAMBDA r : trkTok[r].owes, TrkOpen(k))

TrkAfter(k, pivot, i) == Cardinality({j \in DOMAIN trkLog[k] : trkLog[k][j].idx >= pivot /\ trkLog[k][j].ev[i] = 1})

\* For a report inside the window and after validFrom the trimmed history always answers (overlayLocked
\* never falls back for lack of records), and it answers what the whole log says: reported plus the
\* starts minus the finishes in the buckets from the report's on, and never below the local count.
TrkOverlayExact ==
  \A k \in TrkTracked(trkEntry) : \A at \in trkEntry[k].validFrom..trkNow :
    trkNow - at <= TrkWindow =>
      LET o == TrkOverlay(k, trkNow, 1, 3, at)
          b == TrkBucketOf(at)
          eff == 3 + TrkAfter(k, b, 1) - TrkAfter(k, b, 2)
      IN  o.ok /\ o.active = IF eff > 1 THEN eff ELSE 1

\* The memory the tracker holds (TestHistoryIsBounded, TestWorkerChurnDoesNotGrow): at most MaxWorkers
\* entries, each with at most one record per bucket of the kept span, in time order.
TrkBounded ==
  /\ Cardinality(TrkTracked(trkEntry)) <= TrkMaxWorkers
  /\ \A k \in TrkKeys : LET recs == trkEntry[k].hist.recs IN
       /\ Len(recs) <= TrkKeep + 1
       /\ \A i, j \in DOMAIN recs : i < j => recs[i].idx < recs[j].idx

\* What the tracker tells the scheduler (Begin, AddCost, End, Overlay, Sync) is what the requests really do, in
\* bounded memory.
TrackerExact == TrkLedgerExact /\ TrkOverlayExact /\ TrkBounded
=============================================================================
