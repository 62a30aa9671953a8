--------------------------- MODULE CapacityPeaks ---------------------------
(***************************************************************************)
(* The capacity estimate of the workers of one model                       *)
(* (internal/scheduler/signals/capacity.go): a decayed peak of the rate    *)
(* each worker reports, recomputed at every refresh of the snapshot.       *)
(* Rates are integers in a small unit and time is counted in half-lives;   *)
(* quotients are rounded down.                                             *)
(***************************************************************************)
EXTENDS Integers, Sequences, FiniteSets, SequencesExt, FiniteSetsExt

CONSTANTS CapWorkers,   \* the workers of the model
          CapRates,     \* [CapWorkers -> SUBSET Nat]: rates a worker may report
          CapMaxTPS,    \* the clamp of one sample
          CapClamp,     \* peerClamp
          CapFloorPart, \* 1 / CapacityFloor
          CapMaxAge,    \* half-lives after which the decay is over (bound)
          CapMaxSyncs   \* bound on refreshes

VARIABLES capEntry, capSyncs

capVars == <<capEntry, capSyncs>>

CapCold == [has |-> FALSE, peak |-> 0, age |-> 0, est |-> 0, prior |-> TRUE]

CapInit ==
  /\ capEntry = [w \in CapWorkers |-> CapCold]
  /\ capSyncs = 0

\* median of the values of a non-empty function, reordered by sort.Float64s
CapMedian(f) ==
  LET s == SortSeq(SetToSeq({<<f[x], x>> : x \in DOMAIN f}), LAMBDA a, b : a[1] < b[1])
      n == Len(s)
  IN  IF n % 2 = 1 THEN s[n \div 2 + 1][1] ELSE (s[n \div 2][1] + s[n \div 2 + 1][1]) \div 2

CapSampled(e) == {w \in CapWorkers : e[w].has}

CapPeaks(e, ws) == [w \in ws |-> e[w].peak]

\* sample: a new report of a worker with work; the larger of the sample and the last estimate
CapSample(e, v) ==
  LET got == Min({v, CapMaxTPS}) IN
  [e EXCEPT !.has = TRUE, !.age = 0, !.peak = IF e.has /\ e.est > got THEN e.est ELSE got]

\* clampToPeers: every bound is taken from the peaks before any is lowered
CapClamped(e) ==
  [w \in CapWorkers |->
     IF ~e[w].has \/ Cardinality(CapSampled(e)) < 2 THEN e[w]
     ELSE [e[w] EXCEPT !.peak = Min({@, CapClamp * CapMedian(CapPeaks(e, CapSampled(e) \ {w}))})]]

(* Mutant: the peak decays to nothing and not to the fleet's median. *)
CapDecayToZero(peak, target, age) == peak \div 2^age

CapDecay(peak, target, age) == Max({target + (peak - target) \div 2^age, target \div CapFloorPart})

\* recomputeCapacity
CapRecomputed(e) ==
  LET cut    == CapClamped(e)
      known  == CapSampled(e)
      target == CapMedian(CapPeaks(cut, known))
      est    == [w \in known |-> CapDecay(cut[w].peak, target, cut[w].age)]
  IN  IF known = {} THEN [w \in CapWorkers |-> [e[w] EXCEPT !.est = 0, !.prior = TRUE]]
      ELSE [w \in CapWorkers |->
              IF w \in known THEN [cut[w] EXCEPT !.est = est[w], !.prior = FALSE]
              ELSE [cut[w] EXCEPT !.est = CapMedian(est), !.prior = TRUE]]

\* Sync: some workers (new) come back as a new incarnation, some report a rate they had not reported
\* yet in this heartbeat, and elapsed half-lives have passed since the last refresh
CapSync ==
  \E new, fresh \in SUBSET CapWorkers, elapsed \in 0..1 :
  \E v \in [fresh -> UNION {CapRates[w] : w \in CapWorkers}] :
    LET aged(w) == IF w \in new THEN CapCold
                   ELSE [capEntry[w] EXCEPT !.age = Min({@ + elapsed, CapMaxAge})]
        seen(w) == IF w \in fresh THEN CapSample(aged(w), v[w]) ELSE aged(w)
    IN  /\ capSyncs < CapMaxSyncs /\ capSyncs' = capSyncs + 1
        /\ \A w \in fresh : v[w] \in CapRates[w]
        /\ capEntry' = CapRecomputed([w \in CapWorkers |-> seen(w)])

CapNext == CapSync

CapSpec == CapInit /\ [][CapNext]_capVars

-----------------------------------------------------------------------------
(* Properties *)

CapReports == UNION {{Min({v, CapMaxTPS}) : v \in CapRates[w]} : w \in CapWorkers}

\* However samples, decays, clamps and re-registrations follow each other, an estimate stays between
\* the smallest and the largest rate that can be reported, so the decay toward the fleet and the clamp
\* never make a worker look infinitely slow or faster than anyone claims (ADR-022, D6); and while
\* anybody has a sample, nobody is without an estimate.
CapWithinReports ==
  \A w \in CapWorkers :
    /\ capEntry[w].est # 0 => capEntry[w].est \in Min(CapReports)..Max(CapReports)
    /\ capEntry[w].est = 0 <=> CapSampled(capEntry) = {}

\* No worker is exiled: a sampled worker's estimate is at least the configured part of the median of
\* the stored peaks, and so is the prior given to the others (TestCapacityFloorKeepsALowEstimateFinite).
CapNobodyExiled ==
  CapSampled(capEntry) # {} =>
    LET target == CapMedian(CapPeaks(capEntry, CapSampled(capEntry))) IN
    \A w \in CapWorkers : capEntry[w].est >= target \div CapFloorPart

\* Estimates stay within what was reported and exile nobody (Sync's sampling, decay, clamp and floor).
CapSound == CapWithinReports /\ CapNobodyExiled
=============================================================================
