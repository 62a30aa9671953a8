---------------------------- MODULE WorkerChoice ----------------------------
(***************************************************************************)
(* The scheduling strategies (internal/scheduler/scheduler.go and          *)
(* workaware.go): the shared filter, the minimum of a load or of a score,  *)
(* and the rotor that lets the tied workers take turns in ID order.  Every *)
(* selection is made on a view the environment chooses; the only state is  *)
(* the rotor.  Work ahead and rates are small integers, SelBad stands for  *)
(* a value that is not a usable number, and a score (ahead + c) / rate is  *)
(* scaled by SelScale so that it is an integer.                            *)
(***************************************************************************)
EXTENDS Integers, Sequences, FiniteSets, SequencesExt, FiniteSetsExt

CONSTANTS SelWorkers,   \* worker IDs: positive numbers, in ID order
          SelViews,     \* what a snapshot may say of a worker (a set of records)
          SelCost,      \* the request's own work cost
          SelScale,     \* twice a common multiple of the rates and their medians
          SelTieParts   \* 1 / tieEps: scores this part of the least one apart are tied

SelBad == -1

VARIABLES selLast, selDue, selDid

selVars == <<selLast, selDue, selDid>>

\* selDue[x]: the workers that were among the candidates of every turn since x was handed out and have
\* not been handed out themselves (history); selDid: the last selection (history)
SelInit ==
  /\ selLast = 0
  /\ selDue = [x \in SelWorkers |-> {}]
  /\ selDid = [late |-> FALSE, beaten |-> FALSE]

\* eligible: READY, offered by the registry, healthy or suspect, and below the limit
SelEligible(view) == {w \in SelWorkers : view[w].serves /\ view[w].offered /\ view[w].active < view[w].limit}

(* Mutant: the search starts at the worker handed out last. *)
SelNextOfFrom(last, tied) ==
  LET after == {w \in tied : w >= last} IN IF after = {} THEN Min(tied) ELSE Min(after)

\* rotor.next: the first of the tied workers after the one handed out last, wrapping around
SelNextOf(last, tied) ==
  LET after == {w \in tied : w > last} IN IF after = {} THEN Min(tied) ELSE Min(after)

\* leastLoaded.chooseWith: the workers tied for the minimum
SelLightest(ws, load) == {w \in ws : \A x \in ws : load[w] <= load[x]}

SelTrusted(v) == v.ledger /\ v.tracked

SelMedian(f) ==
  LET s == SortSeq(SetToSeq({<<f[x], x>> : x \in DOMAIN f}), LAMBDA a, b : a[1] < b[1])
      n == Len(s)
  IN  IF n % 2 = 1 THEN s[n \div 2 + 1][1] ELSE (s[n \div 2][1] + s[n \div 2 + 1][1]) \div 2

\* scorer.prepare: the rate that stands in for an unknown one; 0 when nobody has a rate
SelPrior(view, ws) ==
  LET known == {w \in ws : view[w].rate > 0} IN
  IF known = {} THEN 0 ELSE SelMedian([w \in known |-> view[w].rate])

\* scorer.score: SelBad for a candidate without a valid score
SelScore(v, work, prior) ==
  IF ~SelTrusted(v) \/ v.ahead = SelBad THEN SelBad
  ELSE IF ~work THEN v.ahead * SelScale
  ELSE ((v.ahead + SelCost) * SelScale) \div (IF v.rate > 0 THEN v.rate ELSE prior)

\* workAware.SelectWorker, the candidates that take turns
SelWorkTied(view, ws, work) ==
  LET prior == SelPrior(view, ws)
      score == [w \in ws |-> SelScore(view[w], work /\ prior > 0, prior)]
      valid == {w \in ws : score[w] # SelBad}
      neutral == SelMedian([w \in valid |-> score[w]])
      filled == [w \in ws |-> IF w \in valid THEN score[w] ELSE neutral]
      best  == Min({score[w] : w \in valid})
  IN  IF valid = {} THEN ws ELSE {w \in ws : (filled[w] - best) * SelTieParts <= best}

\* the tied workers of each strategy; random has no turns and any candidate may be drawn
SelTied(strategy, view) ==
  LET ws == SelEligible(view) IN
  CASE strategy = "round-robin"  -> ws
    [] strategy = "least-active" -> SelLightest(ws, [w \in ws |-> view[w].active])
    [] strategy = "least-queue"  -> SelLightest(ws, [w \in ws |-> view[w].queued])
    [] OTHER -> IF \E w \in ws : SelTrusted(view[w])
                THEN SelWorkTied(view, ws, strategy = "least-work")
                ELSE SelLightest(ws, [w \in ws |-> view[w].active])

\* some candidate is better than w in every respect the strategies look at, by more than rounding
SelBeaten(view, w) ==
  \E x \in SelEligible(view) : \A y \in {x, w} :
    /\ SelTrusted(view[y]) /\ view[y].ahead # SelBad /\ view[y].rate > 0
    /\ (view[w].ahead - view[x].ahead) * SelTieParts > view[x].ahead + SelCost
    /\ view[x].rate >= view[w].rate

SelStrategies == {"round-robin", "least-active", "least-queue", "least-tokens", "least-work"}

\* SelectWorker of a strategy with a rotor; without a candidate it returns NoWorkerError
SelSelect(strategy, view) ==
  LET tied == SelTied(strategy, view)
      w    == SelNextOf(selLast, tied)
  IN  /\ SelEligible(view) # {}
      /\ selLast' = w
      /\ selDid' = [late |-> selDue[w] \intersect (tied \ {w}) # {},
                    beaten |-> strategy \in {"least-tokens", "least-work"} /\ SelBeaten(view, w)]
      /\ selDue' = [x \in SelWorkers |-> IF x = w THEN SelWorkers \ {w} ELSE (selDue[x] \intersect tied) \ {w}]

SelRandom(view, w) ==
  /\ w \in SelEligible(view)
  /\ UNCHANGED selVars

SelNext ==
  \E view \in [SelWorkers -> SelViews] :
    \/ \E strategy \in SelStrategies : SelSelect(strategy, view)
    \/ \E w \in SelWorkers : SelRandom(view, w)

SelSpec == SelInit /\ [][SelNext]_selVars

-----------------------------------------------------------------------------
(* Properties *)

\* "Tied workers take turns" (leastLoaded, rotor.next): a worker is never handed out twice while another
\* one, tied with it at every selection in between, has not been handed out at all, though other workers
\* come, go, fill up and change load. The comment's "nor starve any worker" is more than the rotor gives: a
\* worker that is tied at every other selection only can be passed over for ever.
SelTurnsTaken == ~selDid.late

\* A work-aware strategy never hands out an observed worker while another candidate has less work ahead
\* (by more than the tolerance that makes scores tied) and no lower a rate, whatever the rest of the view holds: workers without a ledger observation, with
\* garbage for their work ahead or without a rate move neither the minimum nor its ties.
SelNeverBeaten == ~selDid.beaten

\* The choice of a worker (leastLoaded, rotor.next, the work-aware strategies) is fair among ties and never dominated.
SelSound == SelTurnsTaken /\ SelNeverBeaten
=============================================================================
