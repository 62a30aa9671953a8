---------------------------- MODULE RetryBudget ----------------------------
(***************************************************************************)
(* The retry budget of internal/resilience/budget.go and how               *)
(* forwardRegistry uses it: a routed first attempt is noted, a retry is    *)
(* reserved before it is routed and refunded when no other worker is       *)
(* found, and every registry sync prunes the models no longer served.      *)
(***************************************************************************)
EXTENDS SlidingWindow, TLC

CONSTANTS BudModels, BudOtherModel,  \* model names; the key shared beyond the cap
          BudRequests,
          BudRatioNum, BudRatioDen, BudMinRetries, BudWindow,
          BudMaxModels,           \* tracked models (0: no cap)
          BudMaxTime,             \* bound: the clock
          BudMaxCalls             \* bound: first attempts and reservations in all

ASSUME BudgetAssumption ==
    /\ IsFiniteSet(BudModels) /\ IsFiniteSet(BudRequests)
    /\ BudOtherModel \notin BudModels
    /\ {BudRatioDen, BudWindow} \subseteq Nat \ {0}
    /\ {BudRatioNum, BudMinRetries, BudMaxModels, BudMaxTime, BudMaxCalls} \subseteq Nat

VARIABLES budNow,
          budModels,   \* tracked key -> its window (all: first attempts, bad: retries)
          budReq,      \* request -> where it is and the reservation it holds
          budCalls,
          budGranted,  \* history: reservations that were not refunded
          budNoted     \* history: first attempts

budVars == <<budNow, budModels, budReq, budCalls, budGranted, budNoted>>

BudTimes == 0 .. BudMaxTime
BudKeys == BudModels \cup {BudOtherModel}
BudNoReservation == [at |-> "idle", key |-> BudOtherModel, time |-> 0, no |-> 0]

BudInit ==
    /\ budNow = 0
    /\ budModels = <<>>
    /\ budReq = [r \in BudRequests |-> BudNoReservation]
    /\ budCalls = 0
    /\ budGranted = {} /\ budNoted = {}

(* window: the key that counts for m, and the windows with it created. *)
BudKeyFor(m) ==
    IF m \in DOMAIN budModels \/ BudMaxModels = 0 \/ Cardinality(DOMAIN budModels) < BudMaxModels
    THEN m ELSE BudOtherModel

BudWithWindow(k) ==
    IF k \in DOMAIN budModels THEN budModels ELSE (k :> EmptyWindow(BudTimes)) @@ budModels

BudFirsts(ms, k) == WindowSum(ms[k], BudWindow, budNow, "all")
BudRetries(ms, k) == WindowSum(ms[k], BudWindow, budNow, "bad")

BudLimit(firsts) ==
    LET share == (BudRatioNum * firsts) \div BudRatioDen
    IN  IF share > BudMinRetries THEN share ELSE BudMinRetries

BudEntry(k) == [no |-> budCalls + 1, key |-> k, at |-> budNow]

(* NoteFirst, when the first attempt has been routed. *)
BudNoteFirst(m) ==
    LET k == BudKeyFor(m)
        ms == BudWithWindow(k)
    IN  /\ budCalls < BudMaxCalls
        /\ budCalls' = budCalls + 1
        /\ budModels' = [ms EXCEPT ![k] = WindowAdd(@, BudWindow, budNow, budNow, "all", 1)]
        /\ budNoted' = budNoted \cup {BudEntry(k)}
        /\ UNCHANGED <<budNow, budReq, budGranted>>

(* Reserve, granted: the check and the increment are one critical section. *)
BudReserve(r, m) ==
    LET k == BudKeyFor(m)
        ms == BudWithWindow(k)
    IN  /\ budReq[r].at = "idle"
        /\ budCalls < BudMaxCalls
        /\ budCalls' = budCalls + 1
        /\ BudRetries(ms, k) < BudLimit(BudFirsts(ms, k))
        /\ budModels' = [ms EXCEPT ![k] = WindowAdd(@, BudWindow, budNow, budNow, "bad", 1)]
        /\ budReq' = [budReq EXCEPT ![r] = [at |-> "routing", key |-> k, time |-> budNow, no |-> budCalls + 1]]
        /\ budGranted' = budGranted \cup {BudEntry(k)}
        /\ UNCHANGED <<budNow, budNoted>>

(* Reserve, denied: the window may have been created; nothing is counted. *)
BudDenied(r, m) ==
    LET k == BudKeyFor(m)
        ms == BudWithWindow(k)
    IN  /\ budReq[r].at = "idle"
        /\ BudRetries(ms, k) >= BudLimit(BudFirsts(ms, k))
        /\ budModels' = ms
        /\ UNCHANGED <<budNow, budReq, budCalls, budGranted, budNoted>>

(* The retry was routed: its send begins and it stays consumed. *)
BudSends(r) ==
    /\ budReq[r].at = "routing"
    /\ budReq' = [budReq EXCEPT ![r] = BudNoReservation]
    /\ UNCHANGED <<budNow, budModels, budCalls, budGranted, budNoted>>

(* Mutant: the refund is booked in the current bucket. *)
BudRefundNow(r) ==
    LET k == budReq[r].key
    IN  /\ budReq[r].at = "routing"
        /\ budModels' = IF k \notin DOMAIN budModels THEN budModels
                     ELSE [budModels EXCEPT ![k] = WindowAdd(@, BudWindow, budNow, budNow, "bad", -1)]
        /\ budReq' = [budReq EXCEPT ![r] = BudNoReservation]
        /\ budGranted' = {e \in budGranted : e.no # budReq[r].no}
        /\ UNCHANGED <<budNow, budCalls, budNoted>>

(* No other worker: Refund, once, in the bucket the retry was counted in. *)
BudRefund(r) ==
    LET k == budReq[r].key
    IN  /\ budReq[r].at = "routing"
        /\ budModels' = IF k \notin DOMAIN budModels THEN budModels
                     ELSE [budModels EXCEPT ![k] = WindowAdd(@, BudWindow, budReq[r].time, budNow, "bad", -1)]
        /\ budReq' = [budReq EXCEPT ![r] = BudNoReservation]
        /\ budGranted' = {e \in budGranted : e.no # budReq[r].no}
        /\ UNCHANGED <<budNow, budCalls, budNoted>>

(* Prune with the models the registry serves; the shared window is kept    *)
(* while it has events.  What a dropped window had counted is forgotten.   *)
BudPrune(served) ==
    LET busy == BudOtherModel \in DOMAIN budModels
                  /\ BudFirsts(budModels, BudOtherModel) + BudRetries(budModels, BudOtherModel) > 0
        kept == DOMAIN budModels \cap (served \cup (IF busy THEN {BudOtherModel} ELSE {}))
    IN  /\ budModels' = [k \in kept |-> budModels[k]]
        /\ UNCHANGED <<budNow, budReq, budCalls, budGranted, budNoted>>

BudTick ==
    /\ budNow < BudMaxTime
    /\ budNow' = budNow + 1
    /\ UNCHANGED <<budModels, budReq, budCalls, budGranted, budNoted>>

BudNext ==
    \/ \E m \in BudModels : BudNoteFirst(m)
    \/ \E r \in BudRequests :
        \/ \E m \in BudModels : BudReserve(r, m) \/ BudDenied(r, m)
        \/ BudSends(r) \/ BudRefund(r)
    \/ \E served \in SUBSET BudModels : BudPrune(served)
    \/ BudTick

BudSpec == BudInit /\ [][BudNext]_budVars

-----------------------------------------------------------------------------
(* Properties *)

(* Every variable holds a value of its kind; no more models are tracked    *)
(* than the cap, the shared one excepted.                                  *)
BudTypeOK ==
    /\ budNow \in BudTimes
    /\ DOMAIN budModels \subseteq BudKeys
    /\ BudMaxModels > 0 => Cardinality(DOMAIN budModels \ {BudOtherModel}) <= BudMaxModels
    /\ \A k \in DOMAIN budModels : budModels[k] \in [BudTimes -> [all : Nat, bad : Nat]]
    /\ \A r \in BudRequests : budReq[r].at \in {"idle", "routing"} /\ budReq[r].key \in BudKeys

BudRecent(book, k) == {e \in book : e.key = k /\ InWindow(e.at, BudWindow, budNow)}

(* A window never counts a retry that did not happen: refunds, late ones   *)
(* included, take out what their Reserve put in, so nothing refunded can   *)
(* deny a later retry.                                                     *)
NoPhantomRetries ==
    \A k \in DOMAIN budModels :
        /\ BudRetries(budModels, k) <= Cardinality(BudRecent(budGranted, k))
        /\ BudFirsts(budModels, k) <= Cardinality(BudRecent(budNoted, k))

(* Beyond the tracked models everything shares one budget, and Prune does  *)
(* not forget it while it counts anything: the retries granted to untracked*)
(* models in a window are all in it, and at the moment one is granted they *)
(* are within the limit, however requests and refunds interleave.          *)
SharedBudgetHolds ==
    [][LET k == BudOtherModel
           before == Cardinality(BudRecent(budGranted, k))
       IN  BudRecent(budGranted, k) # BudRecent(budGranted', k) /\ Cardinality(budGranted') > Cardinality(budGranted)
             => before < BudLimit(Cardinality(BudRecent(budNoted, k)))]_budVars

(* The retry budget counts what happened and no more, refunds and pruning  *)
(* included, and is not overshot where models share it (Reserve, Refund,   *)
(* Prune).                                                                 *)
BudgetKept == [](BudTypeOK /\ NoPhantomRetries) /\ SharedBudgetHolds
=============================================================================
