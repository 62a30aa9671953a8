------------------------------ MODULE Breakers ------------------------------
(***************************************************************************)
(* The circuit breakers of one gateway: internal/resilience/breaker.go and *)
(* breakers.go, used by attempts as the gateway uses them (Acquire, then   *)
(* Record or Release once, then RecordAbort if the stream breaks) and fed  *)
(* by the snapshot cache, which stores a new view BEFORE it syncs the      *)
(* breakers.                                                               *)
(*                                                                         *)
(* Time is counted in buckets of the sliding window (seconds).  Every      *)
(* method of Breakers is one critical section and so one step; Cool-down   *)
(* jitter is a choice in [0.8, 1.2] of the base.                           *)
(***************************************************************************)
EXTENDS SlidingWindow, Sequences

CONSTANTS Workers,             \* worker IDs, ordered
          WorkerModel,         \* the ejection-cap group of a worker
          Attempts,            \* goroutines that send attempts
          ConsecutiveFailures, RatioNum, RatioDen, MinVolume, Window,
          CoolDown, MaxCoolDown, ProbeConcurrency, ProbeSuccesses,
          OpenNum, OpenDen,    \* max_open_fraction
          TicketBackstop,      \* when a probe ticket counts as lost
          MaxTime,             \* bound: the clock
          MaxStarts,           \* bound: attempts in all
          MaxViews             \* bound: registry views stored

ASSUME BreakersAssumption ==
    /\ IsFiniteSet(Workers) /\ Workers \subseteq Nat
    /\ IsFiniteSet(Attempts)
    /\ DOMAIN WorkerModel = Workers
    /\ {ConsecutiveFailures, MinVolume, Window, CoolDown, ProbeConcurrency,
        ProbeSuccesses, RatioDen, OpenDen} \subseteq Nat \ {0}
    /\ {RatioNum, OpenNum, TicketBackstop, MaxTime, MaxStarts, MaxViews} \subseteq Nat
    /\ MaxCoolDown \in Nat /\ CoolDown <= MaxCoolDown

VARIABLES now,
          br,      \* worker -> its breaker; reg 0: it has none
          listed,  \* worker -> its entry in the stored view
          att,     \* attempt -> where it is and the ticket it took
          starts, views,
          book     \* history: worker -> outcomes counted since it last closed

vars == <<now, br, listed, att, starts, views, book>>

Times == 0 .. MaxTime

NewBreaker(reg) ==
    [reg |-> reg, eligible |-> FALSE, state |-> "closed",
     win |-> EmptyWindow(Times), streak |-> <<>>, suppressed |-> FALSE,
     level |-> 0, everOpened |-> FALSE, closedAt |-> 0, ejectedAt |-> 0,
     openUntil |-> 0, epoch |-> 0, tickets |-> {}, successes |-> 0]

Idle == [at |-> "idle", w |-> 0, reg |-> 0, epoch |-> 0, probe |-> FALSE,
         okAt |-> 0, no |-> 0]

(* The first view is stored and synced. *)
Init ==
    /\ now = 0
    /\ listed = [w \in Workers |-> [reg |-> 1, here |-> TRUE, eligible |-> TRUE]]
    /\ br = [w \in Workers |-> [NewBreaker(1) EXCEPT !.eligible = TRUE]]
    /\ att = [a \in Attempts |-> Idle]
    /\ starts = 0
    /\ views = 0
    /\ book = [w \in Workers |-> {}]

-----------------------------------------------------------------------------
(* One breaker *)

(* advance: the lazy transitions every call applies first. *)
Advanced(b) ==
    CASE b.state = "open" /\ now >= b.openUntil ->
            [b EXCEPT !.state = "half_open", !.successes = 0, !.tickets = {}]
      [] b.state = "half_open" ->
            [b EXCEPT !.tickets = {t \in @ : now - t.at <= TicketBackstop}]
      [] OTHER -> b

ProbeFree(b) ==
    b.state = "half_open" /\ Cardinality(b.tickets) < ProbeConcurrency

(* baseCoolDown: doubled per level, up to the cap. *)
BaseCoolDown(level) ==
    IF CoolDown * 2 ^ level > MaxCoolDown THEN MaxCoolDown ELSE CoolDown * 2 ^ level

(* Doubling reaches the cap, so the loop of maxLevel ends. *)
ASSUME CoolDownReachesCap == \E l \in 0 .. MaxCoolDown : BaseCoolDown(l) = MaxCoolDown

(* maxLevel: the first level whose cool-down is the cap. *)
MaxLevel == Min({l \in 0 .. MaxCoolDown : BaseCoolDown(l) = MaxCoolDown})

(* What jitter makes of it. *)
CoolDowns(level) ==
    {d \in 1 .. MaxCoolDown :
        /\ 5 * d >= 4 * BaseCoolDown(level)
        /\ 5 * (d - 1) < 6 * BaseCoolDown(level)}

NextLevel(b, fromProbe) ==
    IF fromProbe THEN (IF b.level < MaxLevel THEN b.level + 1 ELSE b.level)
    ELSE IF ~b.everOpened \/ now - b.closedAt >= MaxCoolDown THEN 0 ELSE b.level

Opened(b, fromProbe, d) ==
    [b EXCEPT !.level = NextLevel(b, fromProbe), !.everOpened = TRUE,
              !.ejectedAt = IF fromProbe THEN @ ELSE now,
              !.state = "open", !.openUntil = now + d, !.epoch = @ + 1,
              !.tickets = {}, !.successes = 0, !.suppressed = FALSE]

Shut(b) ==
    [b EXCEPT !.state = "closed", !.closedAt = now, !.tickets = {},
              !.successes = 0, !.win = EmptyWindow(Times), !.streak = <<>>,
              !.suppressed = FALSE]

(* recordClosed, the counting: the streak keeps the last faults' times. *)
Counted(b, v) ==
    LET one == WindowAdd(b.win, Window, now, now, "all", 1)
        bad == WindowAdd(one, Window, now, now, "bad", 1)
        longer == Append(b.streak, now)
    IN  CASE v = "ok" -> [b EXCEPT !.win = one, !.streak = <<>>]
          [] v = "fault" ->
                [b EXCEPT !.win = bad,
                          !.streak = IF Len(longer) > ConsecutiveFailures
                                     THEN Tail(longer) ELSE longer]
          [] v = "ratio_fault" -> [b EXCEPT !.win = bad]

(* recordClosed, the two rules. *)
Trips(b, v) ==
    \/ /\ v # "ok"
       /\ Len(b.streak) = ConsecutiveFailures
       /\ now - b.streak[1] <= Window
    \/ LET total == WindowSum(b.win, Window, now, "all")
           faults == WindowSum(b.win, Window, now, "bad")
       IN  /\ RatioNum > 0
           /\ total >= MinVolume
           /\ faults * RatioDen >= RatioNum * total

-----------------------------------------------------------------------------
(* The set of breakers *)

MaxOpen(n) == IF OpenNum >= OpenDen THEN n ELSE (OpenNum * n) \div OpenDen

Eligible(bs, m) == {w \in Workers : WorkerModel[w] = m /\ bs[w].reg > 0 /\ bs[w].eligible}

Ejected(bs, m) == {w \in Eligible(bs, m) : bs[w].state # "closed"}

RoomToOpen(w) ==
    \/ ~br[w].eligible
    \/ LET m == WorkerModel[w]
       IN  Cardinality(Ejected(br, m)) < MaxOpen(Cardinality(Eligible(br, m)))

(* enforceCap closes the most recently ejected, ties by the larger ID. *)
EjectedBefore(bs, o, w) ==
    \/ bs[o].ejectedAt < bs[w].ejectedAt
    \/ bs[o].ejectedAt = bs[w].ejectedAt /\ o < w

(* Mutant: Sync does not enforce the cap. *)
RelaxesNone(bs) == {}

Relaxed(bs) ==
    {w \in Workers :
        LET m == WorkerModel[w]
            elders == {o \in Ejected(bs, m) : EjectedBefore(bs, o, w)}
        IN  /\ w \in Ejected(bs, m)
            /\ Cardinality(elders) >= MaxOpen(Cardinality(Eligible(bs, m)))}

(* lookup finds the breaker of the ticket's registration. *)
Known(t) == br[t.w].reg = t.reg

(* Mutant: tickets from before the last opening count. *)
AnyEpoch(b, t) == TRUE

(* The ticket is from after the breaker last opened. *)
Current(b, t) == b.epoch = t.epoch

Outcome(t, bad) == [no |-> t.no, epoch |-> t.epoch, at |-> now, bad |-> bad]

(* countClosed on w's breaker, as b (advanced already). *)
CountClosed(w, b, v, t) ==
    IF b.state # "closed" \/ v = "neutral"
    THEN br' = [br EXCEPT ![w] = b] /\ UNCHANGED book
    ELSE LET c == Counted(b, v)
             others == {e \in book[w] : e.no # t.no}
         IN  /\ book' = [book EXCEPT ![w] = others \cup {Outcome(t, v # "ok")}]
             /\ CASE ~Trips(c, v) ->
                        br' = [br EXCEPT ![w] = [c EXCEPT !.suppressed = FALSE]]
                  [] Trips(c, v) /\ ~RoomToOpen(w) ->
                        br' = [br EXCEPT ![w] = [c EXCEPT !.suppressed = TRUE]]
                  [] OTHER ->
                        \E d \in CoolDowns(NextLevel(c, FALSE)) :
                            br' = [br EXCEPT ![w] = Opened(c, FALSE, d)]

ProbeFailed(w, b) ==
    /\ \E d \in CoolDowns(NextLevel(b, TRUE)) : br' = [br EXCEPT ![w] = Opened(b, TRUE, d)]
    /\ UNCHANGED book

(* Record: the verdict of the attempt a with ticket t. *)
Record(a, t, v) ==
    LET w == t.w
        b == Advanced(br[w])
        mine == {k \in b.tickets : k.holder = a}
        back == [b EXCEPT !.tickets = @ \ mine]
        passed == b.successes + 1 >= ProbeSuccesses
        probing == t.probe /\ b.state = "half_open" /\ Current(b, t) /\ mine # {}
        ignored == IF t.probe THEN ~probing ELSE ~Current(b, t)
    IN  CASE ~Known(t) -> UNCHANGED <<br, book>>
          [] Known(t) /\ ignored -> br' = [br EXCEPT ![w] = b] /\ UNCHANGED book
          [] Known(t) /\ ~t.probe /\ ~ignored -> CountClosed(w, b, v, t)
          [] Known(t) /\ probing ->
                CASE v = "ok" /\ passed ->
                        /\ br' = [br EXCEPT ![w] = Shut(back)]
                        /\ book' = [book EXCEPT ![w] = {}]
                  [] v = "ok" /\ ~passed ->
                        /\ br' = [br EXCEPT ![w] = [back EXCEPT !.successes = @ + 1]]
                        /\ UNCHANGED book
                  [] v = "neutral" ->
                        br' = [br EXCEPT ![w] = back] /\ UNCHANGED book
                  [] OTHER -> ProbeFailed(w, back)

(* RecordAbort: a stream broke after its first byte.  The ok is taken out  *)
(* of the bucket of okAt and a fault counted now; a probe's is RecordLate. *)
RecordAbort(t, okAt) ==
    LET w == t.w
        b == Advanced(br[w])
        undone == [b EXCEPT !.win = WindowAdd(@, Window, okAt, now, "all", -1)]
    IN  CASE ~Known(t) -> UNCHANGED <<br, book>>
          [] Known(t) /\ ~Current(b, t) ->
                br' = [br EXCEPT ![w] = b] /\ UNCHANGED book
          [] Known(t) /\ Current(b, t) /\ t.probe /\ b.state = "half_open" ->
                ProbeFailed(w, b)
          [] Known(t) /\ Current(b, t) /\ t.probe /\ b.state # "half_open" ->
                CountClosed(w, b, "fault", t)
          [] OTHER ->
                IF b.state # "closed"
                THEN br' = [br EXCEPT ![w] = b] /\ UNCHANGED book
                ELSE CountClosed(w, undone, "fault", t)

-----------------------------------------------------------------------------
(* What calls them *)

(* Acquire for a worker of a view that may be older or newer than the one  *)
(* the breakers were synced with.                                          *)
Acquire(a, w, reg) ==
    LET b == Advanced(br[w])
        known == br[w].reg = reg
        probe == known /\ b.state = "half_open"
        mine == [holder |-> a, at |-> now]
    IN  /\ att[a].at = "idle"
        /\ starts < MaxStarts
        /\ reg \in 1 .. listed[w].reg
        /\ known => b.state = "closed" \/ ProbeFree(b)
        /\ starts' = starts + 1
        /\ att' = [att EXCEPT ![a] = [at |-> "sent", w |-> w, reg |-> reg,
                        epoch |-> IF known THEN b.epoch ELSE 0,
                        probe |-> probe, okAt |-> 0, no |-> starts + 1]]
        /\ br' = IF ~known THEN br
                 ELSE IF probe THEN [br EXCEPT ![w] = [b EXCEPT !.tickets = @ \cup {mine}]]
                 ELSE [br EXCEPT ![w] = b]
        /\ UNCHANGED <<now, listed, views, book>>

(* Mutant: the ticket is not given back. *)
ReleaseKeepsTicket(a) ==
    /\ att[a].at = "sent"
    /\ att' = [att EXCEPT ![a] = Idle]
    /\ UNCHANGED <<now, br, listed, starts, views, book>>

(* Release: the attempt was cancelled, abandoned or panicked before its    *)
(* verdict, or a hand-off was declined.                                    *)
Release(a) ==
    LET t == att[a]
        b == br[t.w]
    IN  /\ t.at = "sent"
        /\ br' = IF t.probe /\ Known(t) /\ b.state = "half_open" /\ Current(b, t)
                 THEN [br EXCEPT ![t.w].tickets = {k \in @ : k.holder # a}]
                 ELSE br
        /\ att' = [att EXCEPT ![a] = Idle]
        /\ UNCHANGED <<now, listed, starts, views, book>>

(* settleVerdict of an attempt that failed, or whose answer is neutral. *)
Fails(a, v) ==
    /\ att[a].at = "sent"
    /\ Record(a, att[a], v)
    /\ att' = [att EXCEPT ![a] = Idle]
    /\ UNCHANGED <<now, listed, starts, views>>

(* settleVerdict of an ok reads the clock for okAt, *)
SeesFirstByte(a) ==
    /\ att[a].at = "sent"
    /\ att' = [att EXCEPT ![a].at = "ok", ![a].okAt = now]
    /\ UNCHANGED <<now, br, listed, starts, views, book>>

(* and then calls Record, which reads it again under the lock. *)
RecordsOK(a) ==
    /\ att[a].at = "ok"
    /\ Record(a, att[a], "ok")
    /\ att' = [att EXCEPT ![a].at = "relaying"]
    /\ UNCHANGED <<now, listed, starts, views>>

StreamEnds(a) ==
    /\ att[a].at = "relaying"
    /\ att' = [att EXCEPT ![a] = Idle]
    /\ UNCHANGED <<now, br, listed, starts, views, book>>

(* recordAfterRelay. *)
StreamBreaks(a) ==
    /\ att[a].at = "relaying"
    /\ RecordAbort(att[a], att[a].okAt)
    /\ att' = [att EXCEPT ![a] = Idle]
    /\ UNCHANGED <<now, listed, starts, views>>

(* Admissible, State, Counts, Snapshot, RetryAfter, a refused Acquire. *)
Look(w) ==
    /\ br[w].reg > 0
    /\ br' = [br EXCEPT ![w] = Advanced(@)]
    /\ UNCHANGED <<now, listed, att, starts, views, book>>

(* Refreshes store views.  A view that changes several workers is several  *)
(* of these steps with no Sync between them: a worker leaves, registers    *)
(* anew (a registration never comes back), or becomes eligible again.      *)
StoreView(w) ==
    /\ views < MaxViews
    /\ views' = views + 1
    /\ \/ /\ listed[w].here
          /\ listed' = [listed EXCEPT ![w].here = FALSE, ![w].eligible = FALSE]
       \/ listed' = [listed EXCEPT ![w] = [reg |-> @.reg + 1, here |-> TRUE, eligible |-> TRUE]]
       \/ /\ listed[w].here /\ ~listed[w].eligible
          /\ listed' = [listed EXCEPT ![w].eligible = TRUE]
    /\ UNCHANGED <<now, br, att, starts, book>>

(* A worker of the stored view stops being eligible: reported unhealthy,   *)
(* or its heartbeat grew too old to be believed (free, it happens once).   *)
Age(w) ==
    /\ listed[w].eligible
    /\ listed' = [listed EXCEPT ![w].eligible = FALSE]
    /\ UNCHANGED <<now, br, att, starts, views, book>>

(* Sync with the stored view as it is believed now. *)
Sync ==
    LET kept(w) == IF br[w].reg = listed[w].reg THEN br[w] ELSE NewBreaker(listed[w].reg)
        told == [w \in Workers |->
                    IF listed[w].here
                    THEN [kept(w) EXCEPT !.eligible = listed[w].eligible]
                    ELSE NewBreaker(0)]
    IN  /\ br' = [w \in Workers |-> IF w \in Relaxed(told) THEN Shut(told[w]) ELSE told[w]]
        /\ book' = [w \in Workers |->
                      IF w \in Relaxed(told) \/ told[w].reg # br[w].reg
                      THEN {} ELSE book[w]]
        /\ UNCHANGED <<now, listed, att, starts, views>>

Tick ==
    /\ now < MaxTime
    /\ now' = now + 1
    /\ UNCHANGED <<br, listed, att, starts, views, book>>

AttemptStep(a) ==
    \/ \E w \in Workers, reg \in 1 .. 1 + MaxViews : Acquire(a, w, reg)
    \/ Release(a)
    \/ \E v \in {"fault", "ratio_fault", "neutral"} : Fails(a, v)
    \/ SeesFirstByte(a)
    \/ RecordsOK(a)
    \/ StreamEnds(a)
    \/ StreamBreaks(a)

Next ==
    \/ \E a \in Attempts : AttemptStep(a)
    \/ \E w \in Workers : Look(w) \/ StoreView(w) \/ Age(w)
    \/ Sync
    \/ Tick

Spec == Init /\ [][Next]_vars

-----------------------------------------------------------------------------
(* Properties *)

(* Every field of every breaker and ticket holds a value of its kind; the  *)
(* cool-down level and the probe tickets stay within their limits.         *)
TypeOK ==
    /\ now \in Times
    /\ \A w \in Workers :
        LET b == br[w] IN
        /\ b.reg \in 0 .. 1 + MaxViews
        /\ b.state \in {"closed", "half_open", "open"}
        /\ b.level \in 0 .. MaxLevel
        /\ Len(b.streak) <= ConsecutiveFailures
        /\ b.openUntil <= now + MaxCoolDown
        /\ Cardinality(b.tickets) <= ProbeConcurrency
        /\ b.successes < ProbeSuccesses
    /\ \A a \in Attempts : att[a].at \in {"idle", "sent", "ok", "relaying"}
    /\ starts \in 0 .. MaxStarts
    /\ views \in 0 .. MaxViews

(* D9: among the workers of a model that the registry offers, no more than *)
(* max_open_fraction are ejected, whatever order trips, failed probes,     *)
(* re-registrations and changes of eligibility come in; with one worker    *)
(* and a fraction below one it is never ejected.                           *)
EjectionCapped(bs) ==
    \A m \in {WorkerModel[w] : w \in Workers} :
        Cardinality(Ejected(bs, m)) <= MaxOpen(Cardinality(Eligible(bs, m)))

(* Acquire's duty and Ticket's comment: a probe ticket comes back exactly  *)
(* once.  One that is out belongs to an attempt still waiting for its      *)
(* verdict, so a half-open breaker is never full for good.                 *)
TicketsHaveHolders ==
    \A w \in Workers : \A k \in br[w].tickets :
        LET t == att[k.holder] IN
        /\ t.at \in {"sent", "ok"}
        /\ t.probe /\ t.w = w /\ Known(t) /\ t.epoch = br[w].epoch

(* A trip from closed rests on enough attempts of this registration, each  *)
(* counted once, that started since the breaker last opened and failed     *)
(* within the window: late, repeated or outdated verdicts never add up to  *)
(* one.                                                                    *)
Evidence(w) ==
    {e \in book'[w] : e.bad /\ e.epoch = br[w].epoch /\ now - e.at <= Window}

TripNeedsEvidence ==
    [][\A w \in Workers :
          br[w].state = "closed" /\ br'[w].state = "open"
            => \/ Cardinality(Evidence(w)) >= ConsecutiveFailures
               \/ Cardinality(Evidence(w)) * RatioDen >= RatioNum * MinVolume]_vars

(* enforceCap keeps the longest-standing evidence: when a sync closes an   *)
(* ejected breaker, no breaker of the model that was ejected later stays   *)
(* ejected.                                                                *)
NewestRelaxedFirst ==
    [][\A w, o \in Workers :
          LET relaxed == br[w].state # "closed" /\ br'[w].state = "closed"
                           /\ br'[w].reg = br[w].reg /\ br'[w].eligible
              stays == o \in Ejected(br', WorkerModel[w])
              synced == UNCHANGED att
          IN  synced /\ relaxed /\ stays => br[o].ejectedAt <= br[w].ejectedAt]_vars

(* RecordAbort's comment: "so that each request counts once, with its      *)
(* final outcome".  The window's total is the number of attempts counted.  *)
EachRequestCountedOnce ==
    \A w \in Workers :
        br[w].state = "closed" =>
            WindowSum(br[w].win, Window, now, "all")
              = Cardinality({e \in book[w] : InWindow(e.at, Window, now)})

(* Breakers keeps its limits, and every probe ticket that is out is with   *)
(* an attempt that will bring it back (Acquire, Record, Release).          *)
TicketsKept == TypeOK /\ TicketsHaveHolders

(* enforceCap: the cap on ejections holds after every step, and what is    *)
(* relaxed to keep it is the newest ejection.                              *)
CapKept == []EjectionCapped(br) /\ NewestRelaxedFirst
=============================================================================
