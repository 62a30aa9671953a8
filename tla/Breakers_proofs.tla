--------------------------- MODULE Breakers_proofs ---------------------------
(***************************************************************************)
(* Proofs about the circuit breakers (Breakers): every breaker keeps its   *)
(* limits, every probe ticket that is out is with an attempt that brings   *)
(* it back, the cap on ejections holds after every step, and enforceCap    *)
(* relaxes the newest ejections.                                           *)
(***************************************************************************)
EXTENDS Breakers, FiniteSetTheorems, WellFoundedInduction, TLAPS

-----------------------------------------------------------------------------
(* The constants *)

LEMMA BreakersConstants ==
    /\ IsFiniteSet(Workers) /\ Workers \subseteq Nat /\ IsFiniteSet(Attempts)
    /\ ConsecutiveFailures \in Nat \ {0} /\ Window \in Nat \ {0} /\ ProbeConcurrency \in Nat \ {0}
    /\ ProbeSuccesses \in Nat \ {0} /\ OpenDen \in Nat \ {0} /\ OpenNum \in Nat
    /\ MaxTime \in Nat /\ MaxStarts \in Nat /\ MaxViews \in Nat
    /\ MaxCoolDown \in Nat
BY BreakersAssumption

LEMMA LeastOfNats ==
    ASSUME NEW S, S \subseteq Nat, S # {}
    PROVE  \E m \in S : \A n \in S : m <= n
<1>1. PICK m \in S : \A n \in S : ~(<<n, m>> \in OpToRel(<, Nat))
  BY NatLessThanWellFounded, WFMin, Zenon
<1>2. \A n \in S : ~(n < m)
  BY <1>1, Zenon DEF OpToRel
<1> QED
  BY <1>2

LEMMA MaxLevelType == MaxLevel \in Nat
<1> DEFINE S == {l \in 0 .. MaxCoolDown : BaseCoolDown(l) = MaxCoolDown}
<1>1. S # {} /\ S \subseteq Nat
  <2>1. PICK l \in 0 .. MaxCoolDown : BaseCoolDown(l) = MaxCoolDown
    BY CoolDownReachesCap, Zenon
  <2>2. l \in S
    BY <2>1, Zenon
  <2>3. 0 .. MaxCoolDown \subseteq Nat
    BY BreakersConstants
  <2> QED
    BY <2>2, <2>3, Zenon
<1> HIDE DEF S
<1>2. \E m \in S : \A n \in S : m <= n
  BY <1>1, LeastOfNats, Zenon
<1>3. Min(S) \in S
  BY <1>2, Zenon DEF Min
<1> QED
  BY <1>1, <1>3, Zenon DEF MaxLevel, S

LEMMA MaxOpenType ==
    ASSUME NEW n \in Nat
    PROVE  MaxOpen(n) \in Nat
<1>1. OpenDen \in Nat \ {0} /\ OpenNum \in Nat
  BY BreakersConstants
<1>2. OpenNum * n \in Nat
  BY <1>1
<1> DEFINE x == OpenNum * n
<1>3. x \div OpenDen \in Nat
  <2> HIDE DEF x
  <2> QED
    BY <1>1, <1>2 DEF x
<1> QED
  BY <1>3 DEF MaxOpen

-----------------------------------------------------------------------------
(* One breaker *)

Wins == [Times -> [all : Nat, bad : Nat]]

BreakerRecords ==
    [reg : Nat, eligible : BOOLEAN, state : {"closed", "half_open", "open"}, win : Wins, streak : Seq(Nat),
     suppressed : BOOLEAN, level : Nat, everOpened : BOOLEAN, closedAt : Nat, ejectedAt : Nat, openUntil : Nat,
     epoch : Nat, tickets : SUBSET [holder : Attempts, at : Nat], successes : Nat]

(* What holds of every breaker; only a half-open one has tickets out. *)
Sound(b) ==
    /\ b \in BreakerRecords
    /\ b.reg <= 1 + MaxViews
    /\ b.level <= MaxLevel
    /\ Len(b.streak) <= ConsecutiveFailures
    /\ b.openUntil <= now + MaxCoolDown
    /\ IsFiniteSet(b.tickets) /\ Cardinality(b.tickets) <= ProbeConcurrency
    /\ b.tickets # {} => b.state = "half_open"
    /\ b.successes < ProbeSuccesses

LEMMA EmptyWins == EmptyWindow(Times) \in Wins
BY DEF EmptyWindow, Wins

LEMMA AddWins ==
    ASSUME NEW win \in Wins, NEW n, NEW t, NEW to, NEW which \in {"all", "bad"}, NEW delta \in Int
    PROVE  WindowAdd(win, n, t, to, which, delta) \in Wins
<1>1. CASE t \in Times
  <2>1. win[t] \in [all : Nat, bad : Nat] /\ win[t][which] \in Nat
    BY <1>1 DEF Wins
  <2> DEFINE c == IF win[t][which] + delta < 0 THEN 0 ELSE win[t][which] + delta
  <2>2. c \in Nat
    BY <2>1
  <2> HIDE DEF c
  <2>3. [win[t] EXCEPT ![which] = c] \in [all : Nat, bad : Nat]
    BY <2>1, <2>2
  <2>4. [win EXCEPT ![t] = [win[t] EXCEPT ![which] = c]] \in Wins
    BY <2>3, Zenon DEF Wins
  <2> QED
    BY <2>4, Zenon DEF WindowAdd, c
<1>2. CASE t \notin Times
  BY <1>2, Zenon DEF WindowAdd, Wins
<1> QED
  BY <1>1, <1>2, Zenon

(* advance. *)
LEMMA AdvancedSound ==
    ASSUME NEW b, Sound(b), now \in Nat
    PROVE  /\ Sound(Advanced(b))
           /\ Advanced(b).reg = b.reg /\ Advanced(b).eligible = b.eligible
           /\ Advanced(b).epoch = b.epoch /\ Advanced(b).ejectedAt = b.ejectedAt
           /\ Advanced(b).tickets \subseteq b.tickets
           /\ (Advanced(b).state = "closed" <=> b.state = "closed")
           /\ Advanced(b).tickets # {} => Advanced(b).state = "half_open"
           /\ b.state = "half_open" => Advanced(b).state = "half_open"
<1>1. /\ ProbeSuccesses \in Nat \ {0} /\ ProbeConcurrency \in Nat
  BY BreakersConstants
<1>2. b \in BreakerRecords
  BY DEF Sound
<1>3. CASE b.state = "open" /\ now >= b.openUntil
  <2>1. Advanced(b) = [b EXCEPT !.state = "half_open", !.successes = 0, !.tickets = {}]
    BY <1>3, Zenon DEF Advanced
  <2> DEFINE c == [b EXCEPT !.state = "half_open", !.successes = 0, !.tickets = {}]
  <2>2. /\ c \in BreakerRecords /\ c.state = "half_open" /\ c.successes = 0 /\ c.tickets = {}
        /\ c.reg = b.reg /\ c.level = b.level /\ c.streak = b.streak /\ c.openUntil = b.openUntil
        /\ c.eligible = b.eligible /\ c.epoch = b.epoch /\ c.ejectedAt = b.ejectedAt
    BY <1>2, Zenon DEF BreakerRecords
  <2> HIDE DEF c
  <2>3. Sound(c)
    BY <1>1, <2>2, FS_EmptySet DEF Sound
  <2>4. c.tickets \subseteq b.tickets /\ ~(b.state = "closed")
    BY <1>3, <2>2
  <2> QED
    BY <2>1, <2>2, <2>3, <2>4 DEF c
<1>4. CASE b.state = "half_open"
  <2> DEFINE T == {t \in b.tickets : now - t.at <= TicketBackstop}
             c == [b EXCEPT !.tickets = T]
  <2>1. Advanced(b) = c
    BY <1>4 DEF Advanced
  <2>2. T \subseteq b.tickets /\ IsFiniteSet(b.tickets) /\ Cardinality(b.tickets) <= ProbeConcurrency
    BY DEF Sound
  <2> HIDE DEF T
  <2>3. IsFiniteSet(T) /\ Cardinality(T) <= ProbeConcurrency
    <3>1. IsFiniteSet(T) /\ Cardinality(T) <= Cardinality(b.tickets)
      BY <2>2, FS_Subset, Zenon
    <3>2. Cardinality(T) \in Nat /\ Cardinality(b.tickets) \in Nat
      BY <2>2, <3>1, FS_CardinalityType, Zenon
    <3> QED
      BY <1>1, <2>2, <3>1, <3>2
  <2>4. /\ c \in BreakerRecords /\ c.state = "half_open" /\ c.successes = b.successes /\ c.tickets = T
        /\ c.reg = b.reg /\ c.level = b.level /\ c.streak = b.streak /\ c.openUntil = b.openUntil
        /\ c.eligible = b.eligible /\ c.epoch = b.epoch /\ c.ejectedAt = b.ejectedAt
    BY <1>2, <1>4, <2>2, Zenon DEF BreakerRecords
  <2> HIDE DEF c
  <2>5. Sound(c)
    BY <2>3, <2>4, Zenon DEF Sound
  <2>6. ~(b.state = "closed") /\ ~(c.state = "closed")
    BY <1>4, <2>4
  <2> QED
    BY <2>1, <2>2, <2>4, <2>5, <2>6, Zenon
<1>5. CASE ~(b.state = "open" /\ now >= b.openUntil) /\ b.state # "half_open"
  <2>1. Advanced(b) = b
    BY <1>5, Zenon DEF Advanced
  <2>2. b.tickets # {} => b.state = "half_open"
    BY Zenon DEF Sound
  <2> QED
    BY <2>1, <2>2, Zenon
<1> QED
  BY <1>3, <1>4, <1>5, Zenon

(* open. *)
LEMMA OpenedSound ==
    ASSUME NEW b, Sound(b), now \in Nat, NEW fromProbe \in BOOLEAN, NEW d \in 1 .. MaxCoolDown
    PROVE  /\ Sound(Opened(b, fromProbe, d))
           /\ Opened(b, fromProbe, d).reg = b.reg /\ Opened(b, fromProbe, d).eligible = b.eligible
           /\ Opened(b, fromProbe, d).tickets = {} /\ Opened(b, fromProbe, d).state = "open"
<1>1. /\ ProbeSuccesses \in Nat \ {0} /\ ProbeConcurrency \in Nat /\ MaxCoolDown \in Nat
  BY BreakersConstants
<1>2. b \in BreakerRecords /\ b.level <= MaxLevel
  BY DEF Sound
<1> DEFINE l == NextLevel(b, fromProbe)
           e == IF fromProbe THEN b.ejectedAt ELSE now
           u == now + d
           g == b.epoch + 1
<1>3. l \in Nat /\ l <= MaxLevel
  <2>1. b.level \in Nat /\ MaxLevel \in Nat
    BY <1>2, MaxLevelType DEF BreakerRecords
  <2> QED
    BY <1>2, <2>1 DEF NextLevel
<1>4. e \in Nat /\ u \in Nat /\ u <= now + MaxCoolDown /\ g \in Nat
  <2>1. b.ejectedAt \in Nat /\ b.epoch \in Nat
    BY <1>2 DEF BreakerRecords
  <2> QED
    BY <1>1, <2>1
<1> DEFINE c == Opened(b, fromProbe, d)
<1>5. c = [b EXCEPT !.level = l, !.everOpened = TRUE, !.ejectedAt = e, !.state = "open", !.openUntil = u, !.epoch = g,
                    !.tickets = {}, !.successes = 0, !.suppressed = FALSE]
  BY DEF Opened
<1> HIDE DEF c, l, e, u, g
<1>6. c \in BreakerRecords
  BY <1>2, <1>3, <1>4, <1>5, Zenon DEF BreakerRecords
<1>7. /\ c.level = l /\ c.state = "open" /\ c.openUntil = u /\ c.tickets = {} /\ c.successes = 0
      /\ c.reg = b.reg /\ c.eligible = b.eligible /\ c.streak = b.streak
  BY <1>2, <1>5 DEF BreakerRecords
<1>8. Sound(c)
  BY <1>1, <1>3, <1>4, <1>6, <1>7, FS_EmptySet DEF Sound
<1> QED
  BY <1>7, <1>8, Zenon DEF c

(* close. *)
LEMMA ShutSound ==
    ASSUME NEW b, Sound(b), now \in Nat
    PROVE  /\ Sound(Shut(b))
           /\ Shut(b).reg = b.reg /\ Shut(b).eligible = b.eligible
           /\ Shut(b).tickets = {} /\ Shut(b).state = "closed"
<1>1. /\ ProbeSuccesses \in Nat \ {0} /\ ProbeConcurrency \in Nat /\ ConsecutiveFailures \in Nat
  BY BreakersConstants
<1> DEFINE c == Shut(b)
           e == EmptyWindow(Times)
           q == <<>>
<1>2. b \in BreakerRecords /\ e \in Wins /\ q \in Seq(Nat) /\ Len(q) = 0
  BY EmptyWins DEF Sound
<1>3. c = [b EXCEPT !.state = "closed", !.closedAt = now, !.tickets = {}, !.successes = 0, !.win = e, !.streak = q,
                    !.suppressed = FALSE]
  BY Zenon DEF Shut
<1> HIDE DEF c, e, q
<1>4. c \in BreakerRecords
  BY <1>2, <1>3, Zenon DEF BreakerRecords
<1>5. /\ c.level = b.level /\ c.state = "closed" /\ c.openUntil = b.openUntil /\ c.tickets = {} /\ c.successes = 0
      /\ c.reg = b.reg /\ c.eligible = b.eligible /\ c.streak = q
  BY <1>2, <1>3 DEF BreakerRecords
<1>6. Sound(c)
  BY <1>1, <1>2, <1>4, <1>5, FS_EmptySet DEF Sound
<1> QED
  BY <1>5, <1>6, Zenon DEF c

(* c differs from b in what it has counted only. *)
Alike(c, b) ==
    /\ Sound(c) /\ c.reg = b.reg /\ c.eligible = b.eligible
    /\ c.state = b.state /\ c.tickets = b.tickets /\ c.epoch = b.epoch

(* recordClosed, the counting. *)
LEMMA CountedSound ==
    ASSUME NEW b, Sound(b), now \in Nat, NEW v \in {"ok", "fault", "ratio_fault"}
    PROVE  Alike(Counted(b, v), b)
<1>1. ConsecutiveFailures \in Nat \ {0}
  BY BreakersConstants
<1>2. b \in BreakerRecords /\ b.win \in Wins /\ b.streak \in Seq(Nat) /\ Len(b.streak) <= ConsecutiveFailures
  BY DEF Sound, BreakerRecords
<1> DEFINE one == WindowAdd(b.win, Window, now, now, "all", 1)
           bad == WindowAdd(one, Window, now, now, "bad", 1)
           longer == Append(b.streak, now)
           next == IF Len(longer) > ConsecutiveFailures THEN Tail(longer) ELSE longer
<1>3. one \in Wins
  <2>1. 1 \in Int
    OBVIOUS
  <2> QED
    BY <1>2, <2>1, AddWins, Zenon
<1>4. bad \in Wins
  <2>1. 1 \in Int
    OBVIOUS
  <2> HIDE DEF one
  <2> QED
    BY <1>3, <2>1, AddWins, Zenon
<1>5. next \in Seq(Nat) /\ Len(next) <= ConsecutiveFailures
  <2>1. longer \in Seq(Nat) /\ Len(longer) = Len(b.streak) + 1 /\ Len(b.streak) \in Nat
    BY <1>2
  <2> HIDE DEF longer
  <2>2. longer # <<>>
    BY <2>1
  <2>3. Tail(longer) \in Seq(Nat) /\ Len(Tail(longer)) = Len(longer) - 1
    BY <2>1, <2>2
  <2> QED
    BY <1>1, <1>2, <2>1, <2>3
<1>6. ASSUME NEW x \in Wins, NEW q \in Seq(Nat), Len(q) <= ConsecutiveFailures,
             NEW c, c = [b EXCEPT !.win = x, !.streak = q]
      PROVE  Alike(c, b)
  <2>1. c \in BreakerRecords
    BY <1>2, <1>6, Zenon DEF BreakerRecords
  <2>2. /\ c.level = b.level /\ c.state = b.state /\ c.openUntil = b.openUntil /\ c.tickets = b.tickets
        /\ c.successes = b.successes /\ c.reg = b.reg /\ c.eligible = b.eligible /\ c.streak = q
        /\ c.epoch = b.epoch
    BY <1>2, <1>6 DEF BreakerRecords
  <2> QED
    BY <1>6, <2>1, <2>2, Zenon DEF Alike, Sound
<1>7. CASE v = "ok"
  <2> DEFINE q == <<>>
  <2>1. q \in Seq(Nat) /\ Len(q) <= ConsecutiveFailures
    BY <1>1
  <2>2. Counted(b, v) = [b EXCEPT !.win = one, !.streak = q]
    BY <1>7, Zenon DEF Counted
  <2> HIDE DEF q, one
  <2> QED
    BY <1>3, <1>6, <2>1, <2>2, Zenon
<1>8. CASE v = "fault"
  <2>1. Counted(b, v) = [b EXCEPT !.win = bad, !.streak = next]
    BY <1>8 DEF Counted
  <2> HIDE DEF next, bad
  <2> QED
    BY <1>4, <1>5, <1>6, <2>1, Zenon
<1>9. CASE v = "ratio_fault"
  <2>1. Counted(b, v) = [b EXCEPT !.win = bad]
    BY <1>9 DEF Counted
  <2> HIDE DEF bad
  <2> DEFINE q == b.streak
  <2>2. [b EXCEPT !.win = bad] = [b EXCEPT !.win = bad, !.streak = q]
    BY <1>2, Zenon DEF BreakerRecords
  <2> HIDE DEF q
  <2>3. q \in Seq(Nat) /\ Len(q) <= ConsecutiveFailures
    BY <1>2, Zenon DEF q
  <2>4. Counted(b, v) = [b EXCEPT !.win = bad, !.streak = q]
    BY <2>1, <2>2, Zenon DEF q
  <2> QED
    BY <1>4, <1>6, <2>3, <2>4, Zenon
<1> QED
  BY <1>7, <1>8, <1>9

(* A new breaker, and one that is told its eligibility. *)
LEMMA NewSound ==
    ASSUME now \in Nat, NEW reg \in Nat, reg <= 1 + MaxViews
    PROVE  /\ Sound(NewBreaker(reg)) /\ NewBreaker(reg).reg = reg /\ ~NewBreaker(reg).eligible
           /\ NewBreaker(reg).tickets = {} /\ NewBreaker(reg).state = "closed"
<1> DEFINE c == NewBreaker(reg)
           e == EmptyWindow(Times)
           q == <<>>
<1>1. /\ ProbeSuccesses \in Nat \ {0} /\ ProbeConcurrency \in Nat /\ ConsecutiveFailures \in Nat /\ MaxCoolDown \in Nat
  BY BreakersConstants
<1>2. e \in Wins /\ q \in Seq(Nat) /\ Len(q) = 0 /\ {} \in SUBSET [holder : Attempts, at : Nat]
  BY EmptyWins
<1>3. c = [reg |-> reg, eligible |-> FALSE, state |-> "closed", win |-> e, streak |-> q, suppressed |-> FALSE,
           level |-> 0, everOpened |-> FALSE, closedAt |-> 0, ejectedAt |-> 0, openUntil |-> 0, epoch |-> 0,
           tickets |-> {}, successes |-> 0]
  BY Zenon DEF NewBreaker
<1> HIDE DEF c, e, q
<1>4. c \in BreakerRecords
  BY <1>2, <1>3 DEF BreakerRecords
<1>5. /\ c.level = 0 /\ c.state = "closed" /\ c.openUntil = 0 /\ c.tickets = {} /\ c.successes = 0
      /\ c.reg = reg /\ c.eligible = FALSE /\ c.streak = q
  BY <1>3
<1>6. Sound(c)
  BY <1>1, <1>2, <1>4, <1>5, FS_EmptySet, MaxLevelType DEF Sound
<1> QED
  BY <1>5, <1>6, Zenon DEF c

LEMMA ToldSound ==
    ASSUME NEW b, Sound(b), NEW on \in BOOLEAN, NEW c, c = [b EXCEPT !.eligible = on]
    PROVE  /\ Sound(c) /\ c.reg = b.reg /\ c.state = b.state
           /\ c.tickets = b.tickets /\ c.epoch = b.epoch /\ c.ejectedAt = b.ejectedAt
<1>1. b \in BreakerRecords
  BY DEF Sound
<1>2. c \in BreakerRecords
  BY <1>1, Zenon DEF BreakerRecords
<1>3. /\ c.level = b.level /\ c.state = b.state /\ c.openUntil = b.openUntil /\ c.tickets = b.tickets
      /\ c.successes = b.successes /\ c.reg = b.reg /\ c.streak = b.streak
      /\ c.epoch = b.epoch /\ c.ejectedAt = b.ejectedAt
  BY <1>1 DEF BreakerRecords
<1> QED
  BY <1>2, <1>3, Zenon DEF Sound

(* A breaker with other tickets. *)
LEMMA TicketsSound ==
    ASSUME NEW b, Sound(b), NEW T, T \subseteq [holder : Attempts, at : Nat], IsFiniteSet(T),
           Cardinality(T) <= ProbeConcurrency, b.state = "half_open", NEW c, c = [b EXCEPT !.tickets = T]
    PROVE  /\ Sound(c) /\ c.reg = b.reg /\ c.eligible = b.eligible /\ c.state = b.state
           /\ c.tickets = T /\ c.epoch = b.epoch /\ c.successes = b.successes
<1>1. b \in BreakerRecords
  BY DEF Sound
<1>2. c \in BreakerRecords
  BY <1>1, Zenon DEF BreakerRecords
<1>3. /\ c.level = b.level /\ c.state = b.state /\ c.openUntil = b.openUntil /\ c.tickets = T
      /\ c.successes = b.successes /\ c.reg = b.reg /\ c.eligible = b.eligible /\ c.streak = b.streak
      /\ c.epoch = b.epoch
  BY <1>1 DEF BreakerRecords
<1> QED
  BY <1>2, <1>3, Zenon DEF Sound

-----------------------------------------------------------------------------
(* The set of breakers *)

Positions == [at : {"idle", "sent", "ok", "relaying"}, w : Nat, reg : Nat, epoch : Nat, probe : BOOLEAN,
              okAt : Nat, no : Nat]

BTypes ==
    /\ now \in Times
    /\ br = [w \in Workers |-> br[w]]
    /\ \A w \in Workers : Sound(br[w])
    /\ listed \in [Workers -> [reg : Nat, here : BOOLEAN, eligible : BOOLEAN]]
    /\ \A w \in Workers : listed[w].reg <= 1 + views
    /\ att \in [Attempts -> Positions]
    /\ \A a \in Attempts : att[a].at # "idle" => att[a].w \in Workers
    /\ starts \in 0 .. MaxStarts
    /\ views \in 0 .. MaxViews

(* The position t holds a probe ticket of x's breaker b. *)
HeldBy(t, b, x) ==
    t.at \in {"sent", "ok"} /\ t.probe /\ t.w = x /\ b.reg = t.reg /\ t.epoch = b.epoch

(* The inductive invariant. *)
BInv == BTypes /\ TicketsHaveHolders /\ EjectionCapped(br)

LEMMA HoldersAre ==
    /\ TicketsHaveHolders <=> \A x \in Workers : \A k \in br[x].tickets : HeldBy(att[k.holder], br[x], x)
    /\ TicketsHaveHolders' <=> \A x \in Workers : \A k \in br'[x].tickets : HeldBy(att'[k.holder], br'[x], x)
BY DEF TicketsHaveHolders, Known, HeldBy

LEMMA HolderIsAttempt ==
    ASSUME BInv, NEW x \in Workers, NEW k \in br[x].tickets
    PROVE  k.holder \in Attempts
<1>1. br[x] \in BreakerRecords
  BY Zenon DEF BInv, BTypes, Sound
<1>2. br[x].tickets \subseteq [holder : Attempts, at : Nat]
  BY <1>1, Zenon DEF BreakerRecords
<1>3. k \in [holder : Attempts, at : Nat]
  BY <1>2, Zenon
<1> QED
  BY <1>3

LEMMA ModelSetsFinite ==
    ASSUME NEW bs, NEW m
    PROVE  /\ IsFiniteSet(Eligible(bs, m)) /\ Cardinality(Eligible(bs, m)) \in Nat
           /\ IsFiniteSet(Ejected(bs, m)) /\ Cardinality(Ejected(bs, m)) \in Nat
           /\ MaxOpen(Cardinality(Eligible(bs, m))) \in Nat
<1>1. IsFiniteSet(Workers)
  BY BreakersConstants
<1>2. Eligible(bs, m) \subseteq Workers /\ Ejected(bs, m) \subseteq Workers
  BY Zenon DEF Eligible, Ejected
<1>3. IsFiniteSet(Eligible(bs, m)) /\ IsFiniteSet(Ejected(bs, m))
  BY <1>1, <1>2, FS_Subset, Zenon
<1>4. Cardinality(Eligible(bs, m)) \in Nat /\ Cardinality(Ejected(bs, m)) \in Nat
  BY <1>3, FS_CardinalityType, Zenon
<1> QED
  BY <1>3, <1>4, MaxOpenType, Zenon

(* At most w's breaker changes its state, and none who it is for. *)
OneChange(cs, w) ==
    \A x \in Workers : /\ cs[x].reg = br[x].reg /\ cs[x].eligible = br[x].eligible
                       /\ x # w => cs[x].state = br[x].state

(* One breaker changes its state, and opens only when there is room. *)
LEMMA OneChangeCapped ==
    ASSUME EjectionCapped(br), NEW cs, NEW w \in Workers, OneChange(cs, w),
           cs[w].state # "closed" /\ br[w].state = "closed" => RoomToOpen(w)
    PROVE  EjectionCapped(cs)
<1> SUFFICES ASSUME NEW m \in {WorkerModel[x] : x \in Workers}
             PROVE  Cardinality(Ejected(cs, m)) <= MaxOpen(Cardinality(Eligible(cs, m)))
  BY Zenon DEF EjectionCapped
<1>1. Eligible(cs, m) = Eligible(br, m)
  BY DEF Eligible, OneChange
<1> DEFINE E == Ejected(br, m)
           F == Ejected(cs, m)
           M == MaxOpen(Cardinality(Eligible(br, m)))
<1>2. Cardinality(E) <= M
  BY Zenon DEF EjectionCapped
<1>3. /\ IsFiniteSet(E) /\ Cardinality(E) \in Nat /\ M \in Nat /\ Cardinality(F) \in Nat
  BY ModelSetsFinite, Zenon
<1>4. CASE F \subseteq E
  <2>1. Cardinality(F) <= Cardinality(E)
    BY <1>3, <1>4, FS_Subset, Zenon
  <2> HIDE DEF E, F, M
  <2>2. Cardinality(F) <= M
    BY <1>2, <1>3, <2>1
  <2> QED
    BY <1>1, <2>2, Zenon DEF F, M
<1>5. CASE ~(F \subseteq E)
  <2>1. \A x \in F : x \notin E => x = w
    <3>1. \A x \in Eligible(br, m) : x \in Workers
      BY Zenon DEF Eligible
    <3> QED
      BY <1>1, <3>1, Zenon DEF Ejected, OneChange
  <2>2. w \in F /\ w \notin E
    BY <1>5, <2>1, Zenon
  <2>3. /\ w \in Eligible(br, m) /\ cs[w].state # "closed" /\ br[w].state = "closed"
    BY <1>1, <2>2, Zenon DEF Ejected
  <2>4. br[w].eligible /\ WorkerModel[w] = m
    BY <2>3, Zenon DEF Eligible
  <2>5. Cardinality(E) < M
    BY <2>3, <2>4, Zenon DEF RoomToOpen
  <2>6. F \subseteq E \cup {w}
    BY <2>1, Zenon
  <2>7. IsFiniteSet(E \cup {w}) /\ Cardinality(E \cup {w}) = Cardinality(E) + 1
    BY <1>3, <2>2, FS_AddElement, Zenon
  <2>8. Cardinality(F) <= Cardinality(E \cup {w})
    BY <2>6, <2>7, FS_Subset, Zenon
  <2> HIDE DEF E, F, M
  <2>9. Cardinality(F) <= M
    BY <1>3, <2>5, <2>7, <2>8
  <2> QED
    BY <1>1, <2>9, Zenon DEF F, M
<1> QED
  BY <1>4, <1>5, Zenon

(* What a call for w may leave as its breaker, *)
Fits(w, b) ==
    /\ Sound(b)
    /\ b.reg = br[w].reg /\ b.eligible = br[w].eligible
    /\ b.tickets \subseteq br[w].tickets
    /\ b.tickets # {} => b.epoch = br[w].epoch
    /\ b.state # "closed" /\ br[w].state = "closed" => RoomToOpen(w)

(* and when it takes a's ticket back. *)
Replaced(w, b, a) == Fits(w, b) /\ \A k \in b.tickets : k.holder # a

(* Such a call leaves the invariant in place, if the attempts whose        *)
(* tickets are still out stay where they are.                              *)
LEMMA FitsKeeps ==
    ASSUME BInv, NEW w \in Workers, NEW b, Fits(w, b), br' = [br EXCEPT ![w] = b],
           att' \in [Attempts -> Positions], \A o \in Attempts : att'[o].at # "idle" => att'[o].w \in Workers,
           \A x \in Workers : \A k \in br'[x].tickets : att'[k.holder] = att[k.holder],
           UNCHANGED <<now, listed, views>>, starts' \in 0 .. MaxStarts
    PROVE  BInv'
<1>1. BTypes /\ TicketsHaveHolders /\ EjectionCapped(br)
  BY DEF BInv
<1>2. br = [x \in Workers |-> br[x]]
  BY <1>1, Zenon DEF BTypes
<1>3. br'[w] = b /\ \A x \in Workers : x # w => br'[x] = br[x]
  BY <1>2
<1>4. br' = [x \in Workers |-> br'[x]]
  BY <1>2, Zenon
<1>5. \A x \in Workers : Sound(br'[x])
  BY <1>1, <1>3, Zenon DEF BTypes, Fits
<1>6. \A x \in Workers : Sound(br[x])'
  BY <1>5, Zenon DEF Sound
<1>7. BTypes'
  BY <1>1, <1>4, <1>6, Zenon DEF BTypes
<1>8. OneChange(br', w)
  BY <1>3, Zenon DEF Fits, OneChange
<1>9. EjectionCapped(br')
  <2>1. br'[w].state # "closed" /\ br[w].state = "closed" => RoomToOpen(w)
    BY <1>3, Zenon DEF Fits
  <2> QED
    BY <1>1, <1>8, <2>1, OneChangeCapped, Zenon
<1>10. TicketsHaveHolders'
  <2> SUFFICES ASSUME NEW x \in Workers, NEW k \in br'[x].tickets
               PROVE  HeldBy(att'[k.holder], br'[x], x)
    BY HoldersAre, Zenon
  <2>1. k \in br[x].tickets /\ br'[x].epoch = br[x].epoch
    BY <1>3, Zenon DEF Fits
  <2>2. HeldBy(att[k.holder], br[x], x)
    BY <1>1, <2>1, HoldersAre, Zenon
  <2>3. att'[k.holder] = att[k.holder]
    OBVIOUS
  <2> QED
    BY <1>8, <2>1, <2>2, <2>3, Zenon DEF HeldBy, OneChange
<1> QED
  BY <1>7, <1>9, <1>10, Zenon DEF BInv, EjectionCapped

(* An attempt whose ticket is back may go anywhere. *)
LEMMA ReplacedKeeps ==
    ASSUME BInv, NEW w \in Workers, NEW b, NEW a \in Attempts, Replaced(w, b, a), NEW p \in Positions,
           p.at # "idle" => p.w \in Workers,
           \A x \in Workers : x # w => \A k \in br[x].tickets : k.holder # a,
           br' = [br EXCEPT ![w] = b], att' = [att EXCEPT ![a] = p],
           UNCHANGED <<now, listed, views>>, starts' \in 0 .. MaxStarts
    PROVE  BInv'
<1>1. /\ br = [x \in Workers |-> br[x]] /\ att \in [Attempts -> Positions] /\ \A x \in Workers : Sound(br[x])
      /\ \A o \in Attempts : att[o].at # "idle" => att[o].w \in Workers
  BY Zenon DEF BInv, BTypes
<1>2. br'[w] = b /\ \A x \in Workers : x # w => br'[x] = br[x]
  BY <1>1
<1>3. att' \in [Attempts -> Positions] /\ att'[a] = p /\ \A o \in Attempts : o # a => att'[o] = att[o]
  BY <1>1
<1>5. ASSUME NEW x \in Workers, NEW k \in br'[x].tickets PROVE att'[k.holder] = att[k.holder]
  <2>1. k \in br[x].tickets /\ k.holder # a
    BY <1>2, <1>5, Zenon DEF Replaced, Fits
  <2>2. k.holder \in Attempts
    BY <2>1, HolderIsAttempt, Zenon
  <2> QED
    BY <1>3, <2>1, <2>2, Zenon
<1>6. \A o \in Attempts : att'[o].at # "idle" => att'[o].w \in Workers
  BY <1>1, <1>3, Zenon
<1>7. Fits(w, b)
  BY Zenon DEF Replaced
<1> QED
  BY <1>3, <1>5, <1>6, <1>7, FitsKeeps, Zenon

-----------------------------------------------------------------------------
(* The verdicts *)

(* The breaker as a call finds it, a's ticket taken back. *)
Derived(w, b, a) ==
    /\ Sound(b)
    /\ b.reg = br[w].reg /\ b.eligible = br[w].eligible /\ b.epoch = br[w].epoch
    /\ b.tickets \subseteq br[w].tickets
    /\ (b.state = "closed" <=> br[w].state = "closed")
    /\ \A k \in b.tickets : k.holder # a

LEMMA DerivedReplaced ==
    ASSUME NEW w, NEW b, NEW a, Derived(w, b, a)
    PROVE  Replaced(w, b, a)
BY Zenon DEF Derived, Replaced, Fits

LEMMA CoolDownType ==
    ASSUME NEW l, NEW d \in CoolDowns(l)
    PROVE  d \in 1 .. MaxCoolDown
BY DEF CoolDowns

LEMMA SuppressedSound ==
    ASSUME NEW b, Sound(b), NEW on \in BOOLEAN, NEW c, c = [b EXCEPT !.suppressed = on]
    PROVE  Alike(c, b)
<1>1. b \in BreakerRecords
  BY DEF Sound
<1>2. c \in BreakerRecords
  BY <1>1, Zenon DEF BreakerRecords
<1>3. /\ c.level = b.level /\ c.state = b.state /\ c.openUntil = b.openUntil /\ c.tickets = b.tickets
      /\ c.successes = b.successes /\ c.reg = b.reg /\ c.eligible = b.eligible /\ c.streak = b.streak
      /\ c.epoch = b.epoch
  BY <1>1 DEF BreakerRecords
<1> QED
  BY <1>2, <1>3, Zenon DEF Alike, Sound

(* countClosed opens only where the cap leaves room. *)
LEMMA CountClosedShape ==
    ASSUME now \in Nat, NEW w \in Workers, NEW b, NEW a, Derived(w, b, a), NEW t,
           NEW v \in {"ok", "fault", "ratio_fault", "neutral"}, CountClosed(w, b, v, t)
    PROVE  \E c : Replaced(w, c, a) /\ br' = [br EXCEPT ![w] = c]
<1>1. CASE b.state # "closed" \/ v = "neutral"
  <2>1. br' = [br EXCEPT ![w] = b]
    BY <1>1, Zenon DEF CountClosed
  <2> QED
    BY <2>1, DerivedReplaced, Zenon
<1>2. CASE ~(b.state # "closed" \/ v = "neutral")
  <2> DEFINE c == Counted(b, v)
  <2>1. v \in {"ok", "fault", "ratio_fault"}
    BY <1>2
  <2>2. Sound(b)
    BY Zenon DEF Derived
  <2>3. Alike(c, b) /\ Sound(c)
    <3>1. Alike(c, b)
      BY <2>1, <2>2, CountedSound, Zenon
    <3> QED
      BY <3>1, Zenon DEF Alike
  <2>4. CASE \neg Trips(c, v) \/ \neg RoomToOpen(w)
    <3>1. PICK on \in BOOLEAN : br' = [br EXCEPT ![w] = [c EXCEPT !.suppressed = on]]
      BY <1>2, <2>4, Zenon DEF CountClosed
    <3> DEFINE e == [c EXCEPT !.suppressed = on]
    <3> HIDE DEF c
    <3>2. Alike(e, c)
      BY <2>3, SuppressedSound, Zenon
    <3> HIDE DEF e
    <3>3. Derived(w, e, a)
      BY <2>3, <3>2, Zenon DEF Alike, Derived
    <3> QED
      BY <3>1, <3>3, DerivedReplaced, Zenon DEF e
  <2>5. CASE Trips(c, v) /\ RoomToOpen(w)
    <3>1. PICK d \in CoolDowns(NextLevel(c, FALSE)) : br' = [br EXCEPT ![w] = Opened(c, FALSE, d)]
      BY <1>2, <2>5, Zenon DEF CountClosed
    <3> HIDE DEF c
    <3>2. d \in 1 .. MaxCoolDown /\ FALSE \in BOOLEAN
      BY CoolDownType, Zenon
    <3> DEFINE e == Opened(c, FALSE, d)
    <3>3. Sound(e) /\ e.reg = c.reg /\ e.eligible = c.eligible /\ e.tickets = {}
      BY <2>3, <3>2, OpenedSound, Zenon
    <3> HIDE DEF e
    <3>4. Replaced(w, e, a)
      BY <2>3, <2>5, <3>3, Zenon DEF Alike, Derived, Replaced, Fits
    <3> QED
      BY <3>1, <3>4, Zenon DEF e
  <2> QED
    BY <2>4, <2>5, Zenon
<1> QED
  BY <1>1, <1>2, Zenon

LEMMA ProbeFailedShape ==
    ASSUME now \in Nat, NEW w \in Workers, NEW b, NEW a, Derived(w, b, a), br[w].state # "closed", ProbeFailed(w, b)
    PROVE  \E c : Replaced(w, c, a) /\ br' = [br EXCEPT ![w] = c]
<1>1. PICK d \in CoolDowns(NextLevel(b, TRUE)) : br' = [br EXCEPT ![w] = Opened(b, TRUE, d)]
  BY Zenon DEF ProbeFailed
<1>2. d \in 1 .. MaxCoolDown /\ TRUE \in BOOLEAN /\ Sound(b)
  BY CoolDownType, Zenon DEF Derived
<1> DEFINE e == Opened(b, TRUE, d)
<1>3. Sound(e) /\ e.reg = b.reg /\ e.eligible = b.eligible /\ e.tickets = {}
  BY <1>2, OpenedSound, Zenon
<1> HIDE DEF e
<1>4. Replaced(w, e, a)
  BY <1>3, Zenon DEF Derived, Replaced, Fits
<1> QED
  BY <1>1, <1>4, Zenon DEF e

(* The tickets of an attempt are with the breaker its ticket names. *)
LEMMA TicketsOf ==
    ASSUME BInv, NEW a \in Attempts, NEW x \in Workers, NEW k \in br[x].tickets, k.holder = a
    PROVE  /\ att[a].at \in {"sent", "ok"} /\ att[a].probe /\ att[a].w = x /\ Known(att[a])
           /\ Current(br[x], att[a]) /\ br[x].state = "half_open"
<1>1. TicketsHaveHolders /\ Sound(br[x])
  BY Zenon DEF BInv, BTypes
<1>2. /\ att[a].at \in {"sent", "ok"} /\ att[a].probe /\ att[a].w = x /\ Known(att[a]) /\ att[a].epoch = br[x].epoch
  BY <1>1, Zenon DEF TicketsHaveHolders
<1>3. br[x].state = "half_open"
  BY <1>1, Zenon DEF Sound
<1> QED
  BY <1>2, <1>3, Zenon DEF Current

(* advance, for a breaker that a has no ticket of any more. *)
LEMMA AdvancedDerived ==
    ASSUME BInv, NEW w \in Workers, NEW a, \A k \in Advanced(br[w]).tickets : k.holder # a
    PROVE  Derived(w, Advanced(br[w]), a)
<1>1. Sound(br[w]) /\ now \in Nat
  BY DEF BInv, BTypes, Times
<1> DEFINE b == Advanced(br[w])
<1>2. /\ Sound(b) /\ b.reg = br[w].reg /\ b.eligible = br[w].eligible /\ b.epoch = br[w].epoch
      /\ b.tickets \subseteq br[w].tickets /\ (b.state = "closed" <=> br[w].state = "closed")
  BY <1>1, AdvancedSound, Zenon
<1> HIDE DEF b
<1> QED
  BY <1>2, Zenon DEF Derived, b

(* Record takes the attempt's ticket back, whatever the verdict. *)
LEMMA RecordShape ==
    ASSUME BInv, NEW a \in Attempts, att[a].w \in Workers,
           NEW v \in {"ok", "fault", "ratio_fault", "neutral"}, Record(a, att[a], v)
    PROVE  \E c : Replaced(att[a].w, c, a) /\ br' = [br EXCEPT ![att[a].w] = c]
<1> DEFINE t == att[a]
           w == t.w
           b == Advanced(br[w])
           mine == {k \in b.tickets : k.holder = a}
           back == [b EXCEPT !.tickets = @ \ mine]
           passed == b.successes + 1 >= ProbeSuccesses
           probing == t.probe /\ b.state = "half_open" /\ Current(b, t) /\ mine # {}
           ignored == IF t.probe THEN ~probing ELSE ~Current(b, t)
<1>1. /\ now \in Nat /\ Sound(br[w]) /\ w \in Workers /\ br = [x \in Workers |-> br[x]] /\ t \in Positions
  BY DEF BInv, BTypes, Times
<1>2. /\ Sound(b) /\ b.reg = br[w].reg /\ b.eligible = br[w].eligible /\ b.epoch = br[w].epoch
      /\ b.tickets \subseteq br[w].tickets /\ (b.state = "closed" <=> br[w].state = "closed")
      /\ b.tickets # {} => b.state = "half_open"
  BY <1>1, AdvancedSound, Zenon
<1>3. mine # {} => Known(t) /\ probing
  <2> SUFFICES ASSUME NEW k \in mine PROVE Known(t) /\ probing
    BY Zenon
  <2>1. k \in br[w].tickets /\ k.holder = a
    BY <1>2, Zenon
  <2>2. t.probe /\ Known(t) /\ Current(br[w], t)
    BY <1>1, <2>1, TicketsOf, Zenon
  <2> QED
    BY <1>2, <2>2, Zenon DEF Current
<1>4. mine = {} => Derived(w, b, a)
  BY <1>1, AdvancedDerived, Zenon
<1>5. CASE ~Known(t)
  <2>1. br' = br
    BY <1>5, Zenon DEF Record
  <2>2. br' = [br EXCEPT ![w] = br[w]]
    BY <1>1, <2>1
  <2>3. \A k \in br[w].tickets : k.holder # a
    BY <1>1, <1>5, TicketsOf, Zenon
  <2>4. Derived(w, br[w], a)
    BY <1>1, <2>3, Zenon DEF Derived
  <2> QED
    BY <2>2, <2>4, DerivedReplaced, Zenon
<1>6. CASE Known(t) /\ ignored
  <2>1. br' = [br EXCEPT ![w] = b]
    BY <1>6, Zenon DEF Record
  <2>2. mine = {}
    BY <1>3, <1>6, Zenon
  <2> QED
    BY <1>4, <2>1, <2>2, DerivedReplaced, Zenon
<1>7. CASE Known(t) /\ ~t.probe /\ ~ignored
  <2>1. CountClosed(w, b, v, t)
    BY <1>7, Zenon DEF Record
  <2>2. mine = {}
    BY <1>3, <1>7, Zenon
  <2>3. Derived(w, b, a)
    BY <1>4, <2>2, Zenon
  <2> HIDE DEF b
  <2> QED
    BY <1>1, <2>1, <2>3, CountClosedShape
<1>8. CASE Known(t) /\ probing
  <2>1. \/ v = "ok" /\ passed /\ br' = [br EXCEPT ![w] = Shut(back)]
        \/ v = "ok" /\ ~passed /\ br' = [br EXCEPT ![w] = [back EXCEPT !.successes = @ + 1]]
        \/ v = "neutral" /\ br' = [br EXCEPT ![w] = back]
        \/ ProbeFailed(w, back)
    <3>1. ~ignored /\ t.probe
      BY <1>8, Zenon
    <3>2. CASE v = "ok" /\ passed
      BY <1>8, <3>1, <3>2, Zenon DEF Record
    <3>3. CASE v = "ok" /\ ~passed
      BY <1>8, <3>1, <3>3, Zenon DEF Record
    <3>4. CASE v = "neutral"
      BY <1>8, <3>1, <3>4, Zenon DEF Record
    <3>5. CASE v # "ok" /\ v # "neutral"
      BY <1>8, <3>1, <3>5, Zenon DEF Record
    <3> QED
      BY <3>2, <3>3, <3>4, <3>5, Zenon
  <2> DEFINE T == b.tickets \ mine
  <2>2. /\ T \subseteq b.tickets /\ T \subseteq [holder : Attempts, at : Nat] /\ IsFiniteSet(T)
        /\ Cardinality(T) <= ProbeConcurrency /\ \A k \in T : k.holder # a
    <3>1. T \subseteq b.tickets /\ \A k \in T : k.holder # a
      BY Zenon
    <3>2. /\ IsFiniteSet(b.tickets) /\ Cardinality(b.tickets) <= ProbeConcurrency /\ b \in BreakerRecords
      BY <1>2, Zenon DEF Sound
    <3>3. b.tickets \subseteq [holder : Attempts, at : Nat]
      <4> HIDE DEF b
      <4> QED
        BY <3>2 DEF BreakerRecords
    <3>4. IsFiniteSet(T) /\ Cardinality(T) <= Cardinality(b.tickets)
      BY <3>1, <3>2, FS_Subset, Zenon
    <3>5. Cardinality(T) \in Nat /\ Cardinality(b.tickets) \in Nat /\ ProbeConcurrency \in Nat
      BY <3>2, <3>4, FS_CardinalityType, BreakersConstants, Zenon
    <3> HIDE DEF T, b
    <3> QED
      BY <3>1, <3>2, <3>3, <3>4, <3>5
  <2>3. back = [b EXCEPT !.tickets = T]
    OBVIOUS
  <2>4. b.state = "half_open"
    BY <1>8, Zenon
  <2> HIDE DEF b, T, back
  <2>5. /\ Sound(back) /\ back.reg = b.reg /\ back.eligible = b.eligible /\ back.state = b.state
        /\ back.tickets = T /\ back.epoch = b.epoch /\ back.successes = b.successes
    <3>1. /\ Sound(b) /\ T \subseteq [holder : Attempts, at : Nat] /\ IsFiniteSet(T)
          /\ Cardinality(T) <= ProbeConcurrency
      BY <1>2, <2>2, Zenon
    <3> QED
      BY <2>3, <2>4, <3>1, TicketsSound
  <2>6. Derived(w, back, a) /\ br[w].state # "closed"
    <3>1. b.state # "closed"
      BY <2>4
    <3> QED
      BY <1>2, <2>2, <2>5, <3>1, Zenon DEF Derived
  <2>7. CASE br' = [br EXCEPT ![w] = Shut(back)]
    <3>1. /\ Sound(Shut(back)) /\ Shut(back).reg = back.reg /\ Shut(back).eligible = back.eligible
          /\ Shut(back).tickets = {}
      BY <1>1, <2>5, ShutSound, Zenon
    <3>2. Replaced(w, Shut(back), a)
      BY <2>6, <3>1, Zenon DEF Replaced, Fits, Derived
    <3> QED
      BY <2>7, <3>2, Zenon
  <2>8. CASE ~passed /\ br' = [br EXCEPT ![w] = [back EXCEPT !.successes = @ + 1]]
    <3> DEFINE n == back.successes + 1
               c == [back EXCEPT !.successes = n]
    <3>1. n \in Nat /\ n < ProbeSuccesses
      <4>1. b.successes \in Nat /\ ProbeSuccesses \in Nat
        BY <1>2, BreakersConstants, Zenon DEF Sound, BreakerRecords
      <4> QED
        BY <2>5, <2>8, <4>1
    <3>2. back \in BreakerRecords
      BY <2>5, Zenon DEF Sound
    <3>3. br' = [br EXCEPT ![w] = c]
      BY <2>8
    <3> HIDE DEF n
    <3>4. c \in BreakerRecords
      BY <3>1, <3>2, Zenon DEF BreakerRecords
    <3>5. /\ c.level = back.level /\ c.state = back.state /\ c.openUntil = back.openUntil /\ c.tickets = back.tickets
          /\ c.successes = n /\ c.reg = back.reg /\ c.eligible = back.eligible /\ c.streak = back.streak
          /\ c.epoch = back.epoch
      BY <3>2 DEF BreakerRecords
    <3> HIDE DEF c
    <3>6. Sound(c)
      BY <2>5, <3>1, <3>4, <3>5, Zenon DEF Sound
    <3>7. Derived(w, c, a)
      BY <2>6, <3>5, <3>6, Zenon DEF Derived
    <3> QED
      BY <3>3, <3>7, DerivedReplaced, Zenon
  <2>9. CASE br' = [br EXCEPT ![w] = back]
    BY <2>6, <2>9, DerivedReplaced, Zenon
  <2>10. CASE ProbeFailed(w, back)
    BY <1>1, <2>6, <2>10, ProbeFailedShape, Zenon
  <2> QED
    BY <2>1, <2>7, <2>8, <2>9, <2>10, Zenon
<1> QED
  BY <1>5, <1>6, <1>7, <1>8, Zenon

(* RecordAbort, of an attempt whose ticket is back. *)
LEMMA RecordAbortShape ==
    ASSUME BInv, NEW a \in Attempts, att[a].at = "relaying", RecordAbort(att[a], att[a].okAt)
    PROVE  \E c : Replaced(att[a].w, c, a) /\ br' = [br EXCEPT ![att[a].w] = c]
<1> DEFINE t == att[a]
           w == t.w
           b == Advanced(br[w])
           win == WindowAdd(b.win, Window, t.okAt, now, "all", -1)
           undone == [b EXCEPT !.win = WindowAdd(@, Window, t.okAt, now, "all", -1)]
<1>1. /\ now \in Nat /\ w \in Workers /\ Sound(br[w]) /\ br = [x \in Workers |-> br[x]]
  BY DEF BInv, BTypes, Times
<1>2. /\ Sound(b) /\ (b.state = "closed" <=> br[w].state = "closed")
      /\ b.tickets \subseteq br[w].tickets
  BY <1>1, AdvancedSound, Zenon
<1>3. \A k \in br[w].tickets : k.holder # a
  <2>1. att[a].at \notin {"sent", "ok"}
    OBVIOUS
  <2> QED
    BY <1>1, <2>1, TicketsOf, Zenon
<1>4. Derived(w, b, a)
  BY <1>1, <1>2, <1>3, AdvancedDerived, Zenon
<1>5. \/ br' = br
      \/ br' = [br EXCEPT ![w] = b]
      \/ b.state = "half_open" /\ ProbeFailed(w, b)
      \/ CountClosed(w, b, "fault", t)
      \/ CountClosed(w, undone, "fault", t)
  <2>1. CASE ~Known(t)
    BY <2>1, Zenon DEF RecordAbort
  <2>2. CASE Known(t) /\ ~Current(b, t)
    BY <2>2, Zenon DEF RecordAbort
  <2>3. CASE Known(t) /\ Current(b, t) /\ t.probe /\ b.state = "half_open"
    BY <2>3, Zenon DEF RecordAbort
  <2>4. CASE Known(t) /\ Current(b, t) /\ t.probe /\ b.state # "half_open"
    BY <2>4, Zenon DEF RecordAbort
  <2>5. CASE Known(t) /\ Current(b, t) /\ ~t.probe
    BY <2>5, Zenon DEF RecordAbort
  <2> QED
    BY <2>1, <2>2, <2>3, <2>4, <2>5, Zenon
<1>6. CASE br' = br
  <2>1. br' = [br EXCEPT ![w] = br[w]]
    BY <1>1, <1>6
  <2>2. Derived(w, br[w], a)
    BY <1>1, <1>3, Zenon DEF Derived
  <2> QED
    BY <2>1, <2>2, DerivedReplaced, Zenon
<1>7. CASE br' = [br EXCEPT ![w] = b]
  BY <1>4, <1>7, DerivedReplaced, Zenon
<1>8. CASE b.state = "half_open" /\ ProbeFailed(w, b)
  <2>1. b.state # "closed"
    BY <1>8
  <2> QED
    BY <1>1, <1>2, <1>4, <1>8, <2>1, ProbeFailedShape, Zenon
<1>9. CASE CountClosed(w, b, "fault", t)
  BY <1>1, <1>4, <1>9, CountClosedShape, Zenon
<1>10. CASE CountClosed(w, undone, "fault", t)
  <2>1. b \in BreakerRecords /\ b.win \in Wins
    <3>1. b \in BreakerRecords
      BY <1>2, Zenon DEF Sound
    <3> HIDE DEF b
    <3> QED
      BY <3>1 DEF BreakerRecords
  <2>2. win \in Wins
    <3>1. -1 \in Int
      OBVIOUS
    <3> QED
      BY <2>1, <3>1, AddWins, Zenon
  <2>3. undone = [b EXCEPT !.win = win]
    OBVIOUS
  <2> HIDE DEF b, win, undone
  <2>4. undone \in BreakerRecords
    BY <2>1, <2>2, <2>3, Zenon DEF BreakerRecords
  <2>5. /\ undone.level = b.level /\ undone.state = b.state /\ undone.openUntil = b.openUntil
        /\ undone.tickets = b.tickets /\ undone.successes = b.successes /\ undone.reg = b.reg
        /\ undone.eligible = b.eligible /\ undone.streak = b.streak /\ undone.epoch = b.epoch
    BY <2>1, <2>3 DEF BreakerRecords
  <2>6. Sound(undone)
    BY <1>2, <2>4, <2>5, Zenon DEF Sound
  <2>7. Derived(w, undone, a)
    BY <1>4, <2>5, <2>6, Zenon DEF Derived
  <2> QED
    BY <1>1, <1>10, <2>7, CountClosedShape, Zenon
<1> QED
  BY <1>5, <1>6, <1>7, <1>8, <1>9, <1>10, Zenon

-----------------------------------------------------------------------------
(* The steps of an attempt *)

LEMMA NoTicketElsewhere ==
    ASSUME BInv, NEW a \in Attempts
    PROVE  \A x \in Workers : x # att[a].w => \A k \in br[x].tickets : k.holder # a
<1> SUFFICES ASSUME NEW x \in Workers, NEW k \in br[x].tickets, k.holder = a
             PROVE  x = att[a].w
  BY Zenon
<1> QED
  BY TicketsOf, Zenon

LEMMA NoTicketUnsent ==
    ASSUME BInv, NEW a \in Attempts, att[a].at \notin {"sent", "ok"}
    PROVE  \A x \in Workers : \A k \in br[x].tickets : k.holder # a
BY TicketsOf, Zenon

LEMMA IdlePosition == Idle \in Positions /\ Idle.at = "idle"
BY DEF Idle, Positions

LEMMA AttemptTypes ==
    ASSUME BInv, NEW a \in Attempts
    PROVE  /\ att \in [Attempts -> Positions] /\ att[a] \in Positions /\ (att[a].at # "idle" => att[a].w \in Workers)
           /\ now \in Nat /\ br = [x \in Workers |-> br[x]] /\ \A x \in Workers : Sound(br[x])
           /\ starts \in 0 .. MaxStarts
<1>1. BTypes
  BY DEF BInv
<1> QED
  BY <1>1 DEF BTypes, Times

LEMMA FailsKeeps ==
    ASSUME BInv, NEW a \in Attempts, NEW v \in {"fault", "ratio_fault", "neutral"}, Fails(a, v)
    PROVE  BInv'
<1>1. /\ att[a].at = "sent" /\ Record(a, att[a], v) /\ att' = [att EXCEPT ![a] = Idle]
      /\ UNCHANGED <<now, listed, starts, views>>
  BY Zenon DEF Fails
<1>2. att[a].w \in Workers /\ starts' \in 0 .. MaxStarts
  BY <1>1, AttemptTypes
<1>3. v \in {"ok", "fault", "ratio_fault", "neutral"}
  OBVIOUS
<1>4. PICK c : Replaced(att[a].w, c, a) /\ br' = [br EXCEPT ![att[a].w] = c]
  BY <1>1, <1>2, <1>3, RecordShape
<1> QED
  BY <1>1, <1>2, <1>4, IdlePosition, NoTicketElsewhere, ReplacedKeeps, Zenon

LEMMA RecordsOKKeeps ==
    ASSUME BInv, NEW a \in Attempts, RecordsOK(a)
    PROVE  BInv'
<1> DEFINE p == [att[a] EXCEPT !.at = "relaying"]
<1>1. /\ att[a].at = "ok" /\ Record(a, att[a], "ok") /\ att' = [att EXCEPT ![a] = p]
      /\ UNCHANGED <<now, listed, starts, views>>
  BY DEF RecordsOK
<1>2. att[a].w \in Workers /\ starts' \in 0 .. MaxStarts /\ att[a] \in Positions
  BY <1>1, AttemptTypes
<1>3. p \in Positions /\ p.w = att[a].w
  BY <1>2 DEF Positions
<1> HIDE DEF p
<1>4. PICK c : Replaced(att[a].w, c, a) /\ br' = [br EXCEPT ![att[a].w] = c]
  BY <1>1, <1>2, RecordShape
<1> QED
  BY <1>1, <1>2, <1>3, <1>4, NoTicketElsewhere, ReplacedKeeps, Zenon

LEMMA StreamBreaksKeeps ==
    ASSUME BInv, NEW a \in Attempts, StreamBreaks(a)
    PROVE  BInv'
<1>1. /\ att[a].at = "relaying" /\ RecordAbort(att[a], att[a].okAt) /\ att' = [att EXCEPT ![a] = Idle]
      /\ UNCHANGED <<now, listed, starts, views>>
  BY Zenon DEF StreamBreaks
<1>2. att[a].w \in Workers /\ starts' \in 0 .. MaxStarts
  BY <1>1, AttemptTypes
<1>3. PICK c : Replaced(att[a].w, c, a) /\ br' = [br EXCEPT ![att[a].w] = c]
  BY <1>1, RecordAbortShape, Zenon
<1> QED
  BY <1>1, <1>2, <1>3, IdlePosition, NoTicketElsewhere, ReplacedKeeps, Zenon

(* The breaker of w as it is, when a has no ticket of it. *)
LEMMA SameDerived ==
    ASSUME BInv, NEW w \in Workers, NEW a, \A k \in br[w].tickets : k.holder # a
    PROVE  Replaced(w, br[w], a) /\ br = [br EXCEPT ![w] = br[w]]
<1>1. Sound(br[w]) /\ br = [x \in Workers |-> br[x]]
  BY Zenon DEF BInv, BTypes
<1>2. Derived(w, br[w], a)
  BY <1>1, Zenon DEF Derived
<1>3. br = [br EXCEPT ![w] = br[w]]
  BY <1>1
<1> QED
  BY <1>2, <1>3, DerivedReplaced, Zenon

LEMMA StreamEndsKeeps ==
    ASSUME BInv, NEW a \in Attempts, StreamEnds(a)
    PROVE  BInv'
<1>1. /\ att[a].at = "relaying" /\ att' = [att EXCEPT ![a] = Idle]
      /\ UNCHANGED <<now, br, listed, starts, views>>
  BY Zenon DEF StreamEnds
<1>2. att[a].w \in Workers /\ starts' \in 0 .. MaxStarts /\ att[a].at \notin {"sent", "ok"}
  BY <1>1, AttemptTypes
<1>3. Replaced(att[a].w, br[att[a].w], a) /\ br' = [br EXCEPT ![att[a].w] = br[att[a].w]]
  BY <1>1, <1>2, NoTicketUnsent, SameDerived, Zenon
<1>4. PICK c : Replaced(att[a].w, c, a) /\ br' = [br EXCEPT ![att[a].w] = c]
  BY <1>3, Zenon
<1>5. att[a].w \in Workers /\ att' = [att EXCEPT ![a] = Idle] /\ UNCHANGED <<now, listed, views>>
  BY <1>1, <1>2, Zenon
<1>6. starts' \in 0 .. MaxStarts
  BY <1>2, Zenon
<1> QED
  BY <1>4, <1>5, <1>6, IdlePosition, NoTicketElsewhere, ReplacedKeeps, Zenon

LEMMA ReleaseKeeps ==
    ASSUME BInv, NEW a \in Attempts, Release(a)
    PROVE  BInv'
<1> DEFINE t == att[a]
           w == t.w
           held == t.probe /\ Known(t) /\ br[w].state = "half_open" /\ Current(br[w], t)
<1>1. /\ att[a].at = "sent" /\ att' = [att EXCEPT ![a] = Idle] /\ UNCHANGED <<now, listed, starts, views>>
  BY Zenon DEF Release
<1>2. /\ w \in Workers /\ starts' \in 0 .. MaxStarts /\ Sound(br[w])
  BY <1>1, AttemptTypes
<1>3. \E c : Replaced(w, c, a) /\ br' = [br EXCEPT ![w] = c]
  <2>1. CASE held
    <3> DEFINE T == {k \in br[w].tickets : k.holder # a}
               c == [br[w] EXCEPT !.tickets = T]
    <3>1. br' = [br EXCEPT ![w] = c]
      BY <2>1 DEF Release
    <3>2. T \subseteq br[w].tickets /\ \A k \in T : k.holder # a
      BY Zenon
    <3>3. /\ IsFiniteSet(br[w].tickets) /\ Cardinality(br[w].tickets) <= ProbeConcurrency
          /\ br[w].tickets \subseteq [holder : Attempts, at : Nat]
      BY <1>2, Zenon DEF Sound, BreakerRecords
    <3> HIDE DEF T
    <3>4. IsFiniteSet(T) /\ Cardinality(T) <= Cardinality(br[w].tickets)
      BY <3>2, <3>3, FS_Subset, Zenon
    <3>5. Cardinality(T) \in Nat /\ Cardinality(br[w].tickets) \in Nat /\ ProbeConcurrency \in Nat
      BY <3>3, <3>4, FS_CardinalityType, BreakersConstants
    <3>6. T \subseteq [holder : Attempts, at : Nat] /\ Cardinality(T) <= ProbeConcurrency
      BY <3>2, <3>3, <3>4, <3>5
    <3>7. /\ Sound(c) /\ c.reg = br[w].reg /\ c.eligible = br[w].eligible /\ c.state = br[w].state
          /\ c.tickets = T /\ c.epoch = br[w].epoch
      BY <1>2, <2>1, <3>4, <3>6, TicketsSound
    <3> HIDE DEF c
    <3>8. Derived(w, c, a)
      BY <3>2, <3>7, Zenon DEF Derived
    <3> QED
      BY <3>1, <3>8, DerivedReplaced, Zenon
  <2>2. CASE ~held
    <3>1. br' = br
      BY <2>2, Zenon DEF Release
    <3>2. \A k \in br[w].tickets : k.holder # a
      <4> SUFFICES ASSUME NEW k \in br[w].tickets, k.holder = a PROVE held
        BY <2>2, Zenon
      <4> QED
        BY <1>2, TicketsOf, Zenon
    <3> QED
      BY <1>2, <3>1, <3>2, SameDerived, Zenon
  <2> QED
    BY <2>1, <2>2, Zenon
<1>4. PICK c : Replaced(w, c, a) /\ br' = [br EXCEPT ![w] = c]
  BY <1>3, Zenon
<1> QED
  BY <1>1, <1>2, <1>4, IdlePosition, NoTicketElsewhere, ReplacedKeeps, Zenon

LEMMA SeesFirstByteKeeps ==
    ASSUME BInv, NEW a \in Attempts, SeesFirstByte(a)
    PROVE  BInv'
<1> DEFINE p == [att[a] EXCEPT !.at = "ok", !.okAt = now]
<1>1. /\ att[a].at = "sent" /\ att' = [att EXCEPT ![a] = p] /\ UNCHANGED <<now, br, listed, starts, views>>
  BY Zenon DEF SeesFirstByte
<1>2. BTypes /\ TicketsHaveHolders /\ EjectionCapped(br) /\ att \in [Attempts -> Positions]
  BY Zenon DEF BInv, BTypes
<1>3. att[a] \in Positions /\ att[a].w \in Workers /\ now \in Nat
  BY <1>1, AttemptTypes
<1>4. /\ p \in Positions /\ p.at = "ok" /\ p.w = att[a].w /\ p.reg = att[a].reg /\ p.epoch = att[a].epoch
      /\ p.probe = att[a].probe
  BY <1>3, Zenon DEF Positions
<1> HIDE DEF p
<1>5. att' \in [Attempts -> Positions] /\ att'[a] = p /\ \A o \in Attempts : o # a => att'[o] = att[o]
  BY <1>1, <1>2, <1>4
<1>6. \A o \in Attempts : att'[o].at # "idle" => att'[o].w \in Workers
  BY <1>2, <1>3, <1>4, <1>5, Zenon DEF BTypes
<1>7. \A x \in Workers : Sound(br[x])'
  BY <1>1, <1>2, Zenon DEF BTypes, Sound
<1>8. BTypes'
  BY <1>1, <1>2, <1>5, <1>6, <1>7, Zenon DEF BTypes
<1>9. TicketsHaveHolders'
  <2> SUFFICES ASSUME NEW x \in Workers, NEW k \in br'[x].tickets
               PROVE  HeldBy(att'[k.holder], br'[x], x)
    BY HoldersAre, Zenon
  <2>1. k \in br[x].tickets
    BY <1>1, Zenon
  <2>2. HeldBy(att[k.holder], br[x], x)
    BY <1>2, <2>1, HoldersAre, Zenon
  <2>3. k.holder \in Attempts
    BY <2>1, HolderIsAttempt, Zenon
  <2>4. CASE k.holder = a
    BY <1>1, <1>4, <1>5, <2>2, <2>4, Zenon DEF HeldBy
  <2>5. CASE k.holder # a
    BY <1>1, <1>5, <2>2, <2>3, <2>5, Zenon
  <2> QED
    BY <2>4, <2>5, Zenon
<1> QED
  BY <1>1, <1>2, <1>8, <1>9, Zenon DEF BInv

(* Acquire, when it takes a probe ticket: there was one free. *)
LEMMA ProbeTaken ==
    ASSUME BInv, NEW a \in Attempts, NEW w \in Workers, att[a].at = "idle",
           Advanced(br[w]).state = "half_open", ProbeFree(Advanced(br[w])), NEW p \in Positions,
           p.at = "sent", p.w = w, p.reg = br[w].reg, p.epoch = br[w].epoch, p.probe,
           br' = [br EXCEPT ![w] = [Advanced(br[w]) EXCEPT !.tickets = @ \cup {[holder |-> a, at |-> now]}]],
           att' = [att EXCEPT ![a] = p], UNCHANGED <<now, listed, views>>, starts' \in 0 .. MaxStarts
    PROVE  BInv'
<1> DEFINE b == Advanced(br[w])
           mine == [holder |-> a, at |-> now]
           T == b.tickets \cup {mine}
           c == [b EXCEPT !.tickets = T]
<1>1. /\ BTypes /\ TicketsHaveHolders /\ EjectionCapped(br) /\ att \in [Attempts -> Positions]
      /\ br = [x \in Workers |-> br[x]] /\ Sound(br[w])
  BY Zenon DEF BInv, BTypes
<1>2. now \in Nat
  BY AttemptTypes, Zenon
<1>3. /\ Sound(b) /\ b.reg = br[w].reg /\ b.eligible = br[w].eligible /\ b.epoch = br[w].epoch
      /\ b.tickets \subseteq br[w].tickets /\ (b.state = "closed" <=> br[w].state = "closed")
  BY <1>1, <1>2, AdvancedSound, Zenon
<1>4. b.state = "half_open" /\ Cardinality(b.tickets) < ProbeConcurrency
  BY Zenon DEF ProbeFree
<1>5. br' = [br EXCEPT ![w] = c] /\ mine \in [holder : Attempts, at : Nat]
  BY <1>2
<1> HIDE DEF b, mine
<1>6. b.tickets \subseteq [holder : Attempts, at : Nat] /\ IsFiniteSet(b.tickets)
  BY <1>3 DEF Sound, BreakerRecords
<1>7. T \subseteq [holder : Attempts, at : Nat] /\ IsFiniteSet(T) /\ Cardinality(T) <= ProbeConcurrency
  <2>1. T \subseteq [holder : Attempts, at : Nat]
    BY <1>5, <1>6, Zenon
  <2>2. IsFiniteSet(T) /\ (Cardinality(T) = Cardinality(b.tickets) + 1 \/ T = b.tickets)
    <3>1. CASE mine \in b.tickets
      <4>1. T = b.tickets
        BY <3>1, Zenon
      <4> QED
        BY <1>6, <4>1, Zenon
    <3>2. CASE mine \notin b.tickets
      BY <1>6, <3>2, FS_AddElement, Zenon
    <3> QED
      BY <3>1, <3>2, Zenon
  <2>3. Cardinality(b.tickets) \in Nat /\ ProbeConcurrency \in Nat
    BY <1>6, FS_CardinalityType, BreakersConstants
  <2> HIDE DEF T
  <2>4. Cardinality(T) <= ProbeConcurrency
    <3>1. CASE T = b.tickets
      BY <1>4, <2>3, <3>1
    <3>2. CASE Cardinality(T) = Cardinality(b.tickets) + 1
      BY <1>4, <2>3, <3>2
    <3> QED
      BY <2>2, <3>1, <3>2, Zenon
  <2> QED
    BY <2>1, <2>2, <2>4, Zenon
<1> HIDE DEF T
<1>8. /\ Sound(c) /\ c.reg = b.reg /\ c.eligible = b.eligible /\ c.state = b.state /\ c.tickets = T
      /\ c.epoch = b.epoch
  BY <1>3, <1>4, <1>7, TicketsSound
<1> HIDE DEF c
<1>9. br'[w] = c /\ \A x \in Workers : x # w => br'[x] = br[x]
  BY <1>1, <1>5
<1>10. br' = [x \in Workers |-> br'[x]]
  BY <1>1, <1>5, Zenon
<1>11. \A x \in Workers : Sound(br'[x])
  BY <1>1, <1>8, <1>9, Zenon DEF BTypes
<1>12. \A x \in Workers : Sound(br[x])'
  BY <1>11, Zenon DEF Sound
<1>13. att' \in [Attempts -> Positions] /\ att'[a] = p /\ \A o \in Attempts : o # a => att'[o] = att[o]
  BY <1>1
<1>14. \A o \in Attempts : att'[o].at # "idle" => att'[o].w \in Workers
  BY <1>1, <1>13, Zenon DEF BTypes
<1>15. BTypes'
  BY <1>1, <1>10, <1>12, <1>13, <1>14, Zenon DEF BTypes
<1>16. OneChange(br', w)
  <2>1. br'[w].reg = br[w].reg /\ br'[w].eligible = br[w].eligible
    BY <1>3, <1>8, <1>9, Zenon
  <2> QED
    BY <1>9, <2>1, Zenon DEF OneChange
<1>17. EjectionCapped(br')
  <2>1. br[w].state # "closed"
    <3>1. b.state # "closed"
      BY <1>4
    <3> QED
      BY <1>3, <3>1, Zenon
  <2> QED
    BY <1>1, <1>16, <2>1, OneChangeCapped, Zenon
<1>18. TicketsHaveHolders'
  <2> SUFFICES ASSUME NEW x \in Workers, NEW k \in br'[x].tickets
               PROVE  HeldBy(att'[k.holder], br'[x], x)
    BY HoldersAre, Zenon
  <2>1. br'[x].epoch = br[x].epoch
    BY <1>3, <1>8, <1>9, Zenon
  <2>2. CASE k \in br[x].tickets
    <3>1. HeldBy(att[k.holder], br[x], x)
      BY <1>1, <2>2, HoldersAre, Zenon
    <3>2. k.holder \in Attempts
      BY <2>2, HolderIsAttempt, Zenon
    <3>3. k.holder # a
      BY <3>1 DEF HeldBy
    <3>4. att'[k.holder] = att[k.holder]
      BY <1>13, <3>2, <3>3, Zenon
    <3>5. br'[x].reg = br[x].reg
      BY <1>16, Zenon DEF OneChange
    <3> QED
      BY <2>1, <3>1, <3>4, <3>5, Zenon DEF HeldBy
  <2>3. CASE k \notin br[x].tickets
    <3>1. x = w /\ k = mine
      <4>1. x = w
        BY <1>9, <2>3, Zenon
      <4>2. br'[w].tickets = T /\ b.tickets \subseteq br[w].tickets
        BY <1>3, <1>8, <1>9, Zenon
      <4> QED
        BY <2>3, <4>1, <4>2, Zenon DEF T
    <3>2. k.holder = a
      BY <3>1 DEF mine
    <3>3. att'[k.holder] = p /\ p.at \in {"sent", "ok"}
      BY <1>13, <3>2
    <3>4. br'[w].reg = p.reg /\ br'[w].epoch = p.epoch
      BY <1>16, <2>1, <3>1, Zenon DEF OneChange
    <3>5. HeldBy(p, br'[w], w)
      BY <3>3, <3>4, Zenon DEF HeldBy
    <3> QED
      BY <3>1, <3>3, <3>5, Zenon
  <2> QED
    BY <2>2, <2>3, Zenon
<1> QED
  BY <1>15, <1>17, <1>18, Zenon DEF BInv, EjectionCapped

LEMMA AcquireKeeps ==
    ASSUME BInv, NEW a \in Attempts, NEW w \in Workers, NEW reg \in Nat, Acquire(a, w, reg)
    PROVE  BInv'
<1> DEFINE b == Advanced(br[w])
           known == br[w].reg = reg
           probe == known /\ b.state = "half_open"
           n == starts + 1
           p == [at |-> "sent", w |-> w, reg |-> reg, epoch |-> IF known THEN b.epoch ELSE 0,
                 probe |-> probe, okAt |-> 0, no |-> n]
<1>1. /\ att[a].at = "idle" /\ starts < MaxStarts /\ (known => b.state = "closed" \/ ProbeFree(b))
      /\ starts' = n /\ att' = [att EXCEPT ![a] = p] /\ UNCHANGED <<now, listed, views>>
  BY Zenon DEF Acquire
<1>2. starts \in 0 .. MaxStarts /\ now \in Nat /\ Sound(br[w]) /\ MaxStarts \in Nat
  BY AttemptTypes, BreakersConstants
<1>3. starts' \in 0 .. MaxStarts /\ n \in Nat
  BY <1>1, <1>2
<1>4. b.epoch \in Nat /\ b.epoch = br[w].epoch
  <2>1. Sound(b) /\ b.epoch = br[w].epoch
    BY <1>2, AdvancedSound, Zenon
  <2> HIDE DEF b
  <2> QED
    BY <2>1 DEF Sound, BreakerRecords
<1>5. w \in Nat
  BY BreakersConstants, Zenon
<1> HIDE DEF b, n
<1>6. p \in Positions /\ p.at = "sent" /\ p.w = w /\ p.reg = reg /\ (p.probe <=> probe) /\ (known => p.epoch = br[w].epoch)
  BY <1>3, <1>4, <1>5, Zenon DEF Positions
<1> HIDE DEF p
<1>7. \A x \in Workers : \A k \in br[x].tickets : k.holder # a
  <2>1. att[a].at \notin {"sent", "ok"}
    BY <1>1
  <2> QED
    BY <2>1, NoTicketUnsent, Zenon
<1>8. CASE ~known
  <2>1. br' = br
    BY <1>8, Zenon DEF Acquire
  <2>2. PICK c : Replaced(w, c, a) /\ br' = [br EXCEPT ![w] = c]
    BY <1>7, <2>1, SameDerived, Zenon
  <2>3. p.at # "idle" => p.w \in Workers
    BY <1>6, Zenon
  <2>4. p \in Positions /\ att' = [att EXCEPT ![a] = p] /\ UNCHANGED <<now, listed, views>>
    BY <1>1, <1>6, Zenon
  <2> QED
    BY <1>3, <1>7, <2>2, <2>3, <2>4, ReplacedKeeps, Zenon
<1>9. CASE known /\ ~probe
  <2>1. br' = [br EXCEPT ![w] = b]
    BY <1>9, Zenon DEF Acquire, b
  <2>2. \A k \in Advanced(br[w]).tickets : k.holder # a
    <3>1. Advanced(br[w]).tickets \subseteq br[w].tickets
      BY <1>2, AdvancedSound, Zenon
    <3> QED
      BY <1>7, <3>1, Zenon
  <2>3. Replaced(w, b, a)
    BY <2>2, AdvancedDerived, DerivedReplaced, Zenon DEF b
  <2>4. p.at # "idle" => p.w \in Workers
    BY <1>6, Zenon
  <2>5. p \in Positions /\ att' = [att EXCEPT ![a] = p] /\ UNCHANGED <<now, listed, views>>
    BY <1>1, <1>6, Zenon
  <2> QED
    BY <1>3, <1>7, <2>1, <2>3, <2>4, <2>5, ReplacedKeeps, Zenon
<1>10. CASE probe
  <2>1. br' = [br EXCEPT ![w] = [b EXCEPT !.tickets = @ \cup {[holder |-> a, at |-> now]}]]
    BY <1>10, Zenon DEF Acquire, b
  <2>2. b.state = "half_open" /\ ProbeFree(b) /\ p.reg = br[w].reg /\ p.probe /\ p.epoch = br[w].epoch
    BY <1>1, <1>6, <1>10
  <2>3. p \in Positions /\ p.at = "sent" /\ p.w = w /\ att' = [att EXCEPT ![a] = p] /\ UNCHANGED <<now, listed, views>>
    BY <1>1, <1>6, Zenon
  <2> QED
    BY <1>1, <1>3, <2>1, <2>2, <2>3, ProbeTaken, Zenon DEF b
<1> QED
  BY <1>8, <1>9, <1>10, Zenon

-----------------------------------------------------------------------------
(* The view and the clock *)

LEMMA LookKeeps ==
    ASSUME BInv, NEW w \in Workers, Look(w)
    PROVE  BInv'
<1> DEFINE b == Advanced(br[w])
<1>1. UNCHANGED <<now, listed, att, starts, views>>
  BY Zenon DEF Look
<1>2. BTypes /\ br = [x \in Workers |-> br[x]] /\ Sound(br[w])
  BY Zenon DEF BInv, BTypes
<1>3. br' = [br EXCEPT ![w] = b]
  BY <1>2 DEF Look
<1>4. now \in Nat
  BY <1>2 DEF BTypes, Times
<1>5. /\ Sound(b) /\ b.reg = br[w].reg /\ b.eligible = br[w].eligible /\ b.epoch = br[w].epoch
      /\ b.tickets \subseteq br[w].tickets /\ (b.state = "closed" <=> br[w].state = "closed")
  BY <1>2, <1>4, AdvancedSound, Zenon
<1> HIDE DEF b
<1>6. Fits(w, b)
  BY <1>5, Zenon DEF Fits
<1>7. att' \in [Attempts -> Positions] /\ \A o \in Attempts : att'[o].at # "idle" => att'[o].w \in Workers
  BY <1>1, <1>2, Zenon DEF BTypes
<1>8. starts' \in 0 .. MaxStarts
  BY <1>1, <1>2, Zenon DEF BTypes
<1>9. \A x \in Workers : \A k \in br'[x].tickets : att'[k.holder] = att[k.holder]
  BY <1>1, Zenon
<1>10. UNCHANGED <<now, listed, views>>
  BY <1>1, Zenon
<1> QED
  BY <1>3, <1>6, <1>7, <1>8, <1>9, <1>10, FitsKeeps, Zenon

(* Where the breakers and the attempts stay as they are. *)
LEMMA ViewKeeps ==
    ASSUME BInv, UNCHANGED <<br, att, starts>>, now' \in Times, now <= now', views' \in 0 .. MaxViews,
           listed' \in [Workers -> [reg : Nat, here : BOOLEAN, eligible : BOOLEAN]],
           \A w \in Workers : listed'[w].reg <= 1 + views'
    PROVE  BInv'
<1>1. BTypes /\ TicketsHaveHolders /\ EjectionCapped(br)
  BY DEF BInv
<1>2. now \in Nat /\ now' \in Nat /\ MaxCoolDown \in Nat
  BY <1>1, BreakersConstants DEF BTypes, Times
<1>3. ASSUME NEW w \in Workers PROVE Sound(br[w])'
  <2>1. Sound(br[w])
    BY <1>1, Zenon DEF BTypes
  <2>2. br[w].openUntil \in Nat /\ br[w].openUntil <= now + MaxCoolDown
    BY <2>1 DEF Sound, BreakerRecords
  <2>3. br[w].openUntil <= now' + MaxCoolDown
    BY <1>2, <2>2
  <2> QED
    BY <2>1, <2>3, Zenon DEF Sound
<1>4. BTypes'
  BY <1>1, <1>3, Zenon DEF BTypes
<1>5. TicketsHaveHolders'
  BY <1>1 DEF TicketsHaveHolders, Known
<1> QED
  BY <1>1, <1>4, <1>5, Zenon DEF BInv

LEMMA StoreViewKeeps ==
    ASSUME BInv, NEW w \in Workers, StoreView(w)
    PROVE  BInv'
<1>1. views < MaxViews /\ views' = views + 1 /\ UNCHANGED <<now, br, att, starts>>
  BY Zenon DEF StoreView
<1>2. /\ listed \in [Workers -> [reg : Nat, here : BOOLEAN, eligible : BOOLEAN]]
      /\ \A x \in Workers : listed[x].reg <= 1 + views
      /\ views \in 0 .. MaxViews /\ now \in Times /\ MaxViews \in Nat
  BY BreakersConstants DEF BInv, BTypes
<1>3. views' \in 0 .. MaxViews /\ now' \in Times /\ now <= now'
  BY <1>1, <1>2 DEF Times
<1>4. PICK e \in [reg : Nat, here : BOOLEAN, eligible : BOOLEAN] :
        listed' = [listed EXCEPT ![w] = e] /\ e.reg <= listed[w].reg + 1
  <2>1. listed[w] \in [reg : Nat, here : BOOLEAN, eligible : BOOLEAN] /\ listed[w].reg \in Nat
    BY <1>2
  <2>2. CASE listed' = [listed EXCEPT ![w].here = FALSE, ![w].eligible = FALSE]
    <3> DEFINE e == [listed[w] EXCEPT !.here = FALSE, !.eligible = FALSE]
    <3>1. listed' = [listed EXCEPT ![w] = e]
      BY <2>2, Zenon
    <3>2. e \in [reg : Nat, here : BOOLEAN, eligible : BOOLEAN] /\ e.reg = listed[w].reg
      BY <2>1, Zenon
    <3> HIDE DEF e
    <3>3. e.reg <= listed[w].reg + 1
      BY <2>1, <3>2
    <3> QED
      BY <3>1, <3>2, <3>3, Zenon
  <2>3. CASE listed' = [listed EXCEPT ![w] = [reg |-> @.reg + 1, here |-> TRUE, eligible |-> TRUE]]
    <3> DEFINE e == [reg |-> listed[w].reg + 1, here |-> TRUE, eligible |-> TRUE]
    <3>1. listed' = [listed EXCEPT ![w] = e]
      BY <2>3
    <3>2. e \in [reg : Nat, here : BOOLEAN, eligible : BOOLEAN] /\ e.reg <= listed[w].reg + 1
      BY <2>1
    <3> QED
      BY <3>1, <3>2, Zenon
  <2>4. CASE listed' = [listed EXCEPT ![w].eligible = TRUE]
    <3> DEFINE e == [listed[w] EXCEPT !.eligible = TRUE]
    <3>1. listed' = [listed EXCEPT ![w] = e]
      BY <2>4
    <3>2. e \in [reg : Nat, here : BOOLEAN, eligible : BOOLEAN] /\ e.reg = listed[w].reg
      BY <2>1, Zenon
    <3> HIDE DEF e
    <3>3. e.reg <= listed[w].reg + 1
      BY <2>1, <3>2
    <3> QED
      BY <3>1, <3>2, <3>3, Zenon
  <2> QED
    BY <2>2, <2>3, <2>4, Zenon DEF StoreView
<1>5. listed' \in [Workers -> [reg : Nat, here : BOOLEAN, eligible : BOOLEAN]]
  BY <1>2, <1>4
<1>6. ASSUME NEW x \in Workers PROVE listed'[x].reg <= 1 + views'
  <2>1. listed[x].reg \in Nat /\ listed[x].reg <= 1 + views /\ listed[w].reg \in Nat /\ listed[w].reg <= 1 + views
    BY <1>2
  <2>2. CASE x = w
    <3>1. listed'[x].reg = e.reg /\ e.reg \in Nat
      BY <1>2, <1>4, <2>2
    <3> QED
      BY <1>1, <1>2, <1>4, <2>1, <3>1
  <2>3. CASE x # w
    <3>1. listed'[x].reg = listed[x].reg
      BY <1>2, <1>4, <2>3
    <3> QED
      BY <1>1, <1>2, <2>1, <3>1
  <2> QED
    BY <2>2, <2>3, Zenon
<1> QED
  BY <1>1, <1>3, <1>5, <1>6, ViewKeeps, Zenon

LEMMA AgeKeeps ==
    ASSUME BInv, NEW w \in Workers, Age(w)
    PROVE  BInv'
<1>1. /\ listed' = [listed EXCEPT ![w].eligible = FALSE] /\ UNCHANGED <<now, br, att, starts, views>>
  BY Zenon DEF Age
<1>2. /\ listed \in [Workers -> [reg : Nat, here : BOOLEAN, eligible : BOOLEAN]]
      /\ \A x \in Workers : listed[x].reg <= 1 + views
      /\ views \in 0 .. MaxViews /\ now \in Times
  BY Zenon DEF BInv, BTypes
<1>3. views' \in 0 .. MaxViews /\ now' \in Times /\ now <= now'
  BY <1>1, <1>2 DEF Times
<1>4. listed' \in [Workers -> [reg : Nat, here : BOOLEAN, eligible : BOOLEAN]]
  BY <1>1, <1>2, Zenon
<1>5. \A x \in Workers : listed'[x].reg = listed[x].reg
  BY <1>1, <1>2
<1>6. \A x \in Workers : listed'[x].reg <= 1 + views'
  BY <1>1, <1>2, <1>5, Zenon
<1> QED
  BY <1>1, <1>3, <1>4, <1>6, ViewKeeps, Zenon

LEMMA TickKeeps ==
    ASSUME BInv, Tick
    PROVE  BInv'
<1>1. now < MaxTime /\ now' = now + 1 /\ UNCHANGED <<br, listed, att, starts, views>>
  BY Zenon DEF Tick
<1>2. /\ listed \in [Workers -> [reg : Nat, here : BOOLEAN, eligible : BOOLEAN]]
      /\ \A x \in Workers : listed[x].reg <= 1 + views
      /\ views \in 0 .. MaxViews /\ now \in Times
  BY Zenon DEF BInv, BTypes
<1>3. now' \in Times /\ now <= now'
  BY <1>1, <1>2, BreakersConstants DEF Times
<1>4. /\ listed' \in [Workers -> [reg : Nat, here : BOOLEAN, eligible : BOOLEAN]]
      /\ \A x \in Workers : listed'[x].reg <= 1 + views' /\ views' \in 0 .. MaxViews
  BY <1>1, <1>2, Zenon
<1>5. views' \in 0 .. MaxViews
  BY <1>1, <1>2, Zenon
<1> QED
  BY <1>1, <1>3, <1>4, <1>5, ViewKeeps, Zenon

-----------------------------------------------------------------------------
(* Sync *)

(* The order enforceCap relaxes in. *)
LEMMA BeforeOrder ==
    ASSUME NEW bs, \A x \in Workers : bs[x].ejectedAt \in Nat,
           NEW u \in Workers, NEW v \in Workers, NEW w \in Workers
    PROVE  /\ ~EjectedBefore(bs, u, u)
           /\ EjectedBefore(bs, u, v) /\ EjectedBefore(bs, v, w) => EjectedBefore(bs, u, w)
           /\ u # v => EjectedBefore(bs, u, v) \/ EjectedBefore(bs, v, u)
<1>1. u \in Nat /\ v \in Nat /\ w \in Nat
  BY BreakersConstants, Zenon
<1> DEFINE x == bs[u].ejectedAt
           y == bs[v].ejectedAt
           z == bs[w].ejectedAt
<1>2. x \in Nat /\ y \in Nat /\ z \in Nat
  BY Zenon
<1> HIDE DEF x, y, z
<1>3. /\ ~(x < x \/ (x = x /\ u < u))
      /\ (x < y \/ (x = y /\ u < v)) /\ (y < z \/ (y = z /\ v < w)) => (x < z \/ (x = z /\ u < w))
      /\ u # v => (x < y \/ (x = y /\ u < v)) \/ (y < x \/ (y = x /\ v < u))
  BY <1>1, <1>2
<1> QED
  BY <1>3, Zenon DEF EjectedBefore, x, y, z

Elders(bs, w) == {o \in Ejected(bs, WorkerModel[w]) : EjectedBefore(bs, o, w)}

LEMMA EldersFinite ==
    ASSUME NEW bs, NEW w
    PROVE  IsFiniteSet(Elders(bs, w)) /\ Cardinality(Elders(bs, w)) \in Nat
<1>1. Elders(bs, w) \subseteq Ejected(bs, WorkerModel[w])
  BY Zenon DEF Elders
<1>2. IsFiniteSet(Elders(bs, w))
  BY <1>1, ModelSetsFinite, FS_Subset, Zenon
<1> QED
  BY <1>2, FS_CardinalityType, Zenon

(* Whoever was ejected later has more elders. *)
LEMMA LaterHasMore ==
    ASSUME NEW bs, \A x \in Workers : bs[x].ejectedAt \in Nat, NEW m,
           NEW w \in Ejected(bs, m), NEW x \in Ejected(bs, m), EjectedBefore(bs, w, x)
    PROVE  Cardinality(Elders(bs, w)) + 1 <= Cardinality(Elders(bs, x))
<1>1. w \in Workers /\ x \in Workers /\ WorkerModel[w] = m /\ WorkerModel[x] = m /\ Ejected(bs, m) \subseteq Workers
  BY Zenon DEF Ejected, Eligible
<1> DEFINE V == Elders(bs, w)
           X == Elders(bs, x)
<1>2. w \notin V /\ V \cup {w} \subseteq X
  <2>1. w \notin V
    BY <1>1, BeforeOrder, Zenon DEF Elders
  <2>2. ASSUME NEW o \in V PROVE o \in X
    <3>1. o \in Ejected(bs, m) /\ o \in Workers /\ EjectedBefore(bs, o, w)
      BY <1>1, <2>2, Zenon DEF Elders
    <3>2. EjectedBefore(bs, o, x)
      BY <1>1, <3>1, BeforeOrder, Zenon
    <3> QED
      BY <1>1, <3>1, <3>2, Zenon DEF Elders
  <2>3. w \in X
    BY <1>1, Zenon DEF Elders
  <2> QED
    BY <2>1, <2>2, <2>3, Zenon
<1>3. IsFiniteSet(V) /\ IsFiniteSet(X)
  BY EldersFinite, Zenon
<1> HIDE DEF V, X
<1>4. IsFiniteSet(V \cup {w}) /\ Cardinality(V \cup {w}) = Cardinality(V) + 1
  BY <1>2, <1>3, FS_AddElement, Zenon
<1>5. Cardinality(V \cup {w}) <= Cardinality(X)
  BY <1>2, <1>3, FS_Subset, Zenon
<1> QED
  BY <1>4, <1>5, Zenon DEF V, X

(* Those with fewer than n elders are at most n. *)
LEMMA FewOldest ==
    ASSUME NEW bs, \A x \in Workers : bs[x].ejectedAt \in Nat, NEW m, NEW n \in Nat
    PROVE  Cardinality({w \in Ejected(bs, m) : Cardinality(Elders(bs, w)) < n}) <= n
<1> DEFINE S == {w \in Ejected(bs, m) : Cardinality(Elders(bs, w)) < n}
           C(w) == Cardinality(Elders(bs, w))
           R == {n - C(w) : w \in S}
<1>1. S \subseteq Ejected(bs, m) /\ Ejected(bs, m) \subseteq Workers /\ IsFiniteSet(S) /\ Cardinality(S) \in Nat
  <2>1. S \subseteq Ejected(bs, m) /\ Ejected(bs, m) \subseteq Workers
    BY Zenon DEF Ejected, Eligible
  <2>2. IsFiniteSet(S)
    BY <2>1, ModelSetsFinite, FS_Subset, Zenon
  <2> QED
    BY <2>1, <2>2, FS_CardinalityType, Zenon
<1>2. CASE S = {}
  <2>1. Cardinality(S) = 0
    BY <1>2, FS_EmptySet, Zenon
  <2> QED
    BY <2>1
<1>3. CASE S # {}
  <2>1. \A w \in S : C(w) \in Nat /\ C(w) < n
    BY EldersFinite, Zenon
  <2> HIDE DEF C
  <2>2. \A w \in S : n - C(w) \in Nat
    BY <2>1
  <2>3. R \subseteq Nat /\ R # {}
    BY <1>3, <2>2, Zenon
  <2> HIDE DEF R
  <2>4. PICK r \in R : \A q \in R : r <= q
    BY <2>3, LeastOfNats, Zenon
  <2>5. PICK w \in S : r = n - C(w)
    BY <2>4, Zenon DEF R
  <2>6. \A x \in S : n - C(w) <= n - C(x)
    BY <2>4, <2>5, Zenon DEF R
  <2>7. S \subseteq Elders(bs, w) \cup {w}
    <3> SUFFICES ASSUME NEW x \in S, x # w PROVE x \in Elders(bs, w)
      BY Zenon
    <3>1. w \in Ejected(bs, m) /\ x \in Ejected(bs, m) /\ w \in Workers /\ x \in Workers /\ WorkerModel[w] = m
      BY <1>1, <2>5, Zenon DEF Ejected, Eligible
    <3>2. CASE EjectedBefore(bs, x, w)
      BY <3>1, <3>2, Zenon DEF Elders
    <3>3. CASE EjectedBefore(bs, w, x)
      <4>1. C(w) + 1 <= C(x)
        BY <3>1, <3>3, LaterHasMore, Zenon DEF C
      <4>2. n - C(w) <= n - C(x) /\ C(w) \in Nat /\ C(x) \in Nat
        BY <2>1, <2>5, <2>6, Zenon
      <4> QED
        BY <4>1, <4>2
    <3> QED
      BY <3>1, <3>2, <3>3, BeforeOrder, Zenon
  <2>8. IsFiniteSet(Elders(bs, w)) /\ w \notin Elders(bs, w)
    <3>1. w \in Workers
      BY <1>1, <2>5, Zenon
    <3> QED
      BY <3>1, EldersFinite, BeforeOrder, Zenon DEF Elders
  <2>9. IsFiniteSet(Elders(bs, w) \cup {w}) /\ Cardinality(Elders(bs, w) \cup {w}) = C(w) + 1
    BY <2>8, FS_AddElement, Zenon DEF C
  <2>10. Cardinality(S) <= C(w) + 1
    BY <2>7, <2>9, FS_Subset, Zenon
  <2> HIDE DEF S
  <2>11. C(w) \in Nat /\ C(w) < n
    BY <2>1, <2>5, Zenon
  <2> QED
    BY <1>1, <2>10, <2>11 DEF S
<1> QED
  BY <1>2, <1>3, Zenon

Kept(w) == IF br[w].reg = listed[w].reg THEN br[w] ELSE NewBreaker(listed[w].reg)

(* The breakers once they are told the view, before the cap is enforced. *)
Told == [w \in Workers |-> IF listed[w].here THEN [Kept(w) EXCEPT !.eligible = listed[w].eligible] ELSE NewBreaker(0)]

LEMMA SyncShape ==
    ASSUME Sync
    PROVE  /\ br' = [w \in Workers |-> IF w \in Relaxed(Told) THEN Shut(Told[w]) ELSE Told[w]]
           /\ UNCHANGED <<now, listed, att, starts, views>>
BY Zenon DEF Sync, Told, Kept

(* Only a breaker of the worker's own registration keeps its past. *)
LEMMA ToldBreakers ==
    ASSUME BInv, NEW w \in Workers
    PROVE  /\ Sound(Told[w])
           /\ Told[w].eligible => listed[w].here /\ Told[w].reg = listed[w].reg
           /\ listed[w].here /\ br[w].reg = listed[w].reg =>
                /\ Told[w].reg = br[w].reg /\ Told[w].state = br[w].state /\ Told[w].tickets = br[w].tickets
                /\ Told[w].epoch = br[w].epoch /\ Told[w].ejectedAt = br[w].ejectedAt
           /\ Told[w].state # "closed" \/ Told[w].tickets # {} => listed[w].here /\ br[w].reg = listed[w].reg
<1>1. BTypes
  BY DEF BInv
<1>2. /\ now \in Nat /\ Sound(br[w]) /\ listed[w] \in [reg : Nat, here : BOOLEAN, eligible : BOOLEAN]
      /\ listed[w].reg <= 1 + views /\ views \in 0 .. MaxViews /\ MaxViews \in Nat
  BY <1>1, BreakersConstants DEF BTypes, Times
<1>3. listed[w].reg \in Nat /\ listed[w].reg <= 1 + MaxViews /\ listed[w].eligible \in BOOLEAN
  BY <1>2
<1>4. CASE ~listed[w].here
  <2>1. Told[w] = NewBreaker(0)
    BY <1>4 DEF Told
  <2>2. 0 \in Nat /\ 0 <= 1 + MaxViews
    BY <1>2
  <2>3. /\ Sound(Told[w]) /\ ~Told[w].eligible /\ Told[w].tickets = {} /\ Told[w].state = "closed"
    <3>1. /\ Sound(NewBreaker(0)) /\ ~NewBreaker(0).eligible /\ NewBreaker(0).tickets = {}
          /\ NewBreaker(0).state = "closed"
      BY <1>2, <2>2, NewSound
    <3> QED
      BY <2>1, <3>1, Zenon
  <2> QED
    BY <1>4, <2>3, Zenon
<1>5. CASE listed[w].here /\ br[w].reg = listed[w].reg
  <2>1. Told[w] = [br[w] EXCEPT !.eligible = listed[w].eligible]
    BY <1>5 DEF Told, Kept
  <2>2. /\ Sound(Told[w]) /\ Told[w].reg = br[w].reg /\ Told[w].state = br[w].state /\ Told[w].tickets = br[w].tickets
        /\ Told[w].epoch = br[w].epoch /\ Told[w].ejectedAt = br[w].ejectedAt
    BY <1>2, <1>3, <2>1, ToldSound
  <2> QED
    BY <1>5, <2>2, Zenon
<1>6. CASE listed[w].here /\ br[w].reg # listed[w].reg
  <2> DEFINE b == NewBreaker(listed[w].reg)
  <2>1. Told[w] = [b EXCEPT !.eligible = listed[w].eligible]
    BY <1>6 DEF Told, Kept
  <2>2. Sound(b) /\ b.reg = listed[w].reg /\ b.tickets = {} /\ b.state = "closed"
    BY <1>2, <1>3, NewSound, Zenon
  <2> HIDE DEF b
  <2>3. /\ Sound(Told[w]) /\ Told[w].reg = listed[w].reg /\ Told[w].state = "closed" /\ Told[w].tickets = {}
    BY <1>3, <2>1, <2>2, ToldSound
  <2> QED
    BY <1>6, <2>3, Zenon
<1> QED
  BY <1>4, <1>5, <1>6, Zenon

(* enforceCap, on any breakers whose ejection times are times. *)
LEMMA RelaxedIs ==
    ASSUME NEW bs, NEW w \in Workers
    PROVE  w \in Relaxed(bs) <=>
             /\ w \in Ejected(bs, WorkerModel[w])
             /\ Cardinality(Elders(bs, w)) >= MaxOpen(Cardinality(Eligible(bs, WorkerModel[w])))
BY Zenon DEF Relaxed, Elders

LEMMA SyncedBreakers ==
    ASSUME BInv, Sync, NEW w \in Workers
    PROVE  /\ Sound(br'[w])
           /\ br'[w].reg = Told[w].reg /\ br'[w].eligible = Told[w].eligible
           /\ w \in Relaxed(Told) => br'[w].state = "closed" /\ br'[w].tickets = {}
           /\ w \notin Relaxed(Told) => br'[w] = Told[w]
<1>1. Sound(Told[w]) /\ now \in Nat
  BY ToldBreakers DEF BInv, BTypes, Times
<1>2. br'[w] = IF w \in Relaxed(Told) THEN Shut(Told[w]) ELSE Told[w]
  BY SyncShape
<1>3. /\ Sound(Shut(Told[w])) /\ Shut(Told[w]).reg = Told[w].reg /\ Shut(Told[w]).eligible = Told[w].eligible
      /\ Shut(Told[w]).tickets = {} /\ Shut(Told[w]).state = "closed"
  BY <1>1, ShutSound, Zenon
<1> QED
  BY <1>1, <1>2, <1>3, Zenon

LEMMA SyncKeeps ==
    ASSUME BInv, Sync
    PROVE  BInv'
<1>1. BTypes /\ TicketsHaveHolders
  BY DEF BInv
<1>2. UNCHANGED <<now, listed, att, starts, views>> /\ br' = [w \in Workers |-> br'[w]]
  BY SyncShape
<1>3. \A w \in Workers : Sound(br[w])'
  <2>1. \A w \in Workers : Sound(br'[w])
    BY SyncedBreakers, Zenon
  <2> QED
    BY <1>2, <2>1, Zenon DEF Sound
<1>4. BTypes'
  BY <1>1, <1>2, <1>3, Zenon DEF BTypes
<1>5. TicketsHaveHolders'
  <2> SUFFICES ASSUME NEW x \in Workers, NEW k \in br'[x].tickets
               PROVE  HeldBy(att'[k.holder], br'[x], x)
    BY HoldersAre, Zenon
  <2>1. br'[x] = Told[x]
    BY SyncedBreakers, Zenon
  <2>2. listed[x].here /\ br[x].reg = listed[x].reg
    BY <2>1, ToldBreakers, Zenon
  <2>3. br'[x].reg = br[x].reg /\ br'[x].tickets = br[x].tickets /\ br'[x].epoch = br[x].epoch
    BY <2>1, <2>2, ToldBreakers, Zenon
  <2>4. HeldBy(att[k.holder], br[x], x)
    BY <1>1, <2>3, HoldersAre, Zenon
  <2> QED
    BY <1>2, <2>3, <2>4, Zenon DEF HeldBy
<1>6. EjectionCapped(br')
  <2> SUFFICES ASSUME NEW m \in {WorkerModel[x] : x \in Workers}
               PROVE  Cardinality(Ejected(br', m)) <= MaxOpen(Cardinality(Eligible(br', m)))
    BY Zenon DEF EjectionCapped
  <2> DEFINE n == MaxOpen(Cardinality(Eligible(Told, m)))
             S == {w \in Ejected(Told, m) : Cardinality(Elders(Told, w)) < n}
  <2>1. Eligible(br', m) = Eligible(Told, m)
    BY SyncedBreakers, Zenon DEF Eligible
  <2>2. Ejected(br', m) \subseteq S
    <3> SUFFICES ASSUME NEW w \in Ejected(br', m) PROVE w \in S
      BY Zenon
    <3>1. w \in Workers /\ w \in Eligible(Told, m) /\ br'[w].state # "closed" /\ WorkerModel[w] = m
      BY <2>1, Zenon DEF Ejected, Eligible
    <3>2. w \notin Relaxed(Told) /\ br'[w] = Told[w]
      BY <3>1, SyncedBreakers, Zenon
    <3>3. w \in Ejected(Told, m)
      BY <3>1, <3>2, Zenon DEF Ejected
    <3>4. ~(Cardinality(Elders(Told, w)) >= n)
      BY <3>1, <3>2, <3>3, RelaxedIs, Zenon
    <3>5. Cardinality(Elders(Told, w)) \in Nat /\ n \in Nat
      BY EldersFinite, ModelSetsFinite, Zenon
    <3>6. Cardinality(Elders(Told, w)) < n
      <4> HIDE DEF n
      <4> QED
        BY <3>4, <3>5
    <3> QED
      BY <3>3, <3>6, Zenon
  <2>3. \A x \in Workers : Told[x].ejectedAt \in Nat
    BY ToldBreakers, Zenon DEF Sound, BreakerRecords
  <2>4. n \in Nat
    BY ModelSetsFinite, Zenon
  <2> HIDE DEF n
  <2>5. Cardinality(S) <= n
    BY <2>3, <2>4, FewOldest, Zenon
  <2>6. IsFiniteSet(S)
    <3>1. S \subseteq Ejected(Told, m)
      BY Zenon
    <3> QED
      BY <3>1, ModelSetsFinite, FS_Subset, Zenon
  <2>7. Cardinality(Ejected(br', m)) <= Cardinality(S) /\ Cardinality(S) \in Nat
    BY <2>2, <2>6, FS_Subset, FS_CardinalityType, Zenon
  <2>8. Cardinality(Ejected(br', m)) \in Nat
    BY ModelSetsFinite, Zenon
  <2> HIDE DEF S
  <2>9. Cardinality(Ejected(br', m)) <= n
    BY <2>4, <2>5, <2>7, <2>8
  <2> QED
    BY <2>1, <2>9, Zenon DEF n
<1> QED
  BY <1>4, <1>5, <1>6, Zenon DEF BInv, EjectionCapped

-----------------------------------------------------------------------------
(* Every step *)

LEMMA InitBInv ==
    ASSUME Init
    PROVE  BInv
<1>1. /\ now = 0 /\ starts = 0 /\ views = 0 /\ att = [a \in Attempts |-> Idle]
      /\ listed = [w \in Workers |-> [reg |-> 1, here |-> TRUE, eligible |-> TRUE]]
      /\ br = [w \in Workers |-> [NewBreaker(1) EXCEPT !.eligible = TRUE]]
  BY Zenon DEF Init
<1>2. MaxTime \in Nat /\ MaxStarts \in Nat /\ MaxViews \in Nat
  BY BreakersConstants
<1>3. now \in Times /\ now \in Nat /\ starts \in 0 .. MaxStarts /\ views \in 0 .. MaxViews
  BY <1>1, <1>2 DEF Times
<1>4. Sound(NewBreaker(1)) /\ NewBreaker(1).tickets = {} /\ NewBreaker(1).state = "closed"
  <2>1. 1 \in Nat /\ 1 <= 1 + MaxViews
    BY <1>2
  <2> QED
    BY <1>3, <2>1, NewSound, Zenon
<1>5. \A w \in Workers : Sound(br[w]) /\ br[w].tickets = {} /\ br[w].state = "closed"
  <2> DEFINE b == NewBreaker(1)
             c == [b EXCEPT !.eligible = TRUE]
  <2>1. \A w \in Workers : br[w] = c
    BY <1>1
  <2>2. Sound(b) /\ b.tickets = {} /\ b.state = "closed"
    BY <1>4, Zenon
  <2>3. c = [b EXCEPT !.eligible = TRUE] /\ TRUE \in BOOLEAN
    BY Zenon
  <2> HIDE DEF b, c
  <2>4. Sound(c) /\ c.tickets = {} /\ c.state = "closed"
    BY <2>2, <2>3, ToldSound, Zenon
  <2> QED
    BY <2>1, <2>4, Zenon
<1>6. /\ listed \in [Workers -> [reg : Nat, here : BOOLEAN, eligible : BOOLEAN]]
      /\ \A w \in Workers : listed[w].reg <= 1 + views
  BY <1>1
<1>7. /\ att \in [Attempts -> Positions] /\ \A a \in Attempts : att[a].at # "idle" => att[a].w \in Workers
  BY <1>1, IdlePosition
<1>8. br = [w \in Workers |-> br[w]]
  BY <1>1
<1>9. BTypes
  BY <1>3, <1>5, <1>6, <1>7, <1>8, Zenon DEF BTypes
<1>10. TicketsHaveHolders
  BY <1>5, Zenon DEF TicketsHaveHolders
<1>11. EjectionCapped(br)
  <2> SUFFICES ASSUME NEW m \in {WorkerModel[x] : x \in Workers}
               PROVE  Cardinality(Ejected(br, m)) <= MaxOpen(Cardinality(Eligible(br, m)))
    BY Zenon DEF EjectionCapped
  <2>1. Ejected(br, m) = {}
    BY <1>5, Zenon DEF Ejected, Eligible
  <2>2. Cardinality(Ejected(br, m)) = 0
    BY <2>1, FS_EmptySet, Zenon
  <2>3. MaxOpen(Cardinality(Eligible(br, m))) \in Nat
    BY ModelSetsFinite, Zenon
  <2> QED
    BY <2>2, <2>3
<1> QED
  BY <1>9, <1>10, <1>11, Zenon DEF BInv

LEMMA AttemptStepKeeps ==
    ASSUME BInv, NEW a \in Attempts, AttemptStep(a)
    PROVE  BInv'
<1>1. \A reg \in 1 .. 1 + MaxViews : reg \in Nat
  BY BreakersConstants
<1>2. CASE \E w \in Workers, reg \in 1 .. 1 + MaxViews : Acquire(a, w, reg)
  BY <1>1, <1>2, AcquireKeeps, Zenon
<1>3. CASE Release(a)
  BY <1>3, ReleaseKeeps, Zenon
<1>4. CASE \E v \in {"fault", "ratio_fault", "neutral"} : Fails(a, v)
  <2>1. PICK v \in {"fault", "ratio_fault", "neutral"} : Fails(a, v)
    BY <1>4, Zenon
  <2> QED
    BY <2>1, FailsKeeps, Zenon
<1>5. CASE SeesFirstByte(a)
  BY <1>5, SeesFirstByteKeeps, Zenon
<1>6. CASE RecordsOK(a)
  BY <1>6, RecordsOKKeeps, Zenon
<1>7. CASE StreamEnds(a)
  BY <1>7, StreamEndsKeeps, Zenon
<1>8. CASE StreamBreaks(a)
  BY <1>8, StreamBreaksKeeps, Zenon
<1> QED
  BY <1>2, <1>3, <1>4, <1>5, <1>6, <1>7, <1>8, Zenon DEF AttemptStep

LEMMA NextKeepsBInv ==
    ASSUME BInv, [Next]_vars
    PROVE  BInv'
<1>1. CASE \E a \in Attempts : AttemptStep(a)
  BY <1>1, AttemptStepKeeps, Zenon
<1>2. CASE \E w \in Workers : Look(w) \/ StoreView(w) \/ Age(w)
  BY <1>2, LookKeeps, StoreViewKeeps, AgeKeeps, Zenon
<1>3. CASE Sync
  BY <1>3, SyncKeeps, Zenon
<1>4. CASE Tick
  BY <1>4, TickKeeps, Zenon
<1>5. CASE UNCHANGED vars
  <2>1. UNCHANGED <<now, br, listed, att, starts, views>>
    BY <1>5, Zenon DEF vars
  <2>2. /\ listed \in [Workers -> [reg : Nat, here : BOOLEAN, eligible : BOOLEAN]]
        /\ \A x \in Workers : listed[x].reg <= 1 + views
        /\ views \in 0 .. MaxViews /\ now \in Times
    BY Zenon DEF BInv, BTypes
  <2>3. /\ listed' \in [Workers -> [reg : Nat, here : BOOLEAN, eligible : BOOLEAN]]
        /\ \A x \in Workers : listed'[x].reg <= 1 + views'
    BY <2>1, <2>2, Zenon
  <2>4. views' \in 0 .. MaxViews /\ now' \in Times /\ now <= now'
    BY <2>1, <2>2 DEF Times
  <2> QED
    BY <2>1, <2>3, <2>4, ViewKeeps, Zenon
<1> QED
  BY <1>1, <1>2, <1>3, <1>4, <1>5, Zenon DEF Next

LEMMA BInvMeans ==
    ASSUME BInv
    PROVE  TicketsKept /\ EjectionCapped(br)
<1>1. BTypes /\ TicketsHaveHolders /\ EjectionCapped(br)
  BY DEF BInv
<1>2. ASSUME NEW w \in Workers
      PROVE  /\ br[w].reg \in 0 .. 1 + MaxViews /\ br[w].state \in {"closed", "half_open", "open"}
             /\ br[w].level \in 0 .. MaxLevel /\ Len(br[w].streak) <= ConsecutiveFailures
             /\ br[w].openUntil <= now + MaxCoolDown /\ Cardinality(br[w].tickets) <= ProbeConcurrency
             /\ br[w].successes < ProbeSuccesses
  <2>1. Sound(br[w])
    BY <1>1, Zenon DEF BTypes
  <2> QED
    BY <2>1, BreakersConstants, MaxLevelType DEF Sound, BreakerRecords
<1>3. \A a \in Attempts : att[a].at \in {"idle", "sent", "ok", "relaying"}
  BY <1>1 DEF BTypes, Positions
<1>4. TypeOK
  BY <1>1, <1>2, <1>3, Zenon DEF TypeOK, BTypes
<1> QED
  BY <1>1, <1>4, Zenon DEF TicketsKept

(* What Sync closes was ejected no earlier than what it leaves ejected. *)
LEMMA SyncRelaxesNewest ==
    ASSUME BInv, Sync, NEW w \in Workers, NEW o \in Workers,
           br[w].state # "closed", br'[w].state = "closed", br'[w].reg = br[w].reg, br'[w].eligible,
           o \in Ejected(br', WorkerModel[w])
    PROVE  br[o].ejectedAt <= br[w].ejectedAt
<1> DEFINE m == WorkerModel[w]
<1>1. listed[w].here /\ br[w].reg = listed[w].reg
  BY SyncedBreakers, ToldBreakers, Zenon
<1>2. Told[w].state = br[w].state /\ Told[w].ejectedAt = br[w].ejectedAt /\ Told[w].reg = br[w].reg
  BY <1>1, ToldBreakers, Zenon
<1>3. w \in Relaxed(Told)
  BY <1>2, SyncedBreakers, Zenon
<1>4. br'[o].state # "closed" /\ WorkerModel[o] = m /\ br'[o].reg > 0 /\ br'[o].eligible
  BY Zenon DEF Ejected, Eligible
<1>5. o \notin Relaxed(Told) /\ br'[o] = Told[o]
  BY <1>4, SyncedBreakers, Zenon
<1>6. Told[o].ejectedAt = br[o].ejectedAt
  BY <1>4, <1>5, ToldBreakers, Zenon
<1>7. w \in Ejected(Told, m) /\ o \in Ejected(Told, m)
  <2>1. w \in Ejected(Told, m)
    BY <1>3, RelaxedIs, Zenon
  <2>2. o \in Ejected(Told, m)
    BY <1>4, <1>5, Zenon DEF Ejected, Eligible
  <2> QED
    BY <2>1, <2>2, Zenon
<1> DEFINE n == MaxOpen(Cardinality(Eligible(Told, m)))
           cw == Cardinality(Elders(Told, w))
           co == Cardinality(Elders(Told, o))
<1>8. cw >= n /\ ~(co >= n) /\ cw \in Nat /\ co \in Nat /\ n \in Nat
  <2>1. cw >= n
    BY <1>3, RelaxedIs, Zenon
  <2>2. ~(co >= n)
    BY <1>4, <1>5, <1>7, RelaxedIs, Zenon
  <2> QED
    BY <2>1, <2>2, EldersFinite, ModelSetsFinite, Zenon
<1>9. \A x \in Workers : Told[x].ejectedAt \in Nat
  BY ToldBreakers, Zenon DEF Sound, BreakerRecords
<1>10. ~EjectedBefore(Told, w, o)
  <2> SUFFICES ASSUME EjectedBefore(Told, w, o) PROVE FALSE
    BY Zenon
  <2>1. cw + 1 <= co
    BY <1>7, <1>9, LaterHasMore, Zenon
  <2> HIDE DEF cw, co, n
  <2> QED
    BY <1>8, <2>1
<1>11. ~(Told[w].ejectedAt < Told[o].ejectedAt)
  BY <1>10, Zenon DEF EjectedBefore
<1>12. Told[w].ejectedAt \in Nat /\ Told[o].ejectedAt \in Nat
  BY <1>9, Zenon
<1> QED
  BY <1>2, <1>6, <1>11, <1>12

Relaxes(w, o) ==
    LET relaxed == br[w].state # "closed" /\ br'[w].state = "closed" /\ br'[w].reg = br[w].reg /\ br'[w].eligible
        stays == o \in Ejected(br', WorkerModel[w])
        synced == UNCHANGED att
    IN  synced /\ relaxed /\ stays => br[o].ejectedAt <= br[w].ejectedAt

(* Every step of an attempt moves it. *)
LEMMA AttemptMoves ==
    ASSUME BInv, NEW a \in Attempts, AttemptStep(a)
    PROVE  att' # att
<1>1. att \in [Attempts -> Positions]
  BY Zenon DEF BInv, BTypes
<1>2. \E p : p.at # att[a].at /\ att' = [att EXCEPT ![a] = p]
  <2>1. CASE \E w \in Workers, reg \in 1 .. 1 + MaxViews : Acquire(a, w, reg)
    BY <2>1, Zenon DEF Acquire
  <2>2. CASE Release(a) \/ (\E v \in {"fault", "ratio_fault", "neutral"} : Fails(a, v)) \/ StreamEnds(a) \/ StreamBreaks(a)
    <3>1. att[a].at \in {"sent", "relaying"} /\ att' = [att EXCEPT ![a] = Idle]
      BY <2>2, Zenon DEF Release, Fails, StreamEnds, StreamBreaks
    <3>2. Idle.at # att[a].at
      BY <3>1, IdlePosition
    <3> QED
      BY <3>1, <3>2, Zenon
  <2>3. CASE SeesFirstByte(a)
    <3> DEFINE p == [att[a] EXCEPT !.at = "ok", !.okAt = now]
    <3>1. att' = [att EXCEPT ![a] = p] /\ att[a].at = "sent"
      BY <2>3, Zenon DEF SeesFirstByte
    <3>2. p.at = "ok"
      BY <1>1 DEF Positions
    <3> HIDE DEF p
    <3>3. p.at # att[a].at
      BY <3>1, <3>2
    <3> QED
      BY <3>1, <3>3, Zenon
  <2>4. CASE RecordsOK(a)
    <3> DEFINE p == [att[a] EXCEPT !.at = "relaying"]
    <3>1. att' = [att EXCEPT ![a] = p] /\ att[a].at = "ok"
      BY <2>4 DEF RecordsOK
    <3>2. p.at = "relaying"
      BY <1>1 DEF Positions
    <3> HIDE DEF p
    <3>3. p.at # att[a].at
      BY <3>1, <3>2
    <3> QED
      BY <3>1, <3>3, Zenon
  <2> QED
    BY <2>1, <2>2, <2>3, <2>4, Zenon DEF AttemptStep
<1>3. PICK p : p.at # att[a].at /\ att' = [att EXCEPT ![a] = p]
  BY <1>2, Zenon
<1>4. att'[a] = p
  BY <1>1, <1>3
<1> QED
  BY <1>3, <1>4, Zenon

LEMMA NextRelaxes ==
    ASSUME BInv, [Next]_vars, NEW w \in Workers, NEW o \in Workers
    PROVE  Relaxes(w, o)
<1> SUFFICES ASSUME UNCHANGED att, br[w].state # "closed", br'[w].state = "closed",
                    br'[w].reg = br[w].reg, br'[w].eligible, o \in Ejected(br', WorkerModel[w])
             PROVE  br[o].ejectedAt <= br[w].ejectedAt
  BY Zenon DEF Relaxes
<1>1. CASE \E a \in Attempts : AttemptStep(a)
  BY <1>1, AttemptMoves, Zenon
<1>2. CASE \E x \in Workers : Look(x)
  <2>1. PICK x \in Workers : Look(x)
    BY <1>2, Zenon
  <2>2. br = [y \in Workers |-> br[y]] /\ Sound(br[w]) /\ now \in Nat
    BY DEF BInv, BTypes, Times
  <2>3. br'[w] = br[w] \/ br'[w] = Advanced(br[w])
    BY <2>1, <2>2 DEF Look
  <2>4. Advanced(br[w]).state = "closed" <=> br[w].state = "closed"
    BY <2>2, AdvancedSound, Zenon
  <2> QED
    BY <2>3, <2>4, Zenon
<1>3. CASE Sync
  BY <1>3, SyncRelaxesNewest, Zenon
<1>4. CASE (\E x \in Workers : StoreView(x) \/ Age(x)) \/ Tick \/ UNCHANGED vars
  <2>1. br' = br
    BY <1>4, Zenon DEF StoreView, Age, Tick, vars
  <2> QED
    BY <2>1, Zenon
<1> QED
  BY <1>1, <1>2, <1>3, <1>4, Zenon DEF Next

(* Every breaker stays within its limits, and a probe ticket that is out   *)
(* is with an attempt waiting for its verdict, of the same registration    *)
(* and opening: Acquire, Record, Release and Sync lose none.               *)
THEOREM TicketsAlwaysKept == Spec => []TicketsKept
<1>1. Init => BInv
  BY InitBInv
<1>2. BInv /\ [Next]_vars => BInv'
  BY NextKeepsBInv
<1>3. BInv => TicketsKept
  BY BInvMeans
<1> QED
  BY <1>1, <1>2, <1>3, PTL DEF Spec

(* countClosed and enforceCap: no more than max_open_fraction of a model's *)
(* eligible workers are ever ejected, and what a sync relaxes to keep that *)
(* is the newest ejection.                                                 *)
THEOREM CapAlwaysKept == Spec => CapKept
<1>1. Init => BInv
  BY InitBInv
<1>2. BInv /\ [Next]_vars => BInv'
  BY NextKeepsBInv
<1>3. BInv => EjectionCapped(br)
  BY BInvMeans
<1>4. BInv /\ [Next]_vars => \A w, o \in Workers : Relaxes(w, o)
  BY NextRelaxes
<1>5. Spec => [][\A w, o \in Workers : Relaxes(w, o)]_vars
  BY <1>1, <1>2, <1>4, PTL DEF Spec
<1>6. NewestRelaxedFirst <=> [][\A w, o \in Workers : Relaxes(w, o)]_vars
  BY DEF NewestRelaxedFirst, Relaxes
<1> QED
  BY <1>1, <1>2, <1>3, <1>5, <1>6, PTL DEF Spec, CapKept
=============================================================================
