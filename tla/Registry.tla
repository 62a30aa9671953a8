------------------------------ MODULE Registry ------------------------------
(* The worker registry (internal/registry/registry.go): who is registered, *)
(* what each worker last reported, and how old that report is.  Every      *)
(* method runs under the registry's mutex and is one action.  Time is the  *)
(* age of each report, which stops counting once the report is old enough  *)
(* to be evicted.                                                          *)
EXTENDS Integers, FiniteSets

CONSTANTS IDs,                      \* worker IDs
          MaxWorkers,
          Suspect, Unhealthy, Lost, \* heartbeat ages, in ticks
          Retention,
          SuspectEligible,
          MaxRegs                   \* bound: registrations ever issued

ASSUME ConfigValid ==
    /\ IsFiniteSet(IDs)
    /\ MaxWorkers \in Nat \ {0}
    /\ Suspect \in Nat \ {0} /\ Unhealthy \in Nat /\ Lost \in Nat
    /\ Suspect < Unhealthy /\ Unhealthy < Lost
    /\ Retention \in Nat \ {0}
    /\ SuspectEligible \in BOOLEAN
    /\ MaxRegs \in Nat

VARIABLES workers,  \* worker ID -> its entry; reg = 0 when there is none
          lastReg,  \* registration IDs are fresh: here, numbered
          drains    \* history: registrations that reported DRAINING

registryVars == <<workers, lastReg, drains>>

States == {"REGISTERING", "LOADING_MODEL", "WARMING", "READY", "DRAINING", "FAILED"}
MaxAge == Lost + Retention + 1

Entries == [reg : 0 .. MaxRegs, state : States, drained : BOOLEAN, age : 0 .. MaxAge]

NewEntry(reg) == [reg |-> reg, state |-> "REGISTERING", drained |-> FALSE, age |-> 0]
NoEntry == NewEntry(0)

Init ==
    /\ workers = [id \in IDs |-> NoEntry]
    /\ lastReg = 0
    /\ drains = {}

-----------------------------------------------------------------------------
(* Judging an entry *)

(* Which report may follow which, judged on that one step. *)
CanTransition(from, next) ==
    CASE from = "REGISTERING"              -> TRUE
      [] from \in {"LOADING_MODEL", "FAILED"} -> next # "REGISTERING"
      [] from = "WARMING"  -> next \in {"WARMING", "READY", "DRAINING", "FAILED"}
      [] from = "READY"    -> next \in {"READY", "DRAINING", "FAILED"}
      [] from = "DRAINING" -> next \in {"DRAINING", "FAILED"}

Health(age) ==
    CASE age > Lost -> "lost"
      [] age > Unhealthy /\ age <= Lost -> "unhealthy"
      [] age >= Suspect /\ age <= Unhealthy -> "suspect"
      [] age < Suspect -> "healthy"

(* What the registry offers to gateways. *)
Eligible(e) ==
    /\ e.reg # 0
    /\ e.state = "READY"
    /\ \/ Health(e.age) = "healthy"
       \/ Health(e.age) = "suspect" /\ SuspectEligible

Expired(e) == e.reg # 0 /\ e.age > Lost + Retention

Evicted(ws) == [id \in IDs |-> IF Expired(ws[id]) THEN NoEntry ELSE ws[id]]

Registered(ws) == {id \in IDs : ws[id].reg # 0}

-----------------------------------------------------------------------------
(* Operations *)

(* What register starts from: a new ID at the limit evicts first. *)
RoomMade(id) ==
    IF workers[id].reg = 0 /\ Cardinality(Registered(workers)) >= MaxWorkers
    THEN Evicted(workers)
    ELSE workers

Full(id) ==
    workers[id].reg = 0 /\ Cardinality(Registered(RoomMade(id))) >= MaxWorkers

(* A new incarnation, which supersedes the previous one of the same ID. *)
Register(id) ==
    /\ ~Full(id)
    /\ lastReg < MaxRegs
    /\ lastReg' = lastReg + 1
    /\ workers' = [RoomMade(id) EXCEPT ![id] = NewEntry(lastReg + 1)]
    /\ UNCHANGED drains

(* ErrFull, after the evictions. *)
RegisterFull(id) ==
    /\ Full(id)
    /\ workers' = RoomMade(id)
    /\ UNCHANGED <<lastReg, drains>>

(* Mutant: the registration ID is not compared. *)
BeatResultAnyReg(id, reg, state) ==
    LET e == workers[id]
    IN  IF e.reg = 0 THEN "unknown"
        ELSE IF \/ ~CanTransition(e.state, state)
                \/ e.drained /\ state \notin {"DRAINING", "FAILED"}
             THEN "conflict"
        ELSE "ok"

(* The verdict on a heartbeat. *)
BeatResult(id, reg, state) ==
    LET e == workers[id]
    IN  IF e.reg = 0 THEN "unknown"
        ELSE IF e.reg # reg THEN "stale"
        ELSE IF \/ ~CanTransition(e.state, state)
                \/ e.drained /\ state \notin {"DRAINING", "FAILED"}
             THEN "conflict"
        ELSE "ok"

(* Mutant: drained follows the last report instead of sticking. *)
BeatForgetsDrain(e, state) ==
    [reg |-> e.reg, state |-> state, drained |-> (state = "DRAINING"), age |-> 0]

(* The entry after an accepted heartbeat. *)
Beaten(e, state) ==
    [reg |-> e.reg, state |-> state,
     drained |-> (e.drained \/ state = "DRAINING"), age |-> 0]

(* A rejected heartbeat is no proof of life and changes nothing. *)
Heartbeat(id, reg, state) ==
    /\ IF BeatResult(id, reg, state) = "ok"
       THEN /\ workers' = [workers EXCEPT ![id] = Beaten(@, state)]
            /\ drains' = IF state = "DRAINING" THEN drains \cup {reg} ELSE drains
       ELSE UNCHANGED <<workers, drains>>
    /\ UNCHANGED lastReg

DeregisterResult(id, reg) ==
    IF workers[id].reg = 0 THEN "unknown"
    ELSE IF workers[id].reg # reg THEN "stale" ELSE "ok"

Deregister(id, reg) ==
    /\ workers' = IF DeregisterResult(id, reg) = "ok"
                  THEN [workers EXCEPT ![id] = NoEntry] ELSE workers
    /\ UNCHANGED <<lastReg, drains>>

Sweep ==
    /\ workers' = Evicted(workers)
    /\ UNCHANGED <<lastReg, drains>>

(* Time passes without a report from id, which is n old in the end.  The   *)
(* clock is one for all, so ticks that come apart here only add behaviours.*)
Tick(id, n) ==
    /\ workers[id].reg # 0 /\ workers[id].age < n
    /\ workers' = [workers EXCEPT ![id].age = n]
    /\ UNCHANGED <<lastReg, drains>>

(* The control plane restarts with an empty registry; registration IDs are *)
(* random, so an old one is never issued again.                            *)
Restart ==
    /\ workers' = [id \in IDs |-> NoEntry]
    /\ UNCHANGED <<lastReg, drains>>

RegistryNext ==
    \/ \E id \in IDs : Register(id) \/ RegisterFull(id)
    \/ \E id \in IDs, reg \in 1 .. MaxRegs :
          \/ \E state \in States : Heartbeat(id, reg, state)
          \/ Deregister(id, reg)
    \/ \E id \in IDs, n \in 0 .. MaxAge : Tick(id, n)
    \/ Sweep \/ Restart

RegistrySpec == Init /\ [][RegistryNext]_registryVars

-----------------------------------------------------------------------------
(* Properties *)

(* Every entry is a record of its kind, and its registration was issued. *)
RegistryTypeOK ==
    /\ workers \in [IDs -> Entries]
    /\ lastReg \in 0 .. MaxRegs
    /\ \A id \in IDs : workers[id].reg <= lastReg
    /\ drains \subseteq 1 .. lastReg

(* MaxWorkers bounds the registry through supersessions, evictions at the  *)
(* limit and restarts (register).                                          *)
WorkersBounded == Cardinality(Registered(workers)) <= MaxWorkers

(* A drain is one-way for the whole incarnation, even through FAILED and   *)
(* whatever order its heartbeats arrive in (heartbeat): a registration     *)
(* that once reported DRAINING is never offered to a gateway again.        *)
DrainIsOneWay ==
    \A id \in IDs : workers[id].reg \in drains => ~Eligible(workers[id])
=============================================================================
