---------------------------- MODULE WorkerAgents ----------------------------
(* Worker agents (internal/worker/agent.go) that keep workers registered   *)
(* over a network that loses answers, loses calls, and carries calls out   *)
(* after their sender gave up (the registry's handlers do not look at the  *)
(* request's context).  An agent makes one call at a time; a step of the   *)
(* code is cut at its calls.  A restarted agent is another agent with the  *)
(* same worker ID.                                                         *)
EXTENDS Registry

CONSTANTS Agents,
          Reports,       \* the states a backend reports here
          Starts,        \* agent -> its worker ID and its backend's report
          MaxFaults,     \* bound: time-outs, crashes, restarts, stalls and
                         \* backend changes, together
          LateCalls      \* kinds of call that may be carried out after their sender left

ASSUME AgentsAssumption ==
    /\ Reports \subseteq States \ {"REGISTERING"}
    /\ Starts \subseteq [Agents -> [id : IDs, report : Reports]]
    /\ MaxFaults \in Nat
    /\ LateCalls \subseteq {"register", "beat", "deregister"}

VARIABLES agent,    \* agent -> the fields of Agent, and where it is
          backend,  \* agent -> what its backend would answer
          call,     \* agent -> the call it waits for
          late,     \* calls nobody waits for any more
          faults    \* how many faults there have been

agentVars == <<agent, backend, call, late, faults>>
vars == <<registryVars, agentVars>>

(* off: not started; idle: between steps; leave and gone: in Shutdown and  *)
(* after it.  A crashed or superseded agent is gone too.                   *)
Places == {"off", "idle", "register", "beat", "deregister",
           "leaveBeat", "leave", "gone"}
BadBackends == {"down", "unusable"}
NoCall == [kind |-> "none", reg |-> 0, state |-> "FAILED", answer |-> "none", got |-> 0]

AgentsInit ==
    /\ Init
    /\ \E s \in Starts :
          /\ agent = [p \in Agents |->
                        [id |-> s[p].id, at |-> "off", registered |-> FALSE,
                         superseded |-> FALSE, reg |-> 0, last |-> "REGISTERING",
                         seen |-> "FAILED"]]
          /\ backend = [p \in Agents |-> s[p].report]
    /\ call = [p \in Agents |-> NoCall]
    /\ late = {}
    /\ faults = 0

-----------------------------------------------------------------------------
(* The network and the control plane *)

Sent(kind, reg, state) == [NoCall EXCEPT !.kind = kind, !.reg = reg, !.state = state]

(* A handler of the control plane: the registry's operation, *)
Handle(id, c) ==
    \/ c.kind = "register" /\ (Register(id) \/ RegisterFull(id))
    \/ c.kind = "beat" /\ Heartbeat(id, c.reg, c.state)
    \/ c.kind = "deregister" /\ Deregister(id, c.reg)

(* and its answer. *)
AnswerTo(id, c) ==
    CASE c.kind = "register" -> IF Full(id) THEN "full" ELSE "ok"
      [] c.kind = "beat" -> BeatResult(id, c.reg, c.state)
      [] c.kind = "deregister" -> DeregisterResult(id, c.reg)

Pending(p) == call[p].kind # "none" /\ call[p].answer = "none"
Answered(p, a) == call[p].answer = a

Serve(p) ==
    LET answer == AnswerTo(agent[p].id, call[p])
    IN  /\ Pending(p)
        /\ Handle(agent[p].id, call[p])
        /\ call' = [call EXCEPT ![p].answer = answer,
                                ![p].got = IF call[p].kind = "register" /\ answer = "ok"
                                           THEN lastReg + 1 ELSE 0]
        /\ UNCHANGED <<agent, backend, late, faults>>

(* A call whose sender is gone. *)
ServeLate ==
    /\ \E l \in late :
          /\ Handle(agent[l.p].id, l.call)
          /\ late' = late \ {l}
    /\ UNCHANGED <<agent, backend, call, faults>>

(* The sender stops waiting: the call was lost, or its answer, or it is    *)
(* still on its way.                                                       *)
Abandoned(p) ==
    \/ late' = late
    \/ call[p].kind \in LateCalls /\ Pending(p) /\ late' = late \cup {[p |-> p, no |-> faults, call |-> call[p]]}

-----------------------------------------------------------------------------
(* The agent *)

Fault == faults < MaxFaults /\ faults' = faults + 1

Is(p, where) == agent[p].at = where
Running(p) == agent[p].at \notin {"off", "gone"}

Calls(p, c) == call' = [call EXCEPT ![p] = c]
Moves(p, a) == agent' = [agent EXCEPT ![p] = a]

(* The process has exited; what is left is why. *)
Ended(a, sup) ==
    [a EXCEPT !.at = "gone", !.registered = FALSE, !.superseded = sup,
              !.reg = 0, !.last = "REGISTERING", !.seen = "FAILED"]

Start(p) ==
    /\ Is(p, "off")
    /\ Moves(p, [agent[p] EXCEPT !.at = "idle"])
    /\ UNCHANGED <<registryVars, backend, call, late, faults>>

(* step, up to its first call: the backend is probed, and the answer is    *)
(* used for the whole step.  An unregistered agent with a bad backend only *)
(* waits (retryDelay).                                                     *)
Probe(p) ==
    LET a == agent[p]
        bad == backend[p] \in BadBackends
        finished == bad /\ a.last = "DRAINING" /\ backend[p] # "unusable"
        report == IF bad THEN "FAILED" ELSE backend[p]
    IN  /\ Is(p, "idle")
        /\ \/ /\ ~a.registered /\ ~bad
              /\ Moves(p, [a EXCEPT !.at = "register", !.seen = report])
              /\ Calls(p, Sent("register", 0, "REGISTERING"))
           \/ /\ a.registered /\ finished
              /\ Moves(p, [a EXCEPT !.at = "deregister"])
              /\ Calls(p, Sent("deregister", a.reg, "FAILED"))
           \/ /\ a.registered /\ ~finished
              /\ Moves(p, [a EXCEPT !.at = "beat"])
              /\ Calls(p, Sent("beat", a.reg, report))
        /\ UNCHANGED <<registryVars, backend, late, faults>>

(* register's answer; on success the step goes on to the heartbeat with    *)
(* the status probed before the registration.                              *)
RegisterAnswered(p) ==
    LET a == agent[p]
    IN  /\ Is(p, "register")
        /\ \/ /\ Answered(p, "ok")
              /\ Moves(p, [a EXCEPT !.at = "beat", !.registered = TRUE,
                                    !.reg = call[p].got, !.last = "REGISTERING",
                                    !.seen = "FAILED"])
              /\ Calls(p, Sent("beat", call[p].got, a.seen))
           \/ /\ Answered(p, "full")
              /\ Moves(p, [a EXCEPT !.at = "idle", !.seen = "FAILED"])
              /\ Calls(p, NoCall)
        /\ UNCHANGED <<registryVars, backend, late, faults>>

(* The registration is given up: the next step registers anew. *)
Forgets(a) == [a EXCEPT !.at = "idle", !.registered = FALSE, !.reg = 0]

(* Mutant: a refused state change is only counted. *)
BeatAnsweredShrugs(p) ==
    LET a == agent[p]
    IN  /\ Is(p, "beat")
        /\ \/ /\ Answered(p, "ok")
              /\ Moves(p, [a EXCEPT !.at = "idle", !.last = call[p].state])
           \/ /\ Answered(p, "stale")
              /\ Moves(p, Ended(a, TRUE))
           \/ /\ Answered(p, "unknown")
              /\ Moves(p, Forgets(a))
           \/ /\ Answered(p, "conflict")
              /\ Moves(p, [a EXCEPT !.at = "idle"])
        /\ Calls(p, NoCall)
        /\ UNCHANGED <<registryVars, backend, late, faults>>

(* The heartbeat's answer: accepted; superseded, which ends Run for good;  *)
(* or the registration is void and the next step registers anew.           *)
BeatAnswered(p) ==
    LET a == agent[p]
    IN  /\ Is(p, "beat")
        /\ \/ /\ Answered(p, "ok")
              /\ Moves(p, [a EXCEPT !.at = "idle", !.last = call[p].state])
           \/ /\ Answered(p, "stale")
              /\ Moves(p, Ended(a, TRUE))
           \/ /\ Answered(p, "unknown") \/ Answered(p, "conflict")
              /\ Moves(p, Forgets(a))
        /\ Calls(p, NoCall)
        /\ UNCHANGED <<registryVars, backend, late, faults>>

(* deregister forgets the registration whatever the answer. *)
DeregisterAnswered(p) ==
    /\ call[p].answer # "none"
    /\ \/ Is(p, "deregister") /\ Moves(p, Forgets(agent[p]))
       \/ Is(p, "leave") /\ Moves(p, Ended(agent[p], FALSE))
    /\ Calls(p, NoCall)
    /\ UNCHANGED <<registryVars, backend, late, faults>>

(* Shutdown: DRAINING if that is a legal report (it always is), then       *)
(* deregister, each best effort.                                           *)
Shutdown(p) ==
    LET a == agent[p]
    IN  /\ Is(p, "idle")
        /\ \/ /\ ~a.registered
              /\ Moves(p, Ended(a, FALSE))
              /\ UNCHANGED call
           \/ /\ a.registered /\ CanTransition(a.last, "DRAINING")
              /\ Moves(p, [a EXCEPT !.at = "leaveBeat"])
              /\ Calls(p, Sent("beat", a.reg, "DRAINING"))
        /\ UNCHANGED <<registryVars, backend, late, faults>>

Leaves(p) ==
    /\ Is(p, "leaveBeat")
    /\ call[p].answer # "none"
    /\ Moves(p, [agent[p] EXCEPT !.at = "leave"])
    /\ Calls(p, Sent("deregister", agent[p].reg, "FAILED"))
    /\ UNCHANGED <<registryVars, backend, late, faults>>

(* The call's context ends.  Register: not registered; heartbeat: counted  *)
(* as a failure; deregister: forgotten all the same.                       *)
TimesOut(p) ==
    LET a == agent[p]
    IN  /\ call[p].kind # "none"
        /\ Fault
        /\ Abandoned(p)
        /\ \/ /\ a.at \in {"register", "beat"}
              /\ Moves(p, [a EXCEPT !.at = "idle", !.seen = "FAILED"])
              /\ Calls(p, NoCall)
           \/ /\ a.at = "deregister"
              /\ Moves(p, Forgets(a)) /\ Calls(p, NoCall)
           \/ /\ a.at = "leaveBeat"
              /\ Moves(p, [a EXCEPT !.at = "leave"])
              /\ Calls(p, Sent("deregister", a.reg, "FAILED"))
           \/ /\ a.at = "leave"
              /\ Moves(p, Ended(a, FALSE)) /\ Calls(p, NoCall)
        /\ UNCHANGED <<registryVars, backend>>

Crash(p) ==
    /\ Running(p)
    /\ Fault
    /\ Abandoned(p)
    /\ Moves(p, Ended(agent[p], FALSE))
    /\ Calls(p, NoCall)
    /\ UNCHANGED <<registryVars, backend>>

-----------------------------------------------------------------------------
(* The environment *)

(* The backend loads, drains, dies, restarts in place, or talks nonsense. *)
BackendChanges(p) ==
    /\ Fault
    /\ \E b \in (Reports \cup BadBackends) \ {backend[p]} :
          backend' = [backend EXCEPT ![p] = b]
    /\ UNCHANGED <<registryVars, agent, call, late>>

ControlPlaneRestarts ==
    /\ Fault
    /\ Restart
    /\ UNCHANGED <<agent, backend, call, late>>

SweepStep == Sweep /\ UNCHANGED agentVars

(* A process that reports for the current registration of id, or is about  *)
(* to learn of it.                                                         *)
Owned(id) ==
    \E p \in Agents :
        /\ agent[p].id = id /\ Running(p)
        /\ workers[id].reg \in {agent[p].reg, call[p].got}

(* The age at which an entry is no longer offered, and the one at which it *)
(* may be evicted; those between are judged alike by everybody.            *)
Marks == {IF SuspectEligible THEN Unhealthy + 1 ELSE Suspect, MaxAge}

(* The report of an entry nobody owns gets older and older. *)
Fades(id) ==
    /\ ~Owned(id)
    /\ \E n \in Marks : Tick(id, n)
    /\ UNCHANGED agentVars

(* An owner steps once per interval, which is shorter than Suspect; when   *)
(* it stalls, its report ages, for as long as it may.                      *)
Stalls(id) ==
    /\ Owned(id)
    /\ Fault
    /\ \E n \in Marks : Tick(id, n)
    /\ UNCHANGED <<agent, backend, call, late>>

AgentStep(p) ==
    \/ Probe(p) \/ RegisterAnswered(p) \/ BeatAnswered(p)
    \/ DeregisterAnswered(p) \/ Leaves(p)

AgentsNext ==
    \/ \E p \in Agents :
          \/ Start(p) \/ AgentStep(p) \/ Serve(p) \/ Shutdown(p)
          \/ TimesOut(p) \/ Crash(p) \/ BackendChanges(p)
    \/ \E id \in IDs : Fades(id) \/ Stalls(id)
    \/ ServeLate \/ ControlPlaneRestarts \/ SweepStep

AgentsSpec == AgentsInit /\ [][AgentsNext]_vars

(* An agent that runs keeps stepping, the control plane answers, late      *)
(* calls arrive, the sweeper runs and time passes.  Nothing is assumed of  *)
(* starts, shutdowns, crashes, time-outs and backends.  An agent steps or  *)
(* waits for its call, never both, so one condition covers the two.        *)
FairSpec ==
    /\ AgentsSpec
    /\ \A p \in Agents : WF_vars(AgentStep(p) \/ Serve(p))
    /\ WF_vars(\E id \in IDs : Fades(id))
    /\ WF_vars(ServeLate) /\ WF_vars(SweepStep)

-----------------------------------------------------------------------------
(* Properties *)

(* Every variable holds a value of its kind, and an agent that takes       *)
(* itself for registered holds an ID the registry issued.                  *)
TypeOK ==
    /\ RegistryTypeOK
    /\ agent \in [Agents -> [id : IDs, at : Places, registered : BOOLEAN, superseded : BOOLEAN,
                             reg : 0 .. lastReg, last : States, seen : States]]
    /\ backend \in [Agents -> Reports \cup BadBackends]
    /\ \A p \in Agents : agent[p].registered => agent[p].reg # 0
    /\ \A l \in late : l.call.answer = "none"

(* Two processes with one worker ID do not fight over it (IsStale in       *)
(* step): two cannot run on for ever beside working backends, since the    *)
(* one that was superseded stops.                                          *)
FightEnds ==
    ~<>[](\E p, q \in Agents :
              /\ p # q /\ agent[p].id = agent[q].id
              /\ \A r \in {p, q} : Running(r) /\ backend[r] = "READY")

(* A worker whose agent is the only one that runs, beside a backend that   *)
(* has become READY for good, is offered again and again, whatever came    *)
(* before: lost answers, void registrations, a drain or failure the        *)
(* backend came back from, a full registry, a restarted control plane      *)
(* (step).  That is, <>[]alone => []<>offered.                             *)
ReadyWorkerOffered ==
    []<>(\A p \in Agents :
            /\ Running(p) /\ backend[p] = "READY"
            /\ \A q \in Agents \ {p} : ~Running(q)
            => Eligible(workers[agent[p].id]))

(* A worker that nobody keeps registered any more disappears for good,     *)
(* even if a late registration brings it back once more (Sweep).           *)
DeadWorkerForgotten ==
    \A id \in IDs :
        (<>[](\A p \in Agents : agent[p].id = id => ~Running(p)))
        => <>[](workers[id].reg = 0)

(* The registry under its agents, whatever calls are lost, late or         *)
(* repeated: well-formed, bounded by MaxWorkers, and drains are one-way    *)
(* (register, heartbeat, Deregister and Sweep).                            *)
AgentsSafe == TypeOK /\ WorkersBounded /\ DrainIsOneWay

(* The registry comes to agree with the fleet: a worker that is ready for  *)
(* good is offered again, and one that nobody keeps is forgotten (step,    *)
(* Sweep).                                                                 *)
RegistryConverges == ReadyWorkerOffered /\ DeadWorkerForgotten
=============================================================================
