--------------------------- MODULE MCWorkerAgents ---------------------------
(* A registry with room for one worker, and two agents: of one worker, or  *)
(* of two, the first beside a backend that is draining when it starts.     *)
EXTENDS WorkerAgents

MCStarts ==
    {s \in [Agents -> [id : IDs, report : Reports]] :
        /\ s["a"].id = 1 /\ s["b"].report = "READY"
        /\ s["b"].id = 1 <=> s["a"].report = "READY"}
=============================================================================
