---------------------------- MODULE MCSlotRouter ----------------------------
(* One model; every request anonymous.                                     *)
EXTENDS SlotRouter, TLC

CONSTANTS m1, nobody, MaxGen

MCModelOf == [r \in Requests |-> m1]
MCTenantOf == [r \in Requests |-> nobody]
MCWorkerModel == [w \in Workers |-> m1]
MCGens == 0 .. MaxGen
MCSlots == Workers \X MCGens
MCSymmetry == Permutations(Requests) \cup Permutations(Workers)
=============================================================================
