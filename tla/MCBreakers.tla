----------------------------- MODULE MCBreakers -----------------------------
(* Breakers for TLC: workers of one model, symmetric attempts. *)
EXTENDS Breakers, TLC

CONSTANTS a1, a2, a3

MCOneModel == [w \in Workers |-> "m1"]
MCPairs == Permutations(Attempts)
=============================================================================
