--------------------------- MODULE MCBreakerEvents ---------------------------
(* BreakerEvents for TLC: three goroutines. *)
EXTENDS BreakerEvents, TLC

CONSTANTS p1, p2, p3

MCProcs == Permutations(BevProcs)
=============================================================================
