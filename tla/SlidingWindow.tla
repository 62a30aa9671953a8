--------------------------- MODULE SlidingWindow ---------------------------
(***************************************************************************)
(* slidingWindow of internal/resilience/doc.go: two counters per one-      *)
(* second bucket over the last n seconds.  The ring of n stamped slots is  *)
(* modelled by a function from bucket numbers: a slot whose stamp is not   *)
(* the bucket asked for reads as an empty bucket.                          *)
(***************************************************************************)
EXTENDS Integers, FiniteSetsExt

EmptyWindow(buckets) == [t \in buckets |-> [all |-> 0, bad |-> 0]]

InWindow(t, n, now) == t > now - n /\ t <= now

(* add: outside the window nothing happens; a counter never goes below 0. *)
WindowAdd(win, n, t, now, which, delta) ==
    IF ~InWindow(t, n, now) THEN win
    ELSE [win EXCEPT ![t][which] = IF @ + delta < 0 THEN 0 ELSE @ + delta]

WindowSum(win, n, now, which) ==
    MapThenSumSet(LAMBDA t : win[t][which],
                  {t \in DOMAIN win : InWindow(t, n, now)})
=============================================================================
