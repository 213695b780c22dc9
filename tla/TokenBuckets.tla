---------------------------- MODULE TokenBuckets ----------------------------
(***************************************************************************)
(* What a rate limiter over a set of token buckets promises: every bucket  *)
(* starts full, refills with time up to its capacity, and is charged only  *)
(* for what it holds.  Levels are in units of time: a bucket gains one per *)
(* tick, and a token of bucket k costs Cost[k] ticks.                      *)
(***************************************************************************)
EXTENDS Integers

CONSTANTS Keys, Cost, Cap   \* the buckets, the price of a token, the capacity

VARIABLE level

Fill(k, n) == IF n > Cap[k] THEN Cap[k] ELSE n

Init == level = Cap

Tick == level' = [k \in Keys |-> Fill(k, level[k] + 1)]

Charge(K) ==
    /\ \A k \in K : level[k] >= Cost[k]
    /\ level' = [k \in Keys |-> IF k \in K THEN level[k] - Cost[k] ELSE level[k]]

Next == Tick \/ \E K \in SUBSET Keys : Charge(K)

Spec == Init /\ [][Next]_level
=============================================================================
