------------------------ MODULE MCConcurrencyLimiter ------------------------
(* Model values for ConcurrencyLimiter; threads are interchangeable. *)
EXTENDS ConcurrencyLimiter, TLC

CONSTANTS t1, t2, t3, t4

MCThreads == {t1, t2, t3, t4}
Symmetry == Permutations(MCThreads)
=============================================================================
