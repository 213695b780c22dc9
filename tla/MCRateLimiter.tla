---------------------------- MODULE MCRateLimiter ----------------------------
(* Model values for RateLimiter: three devices behind one address, enough to  *)
(* exhaust the address before the devices; devices are interchangeable.       *)
EXTENDS RateLimiter, TLC

CONSTANTS i1, d1, d2, d3

MCIps == {i1}
MCDevices == {d1, d2, d3}
Symmetry == Permutations(MCDevices)
=============================================================================
