------------------------------ MODULE MCDocpine ------------------------------
(* Model values for Docpine; requests, devices and connections are            *)
(* interchangeable within their sets.                                         *)
EXTENDS Docpine, TLC

CONSTANTS r1, r2, r3, d1, d2, c1, c2

TwoRequests == {r1, r2}
ThreeRequests == {r1, r2, r3}
OneDevice == {d1}
TwoDevices == {d1, d2}
OneConn == {c1}
TwoConns == {c1, c2}

Symmetry2 == Permutations(TwoRequests) \cup Permutations(TwoDevices) \cup Permutations(TwoConns)
Symmetry3 == Permutations(ThreeRequests) \cup Permutations(TwoDevices) \cup Permutations(TwoConns)
=============================================================================
