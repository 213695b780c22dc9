----------------------------- MODULE MCBackends -----------------------------
(* Model values for Backends. *)
EXTENDS Backends

CONSTANTS a1, a2, x1, x2, x3

MCAttachers == {a1, a2}
MCDestroyers == {x1, x2, x3}
=============================================================================
