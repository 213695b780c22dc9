----------------------------- MODULE Parameters -----------------------------
(***************************************************************************)
(* What the guard and the session manager have in common: the create       *)
(* requests.  A request that reaches Manager.Create is given a fresh uuid, *)
(* so a request also names its session.                                    *)
(***************************************************************************)
EXTENDS Integers, FiniteSets

CONSTANT Requests   \* create requests, and the sessions they lead to

ASSUME RequestsAssumption == IsFiniteSet(Requests)
=============================================================================
