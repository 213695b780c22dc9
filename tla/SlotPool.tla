------------------------------ MODULE SlotPool ------------------------------
(***************************************************************************)
(* What a bounded pool of sandbox slots promises its clients: at most      *)
(* Capacity clients are in at a time, a client is refused only at a moment *)
(* when every slot is taken, and a client that is in leaves exactly once.  *)
(*                                                                         *)
(* This is the abstract specification behind internal/abuse/concurrency.go *)
(* ("a hard ceiling on concurrently running anonymous sandboxes").  Two    *)
(* detailed specifications implement it: ConcurrencyLimiter, at the grain  *)
(* of atomic instructions, and Docpine, at the grain of create requests.   *)
(***************************************************************************)
EXTENDS Integers, FiniteSets

CONSTANTS
    Clients,    \* whoever asks for a slot: goroutines, or create requests
    Capacity    \* the number of slots

VARIABLE status \* [Clients -> {"out", "in", "refused"}]

In == {c \in Clients : status[c] = "in"}

Init == status = [c \in Clients |-> "out"]

Acquire(c) ==
    /\ status[c] = "out"
    /\ Cardinality(In) < Capacity
    /\ status' = [status EXCEPT ![c] = "in"]

Refuse(c) ==
    /\ status[c] = "out"
    /\ Cardinality(In) >= Capacity
    /\ status' = [status EXCEPT ![c] = "refused"]

Leave(c) ==
    /\ status[c] \in {"in", "refused"}
    /\ status' = [status EXCEPT ![c] = "out"]

Next == \E c \in Clients : Acquire(c) \/ Refuse(c) \/ Leave(c)

Spec == Init /\ [][Next]_status
=============================================================================
