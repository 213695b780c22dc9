------------------------- MODULE ConcurrencyLimiter -------------------------
(***************************************************************************)
(* internal/abuse/concurrency.go: the lock-free counter of running         *)
(* anonymous sandboxes.  One action per atomic instruction, so that the    *)
(* load / compare-and-swap loop of TryAcquire and the add / store pair of  *)
(* Release interleave as they do under sync/atomic.  The totalRejected     *)
(* counter is left out: only log lines read it.                            *)
(***************************************************************************)
EXTENDS Integers, FiniteSets

CONSTANTS
    Threads,        \* goroutines that use the limiter
    MaxConcurrent   \* the configured ceiling, as passed to the constructor

ASSUME ThreadsAssumption == IsFiniteSet(Threads)
ASSUME MaxAssumption == MaxConcurrent \in Int

VARIABLES
    active,     \* c.active
    pc,         \* where each thread is in TryAcquire or Release
    current,    \* TryAcquire's local copy of active
    strayed     \* history: whether a thread without a slot has called Release

vars == <<active, pc, current, strayed>>

PCs == {"idle", "load", "cas", "held", "full", "clamp"}

\* The constructor replaces a ceiling that is not positive.
maxConcurrent == IF MaxConcurrent <= 0 THEN 12 ELSE MaxConcurrent

Holders == {t \in Threads : pc[t] = "held"}

TypeOK ==
    /\ active \in Int
    /\ pc \in [Threads -> PCs]
    /\ current \in [Threads -> {n \in Int : n < maxConcurrent}]
    /\ strayed \in BOOLEAN

Init ==
    /\ active = 0
    /\ pc = [t \in Threads |-> "idle"]
    /\ current = [t \in Threads |-> 0]
    /\ strayed = FALSE

\* Fault: the ceiling itself still counts as free.
LoadOffByOne(t) ==
    /\ pc[t] \in {"idle", "load"}
    /\ IF active > maxConcurrent
       THEN /\ pc' = [pc EXCEPT ![t] = "full"]
            /\ UNCHANGED current
       ELSE /\ pc' = [pc EXCEPT ![t] = "cas"]
            /\ current' = [current EXCEPT ![t] = active]
    /\ UNCHANGED <<active, strayed>>

\* TryAcquire: read active; with the ceiling reached the call is refused.
Load(t) ==
    /\ pc[t] \in {"idle", "load"}
    /\ IF active >= maxConcurrent
       THEN /\ pc' = [pc EXCEPT ![t] = "full"]
            /\ UNCHANGED current
       ELSE /\ pc' = [pc EXCEPT ![t] = "cas"]
            /\ current' = [current EXCEPT ![t] = active]
    /\ UNCHANGED <<active, strayed>>

\* Fault: the slot is taken with a plain store of current + 1.
StoreWithoutCompare(t) ==
    /\ pc[t] = "cas"
    /\ active' = current[t] + 1
    /\ pc' = [pc EXCEPT ![t] = "held"]
    /\ UNCHANGED <<current, strayed>>

\* Fault: the slot is taken with an add, which does not look at active again.
AddWithoutCompare(t) ==
    /\ pc[t] = "cas"
    /\ active' = active + 1
    /\ pc' = [pc EXCEPT ![t] = "held"]
    /\ UNCHANGED <<current, strayed>>

\* TryAcquire: take the slot if active is still what was read, else retry.
CompareAndSwap(t) ==
    /\ pc[t] = "cas"
    /\ IF active = current[t]
       THEN /\ active' = active + 1
            /\ pc' = [pc EXCEPT ![t] = "held"]
       ELSE /\ pc' = [pc EXCEPT ![t] = "load"]
            /\ UNCHANGED active
    /\ UNCHANGED <<current, strayed>>

\* TryAcquire has returned false and the caller gives up.
GiveUp(t) ==
    /\ pc[t] = "full"
    /\ pc' = [pc EXCEPT ![t] = "idle"]
    /\ UNCHANGED <<active, current, strayed>>

\* Fault: the new value is not looked at, so active can stay below zero.
DecrementOnly(t) ==
    /\ pc[t] \in {"held", "idle"}
    /\ strayed' = (strayed \/ pc[t] = "idle")
    /\ active' = active - 1
    /\ pc' = [pc EXCEPT ![t] = "idle"]
    /\ UNCHANGED current

\* Release, by a holder or by a thread that has no slot: the atomic add, after
\* which a negative result is to be clamped.
Decrement(t) ==
    /\ pc[t] \in {"held", "idle"}
    /\ strayed' = (strayed \/ pc[t] = "idle")
    /\ active' = active - 1
    /\ pc' = [pc EXCEPT ![t] = IF active - 1 < 0 THEN "clamp" ELSE "idle"]
    /\ UNCHANGED current

\* Release: the store of zero, a separate instruction.
Clamp(t) ==
    /\ pc[t] = "clamp"
    /\ active' = 0
    /\ pc' = [pc EXCEPT ![t] = "idle"]
    /\ UNCHANGED <<current, strayed>>

Next ==
    \E t \in Threads :
        \/ Load(t)
        \/ CompareAndSwap(t)
        \/ GiveUp(t)
        \/ Decrement(t)
        \/ Clamp(t)

Spec == Init /\ [][Next]_vars

-----------------------------------------------------------------------------
(* Properties *)

\* As long as only holders have released, TryAcquire and Release keep active
\* equal to the number of slots handed out, and that number never passes the
\* ceiling, however loads and compare-and-swaps of several threads interleave.
SlotsExact ==
    ~strayed => active = Cardinality(Holders) /\ active <= maxConcurrent

\* Release's add and its clamping store are two instructions.  Even with stray
\* releases racing each other and TryAcquire, a negative count is always about
\* to be cleared by a thread still inside Release, so it cannot last.
NegativeIsBeingClamped == active < 0 => \E t \in Threads : pc[t] = "clamp"

\* Stray releases let more than maxConcurrent threads in, but TryAcquire never
\* drives the counter itself above the ceiling.
CounterWithinCeiling == active <= maxConcurrent

\* What the callers of the limiter see of it.
Status ==
    [t \in Threads |-> CASE pc[t] = "held" -> "in"
                         [] pc[t] = "full" -> "refused"
                         [] OTHER -> "out"]

Pool == INSTANCE SlotPool WITH
    Clients <- Threads,
    Capacity <- maxConcurrent,
    status <- Status

\* TryAcquire and Release, seen from their callers, are the operations of a
\* slot pool until the first stray release: a grant takes effect at the
\* compare-and-swap, a refusal at the load, a release at the add.
ImplementsSlotPool == Pool!Init /\ [][~strayed' => Pool!Next]_Status
=============================================================================
