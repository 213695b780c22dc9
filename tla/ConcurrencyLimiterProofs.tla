---------------------- MODULE ConcurrencyLimiterProofs ----------------------
(***************************************************************************)
(* Proofs about the lock-free slot counter, for any number of threads and  *)
(* any configured ceiling: type correctness, the ceiling on the counter,   *)
(* and, until a thread without a slot releases one, that the counter is    *)
(* exact and that the limiter implements SlotPool.                         *)
(***************************************************************************)
EXTENDS ConcurrencyLimiter, FiniteSetTheorems, TLAPS

\* The constructor's default makes the ceiling positive whatever is configured.
LEMMA CeilingPositive == maxConcurrent \in Int /\ maxConcurrent > 0
  BY MaxAssumption DEF maxConcurrent

\* The threads that hold a slot of TryAcquire are a finite set.
LEMMA HoldersFinite ==
  ASSUME TypeOK
  PROVE  IsFiniteSet(Holders) /\ Cardinality(Holders) \in Nat
  <1>1. IsFiniteSet(Holders)
    <2>1. Holders \subseteq Threads
      BY DEF Holders
    <2> QED BY <2>1, ThreadsAssumption, FS_Subset
  <1> QED BY <1>1, FS_CardinalityType

-----------------------------------------------------------------------------
(* Type correctness *)

\* The limiter as its constructor leaves it is well typed.
LEMMA InitTyped == Init => TypeOK
<1> SUFFICES ASSUME Init PROVE TypeOK
  OBVIOUS
<1>1. strayed \in BOOLEAN
  BY Zenon DEF Init
<1>2. active \in Int /\ pc \in [Threads -> PCs]
  BY DEF Init, PCs
<1>3. current \in [Threads -> {n \in Int : n < maxConcurrent}]
  BY CeilingPositive DEF Init
<1> QED BY <1>1, <1>2, <1>3 DEF TypeOK

\* Every instruction of TryAcquire and Release keeps the state well typed; in
\* particular the value TryAcquire compares with was read below the ceiling.
THEOREM TypeCorrect == Spec => []TypeOK
<1>1. Init => TypeOK
  BY InitTyped
<1>2. TypeOK /\ [Next]_vars => TypeOK'
  <2> SUFFICES ASSUME TypeOK, [Next]_vars PROVE TypeOK'
    OBVIOUS
  <2> USE CeilingPositive DEF TypeOK, PCs
  <2>1. ASSUME NEW t \in Threads, Load(t) PROVE TypeOK'
    BY <2>1 DEF Load
  <2>2. ASSUME NEW t \in Threads, CompareAndSwap(t) PROVE TypeOK'
    BY <2>2 DEF CompareAndSwap
  <2>3. ASSUME NEW t \in Threads, GiveUp(t) PROVE TypeOK'
    BY <2>3 DEF GiveUp
  <2>4. ASSUME NEW t \in Threads, Decrement(t) PROVE TypeOK'
    BY <2>4 DEF Decrement
  <2>5. ASSUME NEW t \in Threads, Clamp(t) PROVE TypeOK'
    BY <2>5 DEF Clamp
  <2>6. CASE UNCHANGED vars
    BY <2>6 DEF vars
  <2> QED BY <2>1, <2>2, <2>3, <2>4, <2>5, <2>6 DEF Next
<1> QED BY <1>1, <1>2, PTL DEF Spec

\* TryAcquire never drives the counter above the ceiling, whoever releases.
THEOREM CeilingHolds == Spec => []CounterWithinCeiling
<1>1. Init => CounterWithinCeiling
  BY CeilingPositive DEF Init, CounterWithinCeiling
<1>2. TypeOK /\ CounterWithinCeiling /\ [Next]_vars => CounterWithinCeiling'
  <2> SUFFICES ASSUME TypeOK, CounterWithinCeiling, [Next]_vars
               PROVE  CounterWithinCeiling'
    OBVIOUS
  <2> USE CeilingPositive DEF TypeOK, CounterWithinCeiling
  <2>1. maxConcurrent' = maxConcurrent
    BY DEF maxConcurrent
  <2>2. CASE \E t \in Threads : CompareAndSwap(t)
    BY <2>1, <2>2 DEF CompareAndSwap
  <2>3. CASE ~ \E t \in Threads : CompareAndSwap(t)
    BY <2>1, <2>3 DEF Next, Load, GiveUp, Decrement, Clamp, vars
  <2> QED BY <2>2, <2>3
<1> QED BY <1>1, <1>2, TypeCorrect, PTL DEF Spec

\* A negative count is being cleared: the add that made it negative has not
\* reached its store yet, and no other instruction can hide that.
THEOREM NegativeNeverRests == Spec => []NegativeIsBeingClamped
<1>1. Init => NegativeIsBeingClamped
  BY DEF Init, NegativeIsBeingClamped
<1>2. TypeOK /\ NegativeIsBeingClamped /\ [Next]_vars => NegativeIsBeingClamped'
  <2> SUFFICES ASSUME TypeOK, NegativeIsBeingClamped, [Next]_vars,
                      active' < 0
               PROVE  \E u \in Threads : pc'[u] = "clamp"
    BY DEF NegativeIsBeingClamped
  <2> USE DEF TypeOK, NegativeIsBeingClamped, PCs
  <2>1. ASSUME NEW t \in Threads, Load(t) PROVE \E u \in Threads : pc'[u] = "clamp"
    BY <2>1 DEF Load
  <2>2. ASSUME NEW t \in Threads, CompareAndSwap(t) PROVE \E u \in Threads : pc'[u] = "clamp"
    BY <2>2 DEF CompareAndSwap
  <2>3. ASSUME NEW t \in Threads, GiveUp(t) PROVE \E u \in Threads : pc'[u] = "clamp"
    BY <2>3 DEF GiveUp
  <2>4. ASSUME NEW t \in Threads, Decrement(t) PROVE \E u \in Threads : pc'[u] = "clamp"
    BY <2>4 DEF Decrement
  <2>5. ASSUME NEW t \in Threads, Clamp(t) PROVE \E u \in Threads : pc'[u] = "clamp"
    BY <2>5 DEF Clamp
  <2>6. CASE UNCHANGED vars
    BY <2>6 DEF vars
  <2> QED BY <2>1, <2>2, <2>3, <2>4, <2>5, <2>6 DEF Next
<1> QED BY <1>1, <1>2, TypeCorrect, PTL DEF Spec

-----------------------------------------------------------------------------
(* Exact accounting, as long as only holders release *)

\* SlotsExact is not inductive alone: Release must be known not to have gone
\* below zero, or the store of zero would overwrite a count others rely on.
NoClamp == ~strayed => \A t \in Threads : pc[t] # "clamp"

PairedInv == TypeOK /\ SlotsExact /\ NoClamp

\* The limiter as its constructor leaves it satisfies PairedInv.
LEMMA PairedInit == Init => PairedInv
<1> SUFFICES ASSUME Init PROVE PairedInv
  OBVIOUS
<1>1. Holders = {}
  BY DEF Init, Holders
<1>2. TypeOK
  BY InitTyped
<1>3. SlotsExact /\ NoClamp
  BY <1>1, FS_EmptySet, CeilingPositive DEF Init, NoClamp, SlotsExact
<1> QED BY <1>2, <1>3 DEF PairedInv

\* No instruction of TryAcquire or Release breaks PairedInv: the first stray
\* Release raises strayed, after which PairedInv asks for types only.
LEMMA PairedStep ==
  ASSUME PairedInv, TypeOK', [Next]_vars
  PROVE  PairedInv'
<1> SUFFICES ASSUME ~strayed'
             PROVE  /\ active' = Cardinality(Holders') /\ active' <= maxConcurrent
                    /\ \A u \in Threads : pc'[u] # "clamp"
  <2>1. maxConcurrent' = maxConcurrent
    BY DEF maxConcurrent
  <2> QED BY <2>1 DEF PairedInv, SlotsExact, NoClamp
<1> USE CeilingPositive
<1>0. ~strayed
  BY DEF PairedInv, TypeOK, Next, Load, CompareAndSwap, GiveUp, Decrement, Clamp, vars
<1>t. TypeOK
  BY DEF PairedInv
<1>e. /\ active = Cardinality(Holders) /\ active <= maxConcurrent
      /\ \A u \in Threads : pc[u] # "clamp"
  BY <1>0 DEF PairedInv, SlotsExact, NoClamp
<1>f. IsFiniteSet(Holders) /\ Cardinality(Holders) \in Nat
  BY <1>t, HoldersFinite
<1> USE <1>t, <1>e DEF TypeOK, PCs
<1> DEFINE Goal == /\ active' = Cardinality(Holders') /\ active' <= maxConcurrent
                   /\ \A u \in Threads : pc'[u] # "clamp"
<1>1. ASSUME NEW t \in Threads, Load(t) PROVE Goal
  <2>1. Holders' = Holders
    BY <1>1 DEF Load, Holders
  <2> QED BY <1>1, <2>1 DEF Load
<1>2. ASSUME NEW t \in Threads, CompareAndSwap(t) PROVE Goal
  <2>1. CASE active = current[t]
    <3>1. Holders' = Holders \cup {t} /\ t \notin Holders
      BY <1>2, <2>1 DEF CompareAndSwap, Holders
    <3>2. Cardinality(Holders') = Cardinality(Holders) + 1
      BY <3>1, <1>f, FS_AddElement
    <3>3. active < maxConcurrent
      BY <1>2, <2>1
    <3>4. active' = active + 1 /\ \A u \in Threads : pc'[u] # "clamp"
      BY <1>2, <2>1 DEF CompareAndSwap
    <3> QED BY <3>2, <3>3, <3>4
  <2>2. CASE active # current[t]
    <3>1. Holders' = Holders
      BY <1>2, <2>2 DEF CompareAndSwap, Holders
    <3> QED BY <1>2, <2>2, <3>1 DEF CompareAndSwap
  <2> QED BY <2>1, <2>2
<1>3. ASSUME NEW t \in Threads, GiveUp(t) PROVE Goal
  <2>1. Holders' = Holders
    BY <1>3 DEF GiveUp, Holders
  <2> QED BY <1>3, <2>1 DEF GiveUp
<1>4. ASSUME NEW t \in Threads, Decrement(t) PROVE Goal
  <2>1. t \in Holders
    BY <1>4 DEF Decrement, Holders
  <2>2. Cardinality(Holders \ {t}) = Cardinality(Holders) - 1
    BY <2>1, <1>f, FS_RemoveElement
  <2>3. Cardinality(Holders \ {t}) \in Nat
    <3>1. IsFiniteSet(Holders \ {t})
      BY <1>f, FS_Subset
    <3> QED BY <3>1, FS_CardinalityType
  <2>4. active - 1 >= 0
    BY <2>2, <2>3
  <2>5. Holders' = Holders \ {t}
    BY <1>4, <2>4 DEF Decrement, Holders
  <2> QED BY <1>4, <2>2, <2>4, <2>5 DEF Decrement
<1>5. ASSUME NEW t \in Threads, Clamp(t) PROVE Goal
  BY <1>5 DEF Clamp
<1>6. CASE UNCHANGED vars
  <2>1. Holders' = Holders
    BY <1>6 DEF vars, Holders
  <2> QED BY <1>6, <2>1 DEF vars
<1> QED BY <1>1, <1>2, <1>3, <1>4, <1>5, <1>6 DEF Next

\* PairedInv holds throughout.
LEMMA PairedAlways == Spec => []PairedInv
<1>1. Init => PairedInv
  BY PairedInit
<1>2. PairedInv /\ TypeOK' /\ [Next]_vars => PairedInv'
  BY PairedStep
<1> QED BY <1>1, <1>2, TypeCorrect, PTL DEF Spec

\* Until TryAcquire's callers release a slot they do not hold, the counter is
\* the number of holders, and that number stays within the ceiling.
THEOREM AccountingExact == Spec => []SlotsExact
<1>1. PairedInv => SlotsExact
  BY DEF PairedInv
<1> QED BY <1>1, PairedAlways, PTL

-----------------------------------------------------------------------------
(* Refinement *)

\* The clients that are in, seen through the mapping, are the holders.
LEMMA InIsHolders == Pool!Cardinality(Pool!In) = Cardinality(Holders)
<1>1. Pool!In = Holders
  BY DEF Pool!In, Holders, Status
<1>2. Pool!Cardinality(Holders) = Cardinality(Holders)
  BY DEF Pool!Cardinality, Cardinality
<1> QED BY <1>1, <1>2

\* Seen from its callers the limiter is a slot pool until the first stray
\* Release: each instruction is one operation of the pool or invisible.
THEOREM LimiterIsSlotPool == Spec => ImplementsSlotPool
<1>1. Init => Pool!Init
  BY DEF Init, Pool!Init, Status
<1>2. ASSUME PairedInv, [Next]_vars
      PROVE  [~strayed' => Pool!Next]_Status
  <2> SUFFICES ASSUME ~strayed' PROVE Pool!Next \/ Status' = Status
    OBVIOUS
  <2>t. TypeOK
    BY <1>2 DEF PairedInv
  <2>s. ~strayed
    BY <1>2, <2>t
    DEF TypeOK, Next, Load, CompareAndSwap, GiveUp, Decrement, Clamp, vars
  <2>0. active = Cardinality(Holders) /\ \A u \in Threads : pc[u] # "clamp"
    BY <1>2, <2>s DEF PairedInv, SlotsExact, NoClamp
  <2> USE <2>t DEF TypeOK, PCs, Status
  <2>1. ASSUME NEW t \in Threads, Load(t) PROVE Pool!Refuse(t) \/ Status' = Status
    BY <2>0, <2>1, InIsHolders DEF Load, Pool!Refuse
  <2>2. ASSUME NEW t \in Threads, CompareAndSwap(t)
        PROVE  Pool!Acquire(t) \/ Status' = Status
    <3>1. CASE active = current[t]
      <4>1. Pool!Cardinality(Pool!In) < maxConcurrent
        BY <2>0, <3>1, InIsHolders, CeilingPositive
      <4>2. Status[t] = "out" /\ Status' = [Status EXCEPT ![t] = "in"]
        BY <2>0, <2>2, <3>1 DEF CompareAndSwap
      <4> QED BY <4>1, <4>2 DEF Pool!Acquire
    <3>2. CASE active # current[t]
      BY <2>0, <2>2, <3>2 DEF CompareAndSwap
    <3> QED BY <3>1, <3>2
  <2>3. ASSUME NEW t \in Threads, GiveUp(t) PROVE Pool!Leave(t)
    BY <2>0, <2>3 DEF GiveUp, Pool!Leave
  <2>4. ASSUME NEW t \in Threads, Decrement(t) PROVE Pool!Leave(t)
    <3>1. pc[t] = "held"
      BY <2>4 DEF Decrement
    <3> QED BY <2>0, <2>4, <3>1 DEF Decrement, Pool!Leave
  <2>5. ASSUME NEW t \in Threads, Clamp(t) PROVE FALSE
    BY <2>0, <2>5 DEF Clamp
  <2>6. CASE UNCHANGED vars
    BY <2>6 DEF vars
  <2> QED BY <1>2, <2>1, <2>2, <2>3, <2>4, <2>5, <2>6 DEF Next, Pool!Next
<1> QED BY <1>1, <1>2, PairedAlways, PTL DEF Spec, ImplementsSlotPool
=============================================================================
