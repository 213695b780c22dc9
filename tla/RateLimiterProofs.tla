-------------------------- MODULE RateLimiterProofs --------------------------
(***************************************************************************)
(* Proofs about the rate limiter, for any burst, refill time, clients and  *)
(* length of run: what is granted is bounded by burst and elapsed time,    *)
(* and eviction is invisible, provided an idle entry refills before it is  *)
(* evicted.                                                                *)
(***************************************************************************)
EXTENDS RateLimiter, TLAPS

\* Prices and capacities of the two kinds of buckets are natural numbers.
LEMMA PricesTyped == Cost \in [Keys -> Nat] /\ Cap \in [Keys -> Nat]
<1>1. Refill \div 2 \in Nat /\ Refill \in Nat
  BY RateAssumption
<1>2. Burst * Refill \in Nat
  BY RateAssumption
<1>3. 2 * Burst * (Refill \div 2) \in Nat
  <2> DEFINE h == Refill \div 2
  <2>1. h \in Nat
    BY <1>1
  <2> HIDE DEF h
  <2>2. 2 * Burst \in Nat
    BY RateAssumption
  <2>3. 2 * Burst * h \in Nat
    BY <2>1, <2>2
  <2> QED BY <2>3 DEF h
<1>4. Cost \in [Keys -> Nat]
  BY <1>1 DEF Cost
<1>5. Cap \in [Keys -> Nat]
  BY <1>2, <1>3 DEF Cap
<1> QED BY <1>4, <1>5

\* A pair and its IP are two different keys, one in each map of the code.
LEMMA PairKeys ==
  ASSUME NEW p \in Pairs
  PROVE  p \in Keys /\ p[1] \in Keys /\ p # p[1]
<1>1. p[1] \in Ips /\ p \in Keys
  BY DEF Pairs, Keys
<1>2. p \notin Ips
  BY RateAssumption DEF Pairs
<1> QED BY <1>1, <1>2 DEF Keys

\* Retry-After is a whole number of seconds and early by less than one.
LEMMA RetryAfterEarly ==
  ASSUME NEW d \in Nat
  PROVE  /\ RetryAfter(d) * Second \in Nat
         /\ RetryAfter(d) * Second + Second - 1 >= d
<1> DEFINE q == d \div Second
           m == d % Second
           w == Second * q
<1>1. Second \in Nat /\ Second > 0
  BY RateAssumption
<1>2. q \in Nat /\ m \in 0..(Second - 1) /\ d = w + m
  BY <1>1
<1>3. RetryAfter(d) = IF q <= 0 THEN 1 ELSE q
  BY DEF RetryAfter
<1>4. q * Second = w /\ w \in Nat
  BY <1>1, <1>2
<1>5. q = 0 => w = 0
  BY <1>1
<1> HIDE DEF q, m, w
<1>6. CASE q = 0
  <2>1. RetryAfter(d) * Second = Second
    BY <1>1, <1>3, <1>6
  <2> QED BY <1>1, <1>2, <1>5, <1>6, <2>1
<1>7. CASE q # 0
  <2>1. RetryAfter(d) * Second = w
    BY <1>2, <1>3, <1>4, <1>7
  <2> QED BY <1>1, <1>2, <1>4, <2>1
<1> QED BY <1>6, <1>7

\* An entry that is not full has gained a unit per tick since it was last seen,
\* so one that is old enough to be evicted is full.
Refilled ==
    \A k \in entries : level[k] = Cap[k] \/ level[k] >= now - lastSeen[k]

\* What was spent and what is left never exceed the capacity and elapsed time.
Budget == \A k \in Keys : spent[k] + Level(k) <= Cap[k] + now

\* What a throttled pair still lacks comes before its Retry-After is over by a
\* second, or the bucket is full again.
Promised ==
    \A p \in Pairs : due[p] >= 0 =>
        \/ Level(p) = Cap[p]
        \/ Level(p) + (due[p] + Second - 1 - now) >= Cost[p]

RateInv == TypeOK /\ Refilled /\ Budget /\ Promised

\* The empty maps of NewRateLimiter satisfy RateInv.
LEMMA RateInit == Init => RateInv
<1> SUFFICES ASSUME Init PROVE RateInv
  OBVIOUS
<1> USE PricesTyped
<1>1. TypeOK
  BY DEF Init, TypeOK
<1>2. Refilled
  BY DEF Init, Refilled
<1>3. Budget
  BY DEF Init, Budget, Level
<1>4. Promised
  BY DEF Init, Promised
<1> QED BY <1>1, <1>2, <1>3, <1>4 DEF RateInv

\* Allow, whatever its answer: it charges some of the pair's two buckets, no
\* more than they hold, and counts what it grants.
LEMMA AllowStep ==
  ASSUME RateInv, NEW p \in Pairs, Allow(p)
  PROVE  /\ RateInv'
         /\ \E K \in SUBSET Keys :
               /\ \A k \in K : Level(k) >= Cost[k]
               /\ \A k \in Keys : Level(k)' = IF k \in K THEN Level(k) - Cost[k] ELSE Level(k)
<1> USE PricesTyped, PairKeys DEF RateInv, TypeOK
<1>1. PICK K \in SUBSET {p, p[1]} :
        /\ \A k \in K : Level(k) >= Cost[k]
        /\ level' = Charged(p, K)
        /\ spent' = spent \/ (K = {p, p[1]}
             /\ spent' = [spent EXCEPT ![p] = @ + Cost[p], ![p[1]] = @ + Cost[p[1]]])
  <2>1. CASE Granted(p)
    BY <2>1 DEF Granted
  <2>2. CASE PairThrottled(p)
    BY <2>2 DEF PairThrottled
  <2>3. CASE IpThrottled(p)
    BY <2>3 DEF IpThrottled
  <2> QED BY <2>1, <2>2, <2>3 DEF Allow
<1>2. now' = now /\ Touch(p)
  BY DEF Allow, Granted, PairThrottled, IpThrottled
<1>3. entries' = entries \cup {p, p[1]} /\ lastSeen' \in [Keys -> Nat]
  BY <1>2 DEF Touch
<1>4. \A k \in Keys : lastSeen'[k] = IF k \in {p, p[1]} THEN now ELSE lastSeen[k]
  BY <1>2 DEF Touch
<1>5. \A k \in Keys : Level(k) \in Nat /\ Level(k) <= Cap[k]
  BY DEF Level
<1>6. \A k \in Keys :
        level'[k] = IF k \in {p, p[1]}
                    THEN IF k \in K THEN Level(k) - Cost[k] ELSE Level(k)
                    ELSE level[k]
  BY <1>1 DEF Charged
<1>7. level' \in [Keys -> Nat] /\ \A k \in Keys : level'[k] <= Cap[k]
  <2>1. \A k \in Keys : level'[k] \in Nat /\ level'[k] <= Cap[k]
    BY <1>1, <1>5, <1>6
  <2>2. level' = [k \in Keys |-> level'[k]]
    BY <1>1 DEF Charged
  <2> QED BY <2>1, <2>2
<1>8. \A k \in Keys : Level(k)' = IF k \in K THEN Level(k) - Cost[k] ELSE Level(k)
  BY <1>1, <1>3, <1>6 DEF Level
<1>9. spent' \in [Keys -> Nat]
  BY <1>1
<1>10. \A k \in Keys : lastSeen'[k] <= now'
  BY <1>2, <1>4
<1>11. due' \in [Pairs -> Nat \cup {-1}] => TypeOK'
  BY <1>2, <1>3, <1>7, <1>9, <1>10
<1>12. Refilled'
  BY <1>2, <1>3, <1>4, <1>6, <1>7 DEF Refilled
<1>13. Budget'
  BY <1>1, <1>2, <1>5, <1>8 DEF Budget
<1>14. ASSUME NEW q \in Pairs, q # p PROVE Level(q)' = Level(q)
  <2>1. q \in Keys /\ q \notin {p, p[1]}
    BY <1>14, RateAssumption DEF Pairs, Keys
  <2> QED BY <1>8, <2>1
<1>15. /\ due' \in [Pairs -> Nat \cup {-1}]
       /\ \A q \in Pairs \ {p} : due'[q] = due[q]
       /\ due'[p] = -1 \/ /\ Level(p)' = Level(p)
                          /\ due'[p] + Second - 1 - now >= Cost[p] - Level(p)
  <2>1. CASE PairThrottled(p)
    <3>1. Cost[p] - Level(p) \in Nat
      BY <1>5, <2>1 DEF PairThrottled
    <3> DEFINE w == RetryAfter(Cost[p] - Level(p)) * Second
    <3>2. w \in Nat /\ w + Second - 1 >= Cost[p] - Level(p)
      BY <3>1, RetryAfterEarly
    <3>3. due' = [due EXCEPT ![p] = now + w]
      BY <2>1 DEF PairThrottled
    <3>4. level' = Charged(p, {})
      BY <2>1 DEF PairThrottled
    <3>5. Level(p)' = Level(p)
      BY <1>3, <3>4 DEF Level, Charged
    <3> HIDE DEF w
    <3>6. now + w \in Nat
      BY <3>2
    <3>7. due'[p] = now + w
      BY <3>3
    <3>8. due'[p] + Second - 1 - now >= Cost[p] - Level(p)
      BY <3>1, <3>2, <3>7, RateAssumption
    <3> QED BY <3>3, <3>5, <3>6, <3>8
  <2>2. CASE Granted(p) \/ IpThrottled(p)
    BY <2>2 DEF Granted, IpThrottled
  <2> QED BY <2>1, <2>2 DEF Allow
<1>16. Promised'
  <2> SUFFICES ASSUME NEW q \in Pairs, due'[q] >= 0
               PROVE  \/ Level(q)' = Cap[q]
                      \/ Level(q)' + (due'[q] + Second - 1 - now) >= Cost[q]
    BY <1>2 DEF Promised
  <2>0. Second \in Nat /\ q \in Keys
    BY RateAssumption
  <2>1. CASE q = p
    <3>1. Level(q)' = Level(q) /\ due'[q] + Second - 1 - now >= Cost[q] - Level(q)
      BY <1>15, <2>1
    <3> QED BY <1>5, <1>15, <2>0, <3>1
  <2>2. CASE q # p
    BY <1>14, <1>15, <2>2 DEF Promised
  <2> QED BY <2>1, <2>2
<1>17. TypeOK'
  BY <1>11, <1>15
<1>18. RateInv'
  BY ONLY <1>12, <1>13, <1>16, <1>17 DEF RateInv
<1>19. K \in SUBSET Keys
  BY <1>1
<1> HIDE DEF RateInv, TypeOK
<1> QED BY <1>1, <1>8, <1>18, <1>19

\* Time refills every bucket, whether it has an entry or not.
LEMMA TickStep ==
  ASSUME RateInv, Tick
  PROVE  /\ RateInv'
         /\ \A k \in Keys : Level(k)' = Buckets!Fill(k, Level(k) + 1)
<1> USE PricesTyped DEF RateInv, TypeOK, Tick
<1>1. TypeOK'
  OBVIOUS
<1>2. Refilled'
  BY DEF Refilled
<1>3. \A k \in Keys : Level(k)' = Buckets!Fill(k, Level(k) + 1)
  BY DEF Level, Buckets!Fill
<1>4. \A k \in Keys : Level(k) \in Nat /\ Level(k)' <= Level(k) + 1
  BY <1>3 DEF Level, Buckets!Fill
<1>5. Budget'
  <2> SUFFICES ASSUME NEW k \in Keys PROVE spent[k] + Level(k)' <= Cap[k] + (now + 1)
    BY DEF Budget
  <2>1. spent[k] + Level(k) <= Cap[k] + now
    BY DEF Budget
  <2>2. Level(k)' \in Nat
    BY <1>1 DEF Level
  <2> QED BY <1>4, <2>1, <2>2
<1>6. Promised'
  <2> SUFFICES ASSUME NEW p \in Pairs, due[p] >= 0
               PROVE  \/ Level(p)' = Cap[p]
                      \/ Level(p)' + (due[p] + Second - 1 - (now + 1)) >= Cost[p]
    BY DEF Promised
  <2>1. p \in Keys /\ Second \in Nat /\ due[p] \in Nat
    BY RateAssumption DEF Keys
  <2>2. Level(p) = Cap[p] \/ Level(p) + (due[p] + Second - 1 - now) >= Cost[p]
    BY DEF Promised
  <2>3. Level(p)' = IF Level(p) + 1 > Cap[p] THEN Cap[p] ELSE Level(p) + 1
    BY <1>3, <2>1 DEF Buckets!Fill
  <2>4. Level(p) \in Nat /\ Cap[p] \in Nat /\ Cost[p] \in Nat
    BY <1>4, <2>1
  <2> QED BY <2>1, <2>2, <2>3, <2>4
<1> QED BY <1>1, <1>2, <1>3, <1>5, <1>6

\* Evicting idle entries leaves every level that Allow would find as it was.
LEMMA EvictStep ==
  ASSUME EvictionIsSlow, RateInv, Evict
  PROVE  /\ RateInv'
         /\ \A k \in Keys : Level(k)' = Level(k)
<1> USE PricesTyped, RateAssumption DEF RateInv, TypeOK, Evict
<1>1. \A k \in entries \ entries' : level[k] = Cap[k]
  BY DEF Refilled, EvictionIsSlow
<1>2. \A k \in Keys : Level(k)' = Level(k)
  BY <1>1 DEF Level
<1>3. TypeOK' /\ Refilled'
  BY DEF Refilled
<1>4. Budget'
  BY <1>2 DEF Budget
<1>5. Promised'
  BY <1>2 DEF Promised, Keys
<1> QED BY <1>2, <1>3, <1>4, <1>5

\* No step breaks RateInv when eviction is slow.
LEMMA RateStep ==
  ASSUME EvictionIsSlow, RateInv, [Next]_vars
  PROVE  RateInv'
<1>1. CASE UNCHANGED vars
  BY <1>1 DEF vars, RateInv, TypeOK, Refilled, Budget, Promised, Level
<1> QED BY <1>1, AllowStep, TickStep, EvictStep DEF Next

\* A client is granted at most its burst and what time has refilled.
THEOREM GrantsBounded ==
  ASSUME EvictionIsSlow PROVE Spec => []AdmissionBound
<1>1. RateInv /\ [Next]_vars => RateInv'
  BY RateStep
<1>2. RateInv => AdmissionBound
  BY PricesTyped DEF RateInv, TypeOK, Budget, AdmissionBound, Level
<1> QED BY <1>1, <1>2, RateInit, PTL DEF Spec

\* The limiter is well typed: no bucket is ever below zero or above its burst,
\* and no entry was seen in the future.
THEOREM RatesTyped ==
  ASSUME EvictionIsSlow PROVE Spec => []TypeOK
<1>1. RateInv /\ [Next]_vars => RateInv'
  BY RateStep
<1>2. RateInv => TypeOK
  BY DEF RateInv
<1> QED BY <1>1, <1>2, RateInit, PTL DEF Spec

\* A client that obeys Retry-After and adds less than a second is not refused
\* by its own bucket again, for any burst, refill time and tick length.
THEOREM RetryAfterHonest ==
  ASSUME EvictionIsSlow PROVE Spec => []RetryAfterSuffices
<1>1. RateInv /\ [Next]_vars => RateInv'
  BY RateStep
<1>2. RateInv => RetryAfterSuffices
  <2> SUFFICES ASSUME RateInv, NEW p \in Pairs, due[p] >= 0, now >= due[p] + Second - 1
               PROVE  Level(p) >= Cost[p]
    BY DEF RetryAfterSuffices
  <2>1. p \in Keys /\ Second \in Nat /\ due[p] \in Nat /\ now \in Nat
    BY RateAssumption DEF Keys, RateInv, TypeOK
  <2>2. Level(p) \in Nat /\ Cap[p] \in Nat /\ Cost[p] \in Nat
    BY <2>1, PricesTyped DEF RateInv, TypeOK, Level
  <2>3. Level(p) = Cap[p] \/ Level(p) + (due[p] + Second - 1 - now) >= Cost[p]
    BY DEF RateInv, Promised
  <2>4. Cap[p] >= Cost[p]
    <3>1. Cap[p] = Burst * Refill /\ Cost[p] = Refill
      BY <2>1, RateAssumption DEF Cap, Cost, Pairs
    <3>2. Burst * Refill >= Refill
      BY RateAssumption
    <3> QED BY <3>1, <3>2
  <2> QED BY <2>1, <2>2, <2>3, <2>4
<1> QED BY <1>1, <1>2, RateInit, PTL DEF Spec

\* Evicting and re-creating entries is invisible to clients.
THEOREM EvictionHarmless ==
  ASSUME EvictionIsSlow PROVE Spec => EvictionInvisible
<1>1. Init => Buckets!Init
  BY PricesTyped DEF Init, Level, Buckets!Init
<1>2. ASSUME RateInv, [Next]_vars
      PROVE  [Buckets!Next]_([k \in Keys |-> Level(k)])
  <2> DEFINE L == [k \in Keys |-> Level(k)]
  <2>1. ASSUME NEW p \in Pairs, Allow(p) PROVE Buckets!Next
    <3>1. PICK K \in SUBSET Keys :
            /\ \A k \in K : Level(k) >= Cost[k]
            /\ \A k \in Keys : Level(k)' = IF k \in K THEN Level(k) - Cost[k] ELSE Level(k)
      BY <1>2, <2>1, AllowStep
    <3>2. Buckets!Charge(K)
      BY <3>1 DEF Buckets!Charge
    <3> QED BY <3>2 DEF Buckets!Next
  <2>2. ASSUME Tick PROVE Buckets!Next
    <3>1. \A k \in Keys : Level(k)' = Buckets!Fill(k, Level(k) + 1)
      BY <1>2, <2>2, TickStep
    <3>2. Buckets!Tick
      BY <3>1 DEF Buckets!Tick
    <3> QED BY <3>2 DEF Buckets!Next
  <2>3. ASSUME Evict PROVE L' = L
    BY <1>2, <2>3, EvictStep
  <2>4. CASE UNCHANGED vars
    BY <2>4 DEF vars, Level
  <2> QED BY <1>2, <2>1, <2>2, <2>3, <2>4 DEF Next
<1>3. RateInv /\ [Next]_vars => RateInv'
  BY RateStep
<1> QED BY <1>1, <1>2, <1>3, RateInit, PTL DEF Spec, EvictionInvisible, Buckets!Spec
=============================================================================
