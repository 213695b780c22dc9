---------------------------- MODULE RateLimiter ----------------------------
(***************************************************************************)
(* internal/abuse/limiter.go: token buckets per (IP, device cookie) pair   *)
(* and per IP, created on first use and evicted when not seen for an hour. *)
(* golang.org/x/time/rate is external: a bucket's level is kept in units   *)
(* of time, grows by one per tick up to its capacity, and a token of a     *)
(* pair costs Refill, one of an IP Refill \div 2.  A refused client is told *)
(* in whole seconds when to come back (guard.go).                          *)
(***************************************************************************)
EXTENDS Integers

CONSTANTS
    Ips,        \* client addresses
    Devices,    \* device cookies
    Burst,      \* tokens in a full pair bucket
    Refill,     \* time a pair bucket takes to gain a token
    StaleAfter, \* how long an entry must be unseen to be evicted (one hour)
    Second,     \* ticks in a second
    MaxTime     \* bound on time, for model checking

ASSUME RateAssumption ==
    /\ Burst \in Nat \ {0}
    /\ Refill \in Nat /\ Refill >= 2
    /\ StaleAfter \in Nat
    /\ Second \in Nat \ {0}
    /\ MaxTime \in Nat
    /\ Ips \cap (Ips \X Devices) = {}

VARIABLES
    now,        \* the clock
    entries,    \* keys of the two maps
    level,      \* level of each bucket that has an entry
    lastSeen,   \* when each entry was last used
    spent,      \* history: what each key was charged for granted requests
    due         \* history: when a pair's Retry-After is over, if its own bucket
                \* was short and has not been charged since; else -1

vars == <<now, entries, level, lastSeen, spent, due>>

Pairs == Ips \X Devices
Keys == Pairs \cup Ips

Cost == [k \in Keys |-> IF k \in Ips THEN Refill \div 2 ELSE Refill]
Cap == [k \in Keys |-> IF k \in Ips THEN 2 * Burst * (Refill \div 2)
                                    ELSE Burst * Refill]

\* The level Allow finds: that of the entry, or a full bucket made for it.
Level(k) == IF k \in entries THEN level[k] ELSE Cap[k]

Init ==
    /\ now = 0
    /\ entries = {}
    /\ level = Cap
    /\ lastSeen = [k \in Keys |-> 0]
    /\ spent = [k \in Keys |-> 0]
    /\ due = [p \in Pairs |-> -1]

Tick ==
    /\ now < MaxTime
    /\ now' = now + 1
    /\ level' = [k \in Keys |-> IF level[k] + 1 > Cap[k] THEN Cap[k] ELSE level[k] + 1]
    /\ UNCHANGED <<entries, lastSeen, spent, due>>

\* Fault: only the pair is looked up and marked as seen.
TouchPairOnly(p) ==
    /\ entries' = entries \cup {p, p[1]}
    /\ lastSeen' = [lastSeen EXCEPT ![p] = now]

\* Allow looks up or makes the entries of the pair and of its IP, and marks
\* both as seen.
Touch(p) ==
    /\ entries' = entries \cup {p, p[1]}
    /\ lastSeen' = [lastSeen EXCEPT ![p] = now, ![p[1]] = now]

\* The levels after Allow charged the buckets K of pair p.
Charged(p, K) ==
    [k \in Keys |-> IF k \in {p, p[1]}
                    THEN IF k \in K THEN Level(k) - Cost[k] ELSE Level(k)
                    ELSE level[k]]

\* Fault: the delay of the IP's reservation is not looked at.
GrantedForPair(p) ==
    /\ Level(p) >= Cost[p]
    /\ Touch(p)
    /\ level' = Charged(p, {p, p[1]})
    /\ spent' = [spent EXCEPT ![p] = @ + Cost[p], ![p[1]] = @ + Cost[p[1]]]
    /\ due' = [due EXCEPT ![p] = -1]
    /\ UNCHANGED now

\* Both reservations are immediate.
Granted(p) ==
    /\ Level(p) >= Cost[p]
    /\ Level(p[1]) >= Cost[p[1]]
    /\ Touch(p)
    /\ level' = Charged(p, {p, p[1]})
    /\ spent' = [spent EXCEPT ![p] = @ + Cost[p], ![p[1]] = @ + Cost[p[1]]]
    /\ due' = [due EXCEPT ![p] = -1]
    /\ UNCHANGED now

\* Fault: the client is always told to come back in a second.
RetryAfterDefault(delay) == 1

\* The Retry-After header: the delay in whole seconds, and one at least.
RetryAfter(delay) == IF delay \div Second <= 0 THEN 1 ELSE delay \div Second

\* The pair's reservation has a delay: it is cancelled, which returns the token.
PairThrottled(p) ==
    /\ Level(p) < Cost[p]
    /\ Touch(p)
    /\ level' = Charged(p, {})
    /\ due' = [due EXCEPT ![p] = now + RetryAfter(Cost[p] - Level(p)) * Second]
    /\ UNCHANGED <<now, spent>>

\* The IP's reservation has a delay: both are cancelled.  The pair's was
\* immediate, and cancelling it returns the token only if the clock has not
\* moved since; usually it is lost.
IpThrottled(p) ==
    /\ Level(p) >= Cost[p]
    /\ Level(p[1]) < Cost[p[1]]
    /\ Touch(p)
    /\ \E K \in {{}, {p}} : level' = Charged(p, K)
    /\ due' = [due EXCEPT ![p] = -1]
    /\ UNCHANGED <<now, spent>>

Allow(p) == Granted(p) \/ PairThrottled(p) \/ IpThrottled(p)

\* Fault: entries are evicted whenever they were last seen.
EvictAll ==
    /\ entries # {}
    /\ entries' = {}
    /\ UNCHANGED <<now, level, lastSeen, spent, due>>

\* evictStaleEntries, at a tick of its ten minute ticker.
Evict ==
    /\ \E k \in entries : now - lastSeen[k] > StaleAfter
    /\ entries' = {k \in entries : now - lastSeen[k] <= StaleAfter}
    /\ UNCHANGED <<now, level, lastSeen, spent, due>>

Next == Tick \/ (\E p \in Pairs : Allow(p)) \/ Evict

Spec == Init /\ [][Next]_vars

-----------------------------------------------------------------------------
(* Properties *)

TypeOK ==
    /\ now \in Nat
    /\ entries \in SUBSET Keys
    /\ level \in [Keys -> Nat]
    /\ lastSeen \in [Keys -> Nat]
    /\ spent \in [Keys -> Nat]
    /\ due \in [Pairs -> Nat \cup {-1}]
    /\ \A k \in Keys : level[k] <= Cap[k] /\ lastSeen[k] <= now

\* An idle hour refills every bucket.  The default configuration sees to it
\* (five tokens, thirty seconds each); the code does not enforce it.  The
\* properties below are about such configurations.
EvictionIsSlow == \A k \in Keys : Cap[k] <= StaleAfter

\* No pair and no IP is granted more than its burst and what time has refilled
\* since, although entries come and go: throttled requests cost an IP nothing,
\* and eviction does not hand out tokens.
AdmissionBound == \A k \in Keys : spent[k] <= Cap[k] + now

\* Retry-After, whose seconds are truncated, is early by less than a second: a
\* client that waits that much longer is not refused by its own bucket again.
RetryAfterSuffices ==
    \A p \in Pairs : due[p] >= 0 /\ now >= due[p] + Second - 1 => Level(p) >= Cost[p]

\* With eviction slow enough nobody can tell that there is eviction: creation
\* on first use, eviction and re-creation implement buckets that exist forever.
Buckets == INSTANCE TokenBuckets WITH
    level <- [k \in Keys |-> Level(k)]

EvictionInvisible == Buckets!Spec
=============================================================================
