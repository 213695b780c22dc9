# Docpine: TLA+ models, checks and proofs

Docpine hands anonymous visitors a short-lived shell in a sandbox.  A browser
posts to `/sessions`, an abuse guard decides, a runtime (Docker, gVisor or
Firecracker) makes a sandbox, and a websocket connects the browser to its
terminal.  Sessions end when the terminal ends, when their TTL runs out, or when
the process shuts down.  Everything is kept in memory; nothing survives the
process except the sandboxes it failed to destroy.

This directory models the parts of that story in which goroutines meet: who
holds a slot, who owns a sandbox, who tears it down, and what happens when one of
several steps fails.

## 1. Inventory

| Component | State | Operations | Meets |
|---|---|---|---|
| Concurrency limiter (`internal/abuse/concurrency.go`) | an atomic counter | `TryAcquire`, `Release` | called by the guard, the create handler and the `OnDestroy` callback |
| Abuse guard (`internal/abuse/guard.go`) | device -> session and session -> device under `g.mu` | `CheckAnonymousCreate`, `RegisterSession`, `ReleaseSession` | create handler, `OnDestroy` callback |
| Rate limiter (`internal/abuse/limiter.go`) | token buckets per (IP, device) and per IP, last use of each | `Allow`, eviction every ten minutes | guard |
| Device cookie (`internal/abuse/cookie.go`) | the browser's signed cookie: device id and time of issue | `GetOrSet`, `Verify` | guard, browser |
| Turnstile (`internal/abuse/turnstile.go`) | none | `Verify` | guard, Cloudflare |
| Session manager (`internal/session/manager.go`) | the session map under `m.mu`, callbacks, the reaper | `Create`, `Get`, `Attach`, `Destroy`, `Close`, `reapExpired` | both transports, runtime, guard (by callback), main |
| Create endpoint (`internal/transport/http/session_handler.go`) | per request | `Create` | guard, manager |
| Websocket handler (`internal/transport/websocket/handler.go`) | per connection: two pumps, `writeMu`, `errChan`, a timer, two log files | `Attach` | manager, PTY stream, client |
| Container runtimes (`internal/runtime/docker`, `gvisor`) | `destroyMu`, `destroyed`; the container itself is the daemon's | `CreateSandbox`, `AttachPTY`, `Destroy` | Docker daemon |
| Firecracker runtime (`internal/runtime/firecracker`) | a process, a work directory, FIFOs | the same three | firecracker process |
| main, server and runtime registry (`cmd/docpine/main.go`, `internal/transport/server.go`, `internal/runtime/registry.go`) | how far start-up or shutdown has come, `s.server`, the deferred calls | `GetConfig`, `runtime.New`, `Start`, signal, `Shutdown`, `Close` | all |
| Configuration, logging, CORS, request ids, JSON | fixed after start, or none | | |

What makes it hard, and what correctness means for each part:

* **Slots.**  A slot is acquired early in a request and must be given back exactly
  once: by one of four rejections, by a failed creation, or by whoever tears the
  session down.  The counter is lock-free and its `Release` is two instructions.
* **Teardown.**  The reaper, any number of websocket handlers and `Close` race for a
  session.  Exactly one may tear it down, and a running sandbox may never be
  without somebody who will.  The callback runs *before* the sandbox is destroyed.
* **Bindings.**  Check and registration of a device are separated by a network call
  and the creation of a container; releasing does not look at what it deletes.
* **Terminal.**  Three goroutines, one mutex around blocking writes, a channel with
  two places and a timer have to end together, whatever client and shell do.
* **Sandbox.**  Daemon and API calls may fail, or succeed while the caller gets an
  error; a removal is attempted once.  A microVM is a process, a directory and two
  FIFOs that have to go together, and one of its FIFOs is opened with a call that
  blocks.
* **Cookie.**  The cookie that names a device is never renewed, so a device changes
  its name while its sessions run; and a browser may give up on a request the server
  is still working on.
* **Rate limiting.**  Entries are evicted and re-created; that must not hand out
  tokens.  `Retry-After` is cut to whole seconds.
* **Start and shutdown.**  `Shutdown` may come before `Start` has set the server.
  `http.Server.Shutdown` does not wait for hijacked connections, `Close` waits for the
  reaper and destroys everything under one deadline, a second signal kills, and the
  process ends under whoever still works.

`PROJECT.json` lists these hazards line by line with the properties that cover
them.

## 2. Modules

```
SlotPool  <-- implemented by --  ConcurrencyLimiter      (atomic instructions)
   ^------- implemented by --  Docpine = Guard + SessionManager + handlers + main
SandboxContract <-- implemented by -- Backends = ContainerSandbox (Docker, gVisor)
                                               + FirecrackerSandbox,
                                                 both on Sandbox (the shared handle)
TokenBuckets    <-- implemented by -- RateLimiter
TerminalStream                                           (one attached terminal)
Process                                                  (main, start to exit)
DeviceCookie                                             (one browser over time)
```

* **`SlotPool`** is the abstract specification: at most `Capacity` clients are in, a
  client is refused only while every slot is taken, and each client that is in
  leaves once.
* **`ConcurrencyLimiter`** has one action per atomic instruction: `Load`,
  `CompareAndSwap`, `Decrement`, `Clamp`.  A goroutine may also release without
  holding, the situation the clamp was written for; `strayed` remembers that one did.
* **`Guard`** holds the state of the guard and its critical sections.  Acquire and
  release are atomic here, which is what `ConcurrencyLimiter` implements as long as
  releases are paired; `SlotAccounting` below shows that they are.
* **`SessionManager`** holds the session map, the sandboxes' fate and, per owner
  (reaper, connection, main) and session, how far a teardown has come: `taken` from
  the map, `unbound`, slot `freed`, then `Sandbox.Destroy`.  What the code does
  under `m.mu` is one action; after the unlock each call is an action of its own.
* **`Docpine`** composes both with the create handler (`pc`), the websocket handler
  (`cpc`) and main.  A request also names the session it leads to, since ids are
  fresh uuids.  Requests begin with the listener open and end with it closed;
  handlers that are under way go on until the process exits.  A connection that is
  destroying has the label `destroying` or, if `Attach` itself found the session
  expired, `expiring`: that call of `Destroy` is given a context without a deadline.
* **`TerminalStream`** takes the websocket handler apart from a successful attach on.
  In `Docpine` the same stretch is the single label `streaming`.  The PTY pump reads,
  logs and writes in three steps; `chunk` is what became of the log entry (`logged`,
  `dropped` because there is no file or the write failed, which the code ignores, or
  `late` because the file was closed already) and `shown` what the client got.
* **`SandboxContract`** is what `SessionManager` assumes of a sandbox (`none`,
  `running`, `destroyed`, `leaked`).  **`Sandbox`** is the handle every backend
  returns: `destroyed`, `destroyMu`, the first lines of `AttachPTY` and `Destroy`.
  **`ContainerSandbox`** adds the Docker backend, with the daemon's container as
  state; gVisor differs only in options and names.  **`FirecrackerSandbox`** adds the
  microVM: the process, the working directory, how many of the five API requests were
  carried out, whether the VM has opened its console, and who has which FIFO open.
  `Undo` is the `sb.Destroy` of a creation that failed.  **`Backends`** composes them:
  the backend is chosen once, as at start-up.
* **`TokenBuckets`**, **`RateLimiter`**: buckets that always exist, and the maps of
  lazily created and evicted ones.  Levels are in units of time, so that a bucket
  gains one per tick.  `golang.org/x/time/rate` is external; cancelling a
  reservation that was immediate may or may not return its token, as in the library.
  `due` remembers when the last `Retry-After` sent to a pair runs out.
* **`Process`** is main from `GetConfig` to its last deferred call, with the goroutine
  of `Server.Start`, the reaper as far as `Close` waits for it, the websocket handlers
  as far as they take sessions out of the map (`ending`), and up to two signals.
  Sessions are only counted.  The unsynchronised read of `s.server` in `Shutdown` may
  miss an assignment just made.  A creation may succeed after the runtime was closed,
  since no backend's `Close` prevents that.  Time is counted in seconds and only inside
  `Close`: every `Destroy` may take any part of what is left of the one context, and one
  that starts with nothing left is `late`.
* **`DeviceCookie`** is one browser against `GetOrSet`, `Verify` and the device check,
  with a clock finer than the second a cookie is stamped with.  Cookie age and TTL are
  independent constants, a creation takes any time, and the reaper comes whenever it
  likes.  The browser sends one request at a time, but may give up on one; concurrent
  requests of one device are `Docpine`'s subject.

Operators under a comment `Fault:` are plausible mistakes in the code next to
them.  No specification uses them; putting one in the place of its neighbour shows
that a property notices.

## 3. Runs

| Run | Instance | Shows |
|---|---|---|
| `limiter` | 4 goroutines, ceiling 2, anybody may release | `SlotsExact`, `CounterWithinCeiling`, `NegativeIsBeingClamped`; implements `SlotPool` until the first stray release |
| `docpine_attach` | 2 requests, 2 devices, 2 connections, 1 slot; a TTL may end at once | `SlotAccounting`, `OneOwner`, `RunningIsOwned`, `BoundMeansPresent` |
| `docpine_crowd` | 3 requests, 2 devices, 1 connection, 2 slots | `CeilingBeforeDestroy`, `BindingsAgree`, `BoundMeansPresent`, `ExitLeavesOnlyConnTeardowns`; implements `SlotPool` |
| `docpine_live` | 2 requests, 1 device, 1 connection, 1 slot, fair | `SlotsComeBack`, `ExpiredIsTornDown`, `ShutdownEnds` |
| `terminal` | one terminal, `errChan` of two | `SendNeverBlocks`, `NothingShownTooLate`, `TerminalEnds` |
| `sandbox` | either kind of backend, 2 attaches, 3 destroys | `OneAttempt`, `NilMeansGoneOrReported`, `FailedCreateCleansUp`, `FifosAreOwned`, `DestroyReturns`, `AttachReturns`; implements `SandboxContract` |
| `rate` | 1 address, 3 devices, burst 1, refill 4, two ticks a second, eviction after 4, 10 ticks | `AdmissionBound`, `EvictionInvisible`, `RetryAfterSuffices` |
| `process` | 4 sessions, 3 seconds for `Close`, 2 signals | `RuntimeReadyWhileUsed`, `OnlyKnownGapsLeaveSessions`, `SignalEnds` |
| `cookie` | cookie age and TTL 6, two ticks a second, 4 requests, 13 ticks | `ActiveSessionsBounded` |

Why the bounds are enough to be interesting.  With four goroutines and two slots
two can be inside, one between load and compare-and-swap, and one refused.  Two
connections and the reaper and `Close` are four owners racing for one session; the
third request of `docpine_crowd` arrives at a device whose two sessions have
overwritten each other's binding, and at a ceiling that is full.  Three destroys
are one at work, one waiting and one late; two attaches are one blocked on the FIFO
and one that comes after the directory is gone.  In `rate`, three devices exhaust
their address before their own buckets, and 10 ticks let an entry be drained,
refill, be evicted after 4 idle ticks and be drained again; with two
ticks to a second, delays of one and three ticks are the ones rounding changes.  In `process`, four
sessions are one with the reaper, one with a websocket handler, and two for `Close`, the
second of which may find the time used up.  In `cookie`, a session lives as long as the
cookie, as with the ten minutes `docs/deployment.md` recommends, and 13 ticks see two
cookies run out and a third issued: the browser comes to hold three active sessions, so
the bound is reached, and a fourth request can be one it gave up on.  Every bound
is a constant of the cfg; `MaxTime`, `MaxSessions` and `MaxRequests` are the
ones that truncate behaviours.
Requests and connections are used up, as uuids are.

`limiter`, `docpine_attach`, `docpine_crowd` and `rate` use symmetry among
goroutines, requests, devices and connections, which no definition tells apart;
the runs with liveness do not, since symmetry is not sound for it.  `sandbox` and
`process` turn the deadlock check off because all calls return and the process ends,
`cookie` because its clock stops at its bound.  Everywhere else a deadlock would be
reported (`Docpine` stutters explicitly after the exit, `TerminalStream` after its
three goroutines ended).

### Fairness

* `Docpine`: weak fairness for each create handler, each websocket handler, each
  owner's teardown, the expiry of a TTL, the reaper and main.  These are goroutines
  and timers.  Turnstile and the Destroy calls carry timeouts, all but one: `Attach` of
  an expired session (`manager.go:126`) passes on a context without a deadline, so
  `OwnerProgress` assumes nothing of that call once the slot is free, and
  `ExpiredIsTornDown` names it as its exception (without it TLC finds the property
  violated).  `ContainerCreate` and `ContainerStart` have no timeout either; here the
  daemon is assumed to answer or the client to hang up, and `SlotsComeBack` depends on
  it.  Nothing is assumed of clients: requests need not arrive, terminals need not
  end, no signal need come.  `docpine_live` has no drain timeout, the harder case for
  `ShutdownEnds`.
* `TerminalStream`: weak fairness for the three goroutines and the timer, strong
  fairness for locking `writeMu`, because a `sync.Mutex` hands itself to a waiter
  after a millisecond.  A client that stays stalled for ever is excluded by the
  property, not by fairness: without a write deadline the code really waits for it
  (the reaper then tears the session down; the handler's goroutines stay).
* `Backends`: weak fairness for a Destroy under way (its daemon calls have deadlines,
  in every caller but the one just named, and a killed process dies), for the steps of an `AttachPTY` except the open that blocks,
  and for a started microVM opening its console.  `AttachReturns` makes no promise
  about a microVM that has died: the open then blocks for ever, and Destroy does not
  end it.
* `Process`: weak fairness for main and for the reaper's Destroy, which has a timeout;
  strong fairness for the reaper's exit, since its `select` picks at random between a
  tick and having been stopped.

### Where the code and its documentation disagree

Three runs state a sentence of the documentation and find it violated:

* `doc_one_per_device`: README: "a strict 1 active sandbox session per device".
  Two concurrent creates with one cookie both pass the check.
* `doc_hard_ceiling`: `concurrency.go`: "a hard ceiling on concurrently running
  anonymous sandboxes".  The slot is released before the sandbox is destroyed.
  `CeilingBeforeDestroy` is the ceiling the code does keep.
* `doc_close_all`: `manager.go`: Close "destroys all active sandboxes".  All of
  them share ten seconds with the wait for the reaper, and nothing else bounds a single
  `ContainerStop` or `ContainerRemove`: a daemon that is slow over one sandbox, the
  reaper's or the first of `Close`, leaves the next with a context that is over.

Also shown by the properties that hold, in what they except: a websocket handler
that has just taken its session is not waited for, and a request that outlives the
drain may store a session nobody destroys (`ExitLeavesOnlyConnTeardowns`) or meet a
closed runtime (`RuntimeReadyWhileUsed`); a session taken between `Manager.Create` and
`RegisterSession`, which needs a TTL shorter than the rest of the request, leaves a
binding nothing removes (`BoundMeansPresent`); a signal before `Start` has set the server
leaves it running, and a second signal kills `Close` (`OnlyKnownGapsLeaveSessions`); an
expired session may be stuck in the Destroy of an attach (`ExpiredIsTornDown`); a browser
can hold several sessions around the change of its cookie, two with the default TTL of
five minutes and three with the ten of `docs/deployment.md`, which equal the cookie's age
(`ActiveSessionsBounded`); what the file system refuses is missing from the log without a
word (`NothingShownTooLate`); `Retry-After` may be early by less than a second
(`RetryAfterSuffices`).

Read but not made into runs: `docs/architecture.md` announces 429 at full capacity
where the code sends 503; the README calls the body of `POST /sessions` optional
where an empty one is answered with 400.

## 4. Proofs

The proofs hold for every number of requests, devices, connections, goroutines and
callers (finite where they are counted), every ceiling, burst, refill time, deadline
and lifetime, and every value of the bounds that truncate the runs.  Every safety
invariant and every refinement that a passing run checks is stated by a theorem.  The
strengthenings were checked by TLC as invariants before they were proved.

**`ConcurrencyLimiterProofs`.**  `TypeCorrect`, `CeilingHolds` and
`NegativeNeverRests` hold whoever releases.  `CeilingHolds` needs the part of `TypeOK`
that says a goroutine's copy of the counter is below the ceiling: a compare-and-swap
that succeeds then cannot pass it.  `AccountingExact` and `LimiterIsSlotPool` are
about the time before the first stray release; the inductive invariant `PairedInv`
adds to the exact count that nobody is clamping, for with paired releases the count
cannot become negative.

**`DocpineProofs`.**  The invariant is `Inv == TypeOK /\ Lifecycle /\ SlotAccounting`.
`SlotAccounting` alone is not inductive: that a teardown's release ends exactly one
holder needs that no other owner, not the map and not the request's handler still
stand for that slot.  `Lifecycle` says so: a session is in the map or with one owner,
either only after its handler stored it, and a sandbox runs exactly while one of them
has it.  From `Inv` follow `SlotsAccountedFor`, `TeardownHasOneOwner`,
`SandboxesAreOwned` and `CeilingKept` (the running sandboxes not being destroyed are
among the slot holders, and those are counted).  Type correctness, with the counter
between zero and the ceiling, needs the test of the ceiling and the clamp.
`MapsAgree` uses `BindInv`, whose `BoundOnce` says that a session is bound only by
its own request, at its last step; so overwriting a binding never leaves the reverse
entry pointing elsewhere.  `ServiceIsSlotPool` shows for each action that at most one
request's status changes, and how.  For `BindingsNeverStale`,
`PresentInv` says that a session is expired, attached to or taken only after its request
has finished, or has expired early, which needs `TTLOutlastsCreate` to be false; so before
`Close` a stored session that has not expired is still in the map when its handler binds
it.  `ExitAccounted` combines `SandboxesAreOwned` with `ExitInv`: main exits with the
reaper and itself idle, and after a drained `Shutdown` no request is under way, so `Close`
empties the map for good and the owner of a sandbox that still runs can only be a
connection.

**`RateLimiterProofs`.**  Its theorems assume `EvictionIsSlow`: no bucket's capacity
exceeds the time after which entries are evicted.  The defaults (five tokens at
thirty seconds against an hour) satisfy it; the configuration does not enforce it.
The invariant `RateInv` adds to the types that an entry which is not full has gained
a unit for every tick since it was last seen (`Refilled`), so that what is evicted is
full, and that what was spent and what is left stay within capacity and elapsed time
(`Budget`).  For `RetryAfterHonest` it has `Promised`:
between a refusal and the time its `Retry-After` runs out the pair's bucket lacks no
more than the time that is left, since nothing is granted from a bucket without a
token; `RetryAfterEarly` bounds what the truncation takes away.

**`BackendsProofs`.**  `Inv` has one part for the handle (`HandleInv`: a Destroy is
at work exactly while it holds `destroyMu`, one at most gets past the flag, nobody has
the handle before it is returned), one for those who found the flag set (`AlreadyInv`:
they waited until the one that set it returned), one each for the container and the
microVM at every place of `CreateSandbox` and `Destroy`, one for the API requests and
one for the FIFO descriptors.  `DestroyedOnce` needs only the first.  `NilIsHonest`
needs the second as well: a late caller's nil speaks of an attempt it did not make.
`FailureCleansUp` and `FifosNeverLeak` read off the places; `MeetsContract` maps the
backend's state to `SandboxState` and shows each step to be a step of
`SandboxContract` or none.

**`TerminalStreamProofs`.**  `PumpsNeverBlock` holds for a capacity of two or more
(the code's is two; with one it is false): `BudgetInv` says that the results in
`errChan` and those still to come are two at most.  `LogClosesLast` rests on `LogInv`:
the log is closed only after the handler wrote its close frame or found no client, so
what a pump logs too late no longer reaches the client.

**`ProcessProofs`.**  `OrderInv` is the order in which main builds its parts and takes
them down, `GapsInv` what each stage of the shutdown has already ruled out: in
particular that after a drain without a missed server or a timeout no request is left to
add to the map.

**`DeviceCookieProofs`.**  A bare count of sessions is not inductive.  `ExcessInv` says
that for some set of at most `abandoned` requests, which holds all that go on behind the
browser's back (`Few`, `Behind`), the sessions outside it are one per device, which is
bound (`Single`); each session of a device the browser no longer is was created before
the stamp `g` of the cookie that took that device's place (`Replaced`); and these stamps
are a cookie's age apart (`Apart`).  `AwaitedInv` has the age of the cookie being waited
for; `NamesInv` and `CountInv` keep requests apart and counted.  The active sessions of
earlier cookies outside the set then have stamps less than a session's lifetime and a
second back, which leaves room for the number `BrowserBounded` states.
`CookieAssumption` asks only what the code gives: a positive TTL and a cookie age of
whole seconds.

Named assumptions on constants are in the modules that declare them: finite sets of
requests, threads and destroyers, an integer ceiling, distinct owners and markers,
Boolean switches, positive burst, a refill time of at least two units (it is halved),
a mutex marker and an absent cookie that are no caller and no cookie.

**Model-checked only.**  Liveness, which is out of the prover's reach:
`SlotsComeBack`, `ExpiredIsTornDown`, `ShutdownEnds`, `TerminalEnds`, `DestroyReturns`,
`AttachReturns`, `SignalEnds`.

## 5. Not modelled

What configuration values are parsed to (they are the constants), logging, CORS,
request ids, JSON and client addresses: stateless or fixed at start.  `CgroupID`,
`ActiveCount` and `Available`, which only read.  The HTTP exchange with Turnstile,
cookie signatures, terminal bytes, container options and the contents of
firecracker's API requests.  Durations, except in `RateLimiter`, `DeviceCookie` and
inside `Close`: elsewhere timeouts are choices that may or may not strike.  A log file
that cannot be opened is modelled for output only.

## 6. Plan

1. Core: slots, sessions, teardown, shutdown.  *Done:* `ConcurrencyLimiter`, `Guard`,
   `SessionManager`, `Docpine`, with proofs.
2. The parts `Docpine` abstracts.  *Done:* `TerminalStream`, `Backends`,
   `RateLimiter`, with proofs.
3. Time and the process.  *Done:* `DeviceCookie`, `Process`, `Retry-After`,
   with proofs.
4. Proofs of every safety invariant and refinement the runs check.  *Done.*
5. Worth proving next: action properties (a sandbox's fate is final, a session that
   left the map never returns, the slot counter moves only with a holder), and what
   `SlotPool` and `SandboxContract` promise, as theorems about the abstract
   specifications that the refinements carry over to the code's.
