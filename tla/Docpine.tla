------------------------------- MODULE Docpine -------------------------------
(***************************************************************************)
(* The running service: create requests (internal/transport/http), attach  *)
(* requests (internal/transport/websocket), the reaper and the shutdown of *)
(* cmd/docpine/main.go, over the state of Guard and SessionManager.        *)
(*                                                                         *)
(* A create request moves through pc[r]:                                   *)
(*   idle -> checked      the device has no bound session                  *)
(*        -> slot         TryAcquire succeeded                             *)
(*        -> verified     Turnstile passed or is disabled                  *)
(*        -> admitted     the rate limiter allowed it                      *)
(*        -> provisioned  the runtime created the sandbox                  *)
(*        -> stored       the session is in the map                        *)
(*        -> created      the device is bound, 201 is sent                 *)
(* or ends in "full" (503), "rejected" (400, 409, 428, 429, 500), by way   *)
(* of "failed" when the runtime did not create the sandbox.                *)
(***************************************************************************)
EXTENDS Guard, SessionManager

CONSTANTS
    TurnstileEnabled,   \* whether a Turnstile secret is configured
    TTLOutlastsCreate,  \* whether a TTL is longer than the rest of its request
    DrainMayTimeOut     \* whether requests may outlast the shutdown deadline

ASSUME SwitchesAssumption ==
    {TurnstileEnabled, TTLOutlastsCreate, DrainMayTimeOut} \subseteq BOOLEAN

VARIABLES
    pc,         \* where each create request is
    device,     \* the device id of each create request
    cpc,        \* where each attach request is
    target,     \* the session each attach request is for
    main,       \* main: "serving", "draining", "closing", "destroying", "exited"
    drained     \* whether Shutdown saw every handler return

requestVars == <<pc, device>>
connVars == <<cpc, target>>
mainVars == <<main, drained>>
vars == <<guardVars, managerVars, requestVars, connVars, mainVars>>

Init ==
    /\ GuardInit
    /\ ManagerInit
    /\ pc = [r \in Requests |-> "idle"]
    /\ device = [r \in Requests |-> NoDevice]
    /\ cpc = [c \in Conns |-> "idle"]
    /\ target = [c \in Conns |-> NoSession]
    /\ main = "serving"
    /\ drained = FALSE

\* The process is alive, and main stays where it is.
Alive == main # "exited" /\ UNCHANGED mainVars

Goto(r, label) == pc' = [pc EXCEPT ![r] = label]

-----------------------------------------------------------------------------
(* SessionHandler.Create and Guard.CheckAnonymousCreate *)

\* The request body does not decode: 400.
BadPayload(r) ==
    /\ main = "serving"
    /\ pc[r] = "idle"
    /\ Goto(r, "rejected")
    /\ Alive
    /\ UNCHANGED <<guardVars, managerVars, device, connVars>>

\* The cookie names device d, or is given it; a bound device is refused: 409.
CheckDevice(r, d) ==
    /\ main = "serving"
    /\ pc[r] = "idle"
    /\ device' = [device EXCEPT ![r] = d]
    /\ Goto(r, IF HasActiveDeviceSession(d) THEN "rejected" ELSE "checked")
    /\ Alive
    /\ UNCHANGED <<guardVars, managerVars, connVars>>

\* TryAcquire; 503 when every slot is taken.
AcquireSlot(r) ==
    /\ pc[r] = "checked"
    /\ IF HasFreeSlot
       THEN TakeSlot /\ Goto(r, "slot")
       ELSE Goto(r, "full") /\ UNCHANGED active
    /\ Alive
    /\ UNCHANGED <<bindings, managerVars, device, connVars>>

\* Turnstile is disabled, or Verify accepts the token.
TurnstilePasses(r) ==
    /\ pc[r] = "slot"
    /\ Goto(r, "verified")
    /\ Alive
    /\ UNCHANGED <<guardVars, managerVars, device, connVars>>

\* Fault: the rejection forgets to call release.
TurnstileFailsKeepingSlot(r) ==
    /\ pc[r] = "slot"
    /\ TurnstileEnabled
    /\ Goto(r, "rejected")
    /\ Alive
    /\ UNCHANGED <<guardVars, managerVars, device, connVars>>

\* No token, or Verify fails or times out: release the slot, 428.
TurnstileFails(r) ==
    /\ pc[r] = "slot"
    /\ TurnstileEnabled
    /\ Release
    /\ Goto(r, "rejected")
    /\ Alive
    /\ UNCHANGED <<bindings, managerVars, device, connVars>>

\* rateLimiter.Allow says yes.
RateAllowed(r) ==
    /\ pc[r] = "verified"
    /\ Goto(r, "admitted")
    /\ Alive
    /\ UNCHANGED <<guardVars, managerVars, device, connVars>>

\* rateLimiter.Allow says no: release the slot, 429.
RateLimited(r) ==
    /\ pc[r] = "verified"
    /\ Release
    /\ Goto(r, "rejected")
    /\ Alive
    /\ UNCHANGED <<bindings, managerVars, device, connVars>>

\* Manager.Create: the runtime provisions the sandbox.
Provision(r) ==
    /\ pc[r] = "admitted"
    /\ CreateSandbox(r)
    /\ Goto(r, "provisioned")
    /\ Alive
    /\ UNCHANGED <<guardVars, device, connVars>>

\* Manager.Create: the runtime fails, or the client's context is cancelled.
ProvisionFails(r) ==
    /\ pc[r] = "admitted"
    /\ CreateSandboxFails(r)
    /\ Goto(r, "failed")
    /\ Alive
    /\ UNCHANGED <<guardVars, device, connVars>>

\* The handler gives the slot of a failed creation back: 500.
ReleaseAfterFailure(r) ==
    /\ pc[r] = "failed"
    /\ Release
    /\ Goto(r, "rejected")
    /\ Alive
    /\ UNCHANGED <<bindings, managerVars, device, connVars>>

\* Manager.Create: the session enters the map.
Store(r) ==
    /\ pc[r] = "provisioned"
    /\ Insert(r)
    /\ Goto(r, "stored")
    /\ Alive
    /\ UNCHANGED <<guardVars, device, connVars>>

\* RegisterSession, then 201 with the session id.
Bind(r) ==
    /\ pc[r] = "stored"
    /\ RegisterSession(device[r], r)
    /\ Goto(r, "created")
    /\ Alive
    /\ UNCHANGED <<active, managerVars, device, connVars>>

RequestArrives(r) == BadPayload(r) \/ \E d \in Devices : CheckDevice(r, d)

RequestStep(r) ==
    \/ AcquireSlot(r)
    \/ TurnstilePasses(r)
    \/ TurnstileFails(r)
    \/ RateAllowed(r)
    \/ RateLimited(r)
    \/ Provision(r)
    \/ ProvisionFails(r)
    \/ ReleaseAfterFailure(r)
    \/ Store(r)
    \/ Bind(r)

-----------------------------------------------------------------------------
(* Handler.Attach of the websocket transport *)

ConnGoto(c, label) == cpc' = [cpc EXCEPT ![c] = label]

\* Manager.Get for a session the client was told of; 404 or 410 end here.
Get(c, s) ==
    /\ main = "serving"
    /\ cpc[c] = "idle"
    /\ pc[s] = "created"
    /\ target' = [target EXCEPT ![c] = s]
    /\ ConnGoto(c, IF s \in sessions \ expired THEN "found" ELSE "closed")
    /\ Alive
    /\ UNCHANGED <<guardVars, managerVars, requestVars>>

\* The connection is upgraded, and so hijacked from the HTTP server, or not.
Upgrade(c) ==
    /\ cpc[c] = "found"
    /\ \E label \in {"upgraded", "closed"} : ConnGoto(c, label)
    /\ Alive
    /\ UNCHANGED <<guardVars, managerVars, requestVars, target>>

\* Manager.Attach, up to AttachPTY.  A session that expired since Get is
\* destroyed by the attach itself.
AttachLookup(c) ==
    /\ cpc[c] = "upgraded"
    /\ ConnGoto(c, CASE target[c] \notin sessions -> "closed"
                     [] target[c] \in sessions \cap expired -> "expired"
                     [] OTHER -> "attaching")
    /\ Alive
    /\ UNCHANGED <<guardVars, managerVars, requestVars, target>>

\* Sandbox.AttachPTY opens the stream if the sandbox is still there, or
\* fails; the handler of a failed attach returns without Destroy.
AttachPTY(c) ==
    /\ cpc[c] = "attaching"
    /\ \/ ConnGoto(c, "closed")
       \/ sandbox[target[c]] = "running" /\ ConnGoto(c, "streaming")
    /\ Alive
    /\ UNCHANGED <<guardVars, managerVars, requestVars, target>>

\* A pump reports the end of the stream, or the five minute timer fires.
StreamEnds(c) ==
    /\ cpc[c] = "streaming"
    /\ ConnGoto(c, "destroy")
    /\ Alive
    /\ UNCHANGED <<guardVars, managerVars, requestVars, target>>

\* Manager.Destroy, called by the handler with a deadline, or by Attach for an
\* expired session with the handler's context, which has none.
ConnDestroy(c) ==
    /\ cpc[c] \in {"destroy", "expired"}
    /\ Destroy(c, target[c])
    /\ ConnGoto(c, IF cpc[c] = "expired" THEN "expiring" ELSE "destroying")
    /\ Alive
    /\ UNCHANGED <<guardVars, requestVars, target>>

\* Manager.Destroy has returned and so does the handler.
ConnReturns(c) ==
    /\ cpc[c] \in {"destroying", "expiring"}
    /\ ~ Busy(c)
    /\ ConnGoto(c, "closed")
    /\ Alive
    /\ UNCHANGED <<guardVars, managerVars, requestVars, target>>

ConnStep(c) ==
    \/ Upgrade(c)
    \/ AttachLookup(c)
    \/ AttachPTY(c)
    \/ ConnDestroy(c)
    \/ ConnReturns(c)

-----------------------------------------------------------------------------
(* Teardown by any owner, with the callback that main.go registers *)

Unbind(o, s) ==
    /\ CallbackUnbind(o, s)
    /\ ReleaseSession(s)
    /\ Alive
    /\ UNCHANGED <<active, requestVars, connVars>>

FreeSlot(o, s) ==
    /\ CallbackFree(o, s)
    /\ Release
    /\ Alive
    /\ UNCHANGED <<bindings, requestVars, connVars>>

TearDown(o, s) ==
    /\ DestroySandbox(o, s)
    /\ Alive
    /\ UNCHANGED <<guardVars, requestVars, connVars>>

OwnerStep(o) ==
    \E s \in Requests : Unbind(o, s) \/ FreeSlot(o, s) \/ TearDown(o, s)

-----------------------------------------------------------------------------
(* Time, the reaper and shutdown *)

TTLRunsOut(s) ==
    /\ TTLOutlastsCreate => pc[s] = "created"
    /\ Expire(s)
    /\ Alive
    /\ UNCHANGED <<guardVars, requestVars, connVars>>

ReaperTick ==
    /\ ReapExpired
    /\ Alive
    /\ UNCHANGED <<guardVars, requestVars, connVars>>

ReaperStops ==
    /\ ReaperExit
    /\ Alive
    /\ UNCHANGED <<guardVars, requestVars, connVars>>

\* SIGINT or SIGTERM: the listener closes, no new request is served.
Signal ==
    /\ main = "serving"
    /\ main' = "draining"
    /\ UNCHANGED <<guardVars, managerVars, requestVars, connVars, drained>>

\* Fault: Shutdown also waits for websocket handlers.
AllConnsReturned ==
    /\ \A r \in Requests : pc[r] \in {"idle", "rejected", "full", "created"}
    /\ \A c \in Conns : cpc[c] \in {"idle", "closed"}

\* Shutdown waits for the handlers of connections that are not hijacked.
HandlersReturned ==
    /\ \A r \in Requests : pc[r] \in {"idle", "rejected", "full", "created"}
    /\ \A c \in Conns : cpc[c] # "found"

\* Shutdown returns, drained or at its deadline, and the deferred Close stops
\* the reaper.
BeginClose ==
    /\ main = "draining"
    /\ HandlersReturned \/ DrainMayTimeOut
    /\ drained' = HandlersReturned
    /\ main' = "closing"
    /\ StopReaper
    /\ UNCHANGED <<guardVars, requestVars, connVars>>

CloseSessions ==
    /\ main = "closing"
    /\ CloseTake
    /\ main' = "destroying"
    /\ UNCHANGED <<guardVars, requestVars, connVars, drained>>

\* Close returns, the runtime is closed and the process ends; whatever other
\* goroutines were doing is cut short.
Exit ==
    /\ main = "destroying"
    /\ ~ Busy(Main)
    /\ main' = "exited"
    /\ UNCHANGED <<guardVars, managerVars, requestVars, connVars, drained>>

Shutdown == BeginClose \/ CloseSessions \/ Exit

Running ==
    \/ \E r \in Requests : RequestArrives(r) \/ RequestStep(r) \/ TTLRunsOut(r)
    \/ \E c \in Conns :
          (\E s \in Requests : Get(c, s)) \/ ConnStep(c) \/ StreamEnds(c)
    \/ \E o \in Owners : OwnerStep(o)
    \/ ReaperTick
    \/ ReaperStops
    \/ Signal
    \/ Shutdown

\* The process is gone; stuttering here keeps every other stop a deadlock.
Exited == main = "exited" /\ UNCHANGED vars

Next == Running \/ Exited

Spec == Init /\ [][Next]_vars

-----------------------------------------------------------------------------
(* Fairness *)

\* Attach is destroying an expired session: manager.go:126 passes on the context
\* of handler.go:93, which a hijacked connection does not cancel and which has no
\* deadline.
WithoutDeadline(o) == o \in Conns /\ cpc[o] = "expiring"

\* The steps of an owner that come to an end by themselves.
OwnerProgress(o) ==
    \E s \in Requests :
        Unbind(o, s) \/ FreeSlot(o, s) \/ (~ WithoutDeadline(o) /\ TearDown(o, s))

\* Handlers, the reaper and main are goroutines that always get to run.  Their
\* calls to Turnstile end by a timeout at the latest, and so do the calls of
\* Sandbox.Destroy, except the one Attach makes.  ContainerCreate and
\* ContainerStart have no timeout, so here the Docker daemon is assumed to answer
\* (or the client to hang up, which cancels the call).  Clients owe nothing: no
\* fairness for arrivals, for the end of a stream or for the signal.
Fairness ==
    /\ \A r \in Requests : WF_vars(RequestStep(r)) /\ WF_vars(TTLRunsOut(r))
    /\ \A c \in Conns : WF_vars(ConnStep(c))
    /\ \A o \in Owners : WF_vars(OwnerProgress(o))
    /\ WF_vars(ReaperTick)
    /\ WF_vars(ReaperStops)
    /\ WF_vars(Shutdown)

FairSpec == Spec /\ Fairness

-----------------------------------------------------------------------------
(* Safety properties *)

PCs == {"idle", "checked", "slot", "verified", "admitted", "failed",
        "provisioned", "stored", "created", "full", "rejected"}
ConnPCs == {"idle", "found", "upgraded", "attaching", "streaming",
            "destroy", "expired", "destroying", "expiring", "closed"}

TypeOK ==
    /\ active \in 0..maxConcurrent
    /\ deviceSessions \in [Devices -> Requests \cup {NoSession}]
    /\ sessionDevices \in [Requests -> Devices \cup {NoDevice}]
    /\ sessions \in SUBSET Requests
    /\ expired \in SUBSET Requests
    /\ sandbox \in [Requests -> {"none", "running", "destroyed", "leaked"}]
    /\ work \in [Owners -> [Requests -> Stages]]
    /\ reaper \in {"running", "stopping", "done"}
    /\ pc \in [Requests -> PCs]
    /\ device \in [Requests -> Devices \cup {NoDevice}]
    /\ cpc \in [Conns -> ConnPCs]
    /\ target \in [Conns -> Requests \cup {NoSession}]
    /\ main \in {"serving", "draining", "closing", "destroying", "exited"}
    /\ drained \in BOOLEAN

\* Request r has a slot: its handler acquired one, and neither the handler nor
\* the teardown of the session it led to has released it yet.
HoldsSlot(r) ==
    \/ pc[r] \in {"slot", "verified", "admitted", "failed", "provisioned"}
    \/ r \in sessions
    \/ \E o \in Owners : work[o][r] \in {"taken", "unbound"}

SlotHolders == {r \in Requests : HoldsSlot(r)}

\* Every path through CheckAnonymousCreate, a failed creation, and a teardown
\* by the reaper, by a websocket handler or by Close releases the slot exactly
\* once: the counter is the number of slots in use, and the clamp in Release
\* never hides a slot released twice.
SlotAccounting == active = Cardinality(SlotHolders)

BeingDestroyed == {s \in Requests : \E o \in Owners : work[o][s] = "freed"}

\* The ceiling as the code keeps it: the sandboxes that run and have not yet
\* been handed to Sandbox.Destroy never exceed MaxConcurrent.  (One that a failed
\* Destroy or a failed clean-up left behind is "leaked" and not counted here.)
CeilingBeforeDestroy ==
    Cardinality({s \in Requests : sandbox[s] = "running"} \ BeingDestroyed)
        <= maxConcurrent

\* A running sandbox is never forgotten: its create handler is about to put
\* it in the map, it is in the map, or a goroutine is tearing it down.
RunningIsOwned ==
    \A s \in Requests : sandbox[s] = "running" =>
        \/ pc[s] = "provisioned"
        \/ s \in sessions
        \/ \E o \in Owners : work[o][s] # "none"

\* The reaper, websocket handlers and Close race for a session, and the delete
\* under the lock picks one: nobody else has work for it, and no session is in
\* the map while it is torn down.  What Get and Attach find still runs.
OneOwner ==
    \A s \in Requests :
        /\ \A o, p \in Owners :
              work[o][s] # "none" /\ work[p][s] # "none" => o = p
        /\ s \in sessions =>
              sandbox[s] = "running" /\ \A o \in Owners : work[o][s] = "none"

\* The guard's two maps agree: the session a device is bound to is bound to
\* that device, even after ReleaseSession of another session of the device.
BindingsAgree ==
    \A d \in Devices : deviceSessions[d] # NoSession =>
        sessionDevices[deviceSessions[d]] = d

\* A 409 has a session behind it: a device is bound only to a session that is in
\* the map or whose teardown has just begun.  The one exception is a TTL that ran
\* out before RegisterSession, so that the reaper took the session first and
\* nobody will unbind it again.  (Close may overtake a request that outlived the
\* drain, so this is about the time before Close.)
BoundMeansPresent ==
    main \in {"serving", "draining"} =>
        \A s \in Requests : sessionDevices[s] # NoDevice =>
            \/ s \in sessions
            \/ \E o \in Owners : work[o][s] = "taken"
            \/ ~ TTLOutlastsCreate /\ s \in expired

\* What the process leaves running when main returns: sandboxes that a websocket
\* handler was tearing down, and, if Shutdown gave up on the HTTP server, those
\* of requests that got to the map after Close had emptied it, or not even there.
ExitLeavesOnlyConnTeardowns ==
    main = "exited" =>
        \A s \in Requests : sandbox[s] = "running" =>
            \/ \E c \in Conns : work[c][s] # "none"
            \/ ~ drained /\ (pc[s] = "provisioned" \/ s \in sessions)

\* The service as a whole is a slot pool whose clients are create requests:
\* one grant per request, one release per grant, 503 only when all are taken.
Pool == INSTANCE SlotPool WITH
    Clients <- Requests,
    Capacity <- maxConcurrent,
    status <- [r \in Requests |->
                 IF r \in SlotHolders THEN "in"
                 ELSE IF pc[r] = "full" THEN "refused" ELSE "out"]

ImplementsSlotPool == Pool!Spec

-----------------------------------------------------------------------------
(* Liveness properties *)

\* A slot is always given back, whatever the client, Turnstile, Sandbox.Destroy
\* and the websocket do, unless the process ends first.  The daemon is assumed to
\* answer the calls that create and start a container.
SlotsComeBack ==
    \A r \in Requests : HoldsSlot(r) ~> (~ HoldsSlot(r) \/ main = "exited")

\* An expired session is torn down, whether or not a client ever attaches to it,
\* or is in the hands of the one call of Destroy that may never return: that of
\* an Attach that came after the expiry and before the reaper.
ExpiredIsTornDown ==
    \A s \in Requests :
        s \in expired ~>
            \/ sandbox[s] \in {"destroyed", "leaked"}
            \/ \E c \in Conns : cpc[c] = "expiring" /\ work[c][s] = "freed"
            \/ main = "exited"

\* Shutdown ends: Close's wait for the reaper is not a deadlock.
ShutdownEnds == main = "draining" ~> main = "exited"

-----------------------------------------------------------------------------
(* Claims of the documentation that the code does not keep *)

\* README: "a strict 1 active sandbox session per device".
OneSessionPerDevice ==
    \A r, s \in sessions :
        pc[r] = "created" /\ pc[s] = "created" /\ device[r] = device[s] => r = s

\* concurrency.go: "a hard ceiling on concurrently running anonymous
\* sandboxes".
RunningWithinCeiling ==
    Cardinality({s \in Requests : sandbox[s] = "running"}) <= maxConcurrent
=============================================================================
