-------------------------------- MODULE Guard --------------------------------
(***************************************************************************)
(* internal/abuse/guard.go: the state the abuse guard keeps between        *)
(* requests, and the operations on it.  Each operation is atomic in the    *)
(* code: the two binding maps are only touched under g.mu, and TryAcquire  *)
(* and Release of the slot counter are atomic by ConcurrencyLimiter, which *)
(* is shown to implement SlotPool when releases are paired.                *)
(***************************************************************************)
EXTENDS Parameters

CONSTANTS
    Devices,        \* device ids carried by the __dp_dev cookie
    MaxConcurrent,  \* configured ceiling on concurrent sandboxes
    NoDevice,       \* a session without an entry in sessionDevices
    NoSession       \* a device without an entry in deviceSessions

ASSUME GuardAssumption ==
    /\ MaxConcurrent \in Int
    /\ NoDevice \notin Devices
    /\ NoSession \notin Requests

VARIABLES
    active,         \* concurrency.active
    deviceSessions, \* device id -> the session bound to it
    sessionDevices  \* session id -> the device it is bound to

guardVars == <<active, deviceSessions, sessionDevices>>
bindings == <<deviceSessions, sessionDevices>>

maxConcurrent == IF MaxConcurrent <= 0 THEN 12 ELSE MaxConcurrent

GuardInit ==
    /\ active = 0
    /\ deviceSessions = [d \in Devices |-> NoSession]
    /\ sessionDevices = [s \in Requests |-> NoDevice]

HasActiveDeviceSession(d) == deviceSessions[d] # NoSession

\* Fault: the ceiling itself still counts as free.
HasFreeSlotOffByOne == active <= maxConcurrent

\* TryAcquire's test of the ceiling.
HasFreeSlot == active < maxConcurrent

TakeSlot == active' = active + 1

\* Fault: the slot is not given back.
KeepSlot == active' = active

\* Release: decrement, and clamp a negative result to zero.
Release == active' = IF active - 1 < 0 THEN 0 ELSE active - 1

RegisterSession(d, s) ==
    /\ deviceSessions' = [deviceSessions EXCEPT ![d] = s]
    /\ sessionDevices' = [sessionDevices EXCEPT ![s] = d]

\* Fault: only the map that is searched by session is cleaned up.
ReleaseReverseOnly(s) ==
    /\ sessionDevices' = [sessionDevices EXCEPT ![s] = NoDevice]
    /\ UNCHANGED deviceSessions

\* Fault: the session's own entry stays behind.
ReleaseForwardOnly(s) ==
    IF sessionDevices[s] # NoDevice
    THEN /\ deviceSessions' =
              [deviceSessions EXCEPT ![sessionDevices[s]] = NoSession]
         /\ UNCHANGED sessionDevices
    ELSE UNCHANGED bindings

\* ReleaseSession: drop the binding of the session's device, whichever
\* session that binding names by now, and the session's own entry.
ReleaseSession(s) ==
    IF sessionDevices[s] # NoDevice
    THEN /\ deviceSessions' =
              [deviceSessions EXCEPT ![sessionDevices[s]] = NoSession]
         /\ sessionDevices' = [sessionDevices EXCEPT ![s] = NoDevice]
    ELSE UNCHANGED bindings
=============================================================================
