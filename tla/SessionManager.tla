--------------------------- MODULE SessionManager ---------------------------
(***************************************************************************)
(* internal/session/manager.go: the in-memory session map and the three    *)
(* kinds of goroutine that take sessions out of it and tear them down: the *)
(* reaper, a websocket handler in Destroy, and main in Close.              *)
(*                                                                         *)
(* Everything the code does under m.mu is one action.  What follows the    *)
(* unlock is not: between the delete from the map, the two calls of the    *)
(* OnDestroy callback and Sandbox.Destroy every other goroutine may run.   *)
(* work[o][s] is the place of owner o in that sequence for session s:      *)
(*   "taken"    deleted from the map, callback not yet run                 *)
(*   "unbound"  guard.ReleaseSession has run                               *)
(*   "freed"    the slot was released, Sandbox.Destroy still to return     *)
(***************************************************************************)
EXTENDS Parameters

CONSTANTS
    Conns,          \* websocket attach requests
    Reaper,         \* the goroutine runReaper
    Main,           \* the goroutine that runs Close
    DestroyMayFail  \* whether Sandbox.Destroy may time out or fail

ASSUME OwnersAssumption == Reaper \notin Conns /\ Main \notin Conns /\ Reaper # Main
ASSUME DestroyAssumption == DestroyMayFail \in BOOLEAN

VARIABLES
    sessions,   \* keys of the session map
    expired,    \* sessions whose ExpiresAt has passed
    sandbox,    \* what became of the sandbox of each session
    work,       \* what each owner has left to do for each session
    reaper      \* "running", "stopping" (reaperStop called), "done"

managerVars == <<sessions, expired, sandbox, work, reaper>>

Owners == Conns \cup {Reaper, Main}
Stages == {"none", "taken", "unbound", "freed"}

ManagerInit ==
    /\ sessions = {}
    /\ expired = {}
    /\ sandbox = [s \in Requests |-> "none"]
    /\ work = [o \in Owners |-> [s \in Requests |-> "none"]]
    /\ reaper = "running"

Busy(o) == \E s \in Requests : work[o][s] # "none"

\* Create, first half: the runtime provisions the sandbox.
CreateSandbox(s) ==
    /\ sandbox' = [sandbox EXCEPT ![s] = "running"]
    /\ UNCHANGED <<sessions, expired, work, reaper>>

\* Create returns an error; a container whose clean-up failed stays behind.
CreateSandboxFails(s) ==
    /\ \E left \in {"none"} \cup (IF DestroyMayFail THEN {"leaked"} ELSE {}) :
          sandbox' = [sandbox EXCEPT ![s] = left]
    /\ UNCHANGED <<sessions, expired, work, reaper>>

\* Create, second half: the session enters the map.
Insert(s) ==
    /\ sessions' = sessions \cup {s}
    /\ UNCHANGED <<expired, sandbox, work, reaper>>

\* The TTL of a session in the map runs out.
Expire(s) ==
    /\ s \in sessions \ expired
    /\ expired' = expired \cup {s}
    /\ UNCHANGED <<sessions, sandbox, work, reaper>>

\* Fault: the session is left in the map while it is torn down.
TakeWithoutDelete(o, S) ==
    /\ work' = [work EXCEPT ![o] =
                  [s \in Requests |-> IF s \in S THEN "taken" ELSE @[s]]]
    /\ UNCHANGED <<sessions, expired, sandbox, reaper>>

\* Owner o deletes the sessions S from the map and will tear them down.
Take(o, S) ==
    /\ sessions' = sessions \ S
    /\ work' = [work EXCEPT ![o] =
                  [s \in Requests |-> IF s \in S THEN "taken" ELSE @[s]]]
    /\ UNCHANGED <<expired, sandbox, reaper>>

\* Fault: the reaper loop ends after its first batch.
ReapOnce ==
    /\ reaper # "done"
    /\ ~ Busy(Reaper)
    /\ sessions \cap expired # {}
    /\ sessions' = sessions \ expired
    /\ work' = [work EXCEPT ![Reaper] =
                  [s \in Requests |-> IF s \in sessions \cap expired THEN "taken" ELSE @[s]]]
    /\ reaper' = "done"
    /\ UNCHANGED <<expired, sandbox>>

\* reapExpired, under the lock.  `now' is read just before the lock: a session
\* that expires in between waits for the next tick, as if this one had come
\* first.  A tick that finds nothing changes nothing.  With reaperStop called,
\* the select may still choose the tick.
ReapExpired ==
    /\ reaper # "done"
    /\ ~ Busy(Reaper)
    /\ sessions \cap expired # {}
    /\ Take(Reaper, sessions \cap expired)

\* runReaper sees reaperCtx done, between two batches.
ReaperExit ==
    /\ reaper = "stopping"
    /\ ~ Busy(Reaper)
    /\ reaper' = "done"
    /\ UNCHANGED <<sessions, expired, sandbox, work>>

\* Destroy, under the lock: whoever deletes the session tears it down, and a
\* caller that does not find it returns at once.
Destroy(o, s) ==
    IF s \in sessions
    THEN Take(o, {s})
    ELSE UNCHANGED managerVars

\* Close, up to the wait for the reaper.
StopReaper ==
    /\ reaper' = "stopping"
    /\ UNCHANGED <<sessions, expired, sandbox, work>>

\* Fault: Close does not wait for the reaper.
CloseTakeAtOnce == Take(Main, sessions)

\* Close, under the lock, once the reaper has stopped.
CloseTake ==
    /\ reaper = "done"
    /\ Take(Main, sessions)

Advance(o, s, from, to) ==
    /\ work[o][s] = from
    /\ work' = [work EXCEPT ![o][s] = to]

\* An owner is in one callback at a time, and the reaper finishes a session
\* before it starts the next.
InTurn(o, s) ==
    \A x \in Requests \ {s} :
        work[o][x] # "unbound" /\ (o = Reaper => work[o][x] # "freed")

\* First call of the OnDestroy callback: guard.ReleaseSession.
CallbackUnbind(o, s) ==
    /\ InTurn(o, s)
    /\ Advance(o, s, "taken", "unbound")
    /\ UNCHANGED <<sessions, expired, sandbox, reaper>>

\* Second call of the OnDestroy callback: ConcurrencyLimiter.Release.
CallbackFree(o, s) ==
    /\ Advance(o, s, "unbound", "freed")
    /\ UNCHANGED <<sessions, expired, sandbox, reaper>>

\* Fault: the sandbox is dropped without being destroyed.
ForgetSandbox(o, s) ==
    /\ Advance(o, s, "freed", "none")
    /\ UNCHANGED <<sessions, expired, sandbox, reaper>>

\* Sandbox.Destroy.  Close only gets here after all its callbacks.  The
\* sandbox marks itself destroyed before it tries, so a failed attempt is
\* never repeated: a later call returns nil.
DestroySandbox(o, s) ==
    /\ o = Main => \A x \in Requests : work[o][x] \in {"none", "freed"}
    /\ Advance(o, s, "freed", "none")
    /\ IF sandbox[s] = "running"
       THEN \E result \in {"destroyed"} \cup (IF DestroyMayFail THEN {"leaked"} ELSE {}) :
               sandbox' = [sandbox EXCEPT ![s] = result]
       ELSE UNCHANGED sandbox
    /\ UNCHANGED <<sessions, expired, reaper>>
=============================================================================
