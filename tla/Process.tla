------------------------------- MODULE Process -------------------------------
(***************************************************************************)
(* One life of the process: cmd/docpine/main.go with the configuration,    *)
(* the runtime registry, the goroutine of Server.Start, the reaper as far  *)
(* as Manager.Close waits for it, the websocket handlers as far as they    *)
(* take sessions from the manager, and the deferred calls at the end.      *)
(* Requests and sessions are only counted; module Docpine has the details. *)
(*                                                                         *)
(* Time is counted in seconds, and only inside Manager.Close, whose calls  *)
(* of Sandbox.Destroy share one context.  Nothing but that context bounds  *)
(* how long one of them takes.                                             *)
(***************************************************************************)
EXTENDS Integers

CONSTANTS
    MaxSessions, \* bound on the sessions at a time
    CloseBudget  \* seconds main gives Manager.Close

ASSUME TimesAssumption ==
    /\ MaxSessions \in Nat
    /\ CloseBudget \in Nat \ {0}

\* The backends whose init function calls Register.
Registered == {"docker", "gvisor", "runsc", "firecracker"}

VARIABLES
    host,      \* [config, met]: configuration valid, prerequisites of the runtime met
    name,      \* RUNTIME_NAME
    main,      \* place of main
    logs,      \* the log closer: "none", "open" or "closed"
    rt,        \* the runtime: "none", "open" or "closed"
    wired,     \* whether the OnDestroy callback is registered
    server,    \* goroutine of Start: "none", "starting", "assigned", "serving", "ended"
    inflight,  \* whether a create request is being handled
    sessions,  \* sessions in the manager's map
    reaper,    \* "none", "idle", "busy" or "done"
    ending,    \* sessions websocket handlers have taken and not yet destroyed
    signals,   \* SIGINT and SIGTERM received, at most 2
    missed,    \* whether Shutdown found s.server nil
    timedOut,  \* whether Shutdown gave up on a request
    left,      \* sessions Close has taken and not yet destroyed
    spent,     \* seconds of its context that Close has used
    late       \* sandboxes Close destroyed with a context already used up

vars == <<host, name, main, logs, rt, wired, server, inflight, sessions, reaper,
          ending, signals, missed, timedOut, left, spent, late>>
closeVars == <<left, spent, late>>
startVars == <<host, name, logs, rt, wired>>
raceVars == <<server, inflight, sessions, reaper, ending, signals, missed, timedOut>>

Init ==
    /\ host \in [config : BOOLEAN, met : BOOLEAN]
    /\ name \in Registered \cup {"unregistered"}
    /\ main = "config"
    /\ logs = "none" /\ rt = "none" /\ wired = FALSE
    /\ server = "none" /\ inflight = FALSE /\ sessions = 0 /\ reaper = "none"
    /\ ending = 0 /\ signals = 0 /\ missed = FALSE /\ timedOut = FALSE
    /\ left = 0 /\ spent = 0 /\ late = 0

Ended == main \in {"panicked", "fatal", "killed", "exited"}

-----------------------------------------------------------------------------
(* Start-up *)

Goto(from, to) == main = from /\ main' = to

\* GetConfig: a missing secret or an unreadable .env file panics.
LoadConfig ==
    /\ Goto("config", IF host.config THEN "logger" ELSE "panicked")
    /\ UNCHANGED <<startVars, raceVars, closeVars>>

\* logger.Setup: no closer if no file is configured, or if it fails, which is
\* reported and otherwise ignored.
SetUpLogger ==
    /\ Goto("logger", "factory")
    /\ logs' \in {"none", "open"}
    /\ UNCHANGED <<host, name, rt, wired, raceVars, closeVars>>

\* runtime.New: the factory of that name, which may fail.  os.Exit runs no
\* deferred call.
NewRuntime ==
    /\ \/ name \in Registered /\ Goto("factory", "check") /\ rt' = "open"
       \/ Goto("factory", "fatal") /\ UNCHANGED rt
    /\ UNCHANGED <<host, name, logs, wired, raceVars, closeVars>>

\* Fault: prerequisites that are not met are only logged.
IgnorePrerequisites ==
    /\ Goto("check", "guard")
    /\ UNCHANGED <<startVars, raceVars, closeVars>>

\* CheckPrerequisites of the backend; when it fails, or runs into the ten
\* seconds of initCtx, the runtime is closed again.
CheckPrerequisites ==
    /\ \/ host.met /\ Goto("check", "guard") /\ UNCHANGED rt
       \/ Goto("check", "fatal") /\ rt' = "closed"
    /\ UNCHANGED <<host, name, logs, wired, raceVars, closeVars>>

\* NewGuard and NewManager, which starts the reaper.
NewManager ==
    /\ Goto("guard", "wire")
    /\ reaper' = "idle"
    /\ UNCHANGED <<startVars, server, inflight, sessions, ending, signals, missed, timedOut, closeVars>>

\* OnDestroy, the handlers and NewServer
Wire ==
    /\ Goto("wire", "notify")
    /\ wired' = TRUE
    /\ UNCHANGED <<host, name, logs, rt, raceVars, closeVars>>

\* signal.NotifyContext, and the goroutine of Start
StartServer ==
    /\ Goto("notify", "await")
    /\ server' = "starting"
    /\ UNCHANGED <<startVars, inflight, sessions, reaper, ending, signals, missed, timedOut, closeVars>>

-----------------------------------------------------------------------------
(* Server.Start and the requests *)

AssignServer ==
    /\ server = "starting"
    /\ server' = "assigned"
    /\ UNCHANGED <<startVars, main, inflight, sessions, reaper, ending, signals, missed, timedOut, closeVars>>

\* Whether http.Server.Shutdown has been called.
ShutDown == main \notin {"notify", "await"} /\ ~missed

\* ListenAndServe refuses after Shutdown, and fails if the address is taken;
\* main then goes on waiting for a signal.
ListenAndServe ==
    /\ server = "assigned"
    /\ server' \in {"ended"} \cup {s \in {"serving"} : ~ShutDown}
    /\ UNCHANGED <<startVars, main, inflight, sessions, reaper, ending, signals, missed, timedOut, closeVars>>

RequestArrives ==
    /\ ~Ended
    /\ server = "serving" /\ ~inflight
    /\ sessions + left + ending + late < MaxSessions
    /\ inflight' = TRUE
    /\ UNCHANGED <<startVars, main, server, sessions, reaper, ending, signals, missed, timedOut, closeVars>>

\* The session is in the map, or the creation failed.  Close of the runtime does
\* not stand in its way: Firecracker's does nothing, and the Docker client's
\* drops idle connections only.
RequestEnds ==
    /\ ~Ended
    /\ inflight
    /\ inflight' = FALSE
    /\ sessions' \in {sessions, sessions + 1}
    /\ UNCHANGED <<startVars, main, server, reaper, ending, signals, missed, timedOut, closeVars>>

\* reapExpired takes a session out of the map, and destroys its sandbox.
Reap ==
    /\ ~Ended
    /\ reaper = "idle" /\ sessions > 0
    /\ reaper' = "busy"
    /\ sessions' = sessions - 1
    /\ UNCHANGED <<startVars, main, server, inflight, ending, signals, missed, timedOut, closeVars>>

\* The Destroy of the reaper has a context of its own, so while Close waits
\* for it any part of Close's may pass.
ReapEnds ==
    /\ ~Ended
    /\ reaper = "busy"
    /\ reaper' = "idle"
    /\ IF main = "reaper" THEN spent' \in spent..CloseBudget ELSE UNCHANGED spent
    /\ UNCHANGED <<startVars, main, server, inflight, sessions, ending, signals, missed, timedOut, left, late>>

\* The deferred Destroy of a websocket handler: the session is out of the map,
\* and its sandbox gets up to five seconds, for which neither Shutdown, the
\* connection being hijacked, nor Close waits.
ConnTakes ==
    /\ ~Ended
    /\ sessions > 0
    /\ sessions' = sessions - 1
    /\ ending' = ending + 1
    /\ UNCHANGED <<startVars, main, server, inflight, reaper, signals, missed, timedOut, closeVars>>

ConnDestroys ==
    /\ ~Ended
    /\ ending > 0
    /\ ending' = ending - 1
    /\ UNCHANGED <<startVars, main, server, inflight, sessions, reaper, signals, missed, timedOut,
                   closeVars>>

-----------------------------------------------------------------------------
(* Signals, and the way out *)

\* Before NotifyContext, and again after the deferred stop, a signal kills.
Signal ==
    /\ ~Ended
    /\ signals < 2
    /\ signals' = signals + 1
    /\ main' = IF main \in {"await", "drain"} THEN main ELSE "killed"
    /\ UNCHANGED <<startVars, server, inflight, sessions, reaper, ending, missed, timedOut, closeVars>>

\* Server.Shutdown: if s.server is set, the listener is closed; if not,
\* nothing happens, and Start goes on.  Nothing orders this read after the
\* assignment in the other goroutine, so one just made may not be seen.
Shutdown ==
    /\ main = "await"
    /\ signals > 0
    /\ main' = "drain"
    /\ \/ missed' = TRUE /\ server \in {"starting", "assigned"}
       \/ missed' = FALSE /\ server # "starting"
    /\ server' = IF server = "serving" THEN "ended" ELSE server
    /\ UNCHANGED <<startVars, inflight, sessions, reaper, ending, signals, timedOut, closeVars>>

\* Shutdown returns when no request is left, or after ten seconds; the first
\* deferred calls, cancel and stop, follow.
Drained ==
    /\ Goto("drain", "close")
    /\ timedOut' = (inflight /\ ~missed)
    /\ UNCHANGED <<startVars, server, inflight, sessions, reaper, ending, signals, missed, closeVars>>

\* Fault: Close waits for the reaper before it stops it.
WaitForReaperOnly ==
    /\ Goto("close", "close")
    /\ reaper = "done"
    /\ UNCHANGED <<startVars, raceVars, closeVars>>

\* The deferred function makes the context, and Close stops the reaper.
StopReaper ==
    /\ Goto("close", "reaper")
    /\ UNCHANGED <<startVars, raceVars, closeVars>>

ReaperExits ==
    /\ main = "reaper"
    /\ reaper = "idle"
    /\ reaper' = "done"
    /\ UNCHANGED <<startVars, main, server, inflight, sessions, ending, signals, missed, timedOut, closeVars>>

\* Close takes all sessions out of the map, and runs their callbacks.
CloseTake ==
    /\ Goto("reaper", "destroy")
    /\ reaper = "done"
    /\ left' = sessions
    /\ sessions' = 0
    /\ UNCHANGED <<startVars, server, inflight, reaper, ending, signals, missed, timedOut, spent, late>>

\* Fault: Destroy is given a context without a deadline.
CloseDestroyUnbounded ==
    /\ main = "destroy"
    /\ left > 0
    /\ left' = left - 1
    /\ spent' \in spent .. spent + CloseBudget
    /\ UNCHANGED <<startVars, main, raceVars, late>>

\* One turn of the loop over Destroy, which may use all that is left of the
\* context.  With nothing left the calls to the daemon fail at once and the
\* sandbox stays, except that Firecracker's Destroy does not look at it.
CloseDestroy ==
    /\ main = "destroy"
    /\ left > 0
    /\ left' = left - 1
    /\ spent' \in spent..CloseBudget
    /\ late' = IF name # "firecracker" /\ spent = CloseBudget THEN late + 1 ELSE late
    /\ UNCHANGED <<startVars, main, raceVars>>

\* Fault: the loop ends when the context does.
CloseReturnsOnError ==
    /\ Goto("destroy", "release")
    /\ left = 0 \/ spent = CloseBudget
    /\ UNCHANGED <<startVars, raceVars, closeVars>>

CloseReturns ==
    /\ Goto("destroy", "release")
    /\ left = 0
    /\ UNCHANGED <<startVars, raceVars, closeVars>>

\* rt.Close, the next deferred call
CloseRuntime ==
    /\ Goto("release", "flush")
    /\ rt' = "closed"
    /\ UNCHANGED <<host, name, logs, wired, raceVars, closeVars>>

\* logCloser.Close, the last one; main returns and the process ends.
Exit ==
    /\ Goto("flush", "exited")
    /\ logs' = IF logs = "open" THEN "closed" ELSE logs
    /\ UNCHANGED <<host, name, rt, wired, raceVars, closeVars>>

Main ==
    \/ LoadConfig \/ SetUpLogger \/ NewRuntime \/ CheckPrerequisites \/ NewManager
    \/ Wire \/ StartServer \/ Shutdown \/ Drained \/ StopReaper \/ CloseTake
    \/ CloseDestroy \/ CloseReturns \/ CloseRuntime \/ Exit

Serve == ~Ended /\ (AssignServer \/ ListenAndServe)

Next ==
    \/ Main \/ Serve \/ RequestArrives \/ RequestEnds
    \/ Reap \/ ReapEnds \/ ReaperExits \/ ConnTakes \/ ConnDestroys \/ Signal

\* main is never starved, and each Destroy of the reaper is bounded by a
\* context of ten seconds.  The reaper's select chooses at random among what
\* is ready, so it does not for ever prefer a tick to having been stopped.
Fairness == WF_vars(Main) /\ WF_vars(ReapEnds) /\ SF_vars(ReaperExits)

Spec == Init /\ [][Next]_vars /\ Fairness

-----------------------------------------------------------------------------
(* Properties *)

\* Well typed; in particular Close never spends more than its context allows.
TypeOK ==
    /\ host \in [config : BOOLEAN, met : BOOLEAN]
    /\ name \in Registered \cup {"unregistered"}
    /\ main \in {"config", "logger", "factory", "check", "guard", "wire", "notify", "await",
                 "drain", "close", "reaper", "destroy", "release", "flush",
                 "panicked", "fatal", "killed", "exited"}
    /\ logs \in {"none", "open", "closed"}
    /\ rt \in {"none", "open", "closed"}
    /\ wired \in BOOLEAN
    /\ server \in {"none", "starting", "assigned", "serving", "ended"}
    /\ inflight \in BOOLEAN
    /\ sessions \in Nat
    /\ reaper \in {"none", "idle", "busy", "done"}
    /\ ending \in Nat
    /\ signals \in 0..2
    /\ missed \in BOOLEAN
    /\ timedOut \in BOOLEAN
    /\ left \in Nat
    /\ spent \in 0..CloseBudget
    /\ late \in Nat

\* Requests are served only with the callback that gives slots back and with a
\* runtime whose prerequisites were met and that is still open; the reaper and
\* Close destroy sandboxes only while it is open.  The exceptions: a server that
\* Shutdown did not find may outlive the runtime, a request that Shutdown gave up
\* on may, and so may the teardown of a websocket handler.
RuntimeReadyWhileUsed ==
    /\ server = "serving" \/ inflight => wired /\ host.met
    /\ server = "serving" => rt = "open" \/ missed
    /\ inflight => rt = "open" \/ missed \/ timedOut
    /\ left > 0 \/ reaper = "busy" => rt = "open"

\* What is left when the process ends, apart from teardowns that websocket
\* handlers have begun.  When main returns, the reaper is done, Close has tried
\* each of its sessions, and there is a session in the map, or a creation under
\* way, only if Shutdown came before Start had assigned s.server or gave up on a
\* request.  A panic, os.Exit or a first signal that kills leaves nothing; only
\* a second signal may end the process anywhere.
OnlyKnownGapsLeaveSessions ==
    /\ main = "exited" =>
           /\ left = 0 /\ reaper = "done"
           /\ sessions > 0 \/ inflight => missed \/ timedOut
    /\ main \in {"panicked", "fatal"} \/ (main = "killed" /\ signals = 1) =>
           sessions = 0 /\ left = 0 /\ ending = 0 /\ ~inflight /\ reaper # "busy"

\* Once a signal has arrived, the process ends.
SignalEnds == signals > 0 ~> Ended

\* Close destroys all active sandboxes.
CloseDestroysAll == main \in {"release", "flush", "exited"} => late = 0
=============================================================================
