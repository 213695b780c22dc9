------------------------------ MODULE Backends ------------------------------
(***************************************************************************)
(* One sandbox of whichever backend the service was started with, from     *)
(* CreateSandbox to Destroy, with concurrent AttachPTY and Destroy calls.  *)
(***************************************************************************)
EXTENDS ContainerSandbox, FirecrackerSandbox

VARIABLE backend  \* "container" (docker and gvisor) or "firecracker"

vars == <<backend, creator, handleVars, containerVars, firecrackerVars>>

Init ==
    /\ backend \in {"container", "firecracker"}
    /\ creator = IF backend = "container" THEN "inspect" ELSE "mkdir"
    /\ HandleInit
    /\ ContainerInit
    /\ FirecrackerInit

\* What a step of the handle, of a container and of a microVM leaves alone.
OfHandle == UNCHANGED <<backend, containerVars, firecrackerVars>>
OfContainer == backend = "container" /\ UNCHANGED <<backend, firecrackerVars>>
OfFirecracker == backend = "firecracker" /\ UNCHANGED <<backend, containerVars>>

CreateSandbox ==
    \/ CreateContainerStep /\ OfContainer
    \/ CreateVMStep /\ OfFirecracker

AttachPTY(a) ==
    \/ AttachContainer(a) /\ OfContainer
    \/ AttachVMStep(a) /\ OfFirecracker

Destroy(d) ==
    \/ DestroyLock(d) /\ OfHandle
    \/ DestroyContainerStep(d) /\ OfContainer
    \/ DestroyVMStep(d) /\ OfFirecracker

ConsoleOpens == VMOpensInput /\ OfFirecracker

Next ==
    \/ CreateSandbox
    \/ ShellExits /\ OfContainer
    \/ VMExits /\ OfFirecracker
    \/ ConsoleOpens
    \/ \E a \in Attachers : \/ AttachCheck(a) /\ OfHandle
                            \/ AttachPTY(a)
                            \/ CloseFifos(a) /\ OfFirecracker
    \/ \E d \in Destroyers : \/ DestroyCalled(d) /\ OfHandle
                             \/ Destroy(d)

\* A call of Destroy that has begun goes on: each of its daemon calls ends by
\* the deadline of the context its caller gave, a killed process dies, and the
\* mutex is handed on.  An AttachPTY goes on but for the open that blocks, and
\* a started instance comes to open its console.
Fairness ==
    /\ \A d \in Destroyers : WF_vars(Destroy(d))
    /\ \A a \in Attachers : WF_vars(AttachPTY(a))
    /\ WF_vars(ConsoleOpens)

Spec == Init /\ [][Next]_vars /\ Fairness

-----------------------------------------------------------------------------
(* Properties *)

\* Well typed; and destroyMu is held only by a Destroy that is at work.
TypeOK ==
    /\ backend \in {"container", "firecracker"}
    /\ creator \in {"inspect", "pull", "create", "start", "cleanup", "mkdir", "prepare",
                    "spawn", "socket", "configure", "undo", "ok", "failed"}
    /\ destroyed \in BOOLEAN
    /\ destroyMu \in Destroyers \cup {"free"}
    /\ pc \in [Attachers \cup Destroyers ->
               {"idle", "attaching", "opening", "blocked", "attached", "closed", "refused",
                "waiting", "stop", "wait", "remove", "nil", "error", "already"}]
    /\ image \in BOOLEAN
    /\ container \in {"absent", "created", "running", "exited", "removed"}
    /\ cleanupFailed \in BOOLEAN
    /\ proc \in {"none", "running", "exited", "reaped"}
    /\ workDir \in {"none", "present", "removed"}
    /\ configured \in 0..Endpoints
    /\ reader \in BOOLEAN
    /\ fifos \in [Attachers -> SUBSET {"out", "in"}]
    /\ sweepFailed \in BOOLEAN
    /\ destroyMu # "free" => pc[destroyMu] \in {"stop", "wait", "remove"}

Attempts == {d \in Destroyers : pc[d] \in {"stop", "wait", "remove", "nil", "error"}}

\* Of all the Destroy calls of a websocket handler, the reaper and Close, one
\* stops and removes the sandbox; the others wait for it and return.
OneAttempt == Cardinality(Attempts) <= 1

Running == container \in {"running", "exited"} \/ proc \in {"running", "exited"}

\* A Destroy that returns nil means the container is gone, or that the failure
\* to remove it was reported to another caller; and that the firecracker
\* process was reaped and its directory is gone, unless RemoveAll failed.
NilMeansGoneOrReported ==
    \A d \in Destroyers : pc[d] \in {"nil", "already"} =>
        IF backend = "container"
        THEN container = "removed" \/ \E e \in Destroyers : pc[e] = "error"
        ELSE proc = "reaped" /\ (workDir = "present" => sweepFailed)

\* A failed CreateSandbox leaves no started container unless the removal it
\* attempts failed too, never a firecracker process, and no working directory
\* unless RemoveAll failed.
FailedCreateCleansUp ==
    creator = "failed" =>
        /\ Running => backend = "container" /\ cleanupFailed
        /\ workDir = "present" => sweepFailed

\* A FIFO is open only on behalf of a stream in use or of an AttachPTY that has
\* not returned, so once Destroy has removed the directory only a stream that
\* was attached before, or an AttachPTY that is blocked, can keep one alive.
FifosAreOwned ==
    \A a \in Attachers :
        /\ fifos[a] # {} => pc[a] \in {"opening", "blocked", "attached"}
        /\ pc[a] = "attached" /\ backend = "firecracker" => fifos[a] = {"out", "in"}

\* The sandbox as the session manager sees it.
SandboxState ==
    IF creator # "ok"
    THEN IF creator = "failed" /\ (container \in {"created", "running", "exited"}
                                   \/ proc \in {"running", "exited"})
         THEN "leaked" ELSE "none"
    ELSE IF \E d \in Destroyers : pc[d] \in {"nil", "error"}
         THEN IF container = "removed" \/ proc = "reaped" THEN "destroyed" ELSE "leaked"
         ELSE "running"

Contract == INSTANCE SandboxContract WITH state <- SandboxState

\* The sandbox lives through the states the session manager counts on.
ImplementsContract == Contract!Spec

\* Every Destroy returns, also those that wait while another one is at work,
\* and also while an AttachPTY is blocked.  This is about callers that give a
\* deadline, as all do but Manager.Attach of an expired session (manager.go:126).
DestroyReturns ==
    \A d \in Destroyers :
        pc[d] = "waiting" ~> pc[d] \in {"nil", "error", "already"}

\* An AttachPTY of the Firecracker backend returns as long as the microVM lives.
AttachReturns ==
    \A a \in Attachers :
        backend = "firecracker" /\ pc[a] = "attaching"
            ~> pc[a] \in {"attached", "refused"} \/ proc # "running"
=============================================================================
