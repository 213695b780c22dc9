-------------------------- MODULE ContainerSandbox --------------------------
(***************************************************************************)
(* One container of the Docker backend, or of the gVisor backend, which    *)
(* has the same control flow (internal/runtime/docker/docker.go and        *)
(* gvisor/gvisor.go), from CreateSandbox to Destroy.                       *)
(*                                                                         *)
(* The Docker daemon is external.  A call to it succeeds, fails without    *)
(* effect, or takes effect although the caller gets an error because its   *)
(* context was cancelled or timed out.                                     *)
(***************************************************************************)
EXTENDS Sandbox

VARIABLES
    image,        \* whether the image is on the host
    container,    \* in the daemon: "absent", "created", "running", "exited", "removed"
    cleanupFailed \* whether the removal after a failed start failed

containerVars == <<image, container, cleanupFailed>>

ContainerInit ==
    /\ image \in BOOLEAN
    /\ container = "absent"
    /\ cleanupFailed = FALSE

-----------------------------------------------------------------------------
(* CreateSandbox *)

\* ensureImage: found, not found, or the inspection fails.
InspectImage ==
    /\ creator = "inspect"
    /\ \/ creator' = IF image THEN "create" ELSE "pull"
       \/ creator' = "failed"
    /\ UNCHANGED <<handleVars, containerVars>>

\* ensureImage: the pull starts or fails.  The progress stream is read to its
\* end and its errors are dropped, so the image may still be missing.
PullImage ==
    /\ creator = "pull"
    /\ \/ creator' = "create" /\ image' \in BOOLEAN
       \/ creator' = "failed" /\ UNCHANGED image
    /\ UNCHANGED <<handleVars, container, cleanupFailed>>

CreateContainer ==
    /\ creator = "create"
    /\ \/ image /\ container' = "created" /\ creator' = "start"
       \/ creator' = "failed" /\ UNCHANGED container
       \/ image /\ creator' = "failed" /\ container' = "created"
    /\ UNCHANGED <<handleVars, image, cleanupFailed>>

StartContainer ==
    /\ creator = "start"
    /\ \/ container' = "running" /\ creator' = "ok"
       \/ container' \in {"created", "running"} /\ creator' = "cleanup"
    /\ UNCHANGED <<handleVars, image, cleanupFailed>>

\* Fault: a container that did not start is left alone.
SkipCleanup ==
    /\ creator = "cleanup"
    /\ creator' = "failed"
    /\ UNCHANGED <<handleVars, containerVars>>

\* ContainerRemove after a failed start; its error is ignored.
CleanUp ==
    /\ creator = "cleanup"
    /\ creator' = "failed"
    /\ \/ container' = "removed" /\ UNCHANGED cleanupFailed
       \/ container' \in {container, "removed"} /\ cleanupFailed' = TRUE
    /\ UNCHANGED <<handleVars, image>>

CreateContainerStep ==
    InspectImage \/ PullImage \/ CreateContainer \/ StartContainer \/ CleanUp

\* The shell exits by itself.
ShellExits ==
    /\ container = "running"
    /\ container' = "exited"
    /\ UNCHANGED <<creator, handleVars, image, cleanupFailed>>

-----------------------------------------------------------------------------
(* AttachPTY and Destroy, past the parts of module Sandbox *)

\* ContainerAttach: a stream, if the container still runs, or an error.
AttachContainer(a) ==
    /\ pc[a] = "attaching"
    /\ \/ container = "running" /\ Move(a, "attached")
       \/ Move(a, "refused")
    /\ UNCHANGED containerVars

\* ContainerStop, its error ignored.
StopContainer(d) ==
    /\ pc[d] = "stop"
    /\ container' \in {container} \cup {s \in {"exited"} : container = "running"}
    /\ Move(d, "remove")
    /\ UNCHANGED <<image, cleanupFailed>>

\* Fault: the error of the removal is swallowed.
RemoveIgnoringError(d) ==
    /\ pc[d] = "remove"
    /\ container' \in {container, "removed"}
    /\ Return(d, "nil")
    /\ UNCHANGED <<image, cleanupFailed>>

\* ContainerRemove, forced; the call returns its result.
RemoveContainer(d) ==
    /\ pc[d] = "remove"
    /\ \/ container' = "removed" /\ Return(d, "nil")
       \/ container' \in {container, "removed"} /\ Return(d, "error")
    /\ UNCHANGED <<image, cleanupFailed>>

DestroyContainerStep(d) == StopContainer(d) \/ RemoveContainer(d)
=============================================================================
