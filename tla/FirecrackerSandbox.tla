------------------------- MODULE FirecrackerSandbox -------------------------
(***************************************************************************)
(* One microVM of the Firecracker backend (internal/runtime/firecracker/   *)
(* firecracker.go): its process, its working directory with the two FIFOs  *)
(* of the serial console, and the descriptors AttachPTY opens on them.     *)
(*                                                                         *)
(* The firecracker process is external: it may exit at any time, opens its *)
(* input FIFO some time after the instance was started, and may carry out  *)
(* a request whose answer comes too late for the client's timeout.         *)
(***************************************************************************)
EXTENDS Sandbox

VARIABLES
    proc,       \* firecracker: "none", "running", "exited" or "reaped"
    workDir,    \* the directory: "none", "present" or "removed"
    configured, \* how many of the five API requests firecracker carried out
    reader,     \* whether firecracker has the stdin FIFO open for reading
    fifos,      \* the FIFOs each AttachPTY call, or its stream, has open
    sweepFailed \* whether a RemoveAll failed

firecrackerVars == <<proc, workDir, configured, reader, fifos, sweepFailed>>
vmVars == <<proc, workDir, configured, reader, sweepFailed>>

\* machine-config, boot-source, drives/rootfs, serial, actions
Endpoints == 5

FirecrackerInit ==
    /\ proc = "none"
    /\ workDir = "none"
    /\ configured = 0
    /\ reader = FALSE
    /\ fifos = [a \in Attachers |-> {}]
    /\ sweepFailed = FALSE

-----------------------------------------------------------------------------
(* CreateSandbox, which does not look at the request's context *)

\* os.RemoveAll, its error ignored.
RemoveAll ==
    \/ workDir' = "removed" /\ UNCHANGED sweepFailed
    \/ workDir' = "present" /\ sweepFailed' = TRUE

MakeWorkDir ==
    /\ creator = "mkdir"
    /\ \/ workDir' = "present" /\ creator' = "prepare"
       \/ creator' = "failed" /\ UNCHANGED workDir
    /\ UNCHANGED <<handleVars, proc, configured, reader, fifos, sweepFailed>>

\* Both FIFOs and the copy of the root file system, or the directory is removed.
PrepareWorkDir ==
    /\ creator = "prepare"
    /\ \/ creator' = "spawn" /\ UNCHANGED <<workDir, sweepFailed>>
       \/ creator' = "failed" /\ RemoveAll
    /\ UNCHANGED <<handleVars, proc, configured, reader, fifos>>

StartProcess ==
    /\ creator = "spawn"
    /\ \/ proc' = "running" /\ creator' = "socket" /\ UNCHANGED <<workDir, sweepFailed>>
       \/ creator' = "failed" /\ RemoveAll /\ UNCHANGED proc
    /\ UNCHANGED <<handleVars, configured, reader, fifos>>

\* waitForSocket: the socket appears, or three seconds pass without it.
WaitForSocket ==
    /\ creator = "socket"
    /\ creator' \in {"configure", "undo"}
    /\ UNCHANGED <<handleVars, firecrackerVars>>

\* Fault: the sandbox is returned before the instance was started.
PutAllButStart ==
    /\ creator = "configure"
    /\ \/ /\ proc = "running"
          /\ configured' = configured + 1
          /\ creator' = IF configured' = Endpoints - 1 THEN "ok" ELSE "configure"
       \/ creator' = "undo" /\ configured' \in {configured, configured + 1}
    /\ UNCHANGED <<handleVars, proc, workDir, reader, fifos, sweepFailed>>

\* putAPI, five times in a row; the first failure ends the creation, although
\* firecracker may have carried the request out.
PutAPI ==
    /\ creator = "configure"
    /\ \/ /\ proc = "running"
          /\ configured' = configured + 1
          /\ creator' = IF configured' = Endpoints THEN "ok" ELSE "configure"
       \/ /\ creator' = "undo"
          /\ configured' \in {configured} \cup {c \in {configured + 1} : proc = "running"}
    /\ UNCHANGED <<handleVars, proc, workDir, reader, fifos, sweepFailed>>

\* Fault: a creation that fails leaves the process behind.
UndoDirOnly ==
    /\ creator = "undo"
    /\ creator' = "failed"
    /\ RemoveAll
    /\ UNCHANGED <<handleVars, proc, configured, reader, fifos>>

\* sb.Destroy on a sandbox nobody else has seen: kill, wait and RemoveAll.
Undo ==
    /\ creator = "undo"
    /\ creator' = "failed"
    /\ destroyed' = TRUE
    /\ proc' = "reaped"
    /\ reader' = FALSE
    /\ RemoveAll
    /\ UNCHANGED <<destroyMu, pc, configured, fifos>>

CreateVMStep ==
    MakeWorkDir \/ PrepareWorkDir \/ StartProcess \/ WaitForSocket \/ PutAPI \/ Undo

-----------------------------------------------------------------------------
(* The firecracker process *)

VMExits ==
    /\ proc = "running"
    /\ proc' = "exited"
    /\ reader' = FALSE
    /\ UNCHANGED <<creator, handleVars, workDir, configured, fifos, sweepFailed>>

Blocked == {a \in Attachers : pc[a] = "blocked"}

\* The open of the stdin FIFO for reading lets every blocked writer go on.
VMOpensInput ==
    /\ proc = "running" /\ configured = Endpoints /\ ~reader
    /\ workDir = "present"
    /\ reader' = TRUE
    /\ pc' = [x \in DOMAIN pc |-> IF x \in Blocked THEN "attached" ELSE pc[x]]
    /\ fifos' = [a \in Attachers |-> fifos[a] \cup {f \in {"in"} : a \in Blocked}]
    /\ UNCHANGED <<creator, destroyed, destroyMu, proc, workDir, configured, sweepFailed>>

-----------------------------------------------------------------------------
(* AttachPTY, its stream, and Destroy, past the parts of module Sandbox *)

Holds(a, open) == fifos' = [fifos EXCEPT ![a] = open]

\* The stdout FIFO is opened without blocking, or not at all.
OpenOutput(a) ==
    /\ pc[a] = "attaching"
    /\ \/ workDir = "present" /\ Move(a, "opening") /\ Holds(a, {"out"})
       \/ Move(a, "refused") /\ UNCHANGED fifos
    /\ UNCHANGED vmVars

\* Fault: the stdout FIFO stays open when the other cannot be opened.
OpenInputLeaking(a) ==
    /\ pc[a] = "opening"
    /\ \/ workDir = "present" /\ reader /\ Move(a, "attached") /\ Holds(a, {"out", "in"})
       \/ workDir = "present" /\ ~reader /\ Move(a, "blocked") /\ UNCHANGED fifos
       \/ Move(a, "refused") /\ UNCHANGED fifos
    /\ UNCHANGED vmVars

\* The stdin FIFO is looked up and opened for writing, which blocks until
\* somebody reads from it; on an error the stdout FIFO is closed.
OpenInput(a) ==
    /\ pc[a] = "opening"
    /\ \/ workDir = "present" /\ reader /\ Move(a, "attached") /\ Holds(a, {"out", "in"})
       \/ workDir = "present" /\ ~reader /\ Move(a, "blocked") /\ UNCHANGED fifos
       \/ Move(a, "refused") /\ Holds(a, {})
    /\ UNCHANGED vmVars

\* fcSerialStream.Close
CloseFifos(a) ==
    /\ pc[a] = "attached"
    /\ Move(a, "closed")
    /\ Holds(a, {})
    /\ UNCHANGED vmVars

\* Process.Kill
KillVM(d) ==
    /\ pc[d] = "stop"
    /\ proc' = IF proc = "running" THEN "exited" ELSE proc
    /\ reader' = FALSE
    /\ Move(d, "wait")
    /\ UNCHANGED <<workDir, configured, fifos, sweepFailed>>

\* cmd.Wait
ReapVM(d) ==
    /\ pc[d] = "wait"
    /\ proc = "exited"
    /\ proc' = "reaped"
    /\ Move(d, "remove")
    /\ UNCHANGED <<workDir, configured, reader, fifos, sweepFailed>>

RemoveWorkDir(d) ==
    /\ pc[d] = "remove"
    /\ RemoveAll
    /\ Return(d, "nil")
    /\ UNCHANGED <<proc, configured, reader, fifos>>

AttachVMStep(a) == OpenOutput(a) \/ OpenInput(a)

DestroyVMStep(d) == KillVM(d) \/ ReapVM(d) \/ RemoveWorkDir(d)
=============================================================================
