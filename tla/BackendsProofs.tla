--------------------------- MODULE BackendsProofs ---------------------------
(***************************************************************************)
(* Proofs about Backends, for any number of AttachPTY and Destroy calls.   *)
(***************************************************************************)
EXTENDS Backends, FiniteSetTheorems, TLAPS

-----------------------------------------------------------------------------
(* The inductive invariant *)

\* Places of a Destroy: past the flag and under the lock, and after its attempt.
Working == {"stop", "wait", "remove"}
Returned == {"nil", "error"}
Tried == Working \cup Returned

\* The mutex and the flag.  A Destroy is at work exactly while it holds
\* destroyMu; one call at most ever gets past the flag; the flag is set once
\* one did; and nobody has the handle before CreateSandbox has returned it.
HandleInv ==
    /\ \A d \in Destroyers : pc[d] \in Working <=> destroyMu = d
    /\ \A d, e \in Destroyers : pc[d] \in Tried /\ pc[e] \in Tried => d = e
    /\ \A d \in Destroyers : pc[d] \in Tried \cup {"already"} => destroyed
    /\ creator = "ok" /\ destroyed => \E d \in Destroyers : pc[d] \in Tried
    /\ creator \notin {"ok", "failed"} => ~destroyed
    /\ creator # "ok" => \A x \in Attachers \cup Destroyers : pc[x] = "idle"

\* A Destroy that found the flag set waited for the one that had set it.
AlreadyInv ==
    \A d \in Destroyers : pc[d] = "already" => \E e \in Destroyers : pc[e] \in Returned

\* What the daemon has, at each place of CreateSandbox and of Destroy.
ContainerInv ==
    backend = "container" =>
        /\ creator \in {"inspect", "pull", "create", "start", "cleanup", "ok", "failed"}
        /\ creator \in {"inspect", "pull", "create"} => container = "absent"
        /\ creator = "start" => container = "created"
        /\ creator = "cleanup" => container \in {"created", "running", "exited"}
        /\ creator = "failed" /\ container \in {"running", "exited"} => cleanupFailed
        /\ creator = "ok" => container \in {"running", "exited", "removed"}
        /\ creator = "ok" /\ container = "removed" =>
               \E d \in Destroyers : pc[d] \in Returned
        /\ \A d \in Destroyers : pc[d] = "nil" => container = "removed"
        /\ proc = "none" /\ workDir = "none"
        /\ \A a \in Attachers : fifos[a] = {} /\ pc[a] \notin {"opening", "blocked"}

\* The process and its directory, at each place of CreateSandbox and of Destroy.
VMInv ==
    backend = "firecracker" =>
        /\ creator \in {"mkdir", "prepare", "spawn", "socket", "configure", "undo", "ok", "failed"}
        /\ creator = "mkdir" => workDir = "none"
        /\ creator \in {"mkdir", "prepare", "spawn"} => proc = "none"
        /\ creator \in {"socket", "configure", "undo"} => proc \in {"running", "exited"}
        /\ creator = "failed" => proc \in {"none", "reaped"}
        /\ creator = "failed" /\ workDir = "present" => sweepFailed
        /\ creator = "ok" => proc \in {"running", "exited", "reaped"}
        /\ creator = "ok" /\ proc = "reaped" =>
               \E d \in Destroyers : pc[d] \in {"remove", "nil"}
        /\ \A d \in Destroyers :
               /\ pc[d] \in {"remove", "nil"} => proc = "reaped"
               /\ pc[d] = "nil" /\ workDir = "present" => sweepFailed
               /\ pc[d] # "error"
        /\ container = "absent"

\* The number of requests made stays below the last until the creation ends.
RequestsInv ==
    /\ creator \in {"mkdir", "prepare", "spawn", "socket"} => configured = 0
    /\ creator = "configure" => configured < Endpoints

\* The descriptors of each AttachPTY call, by its place.
FifosInv ==
    backend = "firecracker" =>
        \A a \in Attachers :
            fifos[a] = CASE pc[a] \in {"opening", "blocked"} -> {"out"}
                         [] pc[a] = "attached" -> {"out", "in"}
                         [] OTHER -> {}

\* The Boolean variables, which the provers treat apart from the others.
Flags ==
    /\ destroyed \in BOOLEAN
    /\ image \in BOOLEAN
    /\ cleanupFailed \in BOOLEAN
    /\ reader \in BOOLEAN
    /\ sweepFailed \in BOOLEAN

Inv == TypeOK /\ HandleInv /\ AlreadyInv /\ ContainerInv /\ VMInv /\ RequestsInv /\ FifosInv

-----------------------------------------------------------------------------
(* Steps *)

\* Every step keeps the Boolean variables Boolean.
LEMMA FlagsStep ==
    ASSUME Flags, [Next]_vars
    PROVE  Flags'
<1> USE CallersAssumption DEF Flags, vars, handleVars, containerVars, firecrackerVars, vmVars
<1>1. CASE CreateContainerStep /\ OfContainer
  BY <1>1 DEF CreateContainerStep, InspectImage, PullImage, CreateContainer, StartContainer,
     CleanUp, OfContainer
<1>2. CASE CreateVMStep /\ OfFirecracker
  BY <1>2 DEF CreateVMStep, MakeWorkDir, PrepareWorkDir, StartProcess, WaitForSocket, PutAPI,
     Undo, RemoveAll, OfFirecracker
<1>3. CASE ShellExits /\ OfContainer
  BY <1>3 DEF ShellExits, OfContainer
<1>4. CASE VMExits /\ OfFirecracker
  BY <1>4 DEF VMExits, OfFirecracker
<1>5. CASE ConsoleOpens
  BY <1>5 DEF ConsoleOpens, VMOpensInput, Blocked, OfFirecracker
<1>6. ASSUME NEW a \in Attachers, AttachCheck(a) /\ OfHandle PROVE Flags'
  BY <1>6 DEF AttachCheck, OfHandle, Move, Goto
<1>7. ASSUME NEW a \in Attachers, AttachContainer(a) /\ OfContainer PROVE Flags'
  BY <1>7 DEF AttachContainer, OfContainer, Move, Goto
<1>8. ASSUME NEW a \in Attachers, (AttachVMStep(a) \/ CloseFifos(a)) /\ OfFirecracker
      PROVE Flags'
  BY <1>8 DEF AttachVMStep, OpenOutput, OpenInput, CloseFifos, Holds, OfFirecracker, Move, Goto
<1>9. ASSUME NEW d \in Destroyers, DestroyCalled(d) /\ OfHandle PROVE Flags'
  BY <1>9 DEF DestroyCalled, OfHandle, Move, Goto
<1>10. ASSUME NEW d \in Destroyers, DestroyLock(d) /\ OfHandle PROVE Flags'
  BY <1>10 DEF DestroyLock, OfHandle, Move, Goto
<1>11. ASSUME NEW d \in Destroyers, DestroyContainerStep(d) /\ OfContainer PROVE Flags'
  BY <1>11 DEF DestroyContainerStep, StopContainer, RemoveContainer, OfContainer, Move,
     Return, Goto
<1>12. ASSUME NEW d \in Destroyers, DestroyVMStep(d) /\ OfFirecracker PROVE Flags'
  BY <1>12 DEF DestroyVMStep, KillVM, ReapVM, RemoveWorkDir, RemoveAll, OfFirecracker, Move,
     Return, Goto
<1>13. CASE UNCHANGED vars
  BY <1>13 DEF vars
<1> QED BY <1>1, <1>2, <1>3, <1>4, <1>5, <1>6, <1>7, <1>8, <1>9, <1>10, <1>11, <1>12,
           <1>13 DEF Next, CreateSandbox, AttachPTY, Destroy

\* Every step keeps the types; destroyMu changes hands only through "free".
LEMMA TypeStep ==
    ASSUME TypeOK, Flags', RequestsInv, HandleInv, [Next]_vars
    PROVE  TypeOK'
<1> USE CallersAssumption DEF TypeOK, Flags, RequestsInv, HandleInv, Working, vars,
        handleVars, containerVars, firecrackerVars, vmVars
<1>1. CASE CreateContainerStep /\ OfContainer
  BY <1>1 DEF CreateContainerStep, InspectImage, PullImage, CreateContainer, StartContainer,
     CleanUp, OfContainer
<1>2. CASE CreateVMStep /\ OfFirecracker
  BY <1>2 DEF Endpoints, CreateVMStep, MakeWorkDir, PrepareWorkDir, StartProcess,
     WaitForSocket, PutAPI, Undo, RemoveAll, OfFirecracker
<1>3. CASE ShellExits /\ OfContainer
  BY <1>3 DEF ShellExits, OfContainer
<1>4. CASE VMExits /\ OfFirecracker
  BY <1>4 DEF VMExits, OfFirecracker
<1>5. CASE ConsoleOpens
  BY <1>5 DEF ConsoleOpens, VMOpensInput, Blocked, OfFirecracker
<1>6. ASSUME NEW a \in Attachers, AttachCheck(a) /\ OfHandle PROVE TypeOK'
  BY <1>6 DEF AttachCheck, OfHandle, Move, Goto
<1>7. ASSUME NEW a \in Attachers, AttachContainer(a) /\ OfContainer PROVE TypeOK'
  BY <1>7 DEF AttachContainer, OfContainer, Move, Goto
<1>8. ASSUME NEW a \in Attachers, (AttachVMStep(a) \/ CloseFifos(a)) /\ OfFirecracker
      PROVE TypeOK'
  BY <1>8 DEF AttachVMStep, OpenOutput, OpenInput, CloseFifos, Holds, OfFirecracker, Move, Goto
<1>9. ASSUME NEW d \in Destroyers, DestroyCalled(d) /\ OfHandle PROVE TypeOK'
  BY <1>9 DEF DestroyCalled, OfHandle, Move, Goto
<1>10. ASSUME NEW d \in Destroyers, DestroyLock(d) /\ OfHandle PROVE TypeOK'
  BY <1>10 DEF DestroyLock, OfHandle, Move, Goto
<1>11. ASSUME NEW d \in Destroyers, DestroyContainerStep(d) /\ OfContainer PROVE TypeOK'
  BY <1>11 DEF DestroyContainerStep, StopContainer, RemoveContainer, OfContainer, Move,
     Return, Goto
<1>12. ASSUME NEW d \in Destroyers, DestroyVMStep(d) /\ OfFirecracker PROVE TypeOK'
  BY <1>12 DEF DestroyVMStep, KillVM, ReapVM, RemoveWorkDir, RemoveAll, OfFirecracker, Move,
     Return, Goto
<1>13. CASE UNCHANGED vars
  BY <1>13 DEF vars
<1> QED BY <1>1, <1>2, <1>3, <1>4, <1>5, <1>6, <1>7, <1>8, <1>9, <1>10, <1>11, <1>12,
           <1>13 DEF Next, CreateSandbox, AttachPTY, Destroy

\* Every step keeps the invariant of the mutex and the flag.
LEMMA HandleStep ==
    ASSUME TypeOK, HandleInv, [Next]_vars
    PROVE  HandleInv'
<1> USE CallersAssumption DEF TypeOK, HandleInv, Working, Returned, Tried, vars, handleVars,
        containerVars, firecrackerVars, vmVars
<1>1. CASE CreateContainerStep /\ OfContainer
  BY <1>1 DEF CreateContainerStep, InspectImage, PullImage, CreateContainer, StartContainer,
     CleanUp, OfContainer
<1>2. CASE CreateVMStep /\ OfFirecracker
  BY <1>2 DEF CreateVMStep, MakeWorkDir, PrepareWorkDir, StartProcess, WaitForSocket, PutAPI,
     Undo, RemoveAll, OfFirecracker
<1>3. CASE ShellExits /\ OfContainer
  BY <1>3 DEF ShellExits, OfContainer
<1>4. CASE VMExits /\ OfFirecracker
  BY <1>4 DEF VMExits, OfFirecracker
<1>5. CASE ConsoleOpens
  BY <1>5 DEF ConsoleOpens, VMOpensInput, Blocked, OfFirecracker
<1>6. ASSUME NEW a \in Attachers, AttachCheck(a) /\ OfHandle PROVE HandleInv'
  BY <1>6 DEF AttachCheck, OfHandle, Move, Goto
<1>7. ASSUME NEW a \in Attachers, AttachContainer(a) /\ OfContainer PROVE HandleInv'
  BY <1>7 DEF AttachContainer, OfContainer, Move, Goto
<1>8. ASSUME NEW a \in Attachers, (AttachVMStep(a) \/ CloseFifos(a)) /\ OfFirecracker
      PROVE HandleInv'
  BY <1>8 DEF AttachVMStep, OpenOutput, OpenInput, CloseFifos, Holds, OfFirecracker, Move, Goto
<1>9. ASSUME NEW d \in Destroyers, DestroyCalled(d) /\ OfHandle PROVE HandleInv'
  BY <1>9 DEF DestroyCalled, OfHandle, Move, Goto
<1>10. ASSUME NEW d \in Destroyers, DestroyLock(d) /\ OfHandle PROVE HandleInv'
  BY <1>10 DEF DestroyLock, OfHandle, Move, Goto
<1>11. ASSUME NEW d \in Destroyers, DestroyContainerStep(d) /\ OfContainer PROVE HandleInv'
  BY <1>11 DEF DestroyContainerStep, StopContainer, RemoveContainer, OfContainer, Move,
     Return, Goto
<1>12. ASSUME NEW d \in Destroyers, DestroyVMStep(d) /\ OfFirecracker PROVE HandleInv'
  BY <1>12 DEF DestroyVMStep, KillVM, ReapVM, RemoveWorkDir, RemoveAll, OfFirecracker, Move,
     Return, Goto
<1>13. CASE UNCHANGED vars
  BY <1>13 DEF vars
<1> QED BY <1>1, <1>2, <1>3, <1>4, <1>5, <1>6, <1>7, <1>8, <1>9, <1>10, <1>11, <1>12,
           <1>13 DEF Next, CreateSandbox, AttachPTY, Destroy

\* A late Destroy gets the mutex only after the one at work has returned.
LEMMA AlreadyStep ==
    ASSUME TypeOK, HandleInv, AlreadyInv, [Next]_vars
    PROVE  AlreadyInv'
<1> USE CallersAssumption DEF TypeOK, HandleInv, AlreadyInv, Working, Returned, Tried, vars,
        handleVars, containerVars, firecrackerVars, vmVars
<1>1. CASE CreateContainerStep /\ OfContainer
  BY <1>1 DEF CreateContainerStep, InspectImage, PullImage, CreateContainer, StartContainer,
     CleanUp, OfContainer
<1>2. CASE CreateVMStep /\ OfFirecracker
  BY <1>2 DEF CreateVMStep, MakeWorkDir, PrepareWorkDir, StartProcess, WaitForSocket, PutAPI,
     Undo, RemoveAll, OfFirecracker
<1>3. CASE ShellExits /\ OfContainer
  BY <1>3 DEF ShellExits, OfContainer
<1>4. CASE VMExits /\ OfFirecracker
  BY <1>4 DEF VMExits, OfFirecracker
<1>5. CASE ConsoleOpens
  BY <1>5 DEF ConsoleOpens, VMOpensInput, Blocked, OfFirecracker
<1>6. ASSUME NEW a \in Attachers, AttachCheck(a) /\ OfHandle PROVE AlreadyInv'
  BY <1>6 DEF AttachCheck, OfHandle, Move, Goto
<1>7. ASSUME NEW a \in Attachers, AttachContainer(a) /\ OfContainer PROVE AlreadyInv'
  BY <1>7 DEF AttachContainer, OfContainer, Move, Goto
<1>8. ASSUME NEW a \in Attachers, (AttachVMStep(a) \/ CloseFifos(a)) /\ OfFirecracker
      PROVE AlreadyInv'
  BY <1>8 DEF AttachVMStep, OpenOutput, OpenInput, CloseFifos, Holds, OfFirecracker, Move, Goto
<1>9. ASSUME NEW d \in Destroyers, DestroyCalled(d) /\ OfHandle PROVE AlreadyInv'
  BY <1>9 DEF DestroyCalled, OfHandle, Move, Goto
<1>10. ASSUME NEW d \in Destroyers, DestroyLock(d) /\ OfHandle PROVE AlreadyInv'
  BY <1>10 DEF DestroyLock, OfHandle, Move, Goto
<1>11. ASSUME NEW d \in Destroyers, DestroyContainerStep(d) /\ OfContainer PROVE AlreadyInv'
  BY <1>11 DEF DestroyContainerStep, StopContainer, RemoveContainer, OfContainer, Move,
     Return, Goto
<1>12. ASSUME NEW d \in Destroyers, DestroyVMStep(d) /\ OfFirecracker PROVE AlreadyInv'
  BY <1>12 DEF DestroyVMStep, KillVM, ReapVM, RemoveWorkDir, RemoveAll, OfFirecracker, Move,
     Return, Goto
<1>13. CASE UNCHANGED vars
  BY <1>13 DEF vars
<1> QED BY <1>1, <1>2, <1>3, <1>4, <1>5, <1>6, <1>7, <1>8, <1>9, <1>10, <1>11, <1>12,
           <1>13 DEF Next, CreateSandbox, AttachPTY, Destroy

\* Every step keeps what is known of the container.
LEMMA ContainerStep ==
    ASSUME TypeOK, HandleInv, ContainerInv, [Next]_vars
    PROVE  ContainerInv'
<1> USE CallersAssumption DEF TypeOK, HandleInv, ContainerInv, Working, Returned, Tried, vars,
        handleVars, containerVars, firecrackerVars, vmVars
<1>1. CASE CreateContainerStep /\ OfContainer
  BY <1>1 DEF CreateContainerStep, InspectImage, PullImage, CreateContainer, StartContainer,
     CleanUp, OfContainer
<1>2. CASE CreateVMStep /\ OfFirecracker
  BY <1>2 DEF CreateVMStep, MakeWorkDir, PrepareWorkDir, StartProcess, WaitForSocket, PutAPI,
     Undo, RemoveAll, OfFirecracker
<1>3. CASE ShellExits /\ OfContainer
  BY <1>3 DEF ShellExits, OfContainer
<1>4. CASE VMExits /\ OfFirecracker
  BY <1>4 DEF VMExits, OfFirecracker
<1>5. CASE ConsoleOpens
  BY <1>5 DEF ConsoleOpens, VMOpensInput, Blocked, OfFirecracker
<1>6. ASSUME NEW a \in Attachers, AttachCheck(a) /\ OfHandle PROVE ContainerInv'
  BY <1>6 DEF AttachCheck, OfHandle, Move, Goto
<1>7. ASSUME NEW a \in Attachers, AttachContainer(a) /\ OfContainer PROVE ContainerInv'
  BY <1>7 DEF AttachContainer, OfContainer, Move, Goto
<1>8. ASSUME NEW a \in Attachers, (AttachVMStep(a) \/ CloseFifos(a)) /\ OfFirecracker
      PROVE ContainerInv'
  BY <1>8 DEF AttachVMStep, OpenOutput, OpenInput, CloseFifos, Holds, OfFirecracker, Move, Goto
<1>9. ASSUME NEW d \in Destroyers, DestroyCalled(d) /\ OfHandle PROVE ContainerInv'
  BY <1>9 DEF DestroyCalled, OfHandle, Move, Goto
<1>10. ASSUME NEW d \in Destroyers, DestroyLock(d) /\ OfHandle PROVE ContainerInv'
  BY <1>10 DEF DestroyLock, OfHandle, Move, Goto
<1>11. ASSUME NEW d \in Destroyers, DestroyContainerStep(d) /\ OfContainer PROVE ContainerInv'
  BY <1>11 DEF DestroyContainerStep, StopContainer, RemoveContainer, OfContainer, Move,
     Return, Goto
<1>12. ASSUME NEW d \in Destroyers, DestroyVMStep(d) /\ OfFirecracker PROVE ContainerInv'
  BY <1>12 DEF DestroyVMStep, KillVM, ReapVM, RemoveWorkDir, RemoveAll, OfFirecracker, Move,
     Return, Goto
<1>13. CASE UNCHANGED vars
  BY <1>13 DEF vars
<1> QED BY <1>1, <1>2, <1>3, <1>4, <1>5, <1>6, <1>7, <1>8, <1>9, <1>10, <1>11, <1>12,
           <1>13 DEF Next, CreateSandbox, AttachPTY, Destroy

\* Every step keeps what is known of the firecracker process and its directory.
LEMMA VMStep ==
    ASSUME TypeOK, HandleInv, VMInv, [Next]_vars
    PROVE  VMInv'
<1> USE CallersAssumption DEF TypeOK, HandleInv, VMInv, Working, Returned, Tried, vars,
        handleVars, containerVars, firecrackerVars, vmVars
<1>1. CASE CreateContainerStep /\ OfContainer
  BY <1>1 DEF CreateContainerStep, InspectImage, PullImage, CreateContainer, StartContainer,
     CleanUp, OfContainer
<1>2. CASE CreateVMStep /\ OfFirecracker
  BY <1>2 DEF CreateVMStep, MakeWorkDir, PrepareWorkDir, StartProcess, WaitForSocket, PutAPI,
     Undo, RemoveAll, OfFirecracker
<1>3. CASE ShellExits /\ OfContainer
  BY <1>3 DEF ShellExits, OfContainer
<1>4. CASE VMExits /\ OfFirecracker
  BY <1>4 DEF VMExits, OfFirecracker
<1>5. CASE ConsoleOpens
  BY <1>5 DEF ConsoleOpens, VMOpensInput, Blocked, OfFirecracker
<1>6. ASSUME NEW a \in Attachers, AttachCheck(a) /\ OfHandle PROVE VMInv'
  BY <1>6 DEF AttachCheck, OfHandle, Move, Goto
<1>7. ASSUME NEW a \in Attachers, AttachContainer(a) /\ OfContainer PROVE VMInv'
  BY <1>7 DEF AttachContainer, OfContainer, Move, Goto
<1>8. ASSUME NEW a \in Attachers, (AttachVMStep(a) \/ CloseFifos(a)) /\ OfFirecracker
      PROVE VMInv'
  BY <1>8 DEF AttachVMStep, OpenOutput, OpenInput, CloseFifos, Holds, OfFirecracker, Move, Goto
<1>9. ASSUME NEW d \in Destroyers, DestroyCalled(d) /\ OfHandle PROVE VMInv'
  BY <1>9 DEF DestroyCalled, OfHandle, Move, Goto
<1>10. ASSUME NEW d \in Destroyers, DestroyLock(d) /\ OfHandle PROVE VMInv'
  BY <1>10 DEF DestroyLock, OfHandle, Move, Goto
<1>11. ASSUME NEW d \in Destroyers, DestroyContainerStep(d) /\ OfContainer PROVE VMInv'
  BY <1>11 DEF DestroyContainerStep, StopContainer, RemoveContainer, OfContainer, Move,
     Return, Goto
<1>12. ASSUME NEW d \in Destroyers, DestroyVMStep(d) /\ OfFirecracker PROVE VMInv'
  BY <1>12 DEF DestroyVMStep, KillVM, ReapVM, RemoveWorkDir, RemoveAll, OfFirecracker, Move,
     Return, Goto
<1>13. CASE UNCHANGED vars
  BY <1>13 DEF vars
<1> QED BY <1>1, <1>2, <1>3, <1>4, <1>5, <1>6, <1>7, <1>8, <1>9, <1>10, <1>11, <1>12,
           <1>13 DEF Next, CreateSandbox, AttachPTY, Destroy

\* Every step keeps the count of API requests below the last one.
LEMMA RequestsStep ==
    ASSUME TypeOK, RequestsInv, [Next]_vars
    PROVE  RequestsInv'
<1> USE CallersAssumption DEF TypeOK, RequestsInv, Endpoints, vars, handleVars, containerVars,
        firecrackerVars, vmVars
<1>1. CASE CreateContainerStep /\ OfContainer
  BY <1>1 DEF CreateContainerStep, InspectImage, PullImage, CreateContainer, StartContainer,
     CleanUp, OfContainer
<1>2. CASE CreateVMStep /\ OfFirecracker
  BY <1>2 DEF CreateVMStep, MakeWorkDir, PrepareWorkDir, StartProcess, WaitForSocket, PutAPI,
     Undo, RemoveAll, OfFirecracker
<1>3. CASE ShellExits /\ OfContainer
  BY <1>3 DEF ShellExits, OfContainer
<1>4. CASE VMExits /\ OfFirecracker
  BY <1>4 DEF VMExits, OfFirecracker
<1>5. CASE ConsoleOpens
  BY <1>5 DEF ConsoleOpens, VMOpensInput, Blocked, OfFirecracker
<1>6. ASSUME NEW a \in Attachers, AttachCheck(a) /\ OfHandle PROVE RequestsInv'
  BY <1>6 DEF AttachCheck, OfHandle, Move, Goto
<1>7. ASSUME NEW a \in Attachers, AttachContainer(a) /\ OfContainer PROVE RequestsInv'
  BY <1>7 DEF AttachContainer, OfContainer, Move, Goto
<1>8. ASSUME NEW a \in Attachers, (AttachVMStep(a) \/ CloseFifos(a)) /\ OfFirecracker
      PROVE RequestsInv'
  BY <1>8 DEF AttachVMStep, OpenOutput, OpenInput, CloseFifos, Holds, OfFirecracker, Move, Goto
<1>9. ASSUME NEW d \in Destroyers, DestroyCalled(d) /\ OfHandle PROVE RequestsInv'
  BY <1>9 DEF DestroyCalled, OfHandle, Move, Goto
<1>10. ASSUME NEW d \in Destroyers, DestroyLock(d) /\ OfHandle PROVE RequestsInv'
  BY <1>10 DEF DestroyLock, OfHandle, Move, Goto
<1>11. ASSUME NEW d \in Destroyers, DestroyContainerStep(d) /\ OfContainer PROVE RequestsInv'
  BY <1>11 DEF DestroyContainerStep, StopContainer, RemoveContainer, OfContainer, Move,
     Return, Goto
<1>12. ASSUME NEW d \in Destroyers, DestroyVMStep(d) /\ OfFirecracker PROVE RequestsInv'
  BY <1>12 DEF DestroyVMStep, KillVM, ReapVM, RemoveWorkDir, RemoveAll, OfFirecracker, Move,
     Return, Goto
<1>13. CASE UNCHANGED vars
  BY <1>13 DEF vars
<1> QED BY <1>1, <1>2, <1>3, <1>4, <1>5, <1>6, <1>7, <1>8, <1>9, <1>10, <1>11, <1>12,
           <1>13 DEF Next, CreateSandbox, AttachPTY, Destroy

\* Every step keeps each AttachPTY call's descriptors in line with its place.
LEMMA FifosStep ==
    ASSUME TypeOK, HandleInv, FifosInv, [Next]_vars
    PROVE  FifosInv'
<1> USE CallersAssumption DEF TypeOK, HandleInv, FifosInv, vars, handleVars, containerVars,
        firecrackerVars, vmVars
<1>1. CASE CreateContainerStep /\ OfContainer
  BY <1>1 DEF CreateContainerStep, InspectImage, PullImage, CreateContainer, StartContainer,
     CleanUp, OfContainer
<1>2. CASE CreateVMStep /\ OfFirecracker
  BY <1>2 DEF CreateVMStep, MakeWorkDir, PrepareWorkDir, StartProcess, WaitForSocket, PutAPI,
     Undo, RemoveAll, OfFirecracker
<1>3. CASE ShellExits /\ OfContainer
  BY <1>3 DEF ShellExits, OfContainer
<1>4. CASE VMExits /\ OfFirecracker
  BY <1>4 DEF VMExits, OfFirecracker
<1>5. CASE ConsoleOpens
  BY <1>5 DEF ConsoleOpens, VMOpensInput, Blocked, OfFirecracker
<1>6. ASSUME NEW a \in Attachers, AttachCheck(a) /\ OfHandle PROVE FifosInv'
  BY <1>6 DEF AttachCheck, OfHandle, Move, Goto
<1>7. ASSUME NEW a \in Attachers, AttachContainer(a) /\ OfContainer PROVE FifosInv'
  BY <1>7 DEF AttachContainer, OfContainer, Move, Goto
<1>8. ASSUME NEW a \in Attachers, (AttachVMStep(a) \/ CloseFifos(a)) /\ OfFirecracker
      PROVE FifosInv'
  BY <1>8 DEF AttachVMStep, OpenOutput, OpenInput, CloseFifos, Holds, OfFirecracker, Move, Goto
<1>9. ASSUME NEW d \in Destroyers, DestroyCalled(d) /\ OfHandle PROVE FifosInv'
  BY <1>9 DEF DestroyCalled, OfHandle, Move, Goto
<1>10. ASSUME NEW d \in Destroyers, DestroyLock(d) /\ OfHandle PROVE FifosInv'
  BY <1>10 DEF DestroyLock, OfHandle, Move, Goto
<1>11. ASSUME NEW d \in Destroyers, DestroyContainerStep(d) /\ OfContainer PROVE FifosInv'
  BY <1>11 DEF DestroyContainerStep, StopContainer, RemoveContainer, OfContainer, Move,
     Return, Goto
<1>12. ASSUME NEW d \in Destroyers, DestroyVMStep(d) /\ OfFirecracker PROVE FifosInv'
  BY <1>12 DEF DestroyVMStep, KillVM, ReapVM, RemoveWorkDir, RemoveAll, OfFirecracker, Move,
     Return, Goto
<1>13. CASE UNCHANGED vars
  BY <1>13 DEF vars
<1> QED BY <1>1, <1>2, <1>3, <1>4, <1>5, <1>6, <1>7, <1>8, <1>9, <1>10, <1>11, <1>12,
           <1>13 DEF Next, CreateSandbox, AttachPTY, Destroy

-----------------------------------------------------------------------------
(* Safety *)

\* The initial states, of either backend, satisfy the inductive invariant.
LEMMA InvInit == Init => Inv
<1> SUFFICES ASSUME Init PROVE Inv
  OBVIOUS
<1> USE CallersAssumption DEF Init, HandleInit, ContainerInit, FirecrackerInit
<1>1. Flags
  BY Zenon DEF Flags
<1>2. TypeOK
  BY <1>1 DEF Flags, TypeOK, Endpoints
<1>3. HandleInv /\ AlreadyInv
  BY DEF HandleInv, AlreadyInv, Working, Returned, Tried
<1>4. ContainerInv /\ VMInv
  BY DEF ContainerInv, VMInv
<1>5. RequestsInv /\ FifosInv
  BY DEF RequestsInv, FifosInv, Endpoints
<1> QED BY <1>2, <1>3, <1>4, <1>5 DEF Inv

\* Every step keeps the inductive invariant.
LEMMA InvStep == Inv /\ [Next]_vars => Inv'
<1> SUFFICES ASSUME Inv, [Next]_vars PROVE Inv'
  OBVIOUS
<1>1. Flags
  BY DEF Inv, TypeOK, Flags
<1>2. Flags'
  BY <1>1, FlagsStep
<1> QED BY <1>2, TypeStep, HandleStep, AlreadyStep, ContainerStep, VMStep,
           RequestsStep, FifosStep DEF Inv

\* The inductive invariant holds throughout.
LEMMA InvHolds == Spec => []Inv
BY InvInit, InvStep, PTL DEF Spec

\* The variables of the sandbox keep their types, and destroyMu is held only by
\* a Destroy that is at work.
THEOREM TypeCorrect == Spec => []TypeOK
<1>1. Inv => TypeOK
  BY DEF Inv
<1> QED BY <1>1, InvHolds, PTL

\* However many callers race to destroy a sandbox, one of them stops and
\* removes it.
THEOREM DestroyedOnce == Spec => []OneAttempt
<1>1. ASSUME Inv PROVE OneAttempt
  <2>1. \A d, e \in Attempts : d = e
    BY <1>1 DEF Inv, HandleInv, Attempts, Tried, Working, Returned
  <2>2. CASE Attempts = {}
    BY <2>2, FS_EmptySet DEF OneAttempt
  <2>3. ASSUME NEW d \in Attempts PROVE OneAttempt
    <3>1. Attempts = {d}
      BY <2>1
    <3>2. Cardinality({d}) = 1
      BY FS_Singleton
    <3> QED BY <3>1, <3>2 DEF OneAttempt
  <2> QED BY <2>2, <2>3
<1> QED BY <1>1, InvHolds, PTL

\* A nil from Destroy, to the caller that did the work or to one that came too
\* late, never hides a container or a microVM nobody was told about.
THEOREM NilIsHonest == Spec => []NilMeansGoneOrReported
<1>1. Inv => NilMeansGoneOrReported
  BY DEF Inv, TypeOK, AlreadyInv, ContainerInv, VMInv, Returned, NilMeansGoneOrReported
<1> QED BY <1>1, InvHolds, PTL

\* Whichever of its steps fails, CreateSandbox leaves nothing running behind
\* but a container whose removal failed too.
THEOREM FailureCleansUp == Spec => []FailedCreateCleansUp
<1>1. Inv => FailedCreateCleansUp
  BY DEF Inv, TypeOK, ContainerInv, VMInv, FailedCreateCleansUp, Running
<1> QED BY <1>1, InvHolds, PTL

\* No descriptor on a FIFO outlives the AttachPTY call or the stream it was
\* opened for.
THEOREM FifosNeverLeak == Spec => []FifosAreOwned
<1>1. Inv => FifosAreOwned
  BY DEF Inv, TypeOK, ContainerInv, FifosInv, FifosAreOwned
<1> QED BY <1>1, InvHolds, PTL

-----------------------------------------------------------------------------
(* Refinement *)

\* Each step of a backend is one step of the contract or invisible to it: only
\* the end of CreateSandbox and the return of the one attempt are seen.
LEMMA ContractStep ==
    ASSUME Inv, [Next]_vars
    PROVE  Contract!Next \/ SandboxState' = SandboxState
<1> USE CallersAssumption DEF Inv, TypeOK, HandleInv, ContainerInv, VMInv, Working, Returned,
        Tried, SandboxState, Contract!Next, Contract!Create, Contract!Destroy, vars,
        handleVars, containerVars, firecrackerVars, vmVars
<1>1. CASE CreateContainerStep /\ OfContainer
  BY <1>1 DEF CreateContainerStep, InspectImage, PullImage, CreateContainer, StartContainer,
     CleanUp, OfContainer
<1>2. CASE CreateVMStep /\ OfFirecracker
  BY <1>2 DEF CreateVMStep, MakeWorkDir, PrepareWorkDir, StartProcess, WaitForSocket, PutAPI,
     Undo, RemoveAll, OfFirecracker
<1>3. CASE ShellExits /\ OfContainer
  BY <1>3 DEF ShellExits, OfContainer
<1>4. CASE VMExits /\ OfFirecracker
  BY <1>4 DEF VMExits, OfFirecracker
<1>5. CASE ConsoleOpens
  BY <1>5 DEF ConsoleOpens, VMOpensInput, Blocked, OfFirecracker
<1>6. ASSUME NEW a \in Attachers, AttachCheck(a) /\ OfHandle
      PROVE Contract!Next \/ SandboxState' = SandboxState
  BY <1>6 DEF AttachCheck, OfHandle, Move, Goto
<1>7. ASSUME NEW a \in Attachers, AttachContainer(a) /\ OfContainer
      PROVE Contract!Next \/ SandboxState' = SandboxState
  BY <1>7 DEF AttachContainer, OfContainer, Move, Goto
<1>8. ASSUME NEW a \in Attachers, (AttachVMStep(a) \/ CloseFifos(a)) /\ OfFirecracker
      PROVE Contract!Next \/ SandboxState' = SandboxState
  BY <1>8 DEF AttachVMStep, OpenOutput, OpenInput, CloseFifos, Holds, OfFirecracker, Move, Goto
<1>9. ASSUME NEW d \in Destroyers, DestroyCalled(d) /\ OfHandle
      PROVE Contract!Next \/ SandboxState' = SandboxState
  BY <1>9 DEF DestroyCalled, OfHandle, Move, Goto
<1>10. ASSUME NEW d \in Destroyers, DestroyLock(d) /\ OfHandle
       PROVE Contract!Next \/ SandboxState' = SandboxState
  BY <1>10 DEF DestroyLock, OfHandle, Move, Goto
<1>11. ASSUME NEW d \in Destroyers, DestroyContainerStep(d) /\ OfContainer
       PROVE Contract!Next \/ SandboxState' = SandboxState
  BY <1>11 DEF DestroyContainerStep, StopContainer, RemoveContainer, OfContainer, Move,
     Return, Goto
<1>12. ASSUME NEW d \in Destroyers, DestroyVMStep(d) /\ OfFirecracker
       PROVE Contract!Next \/ SandboxState' = SandboxState
  BY <1>12 DEF DestroyVMStep, KillVM, ReapVM, RemoveWorkDir, RemoveAll, OfFirecracker, Move,
     Return, Goto
<1>13. CASE UNCHANGED vars
  BY <1>13 DEF vars
<1> QED BY <1>1, <1>2, <1>3, <1>4, <1>5, <1>6, <1>7, <1>8, <1>9, <1>10, <1>11, <1>12,
           <1>13 DEF Next, CreateSandbox, AttachPTY, Destroy

\* To the session manager a sandbox of either backend is a SandboxContract: it
\* runs from the return of CreateSandbox to that of the one Destroy at work.
THEOREM MeetsContract == Spec => ImplementsContract
<1>1. Init => Contract!Init
  BY DEF Init, Contract!Init, SandboxState
<1>2. Inv /\ [Next]_vars => [Contract!Next]_SandboxState
  BY ContractStep
<1> QED BY <1>1, <1>2, InvHolds, PTL DEF Spec, ImplementsContract, Contract!Spec, SandboxState
=============================================================================
