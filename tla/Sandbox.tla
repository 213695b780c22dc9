------------------------------- MODULE Sandbox -------------------------------
(***************************************************************************)
(* The handle CreateSandbox returns, the same in every backend             *)
(* (dockerSandbox, gvisorSandbox, firecrackerSandbox): the destroyed flag, *)
(* the mutex destroyMu, and the parts of AttachPTY and Destroy that look   *)
(* at nothing else.                                                        *)
(***************************************************************************)
EXTENDS Integers, FiniteSets

CONSTANTS
    Attachers,  \* calls of AttachPTY
    Destroyers  \* calls of Destroy

ASSUME CallersAssumption ==
    /\ IsFiniteSet(Destroyers)
    /\ Attachers \cap Destroyers = {}
    /\ "free" \notin Destroyers

VARIABLES
    creator,    \* place of CreateSandbox; "ok" once it returned the sandbox
    destroyed,  \* the sandbox's destroyed flag
    destroyMu,  \* the Destroy call that holds destroyMu, or "free"
    pc          \* place of each AttachPTY and Destroy call

handleVars == <<destroyed, destroyMu, pc>>

HandleInit ==
    /\ destroyed = FALSE
    /\ destroyMu = "free"
    /\ pc = [x \in Attachers \cup Destroyers |-> "idle"]

Goto(x, label) == pc' = [pc EXCEPT ![x] = label]
Move(x, label) == Goto(x, label) /\ UNCHANGED <<creator, destroyed, destroyMu>>

\* Fault: AttachPTY keeps destroyMu until it has attached.
AttachLocked(a) ==
    /\ creator = "ok"
    /\ pc[a] = "idle"
    /\ destroyMu = "free"
    /\ Goto(a, IF destroyed THEN "refused" ELSE "attaching")
    /\ destroyMu' = IF destroyed THEN "free" ELSE a
    /\ UNCHANGED <<creator, destroyed>>

\* AttachPTY looks at the flag under the lock, and lets go of the lock.
AttachCheck(a) ==
    /\ creator = "ok"
    /\ pc[a] = "idle"
    /\ destroyMu = "free"
    /\ Move(a, IF destroyed THEN "refused" ELSE "attaching")

DestroyCalled(d) == creator = "ok" /\ pc[d] = "idle" /\ Move(d, "waiting")

\* Fault: the flag is looked at without the lock and not set in time.
DestroyUnlocked(d) ==
    /\ pc[d] = "waiting"
    /\ Move(d, IF destroyed THEN "already" ELSE "stop")

\* Destroy takes destroyMu; a sandbox already marked is left as it is.
DestroyLock(d) ==
    /\ pc[d] = "waiting"
    /\ destroyMu = "free"
    /\ \/ destroyed /\ Move(d, "already")
       \/ /\ ~destroyed
          /\ destroyed' = TRUE
          /\ destroyMu' = d
          /\ Goto(d, "stop")
          /\ UNCHANGED creator

\* Fault: a return that does not unlock.
ReturnLocked(d, result) == Move(d, result)

\* Destroy returns, and its deferred call unlocks.
Return(d, result) ==
    /\ Goto(d, result)
    /\ destroyMu' = "free"
    /\ UNCHANGED <<creator, destroyed>>
=============================================================================
