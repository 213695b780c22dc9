---------------------------- MODULE DocpineProofs ----------------------------
(***************************************************************************)
(* Proofs about the running service, for any number of requests, devices   *)
(* and connections and any configured ceiling.                             *)
(***************************************************************************)
EXTENDS Docpine, FiniteSetTheorems, TLAPS

-----------------------------------------------------------------------------
(* The inductive invariant *)

Stored == {"stored", "created"}

\* How far the request of a session is decides who may know of its sandbox.
\* A handler that has not stored its session yet is alone with it; a session
\* is in the map or with one owner; a sandbox runs exactly while its handler,
\* the map or an owner has it.
LifecycleOf(s) ==
    /\ s \in sessions => pc[s] \in Stored /\ sandbox[s] = "running"
    /\ pc[s] = "provisioned" => sandbox[s] = "running"
    /\ \A o \in Owners : work[o][s] # "none" =>
          /\ pc[s] \in Stored
          /\ s \notin sessions
          /\ sandbox[s] = "running"
          /\ \A p \in Owners : work[p][s] # "none" => o = p
    /\ sandbox[s] = "running" =>
          \/ pc[s] = "provisioned"
          \/ s \in sessions
          \/ \E o \in Owners : work[o][s] # "none"

Lifecycle == \A s \in Requests : LifecycleOf(s)

\* A session is bound only by its own request, once, to that request's device.
BoundOnce ==
    \A s \in Requests :
        /\ pc[s] # "created" => sessionDevices[s] = NoDevice
        /\ pc[s] \notin {"idle", "rejected"} => device[s] \in Devices

Inv == TypeOK /\ Lifecycle /\ SlotAccounting
BindInv == TypeOK /\ BoundOnce /\ BindingsAgree

-----------------------------------------------------------------------------
(* Type correctness *)

\* NewConcurrencyLimiter never leaves a ceiling below one.
LEMMA CeilingPositive == maxConcurrent \in Int /\ maxConcurrent > 0
  BY GuardAssumption DEF maxConcurrent

\* The service starts well typed.
LEMMA TypeInit == Init => TypeOK
<1> SUFFICES ASSUME Init PROVE TypeOK
  OBVIOUS
<1> USE DEF Init, GuardInit, ManagerInit
<1>1. active \in 0..maxConcurrent
  BY CeilingPositive
<1>2. work \in [Owners -> [Requests -> Stages]]
  BY DEF Stages
<1>3. drained \in BOOLEAN
  BY Zenon
<1> QED BY <1>1, <1>2, <1>3 DEF TypeOK, PCs, ConnPCs

\* Every handler, the reaper, a teardown and the shutdown keep the state well
\* typed; in particular the slot counter stays between zero and the ceiling.
LEMMA TypeStep == TypeOK /\ [Next]_vars => TypeOK'
<1> SUFFICES ASSUME TypeOK, [Next]_vars PROVE TypeOK'
  OBVIOUS
<1>c. maxConcurrent' = maxConcurrent /\ Owners' = Owners
  BY DEF maxConcurrent, Owners
<1> USE CeilingPositive, <1>c DEF TypeOK, Stages, PCs, ConnPCs, guardVars, managerVars,
        requestVars, connVars, mainVars, Alive
<1>1. TypeOK'
  <2>1. ASSUME NEW r \in Requests, BadPayload(r) PROVE TypeOK'
    BY <2>1 DEF BadPayload, Goto
  <2>2. ASSUME NEW r \in Requests, NEW d \in Devices, CheckDevice(r, d) PROVE TypeOK'
    BY <2>2 DEF CheckDevice, Goto, HasActiveDeviceSession
  <2>3. ASSUME NEW r \in Requests, AcquireSlot(r) PROVE TypeOK'
    BY <2>3 DEF AcquireSlot, Goto, HasFreeSlot, TakeSlot, bindings
  <2>4. ASSUME NEW r \in Requests, TurnstilePasses(r) PROVE TypeOK'
    BY <2>4 DEF TurnstilePasses, Goto
  <2>5. ASSUME NEW r \in Requests, TurnstileFails(r) PROVE TypeOK'
    BY <2>5 DEF TurnstileFails, Goto, Release, bindings
  <2>6. ASSUME NEW r \in Requests, RateAllowed(r) PROVE TypeOK'
    BY <2>6 DEF RateAllowed, Goto
  <2>7. ASSUME NEW r \in Requests, RateLimited(r) PROVE TypeOK'
    BY <2>7 DEF RateLimited, Goto, Release, bindings
  <2>8. ASSUME NEW r \in Requests, Provision(r) PROVE TypeOK'
    BY <2>8 DEF Provision, Goto, CreateSandbox
  <2>9. ASSUME NEW r \in Requests, ProvisionFails(r) PROVE TypeOK'
    BY <2>9 DEF ProvisionFails, Goto, CreateSandboxFails
  <2>10. ASSUME NEW r \in Requests, ReleaseAfterFailure(r) PROVE TypeOK'
    BY <2>10 DEF ReleaseAfterFailure, Goto, Release, bindings
  <2>11. ASSUME NEW r \in Requests, Store(r) PROVE TypeOK'
    BY <2>11 DEF Store, Goto, Insert
  <2>12. ASSUME NEW r \in Requests, Bind(r) PROVE TypeOK'
    BY <2>12 DEF Bind, Goto, RegisterSession
  <2>13. ASSUME NEW c \in Conns, NEW s \in Requests, Get(c, s) PROVE TypeOK'
    BY <2>13 DEF Get, ConnGoto
  <2>14. ASSUME NEW c \in Conns, Upgrade(c) PROVE TypeOK'
    BY <2>14 DEF Upgrade, ConnGoto
  <2>15. ASSUME NEW c \in Conns, AttachLookup(c) PROVE TypeOK'
    BY <2>15 DEF AttachLookup, ConnGoto
  <2>16. ASSUME NEW c \in Conns, AttachPTY(c) PROVE TypeOK'
    BY <2>16 DEF AttachPTY, ConnGoto
  <2>17. ASSUME NEW c \in Conns, StreamEnds(c) PROVE TypeOK'
    BY <2>17 DEF StreamEnds, ConnGoto
  <2>18. ASSUME NEW c \in Conns, ConnDestroy(c) PROVE TypeOK'
    BY <2>18 DEF ConnDestroy, ConnGoto, Destroy, Take
  <2>19. ASSUME NEW c \in Conns, ConnReturns(c) PROVE TypeOK'
    BY <2>19 DEF ConnReturns, ConnGoto
  <2>20. ASSUME NEW o \in Owners, NEW s \in Requests, Unbind(o, s) PROVE TypeOK'
    BY <2>20 DEF Unbind, CallbackUnbind, Advance, ReleaseSession, bindings
  <2>21. ASSUME NEW o \in Owners, NEW s \in Requests, FreeSlot(o, s) PROVE TypeOK'
    BY <2>21 DEF FreeSlot, CallbackFree, Advance, Release, bindings
  <2>22. ASSUME NEW o \in Owners, NEW s \in Requests, TearDown(o, s) PROVE TypeOK'
    BY <2>22 DEF TearDown, DestroySandbox, Advance
  <2>23. ASSUME NEW r \in Requests, TTLRunsOut(r) PROVE TypeOK'
    BY <2>23 DEF TTLRunsOut, Expire
  <2>24. ASSUME ReaperTick PROVE TypeOK'
    BY <2>24 DEF ReaperTick, ReapExpired, Take
  <2>25. ASSUME ReaperStops PROVE TypeOK'
    BY <2>25 DEF ReaperStops, ReaperExit
  <2>26. ASSUME Signal PROVE TypeOK'
    BY <2>26 DEF Signal
  <2>27. ASSUME BeginClose PROVE TypeOK'
    <3>1. HandlersReturned \in BOOLEAN
      BY Zenon DEF HandlersReturned
    <3>2. drained' \in BOOLEAN
      BY <2>27, <3>1, Zenon DEF BeginClose
    <3> QED BY <2>27, <3>2 DEF BeginClose, StopReaper
  <2>28. ASSUME CloseSessions PROVE TypeOK'
    BY <2>28 DEF CloseSessions, CloseTake, Take
  <2>29. ASSUME Exit PROVE TypeOK'
    BY <2>29 DEF Exit
  <2>30. CASE UNCHANGED vars
    BY <2>30 DEF vars
  <2> QED
    BY <2>1, <2>2, <2>3, <2>4, <2>5, <2>6, <2>7, <2>8, <2>9, <2>10, <2>11, <2>12, <2>13,
       <2>14, <2>15, <2>16, <2>17, <2>18, <2>19, <2>20, <2>21, <2>22, <2>23, <2>24, <2>25,
       <2>26, <2>27, <2>28, <2>29, <2>30
    DEF Next, Running, RequestArrives, RequestStep, ConnStep, OwnerStep, Shutdown, Exited
<1> QED BY <1>1

\* The state of the whole service stays well typed.
THEOREM TypeCorrect == Spec => []TypeOK
  BY TypeInit, TypeStep, PTL DEF Spec

-----------------------------------------------------------------------------
(* Ownership of sessions and sandboxes *)

\* No session has an owner before the first request.
LEMMA LifecycleInit == Init => Lifecycle
  BY DEF Init, GuardInit, ManagerInit, Lifecycle, LifecycleOf

\* Whoever deletes sessions from the map becomes their only owner.
LEMMA TakeWork ==
  ASSUME TypeOK, NEW o \in Owners, NEW S \in SUBSET sessions, Take(o, S)
  PROVE  \A p \in Owners, s \in Requests :
            work'[p][s] = IF p = o /\ s \in S THEN "taken" ELSE work[p][s]
  BY DEF TypeOK, Take

\* Deleting sessions from the map gives each of them its one owner.
LEMMA TakeKeepsLifecycle ==
  ASSUME TypeOK, Lifecycle, NEW o \in Owners, NEW S \in SUBSET sessions,
         Take(o, S), pc' = pc
  PROVE  Lifecycle'
<1>1. Owners' = Owners
  BY DEF Owners
<1>2. sessions' = sessions \ S /\ sandbox' = sandbox
  BY DEF Take
<1>3. SUFFICES ASSUME NEW s \in Requests PROVE LifecycleOf(s)'
  BY DEF Lifecycle
<1>4. \A p \in Owners : work'[p][s] = IF p = o /\ s \in S THEN "taken" ELSE work[p][s]
  BY TakeWork
<1>5. LifecycleOf(s)
  BY DEF Lifecycle
<1>6. CASE s \in S
  <2>1. \A p \in Owners : work'[p][s] # "none" => p = o
    BY <1>4, <1>5, <1>6 DEF LifecycleOf
  <2> QED BY <1>1, <1>2, <1>4, <1>5, <1>6, <2>1 DEF LifecycleOf
<1>7. CASE s \notin S
  BY <1>1, <1>2, <1>4, <1>5, <1>7 DEF LifecycleOf
<1> QED BY <1>6, <1>7

\* No step of a handler, the reaper or main breaks Lifecycle.
LEMMA LifecycleStep == TypeOK /\ Lifecycle /\ [Next]_vars => Lifecycle'
<1> SUFFICES ASSUME TypeOK, Lifecycle, [Next]_vars PROVE Lifecycle'
  OBVIOUS
<1>c. Owners' = Owners
  BY DEF Owners
<1> USE <1>c DEF TypeOK, Lifecycle, LifecycleOf, Stages, Stored, guardVars, managerVars,
        requestVars, connVars, mainVars, Alive
<1>1. ASSUME NEW r \in Requests, BadPayload(r) PROVE Lifecycle'
  BY <1>1 DEF BadPayload, Goto
<1>2. ASSUME NEW r \in Requests, NEW d \in Devices, CheckDevice(r, d) PROVE Lifecycle'
  BY <1>2 DEF CheckDevice, Goto
<1>3. ASSUME NEW r \in Requests, AcquireSlot(r) PROVE Lifecycle'
  BY <1>3 DEF AcquireSlot, Goto, HasFreeSlot, TakeSlot, bindings
<1>4. ASSUME NEW r \in Requests, TurnstilePasses(r) PROVE Lifecycle'
  BY <1>4 DEF TurnstilePasses, Goto
<1>5. ASSUME NEW r \in Requests, TurnstileFails(r) PROVE Lifecycle'
  BY <1>5 DEF TurnstileFails, Goto, Release, bindings
<1>6. ASSUME NEW r \in Requests, RateAllowed(r) PROVE Lifecycle'
  BY <1>6 DEF RateAllowed, Goto
<1>7. ASSUME NEW r \in Requests, RateLimited(r) PROVE Lifecycle'
  BY <1>7 DEF RateLimited, Goto, Release, bindings
<1>8. ASSUME NEW r \in Requests, Provision(r) PROVE Lifecycle'
  BY <1>8 DEF Provision, Goto, CreateSandbox
<1>9. ASSUME NEW r \in Requests, ProvisionFails(r) PROVE Lifecycle'
  BY <1>9 DEF ProvisionFails, Goto, CreateSandboxFails
<1>10. ASSUME NEW r \in Requests, ReleaseAfterFailure(r) PROVE Lifecycle'
  BY <1>10 DEF ReleaseAfterFailure, Goto, Release, bindings
<1>11. ASSUME NEW r \in Requests, Store(r) PROVE Lifecycle'
  BY <1>11 DEF Store, Goto, Insert
<1>12. ASSUME NEW r \in Requests, Bind(r) PROVE Lifecycle'
  BY <1>12 DEF Bind, Goto, RegisterSession
<1>13. ASSUME NEW c \in Conns, NEW s \in Requests, Get(c, s) PROVE Lifecycle'
  BY <1>13 DEF Get, ConnGoto
<1>14. ASSUME NEW c \in Conns, Upgrade(c) PROVE Lifecycle'
  BY <1>14 DEF Upgrade, ConnGoto
<1>15. ASSUME NEW c \in Conns, AttachLookup(c) PROVE Lifecycle'
  BY <1>15 DEF AttachLookup, ConnGoto
<1>16. ASSUME NEW c \in Conns, AttachPTY(c) PROVE Lifecycle'
  BY <1>16 DEF AttachPTY, ConnGoto
<1>17. ASSUME NEW c \in Conns, StreamEnds(c) PROVE Lifecycle'
  BY <1>17 DEF StreamEnds, ConnGoto
<1>18. ASSUME NEW c \in Conns, ConnDestroy(c) PROVE Lifecycle'
  <2>1. CASE target[c] \in sessions
    <3>1. Take(c, {target[c]}) /\ pc' = pc
      BY <1>18, <2>1 DEF ConnDestroy, Destroy
    <3>2. {target[c]} \in SUBSET sessions /\ c \in Owners
      BY <2>1 DEF Owners
    <3> HIDE DEF Lifecycle, TypeOK
    <3> QED BY <3>1, <3>2, TakeKeepsLifecycle
  <2>2. CASE target[c] \notin sessions
    BY <1>18, <2>2 DEF ConnDestroy, Destroy
  <2> QED BY <2>1, <2>2
<1>19. ASSUME NEW c \in Conns, ConnReturns(c) PROVE Lifecycle'
  BY <1>19 DEF ConnReturns, ConnGoto
<1>20. ASSUME NEW o \in Owners, NEW s \in Requests, Unbind(o, s) PROVE Lifecycle'
  BY <1>20 DEF Unbind, CallbackUnbind, Advance
<1>21. ASSUME NEW o \in Owners, NEW s \in Requests, FreeSlot(o, s) PROVE Lifecycle'
  BY <1>21 DEF FreeSlot, CallbackFree, Advance
<1>22. ASSUME NEW o \in Owners, NEW s \in Requests, TearDown(o, s) PROVE Lifecycle'
  BY <1>22 DEF TearDown, DestroySandbox, Advance
<1>23. ASSUME NEW r \in Requests, TTLRunsOut(r) PROVE Lifecycle'
  BY <1>23 DEF TTLRunsOut, Expire
<1>24. ASSUME ReaperTick PROVE Lifecycle'
  <2>1. Take(Reaper, sessions \cap expired) /\ pc' = pc
    BY <1>24 DEF ReaperTick, ReapExpired
  <2>2. sessions \cap expired \in SUBSET sessions /\ Reaper \in Owners
    BY DEF Owners
  <2> HIDE DEF Lifecycle, TypeOK
  <2> QED BY <2>1, <2>2, TakeKeepsLifecycle
<1>25. ASSUME ReaperStops PROVE Lifecycle'
  BY <1>25 DEF ReaperStops, ReaperExit
<1>26. ASSUME Signal PROVE Lifecycle'
  BY <1>26 DEF Signal
<1>27. ASSUME BeginClose PROVE Lifecycle'
  BY <1>27 DEF BeginClose, StopReaper
<1>28. ASSUME CloseSessions PROVE Lifecycle'
  <2>1. Take(Main, sessions) /\ pc' = pc
    BY <1>28 DEF CloseSessions, CloseTake
  <2>2. sessions \in SUBSET sessions /\ Main \in Owners
    BY DEF Owners
  <2> HIDE DEF Lifecycle, TypeOK
  <2> QED BY <2>1, <2>2, TakeKeepsLifecycle
<1>29. ASSUME Exit PROVE Lifecycle'
  BY <1>29 DEF Exit
<1>30. CASE UNCHANGED vars
  BY <1>30 DEF vars
<1> QED
  BY <1>1, <1>2, <1>3, <1>4, <1>5, <1>6, <1>7, <1>8, <1>9, <1>10, <1>11, <1>12, <1>13, <1>14,
     <1>15, <1>16, <1>17, <1>18, <1>19, <1>20, <1>21, <1>22, <1>23, <1>24, <1>25, <1>26,
     <1>27, <1>28, <1>29, <1>30
  DEF Next, Running, RequestArrives, RequestStep, ConnStep, OwnerStep, Shutdown, Exited

-----------------------------------------------------------------------------
(* Accounting of slots *)

\* The requests that hold a slot can be counted.
LEMMA HoldersFinite == IsFiniteSet(SlotHolders) /\ Cardinality(SlotHolders) \in Nat
<1>1. SlotHolders \subseteq Requests
  BY DEF SlotHolders
<1>2. IsFiniteSet(SlotHolders)
  BY <1>1, RequestsAssumption, FS_Subset
<1> QED BY <1>2, FS_CardinalityType

\* Release keeps the count exact when a holder leaves: the clamp is not reached.
LEMMA ReleaseOne ==
  ASSUME SlotAccounting, NEW r \in SlotHolders,
         SlotHolders' = SlotHolders \ {r}, Release
  PROVE  SlotAccounting'
<1>1. Cardinality(SlotHolders \ {r}) = Cardinality(SlotHolders) - 1
  BY HoldersFinite, FS_RemoveElement
<1>2. Cardinality(SlotHolders \ {r}) \in Nat
  <2>1. IsFiniteSet(SlotHolders \ {r})
    BY HoldersFinite, FS_Subset
  <2> QED BY <2>1, FS_CardinalityType
<1>3. active - 1 >= 0 /\ active \in Int
  BY <1>1, <1>2, HoldersFinite DEF SlotAccounting
<1>4. active' = active - 1
  BY <1>3 DEF Release
<1> QED BY <1>1, <1>4 DEF SlotAccounting

\* A successful TryAcquire adds one holder.
LEMMA AcquireOne ==
  ASSUME SlotAccounting, NEW r \in Requests, r \notin SlotHolders,
         SlotHolders' = SlotHolders \cup {r}, active' = active + 1
  PROVE  SlotAccounting'
<1>1. Cardinality(SlotHolders \cup {r}) = Cardinality(SlotHolders) + 1
  BY HoldersFinite, FS_AddElement
<1> QED BY <1>1 DEF SlotAccounting

\* A session taken out of the map keeps its slot until its callback runs.
LEMMA TakeKeepsHolders ==
  ASSUME TypeOK, Lifecycle, NEW o \in Owners, NEW S \in SUBSET sessions,
         Take(o, S), pc' = pc
  PROVE  SlotHolders' = SlotHolders
<1>1. Owners' = Owners
  BY DEF Owners
<1>2. sessions' = sessions \ S
  BY DEF Take
<1>3. \A s \in Requests : \A p \in Owners :
         work'[p][s] = IF p = o /\ s \in S THEN "taken" ELSE work[p][s]
  BY TakeWork
<1>4. \A s \in Requests, p \in Owners : s \in S => work[p][s] = "none"
  BY DEF Lifecycle, LifecycleOf
<1>5. ASSUME NEW s \in Requests PROVE HoldsSlot(s)' <=> HoldsSlot(s)
  <2>1. CASE s \in S
    BY <1>1, <1>2, <1>3, <2>1 DEF HoldsSlot
  <2>2. CASE s \notin S
    BY <1>1, <1>2, <1>3, <2>2 DEF HoldsSlot
  <2> QED BY <2>1, <2>2
<1> QED BY <1>5 DEF SlotHolders

\* No slot is in use at the start.
LEMMA AccountingInit == Init => SlotAccounting
<1> SUFFICES ASSUME Init PROVE SlotAccounting
  OBVIOUS
<1>1. SlotHolders = {}
  BY DEF Init, ManagerInit, SlotHolders, HoldsSlot
<1> QED BY <1>1, FS_EmptySet DEF Init, GuardInit, SlotAccounting

\* Every step changes the counter by the number of holders it adds or ends.
LEMMA AccountingStep ==
  TypeOK /\ Lifecycle /\ SlotAccounting /\ [Next]_vars => SlotAccounting'
<1> SUFFICES ASSUME TypeOK, Lifecycle, SlotAccounting, [Next]_vars
             PROVE  SlotAccounting'
  OBVIOUS
<1>c. Owners' = Owners
  BY DEF Owners
<1> USE <1>c DEF TypeOK, Stages, guardVars, managerVars, requestVars, connVars,
        mainVars, Alive
<1>1. ASSUME NEW r \in Requests, BadPayload(r) PROVE SlotAccounting'
  <2>1. SlotHolders' = SlotHolders
    BY <1>1 DEF SlotHolders, HoldsSlot, BadPayload, Goto
  <2>2. active' = active
    BY <1>1 DEF BadPayload, Goto
  <2> QED BY <2>1, <2>2 DEF SlotAccounting
<1>2. ASSUME NEW r \in Requests, NEW d \in Devices, CheckDevice(r, d) PROVE SlotAccounting'
  <2>1. SlotHolders' = SlotHolders
    BY <1>2 DEF SlotHolders, HoldsSlot, CheckDevice, Goto
  <2>2. active' = active
    BY <1>2 DEF CheckDevice, Goto
  <2> QED BY <2>1, <2>2 DEF SlotAccounting
<1>3. ASSUME NEW r \in Requests, AcquireSlot(r) PROVE SlotAccounting'
  <2>1. CASE HasFreeSlot
    <3>1. r \notin SlotHolders
      BY <1>3 DEF SlotHolders, HoldsSlot, Lifecycle, LifecycleOf, Stored, AcquireSlot
    <3>2. SlotHolders' = SlotHolders \cup {r}
      BY <1>3, <2>1 DEF SlotHolders, HoldsSlot, AcquireSlot, Goto, bindings
    <3>3. active' = active + 1
      BY <1>3, <2>1 DEF AcquireSlot, TakeSlot
    <3> QED BY <3>1, <3>2, <3>3, AcquireOne
  <2>2. CASE ~ HasFreeSlot
    <3>1. SlotHolders' = SlotHolders
      BY <1>3, <2>2 DEF SlotHolders, HoldsSlot, AcquireSlot, Goto, bindings
    <3>2. active' = active
      BY <1>3, <2>2 DEF AcquireSlot
    <3> QED BY <3>1, <3>2 DEF SlotAccounting
  <2> QED BY <2>1, <2>2
<1>4. ASSUME NEW r \in Requests, TurnstilePasses(r) PROVE SlotAccounting'
  <2>1. SlotHolders' = SlotHolders
    BY <1>4 DEF SlotHolders, HoldsSlot, TurnstilePasses, Goto
  <2>2. active' = active
    BY <1>4 DEF TurnstilePasses, Goto
  <2> QED BY <2>1, <2>2 DEF SlotAccounting
<1>5. ASSUME NEW r \in Requests, TurnstileFails(r) PROVE SlotAccounting'
  <2>1. r \in SlotHolders
    BY <1>5 DEF SlotHolders, HoldsSlot, TurnstileFails, Goto, Release, bindings
  <2>2. SlotHolders' = SlotHolders \ {r}
    BY <1>5 DEF SlotHolders, HoldsSlot, Lifecycle, LifecycleOf, Stored, TurnstileFails, Goto,
       Release, bindings
  <2>3. Release
    BY <1>5 DEF TurnstileFails
  <2> QED BY <2>1, <2>2, <2>3, ReleaseOne
<1>6. ASSUME NEW r \in Requests, RateAllowed(r) PROVE SlotAccounting'
  <2>1. SlotHolders' = SlotHolders
    BY <1>6 DEF SlotHolders, HoldsSlot, RateAllowed, Goto
  <2>2. active' = active
    BY <1>6 DEF RateAllowed, Goto
  <2> QED BY <2>1, <2>2 DEF SlotAccounting
<1>7. ASSUME NEW r \in Requests, RateLimited(r) PROVE SlotAccounting'
  <2>1. r \in SlotHolders
    BY <1>7 DEF SlotHolders, HoldsSlot, RateLimited, Goto, Release, bindings
  <2>2. SlotHolders' = SlotHolders \ {r}
    BY <1>7 DEF SlotHolders, HoldsSlot, Lifecycle, LifecycleOf, Stored, RateLimited, Goto,
       Release, bindings
  <2>3. Release
    BY <1>7 DEF RateLimited
  <2> QED BY <2>1, <2>2, <2>3, ReleaseOne
<1>8. ASSUME NEW r \in Requests, Provision(r) PROVE SlotAccounting'
  <2>1. SlotHolders' = SlotHolders
    BY <1>8 DEF SlotHolders, HoldsSlot, Provision, Goto, CreateSandbox
  <2>2. active' = active
    BY <1>8 DEF Provision, Goto, CreateSandbox
  <2> QED BY <2>1, <2>2 DEF SlotAccounting
<1>9. ASSUME NEW r \in Requests, ProvisionFails(r) PROVE SlotAccounting'
  <2>1. SlotHolders' = SlotHolders
    BY <1>9 DEF SlotHolders, HoldsSlot, ProvisionFails, Goto, CreateSandboxFails
  <2>2. active' = active
    BY <1>9 DEF ProvisionFails, Goto, CreateSandboxFails
  <2> QED BY <2>1, <2>2 DEF SlotAccounting
<1>10. ASSUME NEW r \in Requests, ReleaseAfterFailure(r) PROVE SlotAccounting'
  <2>1. r \in SlotHolders
    BY <1>10 DEF SlotHolders, HoldsSlot, ReleaseAfterFailure, Goto, Release, bindings
  <2>2. SlotHolders' = SlotHolders \ {r}
    BY <1>10 DEF SlotHolders, HoldsSlot, Lifecycle, LifecycleOf, Stored, ReleaseAfterFailure,
       Goto, Release, bindings
  <2>3. Release
    BY <1>10 DEF ReleaseAfterFailure
  <2> QED BY <2>1, <2>2, <2>3, ReleaseOne
<1>11. ASSUME NEW r \in Requests, Store(r) PROVE SlotAccounting'
  <2>1. SlotHolders' = SlotHolders
    BY <1>11 DEF SlotHolders, HoldsSlot, Store, Goto, Insert
  <2>2. active' = active
    BY <1>11 DEF Store, Goto, Insert
  <2> QED BY <2>1, <2>2 DEF SlotAccounting
<1>12. ASSUME NEW r \in Requests, Bind(r) PROVE SlotAccounting'
  <2>1. SlotHolders' = SlotHolders
    BY <1>12 DEF SlotHolders, HoldsSlot, Bind, Goto, RegisterSession
  <2>2. active' = active
    BY <1>12 DEF Bind, Goto, RegisterSession
  <2> QED BY <2>1, <2>2 DEF SlotAccounting
<1>13. ASSUME NEW c \in Conns, NEW s \in Requests, Get(c, s) PROVE SlotAccounting'
  <2>1. SlotHolders' = SlotHolders
    BY <1>13 DEF SlotHolders, HoldsSlot, Get, ConnGoto
  <2>2. active' = active
    BY <1>13 DEF Get, ConnGoto
  <2> QED BY <2>1, <2>2 DEF SlotAccounting
<1>14. ASSUME NEW c \in Conns, Upgrade(c) PROVE SlotAccounting'
  <2>1. SlotHolders' = SlotHolders
    BY <1>14 DEF SlotHolders, HoldsSlot, Upgrade, ConnGoto
  <2>2. active' = active
    BY <1>14 DEF Upgrade, ConnGoto
  <2> QED BY <2>1, <2>2 DEF SlotAccounting
<1>15. ASSUME NEW c \in Conns, AttachLookup(c) PROVE SlotAccounting'
  <2>1. SlotHolders' = SlotHolders
    BY <1>15 DEF SlotHolders, HoldsSlot, AttachLookup, ConnGoto
  <2>2. active' = active
    BY <1>15 DEF AttachLookup, ConnGoto
  <2> QED BY <2>1, <2>2 DEF SlotAccounting
<1>16. ASSUME NEW c \in Conns, AttachPTY(c) PROVE SlotAccounting'
  <2>1. SlotHolders' = SlotHolders
    BY <1>16 DEF SlotHolders, HoldsSlot, AttachPTY, ConnGoto
  <2>2. active' = active
    BY <1>16 DEF AttachPTY, ConnGoto
  <2> QED BY <2>1, <2>2 DEF SlotAccounting
<1>17. ASSUME NEW c \in Conns, StreamEnds(c) PROVE SlotAccounting'
  <2>1. SlotHolders' = SlotHolders
    BY <1>17 DEF SlotHolders, HoldsSlot, StreamEnds, ConnGoto
  <2>2. active' = active
    BY <1>17 DEF StreamEnds, ConnGoto
  <2> QED BY <2>1, <2>2 DEF SlotAccounting
<1>18. ASSUME NEW c \in Conns, ConnDestroy(c) PROVE SlotAccounting'
  <2>0. active' = active /\ pc' = pc
    BY <1>18 DEF ConnDestroy
  <2>1. CASE target[c] \in sessions
    <3>1. Take(c, {target[c]})
      BY <1>18, <2>1 DEF ConnDestroy, Destroy
    <3>2. {target[c]} \in SUBSET sessions /\ c \in Owners
      BY <2>1 DEF Owners
    <3>3. SlotHolders' = SlotHolders
      BY <2>0, <3>1, <3>2, TakeKeepsHolders
    <3> QED BY <2>0, <3>3 DEF SlotAccounting
  <2>2. CASE target[c] \notin sessions
    <3>1. SlotHolders' = SlotHolders
      BY <1>18, <2>2 DEF SlotHolders, HoldsSlot, ConnDestroy, Destroy
    <3> QED BY <2>0, <3>1 DEF SlotAccounting
  <2> QED BY <2>1, <2>2
<1>19. ASSUME NEW c \in Conns, ConnReturns(c) PROVE SlotAccounting'
  <2>1. SlotHolders' = SlotHolders
    BY <1>19 DEF SlotHolders, HoldsSlot, ConnReturns, ConnGoto
  <2>2. active' = active
    BY <1>19 DEF ConnReturns, ConnGoto
  <2> QED BY <2>1, <2>2 DEF SlotAccounting
<1>20. ASSUME NEW o \in Owners, NEW s \in Requests, Unbind(o, s) PROVE SlotAccounting'
  <2>1. SlotHolders' = SlotHolders
    BY <1>20 DEF SlotHolders, HoldsSlot, Unbind, CallbackUnbind, Advance
  <2>2. active' = active
    BY <1>20 DEF Unbind, CallbackUnbind, Advance
  <2> QED BY <2>1, <2>2 DEF SlotAccounting
<1>21. ASSUME NEW o \in Owners, NEW s \in Requests, FreeSlot(o, s) PROVE SlotAccounting'
  <2>1. s \in SlotHolders
    BY <1>21 DEF SlotHolders, HoldsSlot, FreeSlot, CallbackFree, Advance
  <2>2. SlotHolders' = SlotHolders \ {s}
    BY <1>21 DEF SlotHolders, HoldsSlot, Lifecycle, LifecycleOf, Stored, FreeSlot,
       CallbackFree, Advance
  <2>3. Release
    BY <1>21 DEF FreeSlot
  <2> QED BY <2>1, <2>2, <2>3, ReleaseOne
<1>22. ASSUME NEW o \in Owners, NEW s \in Requests, TearDown(o, s) PROVE SlotAccounting'
  <2>1. SlotHolders' = SlotHolders
    BY <1>22 DEF SlotHolders, HoldsSlot, TearDown, DestroySandbox, Advance
  <2>2. active' = active
    BY <1>22 DEF TearDown, DestroySandbox, Advance
  <2> QED BY <2>1, <2>2 DEF SlotAccounting
<1>23. ASSUME NEW r \in Requests, TTLRunsOut(r) PROVE SlotAccounting'
  <2>1. SlotHolders' = SlotHolders
    BY <1>23 DEF SlotHolders, HoldsSlot, TTLRunsOut, Expire
  <2>2. active' = active
    BY <1>23 DEF TTLRunsOut, Expire
  <2> QED BY <2>1, <2>2 DEF SlotAccounting
<1>24. ASSUME ReaperTick PROVE SlotAccounting'
  <2>1. Take(Reaper, sessions \cap expired) /\ pc' = pc /\ active' = active
    BY <1>24 DEF ReaperTick, ReapExpired
  <2>2. sessions \cap expired \in SUBSET sessions /\ Reaper \in Owners
    BY DEF Owners
  <2>3. SlotHolders' = SlotHolders
    BY <2>1, <2>2, TakeKeepsHolders
  <2> QED BY <2>1, <2>3 DEF SlotAccounting
<1>25. ASSUME ReaperStops PROVE SlotAccounting'
  <2>1. SlotHolders' = SlotHolders
    BY <1>25 DEF SlotHolders, HoldsSlot, ReaperStops, ReaperExit
  <2>2. active' = active
    BY <1>25 DEF ReaperStops, ReaperExit
  <2> QED BY <2>1, <2>2 DEF SlotAccounting
<1>26. ASSUME Signal PROVE SlotAccounting'
  <2>1. SlotHolders' = SlotHolders
    BY <1>26 DEF SlotHolders, HoldsSlot, Signal
  <2>2. active' = active
    BY <1>26 DEF Signal
  <2> QED BY <2>1, <2>2 DEF SlotAccounting
<1>27. ASSUME BeginClose PROVE SlotAccounting'
  <2>1. SlotHolders' = SlotHolders
    BY <1>27 DEF SlotHolders, HoldsSlot, BeginClose, StopReaper
  <2>2. active' = active
    BY <1>27 DEF BeginClose, StopReaper
  <2> QED BY <2>1, <2>2 DEF SlotAccounting
<1>28. ASSUME CloseSessions PROVE SlotAccounting'
  <2>1. Take(Main, sessions) /\ pc' = pc /\ active' = active
    BY <1>28 DEF CloseSessions, CloseTake
  <2>2. sessions \in SUBSET sessions /\ Main \in Owners
    BY DEF Owners
  <2>3. SlotHolders' = SlotHolders
    BY <2>1, <2>2, TakeKeepsHolders
  <2> QED BY <2>1, <2>3 DEF SlotAccounting
<1>29. ASSUME Exit PROVE SlotAccounting'
  <2>1. SlotHolders' = SlotHolders
    BY <1>29 DEF SlotHolders, HoldsSlot, Exit
  <2>2. active' = active
    BY <1>29 DEF Exit
  <2> QED BY <2>1, <2>2 DEF SlotAccounting
<1>30. CASE UNCHANGED vars
  <2>1. SlotHolders' = SlotHolders
    BY <1>30 DEF SlotHolders, HoldsSlot, vars
  <2>2. active' = active
    BY <1>30 DEF vars
  <2> QED BY <2>1, <2>2 DEF SlotAccounting
<1> QED
  BY <1>1, <1>2, <1>3, <1>4, <1>5, <1>6, <1>7, <1>8, <1>9, <1>10, <1>11, <1>12, <1>13, <1>14,
     <1>15, <1>16, <1>17, <1>18, <1>19, <1>20, <1>21, <1>22, <1>23, <1>24, <1>25, <1>26,
     <1>27, <1>28, <1>29, <1>30
  DEF Next, Running, RequestArrives, RequestStep, ConnStep, OwnerStep, Shutdown, Exited

-----------------------------------------------------------------------------
(* Theorems *)

\* The inductive invariant holds in every reachable state of the service.
LEMMA InvHolds == Spec => []Inv
<1>1. Init => Inv
  BY TypeInit, LifecycleInit, AccountingInit DEF Inv
<1>2. Inv /\ [Next]_vars => Inv'
  BY TypeStep, LifecycleStep, AccountingStep DEF Inv
<1> QED BY <1>1, <1>2, PTL DEF Spec

\* Every slot that is acquired is released exactly once on every path.
THEOREM SlotsAccountedFor == Spec => []SlotAccounting
  BY InvHolds, PTL DEF Inv

\* A session is torn down by exactly one of the reaper, the websocket handlers
\* and Close, and what is in the map is not being torn down.
THEOREM TeardownHasOneOwner == Spec => []OneOwner
<1>1. Inv => OneOwner
  BY DEF Inv, Lifecycle, LifecycleOf, OneOwner
<1> QED BY <1>1, InvHolds, PTL

\* No running sandbox is ever forgotten by the service.
THEOREM SandboxesAreOwned == Spec => []RunningIsOwned
<1>1. Inv => RunningIsOwned
  BY DEF Inv, Lifecycle, LifecycleOf, RunningIsOwned
<1> QED BY <1>1, InvHolds, PTL

\* The ceiling holds for the sandboxes not yet handed to Sandbox.Destroy.
THEOREM CeilingKept == Spec => []CeilingBeforeDestroy
<1>1. ASSUME Inv PROVE CeilingBeforeDestroy
  <2> DEFINE Live == {s \in Requests : sandbox[s] = "running"} \ BeingDestroyed
  <2>1. Live \subseteq SlotHolders
    BY <1>1 DEF Inv, TypeOK, Stages, Lifecycle, LifecycleOf, BeingDestroyed,
                SlotHolders, HoldsSlot
  <2> HIDE DEF Live
  <2>2. IsFiniteSet(Live) /\ Cardinality(Live) <= Cardinality(SlotHolders)
    BY <2>1, HoldersFinite, FS_Subset
  <2>3. Cardinality(Live) \in Nat
    BY <2>2, FS_CardinalityType
  <2>4. Cardinality(SlotHolders) \in 0..maxConcurrent
    BY <1>1 DEF Inv, TypeOK, SlotAccounting
  <2>5. Cardinality(Live) <= maxConcurrent
    BY <2>2, <2>3, <2>4, CeilingPositive
  <2> QED BY <2>5 DEF Live, CeilingBeforeDestroy
<1> QED BY <1>1, InvHolds, PTL

-----------------------------------------------------------------------------
(* Device bindings *)

\* The guard's maps are empty at the start.
LEMMA BindInit == Init => BindInv
<1> SUFFICES ASSUME Init PROVE BindInv
  OBVIOUS
<1>1. BoundOnce
  BY DEF Init, GuardInit, BoundOnce
<1>2. BindingsAgree
  BY DEF Init, GuardInit, BindingsAgree
<1> QED BY <1>1, <1>2, TypeInit DEF BindInv

\* RegisterSession, ReleaseSession and every other step keep the maps in agreement.
LEMMA BindStep == TypeOK /\ BoundOnce /\ BindingsAgree /\ [Next]_vars
                    => BoundOnce' /\ BindingsAgree'
<1> SUFFICES ASSUME TypeOK, BoundOnce, BindingsAgree, [Next]_vars
             PROVE  BoundOnce' /\ BindingsAgree'
  OBVIOUS
<1> USE DEF TypeOK, BoundOnce, BindingsAgree, guardVars, managerVars, requestVars,
        connVars, mainVars, Alive
<1>1. ASSUME NEW r \in Requests, BadPayload(r) PROVE BoundOnce' /\ BindingsAgree'
  BY <1>1 DEF BadPayload, Goto
<1>2. ASSUME NEW r \in Requests, NEW d \in Devices, CheckDevice(r, d)
      PROVE BoundOnce' /\ BindingsAgree'
  BY <1>2 DEF CheckDevice, Goto
<1>3. ASSUME NEW r \in Requests, AcquireSlot(r) PROVE BoundOnce' /\ BindingsAgree'
  BY <1>3 DEF AcquireSlot, Goto, bindings
<1>4. ASSUME NEW r \in Requests, TurnstilePasses(r) PROVE BoundOnce' /\ BindingsAgree'
  BY <1>4 DEF TurnstilePasses, Goto
<1>5. ASSUME NEW r \in Requests, TurnstileFails(r) PROVE BoundOnce' /\ BindingsAgree'
  BY <1>5 DEF TurnstileFails, Goto, bindings
<1>6. ASSUME NEW r \in Requests, RateAllowed(r) PROVE BoundOnce' /\ BindingsAgree'
  BY <1>6 DEF RateAllowed, Goto
<1>7. ASSUME NEW r \in Requests, RateLimited(r) PROVE BoundOnce' /\ BindingsAgree'
  BY <1>7 DEF RateLimited, Goto, bindings
<1>8. ASSUME NEW r \in Requests, Provision(r) PROVE BoundOnce' /\ BindingsAgree'
  BY <1>8 DEF Provision, Goto
<1>9. ASSUME NEW r \in Requests, ProvisionFails(r) PROVE BoundOnce' /\ BindingsAgree'
  BY <1>9 DEF ProvisionFails, Goto
<1>10. ASSUME NEW r \in Requests, ReleaseAfterFailure(r) PROVE BoundOnce' /\ BindingsAgree'
  BY <1>10 DEF ReleaseAfterFailure, Goto, bindings
<1>11. ASSUME NEW r \in Requests, Store(r) PROVE BoundOnce' /\ BindingsAgree'
  BY <1>11 DEF Store, Goto
<1>12. ASSUME NEW r \in Requests, Bind(r) PROVE BoundOnce' /\ BindingsAgree'
  <2>1. device[r] \in Devices /\ sessionDevices[r] = NoDevice
    BY <1>12 DEF Bind
  <2>2. deviceSessions' = [deviceSessions EXCEPT ![device[r]] = r]
        /\ sessionDevices' = [sessionDevices EXCEPT ![r] = device[r]]
        /\ pc' = [pc EXCEPT ![r] = "created"] /\ device' = device
    BY <1>12 DEF Bind, RegisterSession, Goto
  <2>3. BoundOnce'
    BY <2>1, <2>2
  <2>4. BindingsAgree'
    BY <2>1, <2>2, GuardAssumption
  <2> QED BY <2>3, <2>4
<1>13. ASSUME NEW c \in Conns, NEW s \in Requests, Get(c, s) PROVE BoundOnce' /\ BindingsAgree'
  BY <1>13 DEF Get
<1>14. ASSUME NEW c \in Conns, Upgrade(c) PROVE BoundOnce' /\ BindingsAgree'
  BY <1>14 DEF Upgrade
<1>15. ASSUME NEW c \in Conns, AttachLookup(c) PROVE BoundOnce' /\ BindingsAgree'
  BY <1>15 DEF AttachLookup
<1>16. ASSUME NEW c \in Conns, AttachPTY(c) PROVE BoundOnce' /\ BindingsAgree'
  BY <1>16 DEF AttachPTY
<1>17. ASSUME NEW c \in Conns, StreamEnds(c) PROVE BoundOnce' /\ BindingsAgree'
  BY <1>17 DEF StreamEnds
<1>18. ASSUME NEW c \in Conns, ConnDestroy(c) PROVE BoundOnce' /\ BindingsAgree'
  BY <1>18 DEF ConnDestroy
<1>19. ASSUME NEW c \in Conns, ConnReturns(c) PROVE BoundOnce' /\ BindingsAgree'
  BY <1>19 DEF ConnReturns
<1>20. ASSUME NEW o \in Owners, NEW s \in Requests, Unbind(o, s)
       PROVE BoundOnce' /\ BindingsAgree'
  <2>1. CASE sessionDevices[s] = NoDevice
    BY <1>20, <2>1 DEF Unbind, CallbackUnbind, ReleaseSession, bindings
  <2>2. CASE sessionDevices[s] # NoDevice
    <3>1. deviceSessions' = [deviceSessions EXCEPT ![sessionDevices[s]] = NoSession]
          /\ sessionDevices' = [sessionDevices EXCEPT ![s] = NoDevice]
          /\ pc' = pc /\ device' = device
      BY <1>20, <2>2 DEF Unbind, ReleaseSession
    <3>2. BoundOnce'
      BY <3>1
    <3>3. BindingsAgree'
      BY <2>2, <3>1, GuardAssumption
    <3> QED BY <3>2, <3>3
  <2> QED BY <2>1, <2>2
<1>21. ASSUME NEW o \in Owners, NEW s \in Requests, FreeSlot(o, s)
       PROVE BoundOnce' /\ BindingsAgree'
  BY <1>21 DEF FreeSlot, bindings
<1>22. ASSUME NEW o \in Owners, NEW s \in Requests, TearDown(o, s)
       PROVE BoundOnce' /\ BindingsAgree'
  BY <1>22 DEF TearDown
<1>23. ASSUME NEW r \in Requests, TTLRunsOut(r) PROVE BoundOnce' /\ BindingsAgree'
  BY <1>23 DEF TTLRunsOut
<1>24. ASSUME ReaperTick PROVE BoundOnce' /\ BindingsAgree'
  BY <1>24 DEF ReaperTick
<1>25. ASSUME ReaperStops PROVE BoundOnce' /\ BindingsAgree'
  BY <1>25 DEF ReaperStops
<1>26. ASSUME Signal PROVE BoundOnce' /\ BindingsAgree'
  BY <1>26 DEF Signal
<1>27. ASSUME BeginClose PROVE BoundOnce' /\ BindingsAgree'
  BY <1>27 DEF BeginClose
<1>28. ASSUME CloseSessions PROVE BoundOnce' /\ BindingsAgree'
  BY <1>28 DEF CloseSessions
<1>29. ASSUME Exit PROVE BoundOnce' /\ BindingsAgree'
  BY <1>29 DEF Exit
<1>30. CASE UNCHANGED vars
  BY <1>30 DEF vars
<1> QED
  BY <1>1, <1>2, <1>3, <1>4, <1>5, <1>6, <1>7, <1>8, <1>9, <1>10, <1>11, <1>12, <1>13, <1>14,
     <1>15, <1>16, <1>17, <1>18, <1>19, <1>20, <1>21, <1>22, <1>23, <1>24, <1>25, <1>26,
     <1>27, <1>28, <1>29, <1>30
  DEF Next, Running, RequestArrives, RequestStep, ConnStep, OwnerStep, Shutdown, Exited

\* RegisterSession and ReleaseSession keep the guard's two maps consistent,
\* also when two sessions of one device were created at the same time.
THEOREM MapsAgree == Spec => []BindingsAgree
<1>1. BindInv /\ [Next]_vars => BindInv'
  BY TypeStep, BindStep DEF BindInv
<1>2. BindInv => BindingsAgree
  BY DEF BindInv
<1> QED BY <1>1, <1>2, BindInit, PTL DEF Spec

-----------------------------------------------------------------------------
(* Refinement of SlotPool *)

PoolStatus == [r \in Requests |->
                 IF r \in SlotHolders THEN "in"
                 ELSE IF pc[r] = "full" THEN "refused" ELSE "out"]

\* What a step may do to the abstract pool, in terms of the concrete state.
SameStatus ==
    /\ SlotHolders' = SlotHolders
    /\ \A x \in Requests : pc'[x] = "full" <=> pc[x] = "full"

OthersKeepStatus(r) ==
    \A x \in Requests \ {r} : pc'[x] = "full" <=> pc[x] = "full"

LeavesPool(r) ==
    /\ r \in SlotHolders
    /\ SlotHolders' = SlotHolders \ {r}
    /\ pc'[r] # "full"
    /\ OthersKeepStatus(r)

PoolStep == [Pool!Next]_PoolStatus

\* The clients that are in, seen through the mapping, are the slot holders.
LEMMA InIsHolders == Pool!Cardinality(Pool!In) = Cardinality(SlotHolders)
<1>0. SlotHolders \subseteq Requests
  BY DEF SlotHolders
<1>1. Pool!In = SlotHolders
  BY <1>0 DEF Pool!In
<1>2. Pool!Cardinality(SlotHolders) = Cardinality(SlotHolders)
  BY DEF Pool!Cardinality, Cardinality
<1> QED BY <1>1, <1>2

\* A step that changes nobody's status is a stutter of the pool.
LEMMA SameIsStutter == ASSUME SameStatus PROVE PoolStep
  BY DEF SameStatus, PoolStep, PoolStatus

\* A step that ends one request's hold is a Leave of the pool.
LEMMA LeaveIsLeave == ASSUME NEW r \in Requests, LeavesPool(r) PROVE PoolStep
<1>1. PoolStatus[r] = "in" /\ PoolStatus' = [PoolStatus EXCEPT ![r] = "out"]
  BY DEF LeavesPool, OthersKeepStatus, PoolStatus
<1>2. Pool!Leave(r)
  BY <1>1 DEF Pool!Leave, PoolStatus
<1> QED BY <1>2 DEF PoolStep, Pool!Next

\* A step that gives one request a slot below the ceiling is an Acquire.
LEMMA EnterIsAcquire ==
  ASSUME NEW r \in Requests, r \notin SlotHolders /\ pc[r] # "full",
         SlotHolders' = SlotHolders \cup {r} /\ OthersKeepStatus(r),
         Cardinality(SlotHolders) < maxConcurrent
  PROVE  PoolStep
<1>1. PoolStatus[r] = "out" /\ PoolStatus' = [PoolStatus EXCEPT ![r] = "in"]
  BY DEF OthersKeepStatus, PoolStatus
<1>2. Pool!Acquire(r)
  BY <1>1, InIsHolders DEF Pool!Acquire, PoolStatus
<1> QED BY <1>2 DEF PoolStep, Pool!Next

\* A 503 at the ceiling is a Refuse.
LEMMA TurnedAwayIsRefuse ==
  ASSUME NEW r \in Requests, r \notin SlotHolders /\ pc[r] # "full",
         SlotHolders' = SlotHolders /\ pc'[r] = "full" /\ OthersKeepStatus(r),
         Cardinality(SlotHolders) >= maxConcurrent
  PROVE  PoolStep
<1>1. PoolStatus[r] = "out" /\ PoolStatus' = [PoolStatus EXCEPT ![r] = "refused"]
  BY DEF OthersKeepStatus, PoolStatus
<1>2. Pool!Refuse(r)
  BY <1>1, InIsHolders DEF Pool!Refuse, PoolStatus
<1> QED BY <1>2 DEF PoolStep, Pool!Next

\* Every step of the service is a step or a stutter of the pool.
LEMMA RefinementStep == ASSUME Inv, [Next]_vars PROVE PoolStep
<1>c. Owners' = Owners
  BY DEF Owners
<1>i. TypeOK /\ Lifecycle /\ SlotAccounting
  BY DEF Inv
<1> USE <1>c, <1>i DEF TypeOK, Stages, guardVars, managerVars, requestVars, connVars,
        mainVars, Alive
<1>1. ASSUME NEW r \in Requests, BadPayload(r) PROVE PoolStep
  <2>1. SameStatus
    BY <1>1 DEF SameStatus, SlotHolders, HoldsSlot, BadPayload, Goto
  <2> QED BY <2>1, SameIsStutter
<1>2. ASSUME NEW r \in Requests, NEW d \in Devices, CheckDevice(r, d) PROVE PoolStep
  <2>1. SameStatus
    BY <1>2 DEF SameStatus, SlotHolders, HoldsSlot, CheckDevice, Goto
  <2> QED BY <2>1, SameIsStutter
<1>3. ASSUME NEW r \in Requests, AcquireSlot(r) PROVE PoolStep
  <2>1. CASE HasFreeSlot
    <3>1. r \notin SlotHolders /\ pc[r] # "full"
      BY <1>3 DEF SlotHolders, HoldsSlot, Lifecycle, LifecycleOf, Stored, AcquireSlot
    <3>2. SlotHolders' = SlotHolders \cup {r} /\ OthersKeepStatus(r)
      BY <1>3, <2>1 DEF SlotHolders, HoldsSlot, OthersKeepStatus, AcquireSlot, Goto, bindings
    <3>3. Cardinality(SlotHolders) < maxConcurrent
      BY <2>1 DEF HasFreeSlot, SlotAccounting
    <3> QED BY <3>1, <3>2, <3>3, EnterIsAcquire
  <2>2. CASE ~ HasFreeSlot
    <3>1. r \notin SlotHolders /\ pc[r] # "full"
      BY <1>3 DEF SlotHolders, HoldsSlot, Lifecycle, LifecycleOf, Stored, AcquireSlot
    <3>2. SlotHolders' = SlotHolders /\ pc'[r] = "full" /\ OthersKeepStatus(r)
      BY <1>3, <2>2 DEF SlotHolders, HoldsSlot, OthersKeepStatus, AcquireSlot, Goto, bindings
    <3>3. Cardinality(SlotHolders) >= maxConcurrent
      BY <2>2, CeilingPositive DEF HasFreeSlot, SlotAccounting
    <3> QED BY <3>1, <3>2, <3>3, TurnedAwayIsRefuse
  <2> QED BY <2>1, <2>2
<1>4. ASSUME NEW r \in Requests, TurnstilePasses(r) PROVE PoolStep
  <2>1. SameStatus
    BY <1>4 DEF SameStatus, SlotHolders, HoldsSlot, TurnstilePasses, Goto
  <2> QED BY <2>1, SameIsStutter
<1>5. ASSUME NEW r \in Requests, TurnstileFails(r) PROVE PoolStep
  <2>1. LeavesPool(r)
    BY <1>5 DEF LeavesPool, OthersKeepStatus, SlotHolders, HoldsSlot, Lifecycle, LifecycleOf,
       Stored, TurnstileFails, Goto, Release, bindings
  <2> QED BY <2>1, LeaveIsLeave
<1>6. ASSUME NEW r \in Requests, RateAllowed(r) PROVE PoolStep
  <2>1. SameStatus
    BY <1>6 DEF SameStatus, SlotHolders, HoldsSlot, RateAllowed, Goto
  <2> QED BY <2>1, SameIsStutter
<1>7. ASSUME NEW r \in Requests, RateLimited(r) PROVE PoolStep
  <2>1. LeavesPool(r)
    BY <1>7 DEF LeavesPool, OthersKeepStatus, SlotHolders, HoldsSlot, Lifecycle, LifecycleOf,
       Stored, RateLimited, Goto, Release, bindings
  <2> QED BY <2>1, LeaveIsLeave
<1>8. ASSUME NEW r \in Requests, Provision(r) PROVE PoolStep
  <2>1. SameStatus
    BY <1>8 DEF SameStatus, SlotHolders, HoldsSlot, Provision, Goto, CreateSandbox
  <2> QED BY <2>1, SameIsStutter
<1>9. ASSUME NEW r \in Requests, ProvisionFails(r) PROVE PoolStep
  <2>1. SameStatus
    BY <1>9 DEF SameStatus, SlotHolders, HoldsSlot, ProvisionFails, Goto, CreateSandboxFails
  <2> QED BY <2>1, SameIsStutter
<1>10. ASSUME NEW r \in Requests, ReleaseAfterFailure(r) PROVE PoolStep
  <2>1. LeavesPool(r)
    BY <1>10 DEF LeavesPool, OthersKeepStatus, SlotHolders, HoldsSlot, Lifecycle, LifecycleOf,
       Stored, ReleaseAfterFailure, Goto, Release, bindings
  <2> QED BY <2>1, LeaveIsLeave
<1>11. ASSUME NEW r \in Requests, Store(r) PROVE PoolStep
  <2>1. SameStatus
    BY <1>11 DEF SameStatus, SlotHolders, HoldsSlot, Store, Goto, Insert
  <2> QED BY <2>1, SameIsStutter
<1>12. ASSUME NEW r \in Requests, Bind(r) PROVE PoolStep
  <2>1. SameStatus
    BY <1>12 DEF SameStatus, SlotHolders, HoldsSlot, Bind, Goto, RegisterSession
  <2> QED BY <2>1, SameIsStutter
<1>13. ASSUME NEW c \in Conns, NEW s \in Requests, Get(c, s) PROVE PoolStep
  <2>1. SameStatus
    BY <1>13 DEF SameStatus, SlotHolders, HoldsSlot, Get, ConnGoto
  <2> QED BY <2>1, SameIsStutter
<1>14. ASSUME NEW c \in Conns, Upgrade(c) PROVE PoolStep
  <2>1. SameStatus
    BY <1>14 DEF SameStatus, SlotHolders, HoldsSlot, Upgrade, ConnGoto
  <2> QED BY <2>1, SameIsStutter
<1>15. ASSUME NEW c \in Conns, AttachLookup(c) PROVE PoolStep
  <2>1. SameStatus
    BY <1>15 DEF SameStatus, SlotHolders, HoldsSlot, AttachLookup, ConnGoto
  <2> QED BY <2>1, SameIsStutter
<1>16. ASSUME NEW c \in Conns, AttachPTY(c) PROVE PoolStep
  <2>1. SameStatus
    BY <1>16 DEF SameStatus, SlotHolders, HoldsSlot, AttachPTY, ConnGoto
  <2> QED BY <2>1, SameIsStutter
<1>17. ASSUME NEW c \in Conns, StreamEnds(c) PROVE PoolStep
  <2>1. SameStatus
    BY <1>17 DEF SameStatus, SlotHolders, HoldsSlot, StreamEnds, ConnGoto
  <2> QED BY <2>1, SameIsStutter
<1>18. ASSUME NEW c \in Conns, ConnDestroy(c) PROVE PoolStep
  <2>1. CASE target[c] \in sessions
    <3>1. Take(c, {target[c]}) /\ pc' = pc
      BY <1>18, <2>1 DEF ConnDestroy, Destroy
    <3>2. {target[c]} \in SUBSET sessions /\ c \in Owners
      BY <2>1 DEF Owners
    <3>3. SlotHolders' = SlotHolders
      BY <3>1, <3>2, TakeKeepsHolders
    <3>4. SameStatus
      BY <3>1, <3>3 DEF SameStatus
    <3> QED BY <3>4, SameIsStutter
  <2>2. CASE target[c] \notin sessions
    <3>1. SameStatus
      BY <1>18, <2>2 DEF SameStatus, SlotHolders, HoldsSlot, ConnDestroy, Destroy
    <3> QED BY <3>1, SameIsStutter
  <2> QED BY <2>1, <2>2
<1>19. ASSUME NEW c \in Conns, ConnReturns(c) PROVE PoolStep
  <2>1. SameStatus
    BY <1>19 DEF SameStatus, SlotHolders, HoldsSlot, ConnReturns, ConnGoto
  <2> QED BY <2>1, SameIsStutter
<1>20. ASSUME NEW o \in Owners, NEW s \in Requests, Unbind(o, s) PROVE PoolStep
  <2>1. SameStatus
    BY <1>20 DEF SameStatus, SlotHolders, HoldsSlot, Unbind, CallbackUnbind, Advance
  <2> QED BY <2>1, SameIsStutter
<1>21. ASSUME NEW o \in Owners, NEW s \in Requests, FreeSlot(o, s) PROVE PoolStep
  <2>1. LeavesPool(s)
    BY <1>21 DEF LeavesPool, OthersKeepStatus, SlotHolders, HoldsSlot, Lifecycle, LifecycleOf,
       Stored, FreeSlot, CallbackFree, Advance
  <2> QED BY <2>1, LeaveIsLeave
<1>22. ASSUME NEW o \in Owners, NEW s \in Requests, TearDown(o, s) PROVE PoolStep
  <2>1. SameStatus
    BY <1>22 DEF SameStatus, SlotHolders, HoldsSlot, TearDown, DestroySandbox, Advance
  <2> QED BY <2>1, SameIsStutter
<1>23. ASSUME NEW r \in Requests, TTLRunsOut(r) PROVE PoolStep
  <2>1. SameStatus
    BY <1>23 DEF SameStatus, SlotHolders, HoldsSlot, TTLRunsOut, Expire
  <2> QED BY <2>1, SameIsStutter
<1>24. ASSUME ReaperTick PROVE PoolStep
  <2>1. Take(Reaper, sessions \cap expired) /\ pc' = pc
    BY <1>24 DEF ReaperTick, ReapExpired
  <2>2. sessions \cap expired \in SUBSET sessions /\ Reaper \in Owners
    BY DEF Owners
  <2>3. SlotHolders' = SlotHolders
    BY <2>1, <2>2, TakeKeepsHolders
  <2>4. SameStatus
    BY <2>1, <2>3 DEF SameStatus
  <2> QED BY <2>4, SameIsStutter
<1>25. ASSUME ReaperStops PROVE PoolStep
  <2>1. SameStatus
    BY <1>25 DEF SameStatus, SlotHolders, HoldsSlot, ReaperStops, ReaperExit
  <2> QED BY <2>1, SameIsStutter
<1>26. ASSUME Signal PROVE PoolStep
  <2>1. SameStatus
    BY <1>26 DEF SameStatus, SlotHolders, HoldsSlot, Signal
  <2> QED BY <2>1, SameIsStutter
<1>27. ASSUME BeginClose PROVE PoolStep
  <2>1. SameStatus
    BY <1>27 DEF SameStatus, SlotHolders, HoldsSlot, BeginClose, StopReaper
  <2> QED BY <2>1, SameIsStutter
<1>28. ASSUME CloseSessions PROVE PoolStep
  <2>1. Take(Main, sessions) /\ pc' = pc
    BY <1>28 DEF CloseSessions, CloseTake
  <2>2. sessions \in SUBSET sessions /\ Main \in Owners
    BY DEF Owners
  <2>3. SlotHolders' = SlotHolders
    BY <2>1, <2>2, TakeKeepsHolders
  <2>4. SameStatus
    BY <2>1, <2>3 DEF SameStatus
  <2> QED BY <2>4, SameIsStutter
<1>29. ASSUME Exit PROVE PoolStep
  <2>1. SameStatus
    BY <1>29 DEF SameStatus, SlotHolders, HoldsSlot, Exit
  <2> QED BY <2>1, SameIsStutter
<1>30. CASE UNCHANGED vars
  <2>1. SameStatus
    BY <1>30 DEF SameStatus, SlotHolders, HoldsSlot, vars
  <2> QED BY <2>1, SameIsStutter
<1> QED
  BY <1>1, <1>2, <1>3, <1>4, <1>5, <1>6, <1>7, <1>8, <1>9, <1>10, <1>11, <1>12, <1>13, <1>14,
     <1>15, <1>16, <1>17, <1>18, <1>19, <1>20, <1>21, <1>22, <1>23, <1>24, <1>25, <1>26,
     <1>27, <1>28, <1>29, <1>30
  DEF Next, Running, RequestArrives, RequestStep, ConnStep, OwnerStep, Shutdown, Exited

\* The service is a slot pool for create requests: a grant is a successful
\* TryAcquire, a refusal a 503 when all slots are taken, and a slot comes back
\* by a rejection, a failed creation or the callback of a teardown.
THEOREM ServiceIsSlotPool == Spec => ImplementsSlotPool
<1>1. Init => Pool!Init
  BY DEF Init, ManagerInit, SlotHolders, HoldsSlot, Pool!Init
<1>2. Inv /\ [Next]_vars => PoolStep
  BY RefinementStep
<1> QED BY <1>1, <1>2, InvHolds, PTL
        DEF Spec, ImplementsSlotPool, Pool!Spec, PoolStep, PoolStatus

-----------------------------------------------------------------------------
(* A session is bound before anybody takes it *)

\* Before Close, a session whose handler has not bound it yet is in the map, since
\* only created sessions are attached to, or has expired in its creation.
PresentInv ==
    /\ TTLOutlastsCreate => \A s \in expired : pc[s] = "created"
    /\ \A c \in Conns : cpc[c] # "idle" => target[c] \in Requests /\ pc[target[c]] = "created"
    /\ main \in {"serving", "draining"} =>
           \A s \in Requests : pc[s] = "stored" => s \in sessions \/ s \in expired
    /\ BoundMeansPresent

\* To delete sessions from the map gives them an owner that has them "taken".
LEMMA TakeKeepsPresent ==
    ASSUME TypeOK, NEW o \in Owners, NEW S \in SUBSET sessions, Take(o, S),
           BoundMeansPresent, UNCHANGED <<main, sessionDevices>>
    PROVE  BoundMeansPresent'
<1>1. \A p \in Owners, s \in Requests :
          work'[p][s] = IF p = o /\ s \in S THEN "taken" ELSE work[p][s]
  BY TakeWork
<1>2. sessions' = sessions \ S /\ expired' = expired /\ Owners' = Owners
  BY DEF Take, Owners
<1> QED BY <1>1, <1>2 DEF BoundMeansPresent

\* Every step keeps PresentInv.
LEMMA PresentStep ==
    ASSUME TypeOK, PresentInv, [Next]_vars
    PROVE  PresentInv'
<1> USE GuardAssumption DEF TypeOK, PresentInv, guardVars, managerVars, requestVars,
        connVars, mainVars, Alive
<1>o. Owners' = Owners /\ Reaper \in Owners /\ \A c \in Conns : c \in Owners
  BY DEF Owners
<1>1. ASSUME NEW r \in Requests, NEW d \in Devices, CheckDevice(r, d) PROVE PresentInv'
  BY <1>1, <1>o DEF BoundMeansPresent, CheckDevice, Goto
<1>2. ASSUME NEW r \in Requests,
           \/ BadPayload(r) \/ AcquireSlot(r) \/ TurnstilePasses(r)
           \/ TurnstileFails(r) \/ RateAllowed(r) \/ RateLimited(r)
           \/ Provision(r) \/ ProvisionFails(r) \/ ReleaseAfterFailure(r)
      PROVE PresentInv'
  BY <1>2, <1>o DEF BoundMeansPresent, BadPayload, AcquireSlot, TurnstilePasses,
         TurnstileFails, RateAllowed, RateLimited, Provision, ProvisionFails,
         ReleaseAfterFailure, CreateSandbox, CreateSandboxFails, Goto, bindings
<1>3. ASSUME NEW r \in Requests, Store(r) PROVE PresentInv'
  BY <1>3, <1>o DEF BoundMeansPresent, Store, Insert, Goto
<1>4. ASSUME NEW r \in Requests, Bind(r) PROVE PresentInv'
  BY <1>4, <1>o DEF BoundMeansPresent, Bind, RegisterSession, Goto
<1>5. ASSUME NEW c \in Conns, NEW s \in Requests, Get(c, s) PROVE PresentInv'
  BY <1>5, <1>o DEF BoundMeansPresent, Get, ConnGoto
<1>6. ASSUME NEW c \in Conns,
           Upgrade(c) \/ AttachLookup(c) \/ AttachPTY(c) \/ StreamEnds(c) \/ ConnReturns(c)
      PROVE PresentInv'
  BY <1>6, <1>o DEF BoundMeansPresent, Upgrade, AttachLookup, AttachPTY, StreamEnds,
         ConnReturns, ConnGoto
<1>7. ASSUME NEW c \in Conns, ConnDestroy(c) PROVE PresentInv'
  <2>1. Destroy(c, target[c]) /\ UNCHANGED <<main, sessionDevices, pc>>
    BY <1>7 DEF ConnDestroy
  <2>2. CASE target[c] \in sessions
    <3>1. Take(c, {target[c]}) /\ {target[c]} \in SUBSET sessions /\ c \in Owners
      BY <1>o, <2>1, <2>2 DEF Destroy
    <3>2. BoundMeansPresent'
      BY <2>1, <3>1, TakeKeepsPresent
    <3> QED BY <1>7, <3>1, <3>2 DEF ConnDestroy, ConnGoto, Take
  <2>3. CASE target[c] \notin sessions
    <3>1. UNCHANGED <<sessions, expired, work>>
      BY <2>1, <2>3 DEF Destroy
    <3>2. BoundMeansPresent'
      BY <1>o, <2>1, <3>1 DEF BoundMeansPresent
    <3> QED BY <1>7, <3>1, <3>2 DEF ConnDestroy, ConnGoto
  <2> QED BY <2>2, <2>3
<1>8. ASSUME NEW o \in Owners, NEW s \in Requests, Unbind(o, s) PROVE PresentInv'
  BY <1>8, <1>o DEF BoundMeansPresent, Unbind, CallbackUnbind, Advance, ReleaseSession,
         bindings
<1>9. ASSUME NEW o \in Owners, NEW s \in Requests, FreeSlot(o, s) PROVE PresentInv'
  BY <1>9, <1>o DEF BoundMeansPresent, FreeSlot, CallbackFree, Advance, bindings
<1>10. ASSUME NEW o \in Owners, NEW s \in Requests, TearDown(o, s) PROVE PresentInv'
  BY <1>10, <1>o DEF BoundMeansPresent, TearDown, DestroySandbox, Advance
<1>11. ASSUME NEW r \in Requests, TTLRunsOut(r) PROVE PresentInv'
  BY <1>11, <1>o DEF BoundMeansPresent, TTLRunsOut, Expire
<1>12. ASSUME ReaperTick PROVE PresentInv'
  <2>1. BoundMeansPresent'
    BY <1>12, <1>o, TakeKeepsPresent DEF ReaperTick, ReapExpired
  <2> QED BY <1>12, <2>1 DEF ReaperTick, ReapExpired, Take
<1>13. ASSUME ReaperStops PROVE PresentInv'
  BY <1>13, <1>o DEF BoundMeansPresent, ReaperStops, ReaperExit
<1>14. ASSUME Signal PROVE PresentInv'
  BY <1>14, <1>o DEF BoundMeansPresent, Signal
<1>15. ASSUME BeginClose PROVE PresentInv'
  BY <1>15, <1>o DEF BoundMeansPresent, BeginClose, StopReaper
<1>16. ASSUME CloseSessions PROVE PresentInv'
  BY <1>16, <1>o DEF BoundMeansPresent, CloseSessions, CloseTake, Take
<1>17. ASSUME Exit PROVE PresentInv'
  BY <1>17, <1>o DEF BoundMeansPresent, Exit
<1>18. CASE UNCHANGED vars
  BY <1>18, <1>o DEF BoundMeansPresent, vars
<1> QED BY <1>1, <1>2, <1>3, <1>4, <1>5, <1>6, <1>7, <1>8, <1>9, <1>10, <1>11, <1>12, <1>13,
           <1>14, <1>15, <1>16, <1>17, <1>18
        DEF Next, Running, RequestArrives, RequestStep, ConnStep, OwnerStep, Shutdown, Exited

\* No session is torn down before it is bound, unless its TTL ran out while it was
\* being created, so no other device stays bound to a session that is gone.
THEOREM BindingsNeverStale == Spec => []BoundMeansPresent
<1>1. Init => PresentInv
  BY DEF Init, GuardInit, ManagerInit, PresentInv, BoundMeansPresent
<1>2. TypeOK /\ PresentInv /\ [Next]_vars => PresentInv'
  BY PresentStep
<1>3. PresentInv => BoundMeansPresent
  BY DEF PresentInv
<1> QED BY <1>1, <1>2, <1>3, TypeCorrect, PTL DEF Spec

-----------------------------------------------------------------------------
(* What a shutdown leaves behind *)

\* Where a request is before it arrived and after its handler returned.
Settled == {"idle", "rejected", "full", "created"}

\* Once Shutdown has seen every handler return no request is under way, so
\* Close finds every session there is; and it finds the reaper done.
ExitInv ==
    /\ drained => main \notin {"serving", "draining"} /\ \A r \in Requests : pc[r] \in Settled
    /\ drained /\ main \in {"destroying", "exited"} => sessions = {}
    /\ main \in {"destroying", "exited"} => reaper = "done"
    /\ reaper = "done" => ~Busy(Reaper)
    /\ main = "exited" => ~Busy(Main)

\* Every step keeps ExitInv.
LEMMA ExitStep ==
    ASSUME TypeOK, ExitInv, [Next]_vars
    PROVE  ExitInv'
<1> USE OwnersAssumption DEF TypeOK, ExitInv, Settled, Busy, guardVars, managerVars,
        requestVars,
        connVars, mainVars, Alive
<1>o. Owners' = Owners /\ Reaper \in Owners /\ Main \in Owners /\ \A c \in Conns : c \in Owners
  BY DEF Owners
<1>1. ASSUME NEW r \in Requests, NEW d \in Devices, CheckDevice(r, d) PROVE ExitInv'
  BY <1>1, <1>o DEF CheckDevice, Goto
<1>2. ASSUME NEW r \in Requests,
           \/ BadPayload(r) \/ AcquireSlot(r) \/ TurnstilePasses(r)
           \/ TurnstileFails(r) \/ RateAllowed(r) \/ RateLimited(r)
           \/ Provision(r) \/ ProvisionFails(r) \/ ReleaseAfterFailure(r)
      PROVE ExitInv'
  <2>1. CASE BadPayload(r)
    BY <2>1 DEF BadPayload, Goto
  <2>2. CASE AcquireSlot(r)
    BY <2>2 DEF AcquireSlot, Goto, bindings
  <2>3. CASE TurnstilePasses(r)
    BY <2>3 DEF TurnstilePasses, Goto
  <2>4. CASE TurnstileFails(r)
    BY <2>4 DEF TurnstileFails, Goto
  <2>5. CASE RateAllowed(r)
    BY <2>5 DEF RateAllowed, Goto
  <2>6. CASE RateLimited(r)
    BY <2>6 DEF RateLimited, Goto
  <2>7. CASE Provision(r)
    BY <2>7 DEF Provision, CreateSandbox, Goto
  <2>8. CASE ProvisionFails(r)
    BY <2>8 DEF ProvisionFails, CreateSandboxFails, Goto
  <2>9. CASE ReleaseAfterFailure(r)
    BY <2>9 DEF ReleaseAfterFailure, Goto, bindings
  <2> QED BY <1>2, <2>1, <2>2, <2>3, <2>4, <2>5, <2>6, <2>7, <2>8, <2>9
<1>3. ASSUME NEW r \in Requests, Store(r) PROVE ExitInv'
  BY <1>3, <1>o DEF Store, Insert, Goto
<1>4. ASSUME NEW r \in Requests, Bind(r) PROVE ExitInv'
  BY <1>4, <1>o DEF Bind, RegisterSession, Goto
<1>5. ASSUME NEW c \in Conns, NEW s \in Requests, Get(c, s) PROVE ExitInv'
  BY <1>5, <1>o DEF Get, ConnGoto
<1>6. ASSUME NEW c \in Conns,
           Upgrade(c) \/ AttachLookup(c) \/ AttachPTY(c) \/ StreamEnds(c) \/ ConnReturns(c)
      PROVE ExitInv'
  BY <1>6, <1>o DEF Upgrade, AttachLookup, AttachPTY, StreamEnds, ConnReturns, ConnGoto
<1>7. ASSUME NEW c \in Conns, ConnDestroy(c) PROVE ExitInv'
  BY <1>7, <1>o DEF ConnDestroy, ConnGoto, Destroy, Take
<1>8. ASSUME NEW o \in Owners, NEW s \in Requests, Unbind(o, s) PROVE ExitInv'
  BY <1>8, <1>o DEF Unbind, CallbackUnbind, Advance, ReleaseSession, bindings
<1>9. ASSUME NEW o \in Owners, NEW s \in Requests, FreeSlot(o, s) PROVE ExitInv'
  BY <1>9, <1>o DEF FreeSlot, CallbackFree, Advance, bindings
<1>10. ASSUME NEW o \in Owners, NEW s \in Requests, TearDown(o, s) PROVE ExitInv'
  BY <1>10, <1>o DEF TearDown, DestroySandbox, Advance
<1>11. ASSUME NEW r \in Requests, TTLRunsOut(r) PROVE ExitInv'
  BY <1>11, <1>o DEF TTLRunsOut, Expire
<1>12. ASSUME ReaperTick PROVE ExitInv'
  BY <1>12, <1>o DEF ReaperTick, ReapExpired, Take
<1>13. ASSUME ReaperStops PROVE ExitInv'
  BY <1>13, <1>o DEF ReaperStops, ReaperExit
<1>14. ASSUME Signal PROVE ExitInv'
  BY <1>14, <1>o DEF Signal
<1>15. ASSUME BeginClose PROVE ExitInv'
  BY <1>15, <1>o DEF BeginClose, StopReaper, HandlersReturned
<1>16. ASSUME CloseSessions PROVE ExitInv'
  BY <1>16, <1>o DEF CloseSessions, CloseTake, Take
<1>17. ASSUME Exit PROVE ExitInv'
  BY <1>17, <1>o DEF Exit
<1>18. CASE UNCHANGED vars
  BY <1>18, <1>o DEF vars
<1> QED BY <1>1, <1>2, <1>3, <1>4, <1>5, <1>6, <1>7, <1>8, <1>9, <1>10, <1>11, <1>12, <1>13,
           <1>14, <1>15, <1>16, <1>17, <1>18
        DEF Next, Running, RequestArrives, RequestStep, ConnStep, OwnerStep, Shutdown, Exited

\* Every sandbox still running when main returns is one a websocket handler was in
\* the middle of destroying, or that of a request Shutdown had given up on.
THEOREM ExitAccounted == Spec => []ExitLeavesOnlyConnTeardowns
<1>1. Init => ExitInv
  BY DEF Init, GuardInit, ManagerInit, ExitInv
<1>2. TypeOK /\ ExitInv /\ [Next]_vars => ExitInv'
  BY ExitStep
<1>3. ExitInv /\ RunningIsOwned => ExitLeavesOnlyConnTeardowns
  BY DEF ExitInv, Settled, RunningIsOwned, ExitLeavesOnlyConnTeardowns, Busy, Owners
<1> QED BY <1>1, <1>2, <1>3, TypeCorrect, SandboxesAreOwned, PTL DEF Spec
=============================================================================
