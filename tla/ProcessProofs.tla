--------------------------- MODULE ProcessProofs ---------------------------
(***************************************************************************)
(* Proofs about Process, for any number of sessions and any budget of      *)
(* Close.                                                                  *)
(***************************************************************************)
EXTENDS Process, TLAPS

\* Places of main: before the reaper, before the server, up to the deferred
\* Close of the runtime, and from Shutdown and from Close's loop on.
NoReaper == {"config", "logger", "factory", "check", "guard", "panicked", "fatal"}
NoServer == NoReaper \cup {"wire", "notify"}
RuntimeOpen ==
    {"guard", "wire", "notify", "await", "drain", "close", "reaper", "destroy", "release"}
Taken == {"destroy", "release", "flush", "exited"}
Drain == {"drain", "close", "reaper"} \cup Taken

\* The order in which main builds its parts and takes them down again.  The
\* reaper and the server come after the runtime, a server Shutdown found stops
\* serving, and the runtime is closed once the reaper is done and Close is
\* through with its sessions.
OrderInv ==
    /\ main \in NoReaper => reaper = "none"
    /\ main \in NoServer => server = "none"
    /\ main \in RuntimeOpen \cup {"check"} => rt = "open"
    /\ main \in RuntimeOpen => host.met
    /\ main \in Drain \cup {"notify", "await"} => wired
    /\ server # "none" => wired /\ host.met
    /\ inflight => server # "none"
    /\ main \in Drain /\ ~missed => server # "serving"
    /\ server = "serving" => rt = "open" \/ missed
    /\ reaper \in {"idle", "busy"} => rt = "open"
    /\ main \in Taken => reaper = "done"
    /\ left > 0 => main \in {"destroy", "killed"} /\ rt = "open"

\* Who may still add a session: nobody before the server runs, and after
\* Shutdown only a request it did not wait for.
GapsInv ==
    /\ server = "none" => sessions = 0 /\ left = 0 /\ ending = 0 /\ reaper # "busy"
    /\ main \in Drain => signals > 0
    /\ main = "killed" /\ server # "none" => signals = 2
    /\ inflight => rt = "open" \/ missed \/ timedOut
    /\ main \in Drain \ {"drain"} /\ ~missed /\ ~timedOut => ~inflight
    /\ main \in Taken /\ ~missed /\ ~timedOut => sessions = 0

-----------------------------------------------------------------------------
(* Types *)

\* TypeOK in two parts, since the provers treat the Boolean variables apart.
Flags == wired \in BOOLEAN /\ inflight \in BOOLEAN /\ missed \in BOOLEAN /\ timedOut \in BOOLEAN

Types ==
    /\ host \in [config : BOOLEAN, met : BOOLEAN]
    /\ name \in Registered \cup {"unregistered"}
    /\ main \in {"config", "logger", "factory", "check", "guard", "wire", "notify", "await",
                 "drain", "close", "reaper", "destroy", "release", "flush",
                 "panicked", "fatal", "killed", "exited"}
    /\ logs \in {"none", "open", "closed"}
    /\ rt \in {"none", "open", "closed"}
    /\ server \in {"none", "starting", "assigned", "serving", "ended"}
    /\ sessions \in Nat
    /\ reaper \in {"none", "idle", "busy", "done"}
    /\ ending \in Nat
    /\ signals \in 0..2
    /\ left \in Nat
    /\ spent \in 0..CloseBudget
    /\ late \in Nat

\* The two halves are the type invariant.
LEMMA TypeIsTypes == TypeOK <=> Types /\ Flags
BY Zenon DEF TypeOK, Types, Flags

\* Every step keeps the Boolean variables Boolean.
LEMMA FlagsStep ==
    ASSUME Flags, [Next]_vars
    PROVE  Flags'
<1> USE DEF Flags, vars, startVars, raceVars, closeVars
<1>1. CASE LoadConfig \/ SetUpLogger \/ NewRuntime \/ CheckPrerequisites
  BY <1>1, Zenon DEF LoadConfig, SetUpLogger, NewRuntime, CheckPrerequisites, Goto
<1>2. CASE NewManager \/ Wire \/ StartServer
  BY <1>2, Zenon DEF NewManager, Wire, StartServer, Goto
<1>3. CASE Shutdown
  BY <1>3, Zenon DEF Shutdown
<1>4. CASE Drained \/ StopReaper
  BY <1>4, Zenon DEF Drained, StopReaper, Goto
<1>5. CASE CloseTake
  BY <1>5, Zenon DEF CloseTake, Goto
<1>6. CASE CloseDestroy
  BY <1>6, Zenon DEF CloseDestroy
<1>7. CASE CloseReturns \/ CloseRuntime \/ Exit
  BY <1>7, Zenon DEF CloseReturns, CloseRuntime, Exit, Goto
<1>8. CASE Serve
  BY <1>8, Zenon DEF Serve, AssignServer, ListenAndServe, ShutDown
<1>9. CASE RequestArrives \/ RequestEnds
  BY <1>9, Zenon DEF RequestArrives, RequestEnds
<1>10. CASE Reap
  BY <1>10, Zenon DEF Reap
<1>11. CASE ReapEnds
  BY <1>11, Zenon DEF ReapEnds
<1>12. CASE ReaperExits
  BY <1>12, Zenon DEF ReaperExits
<1>13. CASE Signal
  BY <1>13, Zenon DEF Signal
<1>14. CASE ConnTakes \/ ConnDestroys
  BY <1>14, Zenon DEF ConnTakes, ConnDestroys
<1>15. CASE UNCHANGED vars
  BY <1>15, Zenon DEF vars
<1> QED BY <1>1, <1>2, <1>3, <1>4, <1>5, <1>6, <1>7, <1>8, <1>9, <1>10, <1>11, <1>12, <1>13,
           <1>14, <1>15 DEF Next, Main

\* Every step keeps the other types.
LEMMA TypesStep ==
    ASSUME Types, [Next]_vars
    PROVE  Types'
<1> USE TimesAssumption DEF Types, Registered, vars, startVars, raceVars, closeVars
<1>1. CASE LoadConfig \/ SetUpLogger \/ NewRuntime \/ CheckPrerequisites
  BY <1>1 DEF LoadConfig, SetUpLogger, NewRuntime, CheckPrerequisites, Goto
<1>2. CASE NewManager \/ Wire \/ StartServer
  BY <1>2 DEF NewManager, Wire, StartServer, Goto
<1>3. CASE Shutdown
  BY <1>3 DEF Shutdown
<1>4. CASE Drained \/ StopReaper
  BY <1>4 DEF Drained, StopReaper, Goto
<1>5. CASE CloseTake
  BY <1>5 DEF CloseTake, Goto
<1>6. CASE CloseDestroy
  BY <1>6 DEF CloseDestroy
<1>7. CASE CloseReturns \/ CloseRuntime \/ Exit
  BY <1>7 DEF CloseReturns, CloseRuntime, Exit, Goto
<1>8. CASE Serve
  BY <1>8 DEF Serve, AssignServer, ListenAndServe, ShutDown
<1>9. CASE RequestArrives \/ RequestEnds
  BY <1>9 DEF RequestArrives, RequestEnds
<1>10. CASE Reap
  BY <1>10 DEF Reap
<1>11. CASE ReapEnds
  BY <1>11 DEF ReapEnds
<1>12. CASE ReaperExits
  BY <1>12 DEF ReaperExits
<1>13. CASE Signal
  BY <1>13 DEF Signal
<1>14. CASE ConnTakes \/ ConnDestroys
  BY <1>14 DEF ConnTakes, ConnDestroys
<1>15. CASE UNCHANGED vars
  BY <1>15 DEF vars
<1> QED BY <1>1, <1>2, <1>3, <1>4, <1>5, <1>6, <1>7, <1>8, <1>9, <1>10, <1>11, <1>12, <1>13,
           <1>14, <1>15 DEF Next, Main

-----------------------------------------------------------------------------
(* Steps *)

\* Every step keeps the order of main's parts.
LEMMA OrderStep ==
    ASSUME Types, OrderInv, [Next]_vars
    PROVE  OrderInv'
<1> USE TimesAssumption DEF Types, OrderInv, NoReaper, NoServer, RuntimeOpen, Taken, Drain,
        vars, startVars, raceVars, closeVars, Ended
<1>1. CASE LoadConfig \/ SetUpLogger \/ NewRuntime \/ CheckPrerequisites
  BY <1>1 DEF LoadConfig, SetUpLogger, NewRuntime, CheckPrerequisites, Goto
<1>2. CASE NewManager \/ Wire \/ StartServer
  BY <1>2 DEF NewManager, Wire, StartServer, Goto
<1>3. CASE Shutdown
  BY <1>3 DEF Shutdown
<1>4. CASE Drained \/ StopReaper
  BY <1>4 DEF Drained, StopReaper, Goto
<1>5. CASE CloseTake
  BY <1>5 DEF CloseTake, Goto
<1>6. CASE CloseDestroy
  BY <1>6 DEF CloseDestroy
<1>7. CASE CloseReturns \/ CloseRuntime \/ Exit
  BY <1>7 DEF CloseReturns, CloseRuntime, Exit, Goto
<1>8. CASE Serve
  BY <1>8 DEF Serve, AssignServer, ListenAndServe, ShutDown
<1>9. CASE RequestArrives \/ RequestEnds
  BY <1>9 DEF RequestArrives, RequestEnds
<1>10. CASE Reap
  BY <1>10 DEF Reap
<1>11. CASE ReapEnds
  BY <1>11 DEF ReapEnds
<1>12. CASE ReaperExits
  BY <1>12 DEF ReaperExits
<1>13. CASE Signal
  BY <1>13 DEF Signal
<1>14. CASE ConnTakes \/ ConnDestroys
  BY <1>14 DEF ConnTakes, ConnDestroys
<1>15. CASE UNCHANGED vars
  BY <1>15 DEF vars
<1> QED BY <1>1, <1>2, <1>3, <1>4, <1>5, <1>6, <1>7, <1>8, <1>9, <1>10, <1>11, <1>12, <1>13,
           <1>14, <1>15 DEF Next, Main

\* Every step keeps what is known of the sessions left over.
LEMMA GapsStep ==
    ASSUME Types, Flags, Flags', OrderInv, GapsInv, [Next]_vars
    PROVE  GapsInv'
<1> USE TimesAssumption DEF Types, Flags, OrderInv, GapsInv,
        NoReaper, NoServer, RuntimeOpen, Taken, Drain, vars, startVars, raceVars, closeVars,
        Ended
<1>1. CASE LoadConfig \/ SetUpLogger \/ NewRuntime \/ CheckPrerequisites
  BY <1>1 DEF LoadConfig, SetUpLogger, NewRuntime, CheckPrerequisites, Goto
<1>2. CASE NewManager \/ Wire \/ StartServer
  BY <1>2 DEF NewManager, Wire, StartServer, Goto
<1>3. CASE Shutdown
  BY <1>3 DEF Shutdown
<1>4. CASE Drained \/ StopReaper
  BY <1>4 DEF Drained, StopReaper, Goto
<1>5. CASE CloseTake
  BY <1>5 DEF CloseTake, Goto
<1>6. CASE CloseDestroy
  BY <1>6 DEF CloseDestroy
<1>7. CASE CloseReturns \/ CloseRuntime \/ Exit
  BY <1>7 DEF CloseReturns, CloseRuntime, Exit, Goto
<1>8. CASE Serve
  BY <1>8 DEF Serve, AssignServer, ListenAndServe, ShutDown
<1>9. CASE RequestArrives \/ RequestEnds
  BY <1>9 DEF RequestArrives, RequestEnds
<1>10. CASE Reap
  BY <1>10 DEF Reap
<1>11. CASE ReapEnds
  BY <1>11 DEF ReapEnds
<1>12. CASE ReaperExits
  BY <1>12 DEF ReaperExits
<1>13. CASE Signal
  BY <1>13 DEF Signal
<1>14. CASE ConnTakes \/ ConnDestroys
  BY <1>14 DEF ConnTakes, ConnDestroys
<1>15. CASE UNCHANGED vars
  BY <1>15 DEF vars
<1> QED BY <1>1, <1>2, <1>3, <1>4, <1>5, <1>6, <1>7, <1>8, <1>9, <1>10, <1>11, <1>12, <1>13,
           <1>14, <1>15 DEF Next, Main

-----------------------------------------------------------------------------
(* Safety *)

Inv == Types /\ Flags /\ OrderInv /\ GapsInv

\* The inductive invariant holds throughout.
LEMMA InvHolds == Spec => []Inv
<1>1. Init => Types
  BY TimesAssumption DEF Init, Types
<1>2. Init => Flags
  BY Zenon DEF Init, Flags
<1>3. Init => OrderInv /\ GapsInv
  BY DEF Init, OrderInv, GapsInv,
         NoReaper, NoServer, RuntimeOpen, Taken, Drain
<1>4. Inv /\ [Next]_vars => Inv'
  BY TypesStep, FlagsStep, OrderStep, GapsStep DEF Inv
<1> QED BY <1>1, <1>2, <1>3, <1>4, PTL DEF Spec, Inv

\* The variables of the process keep their types; in particular Close stops
\* spending at the deadline main gave it.
THEOREM TypeCorrect == Spec => []TypeOK
<1>1. Inv => TypeOK
  BY TypeIsTypes DEF Inv
<1> QED BY <1>1, InvHolds, PTL

\* From the first request to the last Destroy the parts that serve it are there,
\* whenever a signal arrives, but for a server Shutdown did not find and a request
\* it gave up on.
THEOREM RuntimeOutlivesUsers == Spec => []RuntimeReadyWhileUsed
<1>1. Inv => RuntimeReadyWhileUsed
  BY DEF Inv, Types, Flags, OrderInv, GapsInv, RuntimeReadyWhileUsed, Drain, Taken, RuntimeOpen
<1> QED BY <1>1, InvHolds, PTL

\* Apart from a teardown a websocket handler has begun, and from a second signal,
\* the process ends with a session nobody tried to destroy in two cases only.
THEOREM GapsAreKnown == Spec => []OnlyKnownGapsLeaveSessions
<1>1. Inv => OnlyKnownGapsLeaveSessions
  BY DEF Inv, Types, Flags, OrderInv, GapsInv, OnlyKnownGapsLeaveSessions, NoReaper, NoServer,
         Drain, Taken
<1> QED BY <1>1, InvHolds, PTL
=============================================================================
