------------------------ MODULE TerminalStreamProofs ------------------------
(***************************************************************************)
(* Proofs about TerminalStream.                                            *)
(***************************************************************************)
EXTENDS TerminalStream, TLAPS

\* Every place any of the three goroutines can be at.
AllPlaces == UNION {Places[g] : g \in Goroutines}

\* The places, spelled out.
LEMMA PlacesFacts ==
    /\ Goroutines = {"pty", "ws", "handler"}
    /\ Places["pty"] = {"read", "log", "lock", "write", "send", "done"}
    /\ Places["ws"] = {"read", "lock", "write", "input", "send", "done"}
    /\ Places["handler"] = {"select", "lock", "write", "destroy", "closeLogs",
                            "closeStream", "closeConn", "done"}
    /\ \A g \in Goroutines : Places[g] \subseteq AllPlaces
BY DEF Goroutines, Pumps, Places, AllPlaces

\* The Boolean variables, which the provers treat apart from the others.
Flags == timer \in BOOLEAN /\ taken \in BOOLEAN

\* TypeOK without the Boolean variables.
Types ==
    /\ pc \in [Goroutines -> AllPlaces]
    /\ \A g \in Goroutines : pc[g] \in Places[g]
    /\ writeMu \in Goroutines \cup {"free"}
    /\ errChan \in 0 .. ErrCap
    /\ client \in {"reading", "stalled", "gone"}
    /\ shell \in {"reading", "stuck", "gone"}
    /\ conn \in {"open", "closeSent", "closed"}
    /\ stream \in {"open", "closed"}
    /\ logs \in {"open", "closed", "none"}
    /\ chunk \in Fates \cup {"none"}
    /\ shown \subseteq Fates
    /\ pc["pty"] \in {"lock", "write"} => chunk # "none"

\* Every step keeps the Boolean variables Boolean.
LEMMA FlagsStep ==
    ASSUME Flags, [Next]_vars
    PROVE  Flags'
<1> USE DEF Flags, vars, sync, outside, files, audit
<1>1. ASSUME NEW g \in Goroutines, Lock(g) \/ Write(g) \/ Send(g) PROVE Flags'
  BY <1>1, Zenon DEF Lock, Write, Send
<1>2. CASE PtyReadChunk \/ PtyLog \/ PtyReadEnds \/ WsRead \/ WsInput
  BY <1>2, Zenon DEF PtyReadChunk, PtyLog, PtyReadEnds, WsRead, WsInput
<1>3. CASE TimerFires
  BY <1>3, Zenon DEF TimerFires
<1>4. CASE Select \/ HandlerDestroy \/ CloseLogs \/ CloseStream \/ CloseConn
  BY <1>4, Zenon DEF Select, HandlerDestroy, CloseLogs, CloseStream, CloseConn
<1>5. CASE Environment
  BY <1>5, Zenon DEF Environment, ClientMoves, ShellMoves, SessionTaken
<1>6. CASE UNCHANGED vars
  BY <1>6
<1> QED BY <1>1, <1>2, <1>3, <1>4, <1>5, <1>6
        DEF Next, PumpStep, HandlerStep, Goroutines, Done

\* Every step keeps the other variables' types.
LEMMA TypesStep ==
    ASSUME Types, [Next]_vars
    PROVE  Types'
<1> USE ErrCapAssumption, PlacesFacts DEF Types, Fates, Goto, vars, sync, outside, files, audit
<1>1. ASSUME NEW g \in Goroutines, Lock(g) PROVE Types'
  BY <1>1 DEF Lock
<1>2. ASSUME NEW g \in Goroutines, Write(g) PROVE Types'
  BY <1>2 DEF Write, AfterWrite
<1>3. ASSUME NEW g \in Pumps, Send(g) PROVE Types'
  BY <1>3 DEF Send, Pumps
<1>4. CASE PtyReadChunk \/ PtyLog \/ PtyReadEnds
  BY <1>4 DEF PtyReadChunk, PtyLog, PtyReadEnds
<1>5. CASE WsRead
  BY <1>5 DEF WsRead, HandleControlMessage
<1>6. CASE WsInput
  BY <1>6 DEF WsInput
<1>7. CASE Select
  BY <1>7 DEF Select
<1>8. CASE HandlerDestroy
  BY <1>8 DEF HandlerDestroy
<1>9. CASE CloseLogs
  BY <1>9 DEF CloseLogs
<1>10. CASE CloseStream
  BY <1>10 DEF CloseStream
<1>11. CASE CloseConn
  BY <1>11 DEF CloseConn
<1>12. CASE Environment
  BY <1>12 DEF Environment, ClientMoves, ShellMoves, SessionTaken
<1>13. CASE TimerFires
  BY <1>13 DEF TimerFires
<1>14. CASE UNCHANGED vars
  BY <1>14
<1> QED BY <1>1, <1>2, <1>3, <1>4, <1>5, <1>6, <1>7, <1>8, <1>9, <1>10, <1>11, <1>12, <1>13,
           <1>14
        DEF Next, PumpStep, HandlerStep, Pumps, Done

\* The two halves are the type invariant.
LEMMA TypeIsTypes == TypeOK <=> Types /\ Flags
<1>1. {timer, taken} \subseteq BOOLEAN <=> Flags
  BY Zenon DEF Flags
<1> QED BY <1>1 DEF TypeOK, Types, AllPlaces

\* The variables keep their types; in particular errChan stays within its capacity.
THEOREM TypeCorrect == Spec => []TypeOK
<1>1. Init => Types
  BY ErrCapAssumption, PlacesFacts DEF Init, Types, Pumps
<1>2. Init => Flags
  BY Zenon DEF Init, Flags
<1>3. Types /\ Flags /\ [Next]_vars => (Types /\ Flags)'
  BY TypesStep, FlagsStep
<1>4. TypeOK <=> Types /\ Flags
  BY TypeIsTypes
<1> QED BY <1>1, <1>2, <1>3, <1>4, PTL DEF Spec

-----------------------------------------------------------------------------
(* errChan *)

\* The results in errChan and those still to come are two at most.
Pending(g) == IF pc[g] = "done" THEN 0 ELSE 1
BudgetInv == errChan + Pending("pty") + Pending("ws") <= 2

\* No step adds a result but the last one of a pump.
LEMMA BudgetStep ==
    ASSUME Types, BudgetInv, [Next]_vars
    PROVE  BudgetInv'
<1> USE PlacesFacts DEF Types, BudgetInv, Pending, Goto, vars, sync, outside, files, audit
<1>1. ASSUME NEW g \in Goroutines, Lock(g) PROVE BudgetInv'
  BY <1>1 DEF Lock
<1>2. ASSUME NEW g \in Goroutines, Write(g) PROVE BudgetInv'
  BY <1>2 DEF Write, AfterWrite
<1>3. ASSUME NEW g \in Pumps, Send(g) PROVE BudgetInv'
  BY <1>3 DEF Send, Pumps
<1>4. CASE PtyReadChunk \/ PtyLog \/ PtyReadEnds
  BY <1>4 DEF PtyReadChunk, PtyLog, PtyReadEnds
<1>5. CASE WsRead \/ WsInput
  BY <1>5 DEF WsRead, HandleControlMessage, WsInput
<1>6. CASE Select \/ TimerFires
  BY <1>6 DEF Select, TimerFires
<1>7. CASE HandlerDestroy \/ CloseLogs \/ CloseStream \/ CloseConn
  BY <1>7 DEF HandlerDestroy, CloseLogs, CloseStream, CloseConn
<1>8. CASE Environment
  BY <1>8 DEF Environment
<1>9. CASE UNCHANGED vars
  BY <1>9
<1> QED BY <1>1, <1>2, <1>3, <1>4, <1>5, <1>6, <1>7, <1>8, <1>9
        DEF Next, PumpStep, HandlerStep, Pumps, Done

\* With the capacity the handler gives errChan, or any larger one, no pump is
\* ever kept from delivering its result, whether or not anybody receives it.
THEOREM PumpsNeverBlock ==
    ASSUME ErrCap >= 2
    PROVE  Spec => []SendNeverBlocks
<1>1. Init => BudgetInv
  BY PlacesFacts DEF Init, BudgetInv, Pending, Pumps
<1>2. TypeOK /\ BudgetInv /\ [Next]_vars => BudgetInv'
  BY BudgetStep, TypeIsTypes
<1>3. TypeOK /\ BudgetInv => SendNeverBlocks
  BY ErrCapAssumption, TypeIsTypes
  DEF Types, BudgetInv, Pending, SendNeverBlocks, Pumps
<1> QED BY <1>1, <1>2, <1>3, TypeCorrect, PTL DEF Spec

-----------------------------------------------------------------------------
(* The output log *)

\* The log is closed late: by then the handler has written its close frame, or
\* found no client to write it to, and so nothing the PTY pump has read since
\* can get through.
LogInv ==
    /\ logs = "closed" => pc["handler"] \in {"closeStream", "closeConn", "done"}
    /\ pc["handler"] \in {"destroy", "closeLogs", "closeStream", "closeConn", "done"} =>
           conn # "open" \/ client = "gone"
    /\ chunk = "late" => logs = "closed"
    /\ NothingShownTooLate

\* Every step keeps LogInv.
LEMMA LogStep ==
    ASSUME Types, LogInv, [Next]_vars
    PROVE  LogInv'
<1> USE PlacesFacts DEF Types, LogInv, NothingShownTooLate, Goto, vars, sync, outside, files, audit
<1>1. ASSUME NEW g \in Goroutines, Lock(g) PROVE LogInv'
  BY <1>1 DEF Lock
<1>2. CASE Write("pty")
  BY <1>2 DEF Write, AfterWrite, WriteSucceeds
<1>3. CASE Write("ws")
  BY <1>3 DEF Write, AfterWrite
<1>4. CASE Write("handler")
  BY <1>4 DEF Write, AfterWrite, WriteSucceeds, WriteReturns
<1>5. ASSUME NEW g \in Pumps, Send(g) PROVE LogInv'
  BY <1>5 DEF Send, Pumps
<1>6. CASE PtyReadChunk \/ PtyLog \/ PtyReadEnds
  BY <1>6 DEF PtyReadChunk, PtyLog, PtyReadEnds
<1>7. CASE WsRead \/ WsInput
  BY <1>7 DEF WsRead, HandleControlMessage, WsInput
<1>8. CASE Select \/ TimerFires
  BY <1>8 DEF Select, TimerFires
<1>9. CASE HandlerDestroy
  BY <1>9 DEF HandlerDestroy
<1>10. CASE CloseLogs \/ CloseStream \/ CloseConn
  BY <1>10 DEF CloseLogs, CloseStream, CloseConn
<1>11. CASE Environment
  BY <1>11 DEF Environment, ClientMoves, ShellMoves, SessionTaken
<1>12. CASE UNCHANGED vars
  BY <1>12
<1> QED BY <1>1, <1>2, <1>3, <1>4, <1>5, <1>6, <1>7, <1>8, <1>9, <1>10, <1>11, <1>12
        DEF Next, PumpStep, HandlerStep, Pumps, Done

\* Whatever the order of the pumps, the handler and the client, and whatever the
\* file system refuses, the client gets no output that came too late for the log.
THEOREM LogClosesLast == Spec => []NothingShownTooLate
<1>1. Init => LogInv
  BY PlacesFacts DEF Init, LogInv, NothingShownTooLate, Pumps
<1>2. TypeOK /\ LogInv /\ [Next]_vars => LogInv'
  BY LogStep, TypeIsTypes
<1>3. LogInv => NothingShownTooLate
  BY DEF LogInv
<1> QED BY <1>1, <1>2, <1>3, TypeCorrect, PTL DEF Spec
=============================================================================
