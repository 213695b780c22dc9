--------------------------- MODULE TerminalStream ---------------------------
(***************************************************************************)
(* internal/transport/websocket/handler.go, from a successful attach on:   *)
(* the handler goroutine and its two pumps, PTY to websocket and websocket *)
(* to PTY, over one connection and one PTY stream.                         *)
(*                                                                         *)
(* A client may stop reading, so that a write to the connection blocks     *)
(* while its goroutine holds writeMu; the shell may stop reading its       *)
(* terminal; somebody else (the reaper, another connection, Close) may     *)
(* take the session and destroy the sandbox at any time.  Message contents *)
(* are left out, but for whether a message is a ping.                      *)
(***************************************************************************)
EXTENDS Integers

CONSTANT ErrCap     \* capacity of errChan

ASSUME ErrCapAssumption == ErrCap \in Nat \ {0}

Pumps == {"pty", "ws"}
Goroutines == Pumps \cup {"handler"}

VARIABLES
    pc,         \* where each goroutine is
    writeMu,    \* who is inside safeWrite, or "free"
    errChan,    \* number of results waiting in errChan
    timer,      \* whether the five minute timer has fired
    client,     \* "reading", "stalled" (takes no more bytes), "gone"
    shell,      \* "reading", "stuck" (takes no input), "gone"
    conn,       \* "open", "closeSent" (close frame written), "closed"
    stream,     \* the PTY stream on our side: "open", "closed"
    logs,       \* the output log file: "open", "closed", "none" (not opened)
    taken,      \* whether some goroutine took the session from the map
    chunk,      \* what became of the log entry of the PTY pump's chunk
    shown       \* history: what became of those of the chunks the client got

sync == <<writeMu, errChan, timer>>
outside == <<client, shell, taken>>
files == <<conn, stream, logs>>
audit == <<chunk, shown>>
vars == <<pc, sync, outside, files, audit>>

Places ==
    [pty |-> {"read", "log", "lock", "write", "send", "done"},
     ws |-> {"read", "lock", "write", "input", "send", "done"},
     handler |-> {"select", "lock", "write", "destroy", "closeLogs", "closeStream",
                  "closeConn", "done"}]

\* The fate of a log entry: written; dropped, the file being missing or the
\* write refused; or too late, the file being closed.
Fates == {"logged", "dropped", "late"}

TypeOK ==
    /\ pc \in [Goroutines -> UNION {Places[g] : g \in Goroutines}]
    /\ \A g \in Goroutines : pc[g] \in Places[g]
    /\ writeMu \in Goroutines \cup {"free"}
    /\ errChan \in 0 .. ErrCap
    /\ client \in {"reading", "stalled", "gone"}
    /\ shell \in {"reading", "stuck", "gone"}
    /\ conn \in {"open", "closeSent", "closed"}
    /\ stream \in {"open", "closed"}
    /\ logs \in {"open", "closed", "none"}
    /\ chunk \in Fates \cup {"none"}
    /\ shown \subseteq Fates
    /\ pc["pty"] \in {"lock", "write"} => chunk # "none"
    /\ {timer, taken} \subseteq BOOLEAN

Init ==
    /\ pc = [g \in Goroutines |-> IF g \in Pumps THEN "read" ELSE "select"]
    /\ writeMu = "free"
    /\ errChan = 0
    /\ timer = FALSE
    /\ client = "reading"
    /\ shell = "reading"
    /\ conn = "open"
    /\ stream = "open"
    /\ logs \in {"open", "none"}
    /\ taken = FALSE
    /\ chunk = "none"
    /\ shown = {}

Goto(g, place) == pc' = [pc EXCEPT ![g] = place]

-----------------------------------------------------------------------------
(* safeWrite and errChan, which the goroutines share *)

\* conn.WriteMessage returns: with an error on a connection that is closed,
\* gone or past its close frame, and not before a stalled client reads on.
\* There is no write deadline.
WriteReturns == client # "stalled" \/ conn = "closed"
WriteSucceeds == client = "reading" /\ conn = "open"

\* safeWrite takes the lock.
Lock(g) ==
    /\ pc[g] = "lock"
    /\ writeMu = "free"
    /\ writeMu' = g
    /\ Goto(g, "write")
    /\ UNCHANGED <<errChan, timer, outside, files, audit>>

\* Where a goroutine goes after its write: the PTY pump reports an error, the
\* answer to a ping and the close frame are sent without looking at it.
AfterWrite(g) ==
    CASE g = "pty" -> IF WriteSucceeds THEN "read" ELSE "send"
      [] g = "ws" -> "read"
      [] g = "handler" -> "destroy"

\* Fault: the handler's message is not a close frame.
WriteNoGoodbye(g) ==
    /\ pc[g] = "write"
    /\ WriteReturns
    /\ writeMu' = "free"
    /\ shown' = shown \cup {f \in {chunk} : g = "pty" /\ WriteSucceeds}
    /\ Goto(g, AfterWrite(g))
    /\ UNCHANGED <<errChan, timer, outside, files, chunk>>

\* safeWrite writes and unlocks: a chunk of output, a pong, or the handler's
\* close frame, after which the connection refuses every other message.
Write(g) ==
    /\ pc[g] = "write"
    /\ WriteReturns
    /\ writeMu' = "free"
    /\ conn' = IF g = "handler" /\ WriteSucceeds THEN "closeSent" ELSE conn
    /\ shown' = shown \cup {f \in {chunk} : g = "pty" /\ WriteSucceeds}
    /\ Goto(g, AfterWrite(g))
    /\ UNCHANGED <<errChan, timer, outside, stream, logs, chunk>>

\* Fault: a failed write is reported, and so is the read after it.
SendBoth(g) ==
    /\ pc[g] = "send"
    /\ errChan < ErrCap
    /\ errChan' = errChan + 2
    /\ Goto(g, "done")
    /\ UNCHANGED <<writeMu, timer, outside, files, audit>>

\* Fault: the loop goes on after an error was reported.
SendAndContinue(g) ==
    /\ pc[g] = "send"
    /\ errChan < ErrCap
    /\ errChan' = errChan + 1
    /\ Goto(g, "read")
    /\ UNCHANGED <<writeMu, timer, outside, files, audit>>

\* A pump reports its result and returns.
Send(g) ==
    /\ pc[g] = "send"
    /\ errChan < ErrCap
    /\ errChan' = errChan + 1
    /\ Goto(g, "done")
    /\ UNCHANGED <<writeMu, timer, outside, files, audit>>

-----------------------------------------------------------------------------
(* The pumps *)

\* ptyStream.Read returns a chunk, which may still have been buffered when the
\* shell ended.
PtyReadChunk ==
    /\ pc["pty"] = "read"
    /\ stream = "open"
    /\ Goto("pty", "log")
    /\ UNCHANGED <<sync, outside, files, audit>>

\* The chunk is appended to the output log, if there is one.  The error of that
\* write is ignored, on a full disk as on a closed file.
PtyLog ==
    /\ pc["pty"] = "log"
    /\ chunk' \in CASE logs = "open" -> {"logged", "dropped"}
                    [] logs = "closed" -> {"late"}
                    [] logs = "none" -> {"dropped"}
    /\ Goto("pty", "lock")
    /\ UNCHANGED <<sync, outside, files, shown>>

\* ptyStream.Read returns an error or end of file.
PtyReadEnds ==
    /\ pc["pty"] = "read"
    /\ shell = "gone" \/ stream = "closed"
    /\ Goto("pty", "send")
    /\ UNCHANGED <<sync, outside, files, audit>>

\* handleControlMessage: a ping is answered through safeWrite, a resize and
\* anything unknown are only noted.
HandleControlMessage == {"lock", "read"}

\* conn.ReadMessage returns a control message, terminal input, or an error.
WsRead ==
    /\ pc["ws"] = "read"
    /\ \E place \in IF client = "gone" \/ conn = "closed" THEN {"send"}
                    ELSE HandleControlMessage \cup {"input"} :
           Goto("ws", place)
    /\ UNCHANGED <<sync, outside, files, audit>>

\* ptyStream.Write, which blocks on a shell that takes no input.
WsInput ==
    /\ pc["ws"] = "input"
    /\ shell # "stuck" \/ stream = "closed"
    /\ Goto("ws", IF shell = "reading" /\ stream = "open" THEN "read" ELSE "send")
    /\ UNCHANGED <<sync, outside, files, audit>>

PumpStep(g) ==
    \/ Lock(g) \/ Write(g) \/ Send(g)
    \/ g = "pty" /\ (PtyReadChunk \/ PtyLog \/ PtyReadEnds)
    \/ g = "ws" /\ (WsRead \/ WsInput)

-----------------------------------------------------------------------------
(* The handler *)

TimerFires ==
    /\ pc["handler"] = "select"
    /\ ~ timer
    /\ timer' = TRUE
    /\ UNCHANGED <<pc, writeMu, errChan, outside, files, audit>>

\* The select: a pump's result or the timer.
Select ==
    /\ pc["handler"] = "select"
    /\ \/ errChan > 0 /\ errChan' = errChan - 1
       \/ timer /\ UNCHANGED errChan
    /\ Goto("handler", "lock")
    /\ UNCHANGED <<writeMu, timer, outside, files, audit>>

\* Manager.Destroy takes the session, unless somebody else has, and then ends
\* the sandbox or fails to; its error is ignored.
HandlerDestroy ==
    /\ pc["handler"] = "destroy"
    /\ taken' = TRUE
    /\ shell' \in {shell} \cup (IF taken THEN {} ELSE {"gone"})
    /\ Goto("handler", "closeLogs")
    /\ UNCHANGED <<sync, client, files, audit>>

\* The deferred calls, last one first: log files, PTY stream, connection.
CloseLogs ==
    /\ pc["handler"] = "closeLogs"
    /\ logs' = IF logs = "open" THEN "closed" ELSE logs
    /\ Goto("handler", "closeStream")
    /\ UNCHANGED <<sync, outside, conn, stream, audit>>

\* Fault: the PTY stream is left open.
KeepStream ==
    /\ pc["handler"] = "closeStream"
    /\ Goto("handler", "closeConn")
    /\ UNCHANGED <<sync, outside, files, audit>>

CloseStream ==
    /\ pc["handler"] = "closeStream"
    /\ stream' = "closed"
    /\ Goto("handler", "closeConn")
    /\ UNCHANGED <<sync, outside, conn, logs, audit>>

CloseConn ==
    /\ pc["handler"] = "closeConn"
    /\ conn' = "closed"
    /\ Goto("handler", "done")
    /\ UNCHANGED <<sync, outside, stream, logs, audit>>

HandlerStep ==
    \/ Select
    \/ Lock("handler") \/ Write("handler")
    \/ HandlerDestroy
    \/ CloseLogs \/ CloseStream \/ CloseConn

-----------------------------------------------------------------------------
(* The client, the shell and the rest of the service *)

\* The client stops reading, reads on, or leaves.
ClientMoves ==
    /\ client # "gone"
    /\ client' \in {"reading", "stalled", "gone"} \ {client}
    /\ UNCHANGED <<shell, taken>>

\* The shell takes no more input, or ends, by itself or because the sandbox
\* was destroyed elsewhere.
ShellMoves ==
    /\ shell # "gone"
    /\ shell' \in {"stuck", "gone"} \ {shell}
    /\ UNCHANGED <<client, taken>>

\* The reaper, Close or another connection takes the session.
SessionTaken ==
    /\ ~ taken
    /\ taken' = TRUE
    /\ UNCHANGED <<client, shell>>

Environment ==
    /\ ClientMoves \/ ShellMoves \/ SessionTaken
    /\ UNCHANGED <<pc, sync, files, audit>>

Ended == \A g \in Goroutines : pc[g] = "done"

Done == Ended /\ UNCHANGED vars

Next ==
    \/ \E g \in Pumps : PumpStep(g)
    \/ TimerFires
    \/ HandlerStep
    \/ Environment
    \/ Done

\* The three goroutines run, the timer fires, and sync.Mutex hands writeMu to
\* whoever has waited for a millisecond (its starvation mode), so a goroutine
\* is not overtaken for ever.  Nothing is assumed of the client, the shell or
\* the rest of the service.
Fairness ==
    /\ \A g \in Pumps : WF_vars(PumpStep(g))
    /\ WF_vars(HandlerStep)
    /\ WF_vars(TimerFires)
    /\ \A g \in Goroutines : SF_vars(Lock(g))

Spec == Init /\ [][Next]_vars /\ Fairness

-----------------------------------------------------------------------------
(* Properties *)

\* A pump with a result can always deliver it: each of the two pumps sends
\* once, so errChan has room even when the timer won and nobody receives.
SendNeverBlocks == (\E g \in Pumps : pc[g] = "send") => errChan < ErrCap

\* The end of a session costs its output log nothing: the client never sees a
\* chunk that is missing there because the handler had closed the file already.
\* It is closed after the close frame, behind which no write of the PTY pump
\* succeeds, although the pump may still be running.  What may be missing is what
\* the file system refused, since handler.go:138 ignores that error.
NothingShownTooLate == "late" \notin shown

\* A client that does not stay stalled (it reads on, or its connection breaks)
\* gets an end: whatever the shell does, and even if the sandbox cannot be
\* destroyed, the timer brings the handler to its return and both pumps with
\* it, no goroutine is left behind, and the session is out of the map.
TerminalEnds == <>[](client # "stalled") => <>(Ended /\ taken)
=============================================================================
