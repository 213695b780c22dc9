--------------------------- MODULE SandboxContract ---------------------------
(***************************************************************************)
(* What the session manager relies on a runtime.Sandbox to do, as used by  *)
(* SessionManager: a creation yields a running sandbox, nothing, or a leak *)
(* nobody has a handle on; a sandbox runs until a Destroy returns, which   *)
(* leaves it destroyed or leaked; and neither is ever undone or retried.   *)
(***************************************************************************)
VARIABLE state  \* "none", "running", "destroyed", "leaked"

Init == state = "none"

Create == state = "none" /\ state' \in {"running", "leaked"}

Destroy == state = "running" /\ state' \in {"destroyed", "leaked"}

Next == Create \/ Destroy

Spec == Init /\ [][Next]_state
=============================================================================
