------------------------------- MODULE Calls -------------------------------
(***************************************************************************)
(* What a JSON-RPC relay promises of each call: one end, a result only     *)
(* while the caller still waits for it, and nothing after the end.         *)
(***************************************************************************)
CONSTANT Call

VARIABLE state  \* "idle", "open", "withdrawn", "result" or "error"

\* A call may be under way from the start.
Init == state \in [Call -> {"idle", "open"}]

Goes(C, from, to) ==
  /\ \A c \in C : state[c] \in from
  /\ state' = [c \in Call |-> IF c \in C THEN to ELSE state[c]]

Ask(c)      == Goes({c}, {"idle"}, "open")
Withdraw(c) == Goes({c}, {"open"}, "withdrawn")
Succeed(c)  == Goes({c}, {"open"}, "result")

\* One failure may end several calls.
Fail(C)     == Goes(C, {"open", "withdrawn"}, "error")

Next ==
  \/ \E c \in Call : Ask(c) \/ Withdraw(c) \/ Succeed(c)
  \/ \E C \in SUBSET Call : Fail(C)

Spec == Init /\ [][Next]_state
=============================================================================
