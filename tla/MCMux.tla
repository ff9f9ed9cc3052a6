------------------------------- MODULE MCMux -------------------------------
(***************************************************************************)
(* Small instances of the multiplexer.  Requests are the agent's own ids.  *)
(***************************************************************************)
EXTENDS MuxInvariant, TLC

CONSTANTS c1, c2, u1

\* A call and a hook that share a child, and the slots of its table.
CallAndHook == {11, 12}
CallAndHookTool == (11 :> c1) @@ (12 :> "hook")
NoOwner == [u \in {} |-> c1]
NoLocalId == [u \in {} |-> 0]

\* A hook of two children, and an upstream request of one of them.
JustHook == {11}
JustHookTool == 11 :> "hook"
UpOwner == u1 :> c1
UpLocalId == u1 :> 101
=============================================================================
