------------------------------ MODULE MCDeploy ------------------------------
(***************************************************************************)
(* Small instances of the deploy flow.                                     *)
(***************************************************************************)
EXTENDS DeployInvariant, TLC

CONSTANTS d1, d2

\* The sandboxes are alike.
Alike == Permutations(Box)

TwoDeploys == {d1, d2}

\* A redeploy repeats the mode; or switches between the owner's token and the
\* sandbox's own credential; or one deploy keeps the baked PAT.
EnvMode == [r \in {d1, d2} |-> "env"]
Switch == (d1 :> "env") @@ (d2 :> "sandbox")
KeepOne == (d1 :> "keep") @@ (d2 :> "env")
=============================================================================
