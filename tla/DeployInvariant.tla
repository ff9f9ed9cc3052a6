-------------------------- MODULE DeployInvariant --------------------------
(***************************************************************************)
(* The inductive invariants of the deploy flow: what a deploy leaves in a  *)
(* sandbox and when it may do so, whoever else is at work; and what the    *)
(* state file says while one deploy or undeploy runs at a time.            *)
(***************************************************************************)
EXTENDS Deploy

\* A deploy that has written its environment file and not shredded it yet.
Owns(p) ==
  p \in swallowed \/ at[p] \in
    {"kill", "script", "launch", "verify", "autostop", "shred",
     "ok", "post", "crashed"}

\* A secret in a sandbox is that of a deploy on that sandbox which may still
\* shred it.
SecretsOwned ==
  \A s \in Box, p \in Run :
    inside[s].env = p \/ inside[s].verify = p => sb[p] = s /\ Owns(p)

\* A deploy that has not turned to its sandbox yet.
Chooses(p) ==
  at[p] \in {"idle", "lookup", "status", "match", "create", "start", "wait",
             "record"}

\* So is an agent's environment, until the agent is told to stop.
AgentsOwned ==
  \A s \in Box, p \in Run :
    inside[s].agent # None /\ inside[s].agent.env = p =>
      /\ sb[p] = s /\ ~ Chooses(p)
      /\ inside[s].agent.term \/ Owns(p) \/ at[p] \in {"pkill", "delete"}

\* When a deploy has a new sandbox, and when a cleanup call may have failed.
FreshPhase ==
  \A p \in fresh : at[p] \notin
    {"idle", "lookup", "status", "match", "create", "start", "pkill"}
SwallowPhase ==
  \A p \in swallowed : at[p] \in {"delete", "pkill", "failed", "crashed"}

FreshGone ==
  \A p \in fresh \ swallowed : at[p] = "failed" => box[sb[p]] = "gone"

Left == SecretsOwned /\ AgentsOwned /\ FreshPhase /\ SwallowPhase /\ FreshGone

-----------------------------------------------------------------------------
OneAtATime ==
  \A p, q \in Run \cup Undo : Active(p) /\ Active(q) => p = q

ForeverExists == \A s \in forever : box[s] # "none"

\* A deploy's sandbox is mapped when it is looked up and once it is recorded,
\* and in between no other sandbox can be the one with --no-autostop.
RunKnows(p) ==
  /\ at[p] \in Provisioning \cup {"status"} => mapping = sb[p]
  /\ at[p] \in {"match", "create"} => \A s \in forever : ~ Live(s)
  /\ at[p] \in {"start", "wait", "record"} =>
       \A s \in forever : Live(s) => s = sb[p]

\* An undeploy forgets only a sandbox that is gone.
UndoKnows(u) ==
  /\ at[u] \in {"forget", "save"} => ~ Live(sb[u])
  /\ at[u] = "save" => mapping = sb[u]

Kept ==
  /\ OneAtATime /\ ForeverExists /\ NoForeverOrphan
  /\ \A p \in Run : RunKnows(p)
  /\ \A u \in Undo : UndoKnows(u)

-----------------------------------------------------------------------------
\* Whoever is about to create a sandbox has found none, and nobody else can.
Single ==
  /\ OneAtATime /\ OneSandbox
  /\ \A p \in Run : at[p] = "create" => \A s \in Box : ~ Live(s)

\* What a deploy in zero-token mode runs is its own script, which writes no
\* stub over the PAT that the probe found.
Survives ==
  /\ OneAtATime /\ PATSurvives
  /\ \A p \in Run : at[p] = "launch" => inside[sb[p]].script = p
=============================================================================
