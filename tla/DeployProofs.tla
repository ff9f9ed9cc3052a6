---------------------------- MODULE DeployProofs ----------------------------
(***************************************************************************)
(* The types of the deploy flow's state and what its invocations promise,  *)
(* whatever the number of sandboxes and invocations, in whatever order and *)
(* wherever an invocation dies: a failed deploy leaves nothing behind, no  *)
(* sandbox that never idles out is forgotten, an agent with a token of its *)
(* own cannot reach the owner's; and, of deploys one after the other, no   *)
(* second sandbox and an agent the probes were about.                      *)
(***************************************************************************)
EXTENDS DeployInvariant, TLAPS

Phase ==
  Over \cup Choosing \cup Provisioning \cup Tearing \cup Operating
    \cup {"status", "start", "wait", "record"}

-----------------------------------------------------------------------------
(* The remote commands leave a sandbox's content well formed. *)

LEMMA LaunchedFits ==
  ASSUME NEW c \in Content
  PROVE  Launched(c) \in Content
<1>1. CASE c.script = None
  BY <1>1 DEF Launched
<1>2. CASE c.script # None
  <2>1. Stubs(c.script) \in BOOLEAN
    BY DEF Stubs
  <2> DEFINE stubbed == [c EXCEPT !.stub = c.stub \/ Stubs(c.script)]
  <2>2. stubbed \in Content /\ stubbed.log = c.log
    BY <2>1 DEF Content
  <2>3. CASE c.env = None \/ c.agent # None
    BY <1>2, <2>2, <2>3 DEF Launched
  <2>4. CASE ~ (c.env = None \/ c.agent # None)
    <3>1. c.script \in Run /\ c.env \in Run
      BY <1>2, <2>4 DEF Content
    <3> DEFINE a == [by |-> c.script, env |-> c.env, term |-> FALSE]
               l == [c.log EXCEPT ![c.script] = {"stamp"}]
    <3>2. a \in Agent
      BY <3>1 DEF Agent
    <3>3. l \in [Run -> SUBSET {"stamp", "ready", "denied"}]
      BY <3>1 DEF Content
    <3>4. Launched(c) = [stubbed EXCEPT !.agent = a, !.log = l]
      BY <1>2, <2>2, <2>4 DEF Launched, Content
    <3> HIDE DEF a, l, stubbed
    <3> QED BY <2>2, <3>2, <3>3, <3>4 DEF Content
  <2> QED BY <2>3, <2>4
<1> QED BY <1>1, <1>2

LEMMA ShreddedFits ==
  ASSUME NEW c \in Content
  PROVE  Shredded(c) \in Content
BY DEF Shredded, Content

LEMMA TerminatedFits ==
  ASSUME NEW c \in Content
  PROVE  Terminated(c) \in Content
<1>1. CASE c.agent = None
  BY <1>1 DEF Terminated
<1>2. CASE c.agent # None
  <2> DEFINE a == [c.agent EXCEPT !.term = TRUE]
  <2>1. a \in Agent
    BY <1>2 DEF Content, Agent
  <2>2. Terminated(c) = [c EXCEPT !.agent = a]
    BY <1>2 DEF Terminated, Content
  <2> HIDE DEF a
  <2> QED BY <2>1, <2>2 DEF Content
<1> QED BY <1>1, <1>2

LEMMA EmptyFits == Empty \in Content
BY DEF Empty, Content

-----------------------------------------------------------------------------
(* A new sandbox is never given up for another, so FreshPhase is part of   *)
(* the induction.                                                          *)

Typed == TypeOK /\ FreshPhase

LEMMA RemoteTyped ==
  ASSUME Typed, NEW p \in Run \cup Again, NEW from, NEW to \in Phase,
         NEW bad \in Phase, NEW c,
         sb[p] # None => c \in Content,
         from \notin Over \cup Choosing,
         {to, bad} \cap {"idle", "lookup", "status", "match", "create",
                          "start", "pkill"} = {},
         Remote(p, from, to, bad, c)
  PROVE  Typed'

<1>1. at[p] = from /\ sb[p] # None /\ p \in Proc
  BY DEF Typed, TypeOK, Remote, Proc
<1>2. UNCHANGED <<box, forever, mapping, sb, fresh, swallowed>>
  BY DEF Remote
<1>3. \/ Goes(p, to) \/ Goes(p, bad)
  BY DEF Remote
<1>4. at' \in [Proc -> Phase]
  BY <1>1, <1>3 DEF Goes, Typed, TypeOK, Phase
<1>5. inside' \in [Box -> Content]
  BY <1>1 DEF Remote, Ssh, Typed, TypeOK
<1>6. \A s \in Box : inside'[s].agent # None => box'[s] = "running"
  BY <1>1, <1>2 DEF Remote, Ssh, Typed, TypeOK
<1>7. \A q \in Proc : sb'[q] = None => at'[q] \in Over \cup Choosing
  BY <1>1, <1>2, <1>3 DEF Goes, Typed, TypeOK
<1>8. FreshPhase'
  BY <1>1, <1>2, <1>3, DeployAssumption DEF Goes, Typed, TypeOK, FreshPhase, Proc
<1> QED BY <1>2, <1>4, <1>5, <1>6, <1>7, <1>8 DEF Typed, TypeOK, Phase

LEMMA ChooseTyped ==
  ASSUME Typed, NEW p \in Run, Choose(p)
  PROVE  Typed'
<1>1. CASE Begin(p)
  BY <1>1, DeployAssumption, EmptyFits DEF Begin, Typed, TypeOK, FreshPhase, Goes, Proc, Over, Choosing, Live, Found, Named, StartBox, WaitRunning, IfFresh, Provisioning, Tearing, Operating
<1>2. CASE Lookup(p)
  BY <1>2, DeployAssumption, EmptyFits DEF Lookup, Typed, TypeOK, FreshPhase, Goes, Proc, Over, Choosing, Live, Found, Named, StartBox, WaitRunning, IfFresh, Provisioning, Tearing, Operating
<1>3. CASE StatusOfMapped(p)
  BY <1>3, DeployAssumption, EmptyFits DEF StatusOfMapped, Typed, TypeOK, FreshPhase, Goes, Proc, Over, Choosing, Live, Found, Named, StartBox, WaitRunning, IfFresh, Provisioning, Tearing, Operating
<1>4. CASE Match(p)
  BY <1>4, DeployAssumption, EmptyFits DEF Match, Typed, TypeOK, FreshPhase, Goes, Proc, Over, Choosing, Live, Found, Named, StartBox, WaitRunning, IfFresh, Provisioning, Tearing, Operating
<1>5. CASE Create(p)
  BY <1>5, DeployAssumption, EmptyFits DEF Create, Typed, TypeOK, FreshPhase, Goes, Proc, Over, Choosing, Live, Found, Named, StartBox, WaitRunning, IfFresh, Provisioning, Tearing, Operating
<1>6. CASE StartReused(p)
  BY <1>6, DeployAssumption, EmptyFits DEF StartReused, Typed, TypeOK, FreshPhase, Goes, Proc, Over, Choosing, Live, Found, Named, StartBox, WaitRunning, IfFresh, Provisioning, Tearing, Operating
<1>7. CASE WaitForBox(p)
  BY <1>7, DeployAssumption, EmptyFits DEF WaitForBox, Typed, TypeOK, FreshPhase, Goes, Proc, Over, Choosing, Live, Found, Named, StartBox, WaitRunning, IfFresh, Provisioning, Tearing, Operating
<1>8. CASE Record(p)
  BY <1>8, DeployAssumption, EmptyFits DEF Record, Typed, TypeOK, FreshPhase, Goes, Proc, Over, Choosing, Live, Found, Named, StartBox, WaitRunning, IfFresh, Provisioning, Tearing, Operating
<1> QED BY <1>1, <1>2, <1>3, <1>4, <1>5, <1>6, <1>7, <1>8 DEF Choose

LEMMA ProvisionTyped ==
  ASSUME Typed, NEW p \in Run, Provision(p)
  PROVE  Typed'
<1> DEFINE c == Inside(p)
<1>1. p \in Proc /\ (sb[p] # None => c \in Content)
  BY DEF Typed, TypeOK, Inside, Proc
<1> USE DEF Phase, Over, Choosing, Provisioning, Tearing, Operating
<1>2. CASE AuthProbe(p) \/ KeepPAT(p) \/ VerifyLaunch(p)
  BY <1>1, <1>2, DeployAssumption
  DEF AuthProbe, KeepPAT, VerifyLaunch, IfFresh, Typed, TypeOK, FreshPhase, Goes, Proc
<1>3. CASE SetAutostop(p)
  BY <1>1, <1>3, DeployAssumption DEF SetAutostop, Typed, TypeOK, FreshPhase, Goes, Proc
<1>4. CASE PATReset(p)
  <2>1. sb[p] # None => [c EXCEPT !.stub = TRUE] \in Content
    BY <1>1 DEF Content
  <2> QED BY <1>4, <2>1, RemoteTyped DEF PATReset
<1>5. CASE Install(p)
  <2>1. sb[p] # None => /\ [c EXCEPT !.verify = None] \in Content
                        /\ [c EXCEPT !.verify = p] \in Content
    BY <1>1 DEF Content
  <2> QED BY <1>5, <2>1, RemoteTyped DEF Install
<1>6. CASE EnvWrite(p)
  <2>1. sb[p] # None => [c EXCEPT !.env = p] \in Content
    BY <1>1 DEF Content
  <2> QED BY <1>6, <2>1, RemoteTyped DEF EnvWrite
<1>7. CASE Kill(p)
  <2>1. sb[p] # None => /\ [c EXCEPT !.agent = None] \in Content
                        /\ Terminated(c) \in Content
    BY <1>1, TerminatedFits DEF Content
  <2> QED BY <1>7, <2>1, RemoteTyped DEF Kill
<1>8. CASE ScriptWrite(p)
  <2>1. sb[p] # None => [c EXCEPT !.script = p] \in Content
    BY <1>1 DEF Content
  <2> QED BY <1>8, <2>1, RemoteTyped DEF ScriptWrite
<1>9. CASE LaunchExec(p)
  <2>1. sb[p] # None => Launched(c) \in Content
    BY <1>1, LaunchedFits
  <2> QED BY <1>9, <2>1, RemoteTyped DEF LaunchExec
<1> QED BY <1>2, <1>3, <1>4, <1>5, <1>6, <1>7, <1>8, <1>9 DEF Provision

LEMMA TeardownTyped ==
  ASSUME Typed, NEW p \in Run, Teardown(p)
  PROVE  Typed'
<1>1. p \in Proc /\ sb[p] \in Box /\ inside[sb[p]] \in Content
  BY DEF Teardown, Shred, Delete, Pkill, Typed, TypeOK, Proc, Over, Choosing
<1>2. inside' \in [Box -> Content]
  BY <1>1, EmptyFits, ShreddedFits, TerminatedFits
  DEF Teardown, Shred, Delete, Pkill, Ssh, Gone, Swallow, Inside, Typed, TypeOK
<1>3. /\ box' \in [Box -> {"none", "stopped", "starting", "running", "gone"}]
      /\ \A s \in Box : inside'[s].agent # None => box'[s] = "running"
  BY <1>1
  DEF Teardown, Shred, Delete, Pkill, Ssh, Gone, Swallow, Inside, Empty, Typed, TypeOK
<1>4. /\ at' \in [Proc -> Phase]
      /\ \A q \in Proc : sb'[q] = None => at'[q] \in Over \cup Choosing
  BY <1>1
  DEF Teardown, Shred, Delete, Pkill, Goes, Typed, TypeOK, Phase, Over, Choosing, Tearing
<1>5. /\ UNCHANGED <<forever, mapping, sb, fresh>>
      /\ swallowed' \subseteq Run
  BY DEF Teardown, Shred, Delete, Pkill, Swallow, Typed, TypeOK
<1>6. FreshPhase'
  BY <1>1, <1>5
  DEF Teardown, Shred, Delete, Pkill, Goes, Typed, TypeOK, FreshPhase, Proc
<1> QED BY <1>2, <1>3, <1>4, <1>5, <1>6 DEF Typed, TypeOK, Phase

LEMMA UndeployTyped ==
  ASSUME Typed, NEW u \in Undo, Undeploy(u)
  PROVE  Typed'
<1> USE DEF Over, Choosing, Provisioning, Tearing, Operating
<1>1. CASE UndeployBegins(u)
  BY <1>1, DeployAssumption
  DEF UndeployBegins, Resolve, Typed, TypeOK, FreshPhase, Goes, Proc, Live
<1>2. CASE UndeployShreds(u)
  <2>1. u \in Proc /\ sb[u] \in Box /\ inside[sb[u]] \in Content
    BY <1>2 DEF UndeployShreds, Typed, TypeOK, Proc
  <2>2. inside' \in [Box -> Content]
    BY <1>2, <2>1, ShreddedFits DEF UndeployShreds, Ssh, Inside, Typed, TypeOK
  <2> QED BY <1>2, <2>1, <2>2, DeployAssumption
      DEF UndeployShreds, Ssh, Typed, TypeOK, FreshPhase, Goes, Proc
<1>3. CASE UndeployDeletes(u)
  <2>1. u \in Proc /\ sb[u] \in Box
    BY <1>3 DEF UndeployDeletes, Typed, TypeOK, Proc
  <2>2. inside' \in [Box -> Content]
    BY <1>3, <2>1, EmptyFits DEF UndeployDeletes, Gone, Typed, TypeOK
  <2> QED BY <1>3, <2>1, <2>2, DeployAssumption
      DEF UndeployDeletes, Gone, Empty, Typed, TypeOK, FreshPhase, Goes, Proc
<1>4. CASE ForgetReads(u) \/ ForgetSaves(u)
  BY <1>4, DeployAssumption
  DEF ForgetReads, ForgetSaves, Typed, TypeOK, FreshPhase, Goes, Proc
<1> QED BY <1>1, <1>2, <1>3, <1>4 DEF Undeploy

LEMMA StartTyped ==
  ASSUME Typed, NEW o \in Again, Start(o)
  PROVE  Typed'
<1> USE DEF Over, Choosing, Provisioning, Tearing, Operating, Phase
<1>1. CASE StartBegins(o)
  BY <1>1, DeployAssumption
  DEF StartBegins, Resolve, Typed, TypeOK, FreshPhase, Goes, Proc, Live
<1>2. CASE StartStatus(o) \/ StartWaits(o) \/ StartVerifies(o)
  BY <1>2, DeployAssumption
  DEF StartStatus, StartWaits, WaitRunning, StartVerifies, Typed, TypeOK,
      FreshPhase, Goes, Proc
<1>3. CASE StartStarts(o)
  BY <1>3, DeployAssumption
  DEF StartStarts, StartBox, Live, Typed, TypeOK, FreshPhase, Goes, Proc
<1>4. CASE Relaunch(o)
  <2>1. sb[o] # None => Launched(Inside(o)) \in Content
    BY LaunchedFits DEF Typed, TypeOK, Inside, Proc
  <2> QED BY <1>4, <2>1, RemoteTyped DEF Relaunch
<1> QED BY <1>1, <1>2, <1>3, <1>4 DEF Start

LEMMA SurroundingsTyped ==
  ASSUME Typed, NEW s \in Box,
         \/ Stop(s) \/ IdlesOut(s) \/ Boots(s) \/ AgentExits(s)
         \/ \E x \in {"ready", "denied"} : AgentSays(s, x)
  PROVE  Typed'
<1> DEFINE c == inside[s]
<1>0. c \in Content
  BY DEF Typed, TypeOK
<1>1. CASE Stop(s) \/ IdlesOut(s) \/ AgentExits(s)
  <2>1. [c EXCEPT !.agent = None] \in Content
    BY <1>0 DEF Content
  <2>2. inside' \in [Box -> Content]
    BY <1>1, <2>1 DEF Stop, IdlesOut, Stopped, AgentExits, Typed, TypeOK
  <2>3. \A t \in Box : inside'[t].agent = IF t = s THEN None ELSE inside[t].agent
    BY <1>0, <1>1 DEF Stop, IdlesOut, Stopped, AgentExits, Typed, TypeOK, Content
  <2>4. /\ \A t \in Box : t # s => box'[t] = box[t]
        /\ box' \in [Box -> {"none", "stopped", "starting", "running", "gone"}]
    BY <1>1 DEF Stop, IdlesOut, Stopped, AgentExits, Typed, TypeOK
  <2> QED BY <1>1, <2>2, <2>3, <2>4
      DEF Stop, IdlesOut, Stopped, AgentExits, Typed, TypeOK, FreshPhase
<1>2. CASE Boots(s)
  <2>1. [c EXCEPT !.stub = FALSE] \in Content
    BY <1>0 DEF Content
  <2>2. inside' \in [Box -> Content]
    BY <1>2, <2>1 DEF Boots, Typed, TypeOK
  <2> QED BY <1>2, <2>2 DEF Boots, Typed, TypeOK, FreshPhase, Content
<1>3. CASE \E x \in {"ready", "denied"} : AgentSays(s, x)
  <2>1. PICK x \in {"ready", "denied"} : AgentSays(s, x)
    BY <1>3
  <2> DEFINE l == [r \in Run |-> IF inside[s].log[r] = {} THEN {}
                                 ELSE inside[s].log[r] \cup {x}]
  <2>2. l \in [Run -> SUBSET {"stamp", "ready", "denied"}]
    BY <2>1 DEF Typed, TypeOK, Content
  <2>3. inside' = [inside EXCEPT ![s] = [c EXCEPT !.log = l]]
    BY <2>1 DEF AgentSays, Typed, TypeOK
  <2> HIDE DEF l
  <2>4. [c EXCEPT !.log = l] \in Content
    BY <1>0, <2>2 DEF Content
  <2>5. inside' \in [Box -> Content]
    BY <2>3, <2>4 DEF Typed, TypeOK
  <2>6. \A t \in Box : inside'[t].agent = inside[t].agent
    BY <1>0, <2>3 DEF Typed, TypeOK, Content
  <2> QED BY <2>1, <2>5, <2>6 DEF AgentSays, Typed, TypeOK, FreshPhase
<1> QED BY <1>1, <1>2, <1>3

LEMMA InitTyped == Init => Typed
BY DeployAssumption, EmptyFits
DEF Init, Typed, TypeOK, FreshPhase, Empty, Proc, Over, Choosing

LEMMA NextTyped == Typed /\ [Next]_vars => Typed'
<1> SUFFICES ASSUME Typed, [Next]_vars PROVE Typed'
  OBVIOUS
<1>1. ASSUME NEW p \in Run, Deploy(p) PROVE Typed'
  BY <1>1, ChooseTyped, ProvisionTyped, TeardownTyped DEF Deploy
<1>2. ASSUME NEW u \in Undo, Undeploy(u) PROVE Typed'
  BY <1>2, UndeployTyped
<1>3. ASSUME NEW o \in Again, Start(o) PROVE Typed'
  BY <1>3, StartTyped
<1>4. ASSUME NEW p \in Proc, Crash(p) PROVE Typed'
  BY <1>4 DEF Crash, Typed, TypeOK, FreshPhase, Over, Choosing
<1>5. ASSUME NEW s \in Box,
             \/ Stop(s) \/ IdlesOut(s) \/ Boots(s) \/ AgentExits(s)
             \/ \E x \in {"ready", "denied"} : AgentSays(s, x)
      PROVE  Typed'
  BY <1>5, SurroundingsTyped
<1>6. CASE UNCHANGED vars
  BY <1>6 DEF vars, Typed, TypeOK, FreshPhase
<1> QED BY <1>1, <1>2, <1>3, <1>4, <1>5, <1>6 DEF Next

LEMMA TypedAlways == Spec => []Typed
BY InitTyped, NextTyped, PTL DEF Spec

\* Every state of the deploy flow is well typed, for every number of sandboxes
\* and invocations and every mix of modes.
THEOREM DeployTypes == Spec => []TypeOK
<1>1. Typed => TypeOK
  BY DEF Typed
<1> QED BY <1>1, TypedAlways, PTL

-----------------------------------------------------------------------------
OwnPhase ==
  {"kill", "script", "launch", "verify", "autostop", "shred",
   "ok", "post", "crashed"}

-----------------------------------------------------------------------------
(* Left: what a deploy leaves in a sandbox.                                *)

\* Steps of others than the deploys: secrets and agents only go away.
LEMMA QuietLeft ==
  ASSUME Typed, Left, Typed',
         \A p \in Run : at'[p] = at[p] /\ sb'[p] = sb[p],
         UNCHANGED <<fresh, swallowed>>,
         \A s \in Box : box[s] = "gone" => box'[s] = "gone",
         \A s \in Box : /\ inside'[s].env \in {inside[s].env, None}
                        /\ inside'[s].verify \in {inside[s].verify, None}
                        /\ inside'[s].agent \in {inside[s].agent, None}
  PROVE  Left'
<1>1. \A p \in Run : p # None /\ Owns(p)' = Owns(p)
  BY DeployAssumption DEF Owns
<1>1a. \A p \in Run : Chooses(p)' = Chooses(p)
  BY DEF Chooses
<1>2. SecretsOwned'
  BY <1>1 DEF Left, SecretsOwned
<1>3. AgentsOwned'
  BY <1>1, <1>1a DEF Left, AgentsOwned
<1>4. FreshPhase' /\ SwallowPhase'
  BY DEF Typed, TypeOK, Left, SwallowPhase
<1>5. FreshGone'
  BY DEF Left, FreshGone, Typed, TypeOK, Proc
<1> QED BY <1>2, <1>3, <1>4, <1>5 DEF Left

\* A step over ssh leaves the secrets that are there, or those of a deploy that
\* will shred them, and agents with an environment that is there.
LEMMA RemoteLeft ==
  ASSUME Typed, Left, Typed',
         NEW p \in Run \cup Again, NEW from, NEW to, NEW bad, NEW c,
         Remote(p, from, to, bad, c),
         p \in Run => /\ from \notin {"delete", "pkill", "failed", "crashed"}
                      /\ {to, bad} \subseteq Provisioning \cup {"shred"}
                      /\ from \in OwnPhase => {to, bad} \subseteq OwnPhase,
         \A q \in Run : c.env = q \/ c.verify = q =>
           \/ Inside(p).env = q \/ Inside(p).verify = q
           \/ p = q /\ {to, bad} \subseteq OwnPhase,
         c.agent # None =>
           \/ c.agent.env = Inside(p).env
           \/ /\ Inside(p).agent # None
              /\ c.agent.env = Inside(p).agent.env
              /\ Inside(p).agent.term => c.agent.term,
         sb[p] # None
  PROVE  Left'
<1>1. /\ p \in Proc /\ sb[p] \in Box
      /\ UNCHANGED <<box, forever, mapping, sb, fresh, swallowed>>
      /\ at[p] = from
  BY DEF Remote, Typed, TypeOK, Proc
<1>2. /\ at'[p] \in {to, bad}
      /\ \A q \in Proc : q # p => at'[q] = at[q]
  BY <1>1 DEF Remote, Goes, Typed, TypeOK
<1>3. /\ \A s \in Box : s # sb[p] => inside'[s] = inside[s]
      /\ inside'[sb[p]] = inside[sb[p]] \/ inside'[sb[p]] = c
  BY <1>1 DEF Remote, Ssh, Typed, TypeOK
<1>4. \A q \in Run : Owns(q) => Owns(q)'
  BY <1>1, <1>2 DEF Owns, OwnPhase, Proc, Left, SwallowPhase
<1>5. p \in Run /\ {to, bad} \subseteq OwnPhase => Owns(p)'
  BY <1>2 DEF Owns, OwnPhase
<1>6. SecretsOwned'
  <2> SUFFICES ASSUME NEW s \in Box, NEW q \in Run,
                      inside'[s].env = q \/ inside'[s].verify = q
               PROVE  sb[q] = s /\ Owns(q)'
    BY <1>1 DEF SecretsOwned
  <2>1. CASE inside'[s] = inside[s]
    BY <2>1, <1>4 DEF Left, SecretsOwned
  <2>2. CASE s = sb[p] /\ inside'[s] = c
    BY <2>2, <1>1, <1>4, <1>5 DEF Left, SecretsOwned, Inside
  <2> QED BY <2>1, <2>2, <1>3
<1>7. AgentsOwned'
  <2> SUFFICES ASSUME NEW s \in Box, NEW q \in Run,
                      inside'[s].agent # None, inside'[s].agent.env = q
               PROVE  /\ sb[q] = s /\ ~ Chooses(q)'
                      /\ \/ inside'[s].agent.term \/ Owns(q)'
                         \/ at'[q] \in {"pkill", "delete"}
    BY <1>1 DEF AgentsOwned
  <2>1. /\ at[q] \in {"pkill", "delete"} => at'[q] \in {"pkill", "delete"}
        /\ ~ Chooses(q) => ~ Chooses(q)'
        /\ Owns(q) /\ q \notin swallowed => ~ Chooses(q)
    BY <1>1, <1>2 DEF Proc, Chooses, Provisioning, Owns
  <2>1a. q \in swallowed => ~ Chooses(q)
    BY DEF Left, SwallowPhase, Chooses
  <2>2. CASE inside'[s] = inside[s]
    BY <2>1, <2>2, <1>4 DEF Left, AgentsOwned
  <2>3. CASE s = sb[p] /\ c.agent.env = Inside(p).env
    BY <2>1, <2>1a, <2>2, <2>3, <1>1, <1>3, <1>4 DEF Left, SecretsOwned, Inside
  <2>4. CASE /\ s = sb[p] /\ inside'[s] = c
             /\ Inside(p).agent # None
             /\ c.agent.env = Inside(p).agent.env
             /\ Inside(p).agent.term => c.agent.term
    BY <2>1, <2>4, <1>1, <1>4 DEF Left, AgentsOwned, Inside
  <2> QED BY <2>2, <2>3, <2>4, <1>3
<1>8. FreshPhase' /\ SwallowPhase'
  BY <1>1, <1>2, DeployAssumption
  DEF Typed, TypeOK, Left, SwallowPhase, Proc, Provisioning
<1>9. FreshGone'
  <2>1. \A q \in fresh : q \in Run /\ q \in Proc
    BY DEF Typed, TypeOK, Proc
  <2>2. \A q \in fresh : at'[q] = "failed" => at[q] = "failed"
    BY <1>2, <2>1 DEF Provisioning
  <2> QED BY <1>1, <2>1, <2>2 DEF Left, FreshGone
<1> QED BY <1>6, <1>7, <1>8, <1>9 DEF Left

\* Until its sandbox is recorded a deploy has put nothing anywhere.
LEMMA ChooseLeft ==
  ASSUME Typed, Left, Typed', NEW p \in Run, Choose(p)
  PROVE  Left'
<1>1. /\ p \in Proc
      /\ at[p] \in {"idle", "lookup", "status", "match", "create", "start",
                    "wait", "record"}
  BY DEF Choose, Begin, Lookup, StatusOfMapped, Match, Create, StartReused,
         StartBox, WaitForBox, WaitRunning, Record, Proc
<1>2. UNCHANGED <<inside, swallowed>>
  BY DEF Choose, Begin, Lookup, StatusOfMapped, Match, Create, StartReused,
         StartBox, WaitForBox, WaitRunning, Record
<1>3. \A q \in Proc : q # p => at'[q] = at[q] /\ sb'[q] = sb[q]
  BY <1>1 DEF Choose, Begin, Lookup, StatusOfMapped, Match, Create, StartReused,
         StartBox, WaitForBox, WaitRunning, Record, Goes, Typed, TypeOK
<1>4. at'[p] \notin {"pkill", "delete"} /\ (at'[p] = "failed" => p \notin fresh')
  BY <1>1 DEF Choose, Begin, Lookup, StatusOfMapped, Match, Create, StartReused,
         StartBox, WaitForBox, WaitRunning, Record, IfFresh, Found, Goes, Typed,
         TypeOK, FreshPhase
<1>5. fresh' \subseteq fresh \cup {p}
  BY DEF Choose, Begin, Lookup, StatusOfMapped, Match, Create, StartReused,
         StartBox, WaitForBox, WaitRunning, Record
<1>6. \A s \in Box : box[s] = "gone" => box'[s] = "gone"
  BY DEF Choose, Begin, Lookup, StatusOfMapped, Match, Create, StartReused,
         StartBox, WaitForBox, WaitRunning, Record, Live, Typed, TypeOK
<1>7. ~ Owns(p) /\ p \notin swallowed
  BY <1>1 DEF Owns, Left, SwallowPhase
<1>8. \A q \in Run : q # p => Owns(q)' = Owns(q)
  BY <1>2, <1>3 DEF Owns, Proc
<1>9. SecretsOwned'
  BY <1>2, <1>3, <1>7, <1>8 DEF Left, SecretsOwned, Proc
<1>10. AgentsOwned'
  <2>1. Chooses(p) /\ \A q \in Run : q # p => Chooses(q)' = Chooses(q)
    BY <1>1, <1>3 DEF Chooses, Proc
  <2> QED BY <2>1, <1>2, <1>3, <1>8 DEF Left, AgentsOwned, Proc
<1>11. FreshPhase' /\ SwallowPhase'
  BY <1>1, <1>2, <1>3 DEF Typed, TypeOK, Left, SwallowPhase, Proc
<1>12. FreshGone'
  BY <1>2, <1>3, <1>4, <1>5, <1>6 DEF Left, FreshGone, Typed, TypeOK, Proc
<1> QED BY <1>9, <1>10, <1>11, <1>12 DEF Left

\* A launch takes the environment that is there, or changes no agent.
LEMMA LaunchedAgent ==
  ASSUME NEW c \in Content
  PROVE  /\ Launched(c).env = c.env /\ Launched(c).verify = c.verify
         /\ Launched(c).agent = c.agent \/ Launched(c).agent.env = c.env
<1>1. CASE c.script = None
  BY <1>1 DEF Launched
<1>2. CASE c.script # None /\ (c.env = None \/ c.agent # None)
  BY <1>2 DEF Launched, Content
<1>3. CASE c.script # None /\ ~ (c.env = None \/ c.agent # None)
  <2> DEFINE stubbed == [c EXCEPT !.stub = c.stub \/ Stubs(c.script)]
             a == [by |-> c.script, env |-> c.env, term |-> FALSE]
             l == [c.log EXCEPT ![c.script] = {"stamp"}]
  <2>1. stubbed.log = c.log /\ stubbed.env = c.env /\ stubbed.verify = c.verify
    BY DEF Content
  <2>2. Launched(c) = [stubbed EXCEPT !.agent = a, !.log = l]
    BY <1>3, <2>1 DEF Launched, Content
  <2>3. /\ Launched(c).env = c.env /\ Launched(c).verify = c.verify
        /\ Launched(c).agent = a
    BY <2>1, <2>2 DEF Content
  <2> QED BY <2>3
<1> QED BY <1>1, <1>2, <1>3

LEMMA ProvisionLeft ==
  ASSUME Typed, Left, Typed', NEW p \in Run, Provision(p)
  PROVE  Left'
<1> DEFINE c == Inside(p)
<1>1. /\ p \in Proc /\ sb[p] \in Box /\ sb[p] # None
      /\ c \in Content
      /\ at[p] \in Provisioning
  <2>1. p \in Proc /\ at[p] \in Provisioning
    BY DEF Provision, AuthProbe, PATReset, KeepPAT, Install, EnvWrite, Kill,
           ScriptWrite, LaunchExec, VerifyLaunch, SetAutostop, Remote, Proc,
           Provisioning
  <2> QED BY <2>1, DeployAssumption
      DEF Typed, TypeOK, Inside, Provisioning, Over, Choosing
<1> USE DEF OwnPhase, Provisioning
<1>2. CASE AuthProbe(p) \/ KeepPAT(p) \/ VerifyLaunch(p) \/ SetAutostop(p)
  <2>1. UNCHANGED <<box, inside, sb, fresh, swallowed>>
    BY <1>2 DEF AuthProbe, KeepPAT, VerifyLaunch, SetAutostop
  <2>2. /\ \A q \in Proc : q # p => at'[q] = at[q]
        /\ at'[p] \in {"install", "deleteFresh", "failed", "autostop", "shred",
                       "ok", "post"}
        /\ at[p] \in {"verify", "autostop"} =>
             at'[p] \in {"autostop", "shred", "ok", "post"}
        /\ at[p] \notin {"verify", "autostop"} => at[p] = "auth"
        /\ at'[p] = "failed" => p \notin fresh
    BY <1>1, <1>2
    DEF AuthProbe, KeepPAT, VerifyLaunch, SetAutostop, IfFresh, Goes, Typed, TypeOK
  <2>3. p \notin swallowed
    BY <1>1 DEF Left, SwallowPhase
  <2>4. \A q \in Run : /\ Owns(q) => Owns(q)'
                       /\ Chooses(q)' => Chooses(q)
                       /\ at[q] \in {"pkill", "delete"} => at'[q] = at[q]
    BY <1>1, <2>1, <2>2, <2>3 DEF Owns, Chooses, Proc
  <2>5. SecretsOwned'
    BY <2>1, <2>4 DEF Left, SecretsOwned
  <2>6. AgentsOwned'
    BY <2>1, <2>4 DEF Left, AgentsOwned
  <2>7. FreshPhase' /\ SwallowPhase'
    BY <2>1, <2>2, <2>3 DEF Typed, TypeOK, Left, SwallowPhase, Proc
  <2>8. FreshGone'
    BY <2>1, <2>2 DEF Left, FreshGone, Typed, TypeOK, Proc
  <2> QED BY <2>5, <2>6, <2>7, <2>8 DEF Left
<1>3. CASE PATReset(p)
  <2> DEFINE d == [c EXCEPT !.stub = TRUE]
  <2>1. d.env = c.env /\ d.verify = c.verify /\ d.agent = c.agent
    BY <1>1 DEF Content
  <2> HIDE DEF d
  <2>2. Remote(p, "auth", "install", "shred", d)
    BY <1>3 DEF PATReset, d
  <2> QED BY <1>1, <2>1, <2>2, RemoteLeft
<1>4. CASE Install(p)
  <2> DEFINE d == [c EXCEPT !.verify = None]
             e == [c EXCEPT !.verify = p]
  <2>1. /\ d.env = c.env /\ d.verify = None /\ d.agent = c.agent
        /\ e.env = c.env /\ e.verify = p /\ e.agent = c.agent
    BY <1>1 DEF Content
  <2> HIDE DEF d, e
  <2>2. \/ Remote(p, "install", "env", "shred", d)
        \/ Remote(p, "install", "shred", "shred", e)
    BY <1>4 DEF Install, d, e
  <2>3. CASE Remote(p, "install", "env", "shred", d)
    BY <1>1, <2>1, <2>3, RemoteLeft, DeployAssumption
  <2>4. CASE Remote(p, "install", "shred", "shred", e)
    BY <1>1, <2>1, <2>4, RemoteLeft
  <2> QED BY <2>2, <2>3, <2>4
<1>5. CASE EnvWrite(p)
  <2> DEFINE d == [c EXCEPT !.env = p]
  <2>1. d.env = p /\ d.verify = c.verify /\ d.agent = c.agent
    BY <1>1 DEF Content
  <2> HIDE DEF d
  <2>2. Remote(p, "env", "kill", "shred", d)
    BY <1>5 DEF EnvWrite, d
  <2> QED BY <1>1, <2>1, <2>2, RemoteLeft
<1>6. CASE Kill(p)
  <2> DEFINE d == [c EXCEPT !.agent = None]
             e == Terminated(c)
  <2>1. d.env = c.env /\ d.verify = c.verify /\ d.agent = None
    BY <1>1 DEF Content
  <2>2. /\ e.env = c.env /\ e.verify = c.verify
        /\ e.agent # None =>
             c.agent # None /\ e.agent.env = c.agent.env /\ e.agent.term
    BY <1>1 DEF Content, Terminated, Agent
  <2> HIDE DEF d, e
  <2>3. \/ Remote(p, "kill", "script", "shred", d)
        \/ Remote(p, "kill", "shred", "shred", e)
    BY <1>6 DEF Kill, d, e
  <2>4. CASE Remote(p, "kill", "script", "shred", d)
    BY <1>1, <2>1, <2>4, RemoteLeft
  <2>5. CASE Remote(p, "kill", "shred", "shred", e)
    BY <1>1, <2>2, <2>5, RemoteLeft
  <2> QED BY <2>3, <2>4, <2>5
<1>7. CASE ScriptWrite(p)
  <2> DEFINE d == [c EXCEPT !.script = p]
  <2>1. d.env = c.env /\ d.verify = c.verify /\ d.agent = c.agent
    BY <1>1 DEF Content
  <2> HIDE DEF d
  <2>2. Remote(p, "script", "launch", "shred", d)
    BY <1>7 DEF ScriptWrite, d
  <2> QED BY <1>1, <2>1, <2>2, RemoteLeft
<1>8. CASE LaunchExec(p)
  <2> DEFINE d == Launched(c)
  <2>1. /\ d.env = c.env /\ d.verify = c.verify
        /\ d.agent # None => d.agent = c.agent \/ d.agent.env = c.env
    BY <1>1, LaunchedAgent
  <2> HIDE DEF d
  <2>2. \/ Remote(p, "launch", "verify", "shred", d)
        \/ Remote(p, "launch", "shred", "shred", d)
    BY <1>8 DEF LaunchExec, d
  <2> QED BY <1>1, <2>1, <2>2, RemoteLeft
<1> QED BY <1>2, <1>3, <1>4, <1>5, <1>6, <1>7, <1>8 DEF Provision

LEMMA TeardownLeft ==
  ASSUME Typed, Left, Typed', NEW p \in Run, Teardown(p)
  PROVE  Left'
<1> DEFINE c == Inside(p)
<1>1. /\ p \in Proc /\ sb[p] \in Box /\ c \in Content
      /\ at[p] \in Tearing /\ ~ Chooses(p)
      /\ UNCHANGED <<sb, fresh>>
  BY DEF Teardown, Shred, Delete, Pkill, Typed, TypeOK, Inside, Proc, Over,
         Choosing, Tearing, Chooses
<1>2. /\ \A q \in Proc : q # p => at'[q] = at[q]
      /\ at'[p] \in {"delete", "pkill", "failed"}
      /\ at[p] = "shred" => at'[p] \in {"delete", "pkill"}
      /\ at[p] # "shred" => at'[p] = "failed"
  BY <1>1 DEF Teardown, Shred, Delete, Pkill, Goes, Typed, TypeOK
<1>3. /\ \A s \in Box : s # sb[p] => box'[s] = box[s] /\ inside'[s] = inside[s]
      /\ \A s \in Box : box[s] = "gone" => box'[s] = "gone"
      /\ swallowed' \subseteq swallowed \cup {p} /\ swallowed \subseteq swallowed'
  BY <1>1 DEF Teardown, Shred, Delete, Pkill, Ssh, Gone, Swallow, Typed, TypeOK
<1>4. p \in swallowed' \/
        /\ at[p] = "shred" => inside'[sb[p]] = Shredded(c)
        /\ at[p] = "pkill" => inside'[sb[p]] = Terminated(c)
        /\ at[p] \in {"delete", "deleteFresh"} =>
             inside'[sb[p]] = Empty /\ box'[sb[p]] = "gone"
  BY <1>1 DEF Teardown, Shred, Delete, Pkill, Ssh, Gone, Swallow, Inside, Typed, TypeOK
<1>5. inside'[sb[p]] \in {c, Shredded(c), Terminated(c), Empty}
  BY <1>1 DEF Teardown, Shred, Delete, Pkill, Ssh, Gone, Swallow, Inside, Typed, TypeOK
<1>6. /\ Shredded(c).env = None /\ Shredded(c).verify = None
      /\ Shredded(c).agent = c.agent
  BY <1>1 DEF Shredded, Content
<1>7. /\ Terminated(c).env = c.env /\ Terminated(c).verify = c.verify
      /\ Terminated(c).agent # None =>
           /\ c.agent # None /\ Terminated(c).agent.env = c.agent.env
           /\ Terminated(c).agent.term
  BY <1>1 DEF Terminated, Content, Agent
<1>8. Empty.env = None /\ Empty.verify = None /\ Empty.agent = None
  BY DEF Empty
<1>9. \A s \in Box :
        /\ inside'[s].env \in {inside[s].env, None}
        /\ inside'[s].verify \in {inside[s].verify, None}
        /\ inside'[s].agent # None =>
             /\ inside[s].agent # None
             /\ inside'[s].agent.env = inside[s].agent.env
             /\ inside[s].agent.term => inside'[s].agent.term
  BY <1>1, <1>3, <1>5, <1>6, <1>7, <1>8 DEF Inside
<1>10. \A q \in Run : /\ q # None
                      /\ q # p => Owns(q)' = Owns(q)
                      /\ Chooses(q)' => Chooses(q)
  BY <1>1, <1>2, <1>3, DeployAssumption DEF Owns, Chooses, Proc
<1>11. /\ p \in swallowed' => Owns(p)'
       /\ Owns(p) => p \in swallowed \/ at[p] = "shred"
  BY <1>1 DEF Owns, Tearing
<1>12. SecretsOwned'
  <2> SUFFICES ASSUME NEW s \in Box, NEW q \in Run,
                      inside'[s].env = q \/ inside'[s].verify = q
               PROVE  sb[q] = s /\ Owns(q)'
    BY <1>1 DEF SecretsOwned
  <2>1. sb[q] = s /\ Owns(q)
    BY <1>9, <1>10 DEF Left, SecretsOwned
  <2>2. CASE q = p
    BY <2>1, <2>2, <1>3, <1>4, <1>6, <1>10, <1>11
  <2> QED BY <2>1, <2>2, <1>10
<1>13. AgentsOwned'
  <2> SUFFICES ASSUME NEW s \in Box, NEW q \in Run,
                      inside'[s].agent # None, inside'[s].agent.env = q
               PROVE  /\ sb[q] = s /\ ~ Chooses(q)'
                      /\ \/ inside'[s].agent.term \/ Owns(q)'
                         \/ at'[q] \in {"pkill", "delete"}
    BY <1>1 DEF AgentsOwned
  <2>1. /\ sb[q] = s /\ ~ Chooses(q)'
        /\ \/ inside'[s].agent.term \/ Owns(q)
           \/ at[q] \in {"pkill", "delete"}
    BY <1>9, <1>10 DEF Left, AgentsOwned
  <2>2. CASE q # p
    BY <2>1, <2>2, <1>2, <1>10 DEF Proc
  <2>3. CASE q = p /\ at[p] = "shred"
    BY <2>3, <1>2, <2>1
  <2>4. CASE q = p /\ at[p] # "shred"
    BY <2>1, <2>4, <1>1, <1>3, <1>4, <1>7, <1>8, <1>11
  <2> QED BY <2>2, <2>3, <2>4
<1>14. FreshPhase' /\ SwallowPhase'
  BY <1>1, <1>2, <1>3 DEF Typed, TypeOK, Left, SwallowPhase, Proc
<1>15. FreshGone'
  <2> SUFFICES ASSUME NEW q \in fresh \ swallowed', at'[q] = "failed"
               PROVE  box'[sb[q]] = "gone"
    BY <1>1 DEF FreshGone
  <2>1. q \in Run /\ q \in Proc /\ q \notin swallowed
    BY <1>3 DEF Typed, TypeOK, Proc
  <2>1a. sb[q] \in Box
    BY <2>1 DEF Typed, TypeOK
  <2>2. CASE q # p
    BY <2>1, <2>1a, <2>2, <1>2, <1>3 DEF Left, FreshGone
  <2>3. CASE q = p
    <3>1. at[p] \in {"delete", "deleteFresh"}
      BY <2>3, <1>1, <1>2 DEF Typed, FreshPhase, Tearing
    <3> QED BY <2>3, <3>1, <1>4
  <2> QED BY <2>2, <2>3
<1> QED BY <1>12, <1>13, <1>14, <1>15 DEF Left

LEMMA UndeployLeft ==
  ASSUME Typed, Left, Typed', NEW u \in Undo, Undeploy(u)
  PROVE  Left'
<1>1. u \in Proc /\ u \notin Run
  BY DeployAssumption DEF Proc
<1>2. /\ \A p \in Run : at'[p] = at[p] /\ sb'[p] = sb[p]
      /\ UNCHANGED <<fresh, swallowed>>
      /\ \A s \in Box : box[s] = "gone" => box'[s] = "gone"
  BY <1>1 DEF Undeploy, UndeployBegins, Resolve, UndeployShreds, UndeployDeletes,
         ForgetReads, ForgetSaves, Goes, Gone, Typed, TypeOK, Proc
<1>3. \/ inside' = inside
      \/ sb[u] \in Box /\ inside' = [inside EXCEPT ![sb[u]] = Shredded(Inside(u))]
      \/ sb[u] \in Box /\ inside' = [inside EXCEPT ![sb[u]] = Empty]
  <2>1. at[u] \in {"undeployShred", "undeployDelete"} => sb[u] \in Box
    BY <1>1 DEF Typed, TypeOK, Over, Choosing
  <2> QED BY <2>1 DEF Undeploy, UndeployBegins, Resolve, UndeployShreds,
         UndeployDeletes, ForgetReads, ForgetSaves, Ssh, Gone
<1>4. /\ Empty.env = None /\ Empty.verify = None /\ Empty.agent = None
      /\ \A c \in Content : /\ Shredded(c).env = None /\ Shredded(c).verify = None
                            /\ Shredded(c).agent = c.agent
  BY DEF Empty, Shredded, Content
<1>5. \A s \in Box : /\ inside'[s].env \in {inside[s].env, None}
                     /\ inside'[s].verify \in {inside[s].verify, None}
                     /\ inside'[s].agent \in {inside[s].agent, None}
  BY <1>3, <1>4 DEF Inside, Typed, TypeOK
<1> QED BY <1>2, <1>5, QuietLeft

LEMMA StartLeft ==
  ASSUME Typed, Left, Typed', NEW o \in Again, Start(o)
  PROVE  Left'
<1>1. o \in Proc /\ o \notin Run
  BY DeployAssumption DEF Proc
<1>2. CASE Relaunch(o)
  <2> DEFINE c == Inside(o)
             d == Launched(c)
  <2>1. sb[o] \in Box /\ sb[o] # None
    BY <1>1, <1>2, DeployAssumption
    DEF Relaunch, Remote, Typed, TypeOK, Over, Choosing
  <2>2. c \in Content
    BY <2>1 DEF Typed, TypeOK, Inside
  <2>3. /\ d.env = c.env /\ d.verify = c.verify
        /\ d.agent # None => d.agent = c.agent \/ d.agent.env = c.env
    BY <2>2, LaunchedAgent
  <2> HIDE DEF d
  <2>4. \/ Remote(o, "relaunch", "look", "failed", d)
        \/ Remote(o, "relaunch", "failed", "failed", d)
    BY <1>2 DEF Relaunch, d
  <2> QED BY <1>1, <2>1, <2>3, <2>4, RemoteLeft
<1>3. CASE ~ Relaunch(o)
  <2>1. /\ \A p \in Run : at'[p] = at[p] /\ sb'[p] = sb[p]
        /\ UNCHANGED <<inside, fresh, swallowed>>
        /\ \A s \in Box : box[s] = "gone" => box'[s] = "gone"
    BY <1>1, <1>3
    DEF Start, StartBegins, Resolve, StartStatus, StartStarts, StartBox, StartWaits,
        WaitRunning, StartVerifies, Goes, Live, Typed, TypeOK, Proc
  <2> QED BY <2>1, QuietLeft
<1> QED BY <1>2, <1>3

LEMMA SurroundingsLeft ==
  ASSUME Typed, Left, Typed', NEW s \in Box,
         \/ Stop(s) \/ IdlesOut(s) \/ Boots(s) \/ AgentExits(s)
         \/ \E x \in {"ready", "denied"} : AgentSays(s, x)
  PROVE  Left'
<1>1. UNCHANGED <<at, sb, fresh, swallowed>>
  BY DEF Stop, IdlesOut, Stopped, Boots, AgentExits, AgentSays
<1>2. \A t \in Box : box[t] = "gone" => box'[t] = "gone"
  BY DEF Stop, IdlesOut, Stopped, Boots, AgentExits, AgentSays, Typed, TypeOK
<1>3. inside[s] \in Content
  BY DEF Typed, TypeOK
<1>4. \A t \in Box : /\ inside'[t].env \in {inside[t].env, None}
                     /\ inside'[t].verify \in {inside[t].verify, None}
                     /\ inside'[t].agent \in {inside[t].agent, None}
  <2>1. CASE Stop(s) \/ IdlesOut(s) \/ AgentExits(s)
    <3> DEFINE d == [inside[s] EXCEPT !.agent = None]
    <3>1. d.env = inside[s].env /\ d.verify = inside[s].verify /\ d.agent = None
      BY <1>3 DEF Content
    <3>2. inside' = [inside EXCEPT ![s] = d]
      BY <2>1 DEF Stop, IdlesOut, Stopped, AgentExits
    <3> HIDE DEF d
    <3> QED BY <3>1, <3>2 DEF Typed, TypeOK
  <2>2. CASE Boots(s)
    BY <2>2, <1>3 DEF Boots, Typed, TypeOK, Content
  <2>3. CASE \E x \in {"ready", "denied"} : AgentSays(s, x)
    BY <2>3, <1>3 DEF AgentSays, Typed, TypeOK, Content
  <2> QED BY <2>1, <2>2, <2>3
<1> QED BY <1>1, <1>2, <1>4, QuietLeft

LEMMA CrashLeft ==
  ASSUME Typed, Left, Typed', NEW p \in Proc, Crash(p)
  PROVE  Left'
<1>1. /\ UNCHANGED <<box, inside, sb, fresh, swallowed>>
      /\ at'[p] = "crashed" /\ \A q \in Proc : q # p => at'[q] = at[q]
  BY DEF Crash, Typed, TypeOK
<1>2. \A q \in Run : /\ Owns(q) => Owns(q)'
                     /\ q = p => Owns(q)'
                     /\ Chooses(q)' => Chooses(q)
  BY <1>1 DEF Owns, Chooses, Proc
<1>3. SecretsOwned'
  BY <1>1, <1>2 DEF Left, SecretsOwned
<1>4. AgentsOwned'
  BY <1>1, <1>2 DEF Left, AgentsOwned, Proc
<1>5. FreshPhase' /\ SwallowPhase'
  BY <1>1 DEF Typed, TypeOK, Left, SwallowPhase, Proc
<1>6. FreshGone'
  BY <1>1 DEF Left, FreshGone, Typed, TypeOK, Proc
<1> QED BY <1>3, <1>4, <1>5, <1>6 DEF Left

LEMMA InitLeft == Init => Left
<1> SUFFICES ASSUME Init PROVE Left
  OBVIOUS
<1>1. \A s \in Box : /\ inside[s].env = None /\ inside[s].verify = None
                     /\ inside[s].agent = None
  BY DEF Init, Empty
<1>2. \A p \in Run : p # None
  BY DeployAssumption
<1>3. fresh = {} /\ swallowed = {}
  BY DEF Init
<1> QED BY <1>1, <1>2, <1>3
    DEF Left, SecretsOwned, AgentsOwned, FreshPhase, SwallowPhase, FreshGone

LEMMA NextLeft == Typed /\ Left /\ [Next]_vars => Left'
<1> SUFFICES ASSUME Typed, Left, [Next]_vars PROVE Left'
  OBVIOUS
<1>0. Typed'
  BY NextTyped
<1>1. ASSUME NEW p \in Run, Deploy(p) PROVE Left'
  BY <1>0, <1>1, ChooseLeft, ProvisionLeft, TeardownLeft DEF Deploy
<1>2. ASSUME NEW u \in Undo, Undeploy(u) PROVE Left'
  BY <1>0, <1>2, UndeployLeft
<1>3. ASSUME NEW o \in Again, Start(o) PROVE Left'
  BY <1>0, <1>3, StartLeft
<1>4. ASSUME NEW p \in Proc, Crash(p) PROVE Left'
  BY <1>0, <1>4, CrashLeft
<1>5. ASSUME NEW s \in Box,
             \/ Stop(s) \/ IdlesOut(s) \/ Boots(s) \/ AgentExits(s)
             \/ \E x \in {"ready", "denied"} : AgentSays(s, x)
      PROVE  Left'
  BY <1>0, <1>5, SurroundingsLeft
<1>6. CASE UNCHANGED vars
  <2>1. UNCHANGED <<box, inside, at, sb, fresh, swallowed>>
    BY <1>6 DEF vars
  <2> QED BY <1>0, <2>1, QuietLeft
<1> QED BY <1>1, <1>2, <1>3, <1>4, <1>5, <1>6 DEF Next

\* A deploy that failed and could clean up has left nothing of its own, however
\* many deploys, undeploys and starts run beside it and wherever they die.
THEOREM FailedRunsLeaveNothing == Spec => []FailedRunLeavesNothing
<1>1. ASSUME Typed, Left PROVE FailedRunLeavesNothing
  <2> SUFFICES ASSUME NEW p \in Run \ swallowed, at[p] = "failed", sb[p] # None
               PROVE  /\ inside[sb[p]].env # p /\ inside[sb[p]].verify # p
                      /\ LET a == inside[sb[p]].agent
                         IN a # None /\ a.env = p => a.term
                      /\ p \in fresh => ~ Live(sb[p])
    BY DEF FailedRunLeavesNothing
  <2>1. sb[p] \in Box /\ p \in Run
    BY <1>1 DEF Typed, TypeOK, Proc
  <2>2. ~ Owns(p)
    BY DEF Owns
  <2>3. inside[sb[p]].env # p /\ inside[sb[p]].verify # p
    BY <2>1, <2>2, <1>1 DEF Left, SecretsOwned
  <2>4. LET a == inside[sb[p]].agent IN a # None /\ a.env = p => a.term
    BY <2>1, <2>2, <1>1 DEF Left, AgentsOwned
  <2>5. p \in fresh => ~ Live(sb[p])
    BY <1>1 DEF Left, FreshGone, Live
  <2> QED BY <2>3, <2>4, <2>5
<1>2. Spec => []Left
  BY InitLeft, NextLeft, TypedAlways, PTL DEF Spec
<1> QED BY <1>1, <1>2, TypedAlways, PTL

-----------------------------------------------------------------------------
(* Kept: what the state file says, while one deploy or undeploy runs at a  *)
(* time and a sandbox that exists is not taken for one that does not.      *)

\* Steps that neither touch the state file nor make a sandbox or end one.
LEMMA QuietKept ==
  ASSUME Typed, Kept,
         \A p \in Run \cup Undo : at'[p] = at[p] /\ sb'[p] = sb[p],
         UNCHANGED <<forever, mapping>>,
         \A s \in Box : /\ box'[s] = "none" => box[s] = "none"
                        /\ Live(s)' => Live(s)
  PROVE  Kept'
<1>1. \A s \in forever : s \in Box
  BY DEF Typed, TypeOK
<1>2. OneAtATime'
  BY DEF Kept, OneAtATime, Active
<1>3. ForeverExists' /\ NoForeverOrphan'
  BY <1>1 DEF Kept, ForeverExists, NoForeverOrphan
<1>4. ASSUME NEW p \in Run PROVE RunKnows(p)'
  <2>1. at'[p] = at[p] /\ sb'[p] = sb[p] /\ RunKnows(p)
    BY DEF Kept
  <2> QED BY <2>1, <1>1 DEF RunKnows
<1>5. ASSUME NEW u \in Undo PROVE UndoKnows(u)'
  <2>1. at'[u] = at[u] /\ sb'[u] = sb[u] /\ UndoKnows(u)
    BY DEF Kept
  <2>2. at[u] \in {"forget", "save"} => sb[u] \in Box
    BY DEF Typed, TypeOK, Proc, Over, Choosing
  <2> QED BY <2>1, <2>2 DEF UndoKnows
<1> QED BY <1>2, <1>3, <1>4, <1>5 DEF Kept

\* Steps of the one that is at work: the others have nothing to keep.
LEMMA MineKept ==
  ASSUME NEW p \in Run \cup Undo, Typed,
         \A q \in Run \cup Undo : q # p => ~ Active(q) /\ at'[q] = at[q],
         ForeverExists', NoForeverOrphan',
         p \in Run => RunKnows(p)', p \in Undo => UndoKnows(p)'
  PROVE  Kept'
<1>1. OneAtATime'
  BY DEF OneAtATime, Active
<1>2. ASSUME NEW q \in Run PROVE RunKnows(q)'
  BY <1>2 DEF RunKnows, Active, Over, Provisioning
<1>3. ASSUME NEW u \in Undo PROVE UndoKnows(u)'
  BY <1>3 DEF UndoKnows, Active, Over
<1> QED BY <1>1, <1>2, <1>3 DEF Kept

LEMMA DeployKept ==
  ASSUME Typed, Kept, ~ Overlap, ~ StatusFails, NEW p \in Run, Deploy(p)
  PROVE  Kept'
<1>0. /\ p \in Proc /\ p \notin Undo
      /\ \A s \in forever : s \in Box /\ box[s] # "none" /\ (Live(s) => mapping = s)
      /\ RunKnows(p)
  BY DeployAssumption
  DEF Proc, Typed, TypeOK, Kept, ForeverExists, NoForeverOrphan
<1>1. Active(p) \/ Begin(p)
  BY DEF Deploy, Choose, Lookup, StatusOfMapped, Match, Create, StartReused,
         StartBox, WaitForBox, WaitRunning, Record, Provision, AuthProbe, PATReset,
         KeepPAT, Install, EnvWrite, Kill, ScriptWrite, LaunchExec, VerifyLaunch,
         SetAutostop, Remote, Teardown, Shred, Delete, Pkill, Active, Over
<1>2. \A q \in Run \cup Undo : q # p => ~ Active(q)
  BY <1>1 DEF Begin, MayBegin, Kept, OneAtATime
<1>3. \A q \in Run \cup Undo : q # p => at'[q] = at[q]
  BY <1>0 DEF Deploy, Choose, Begin, Lookup, StatusOfMapped, Match, Create,
         StartReused, StartBox, WaitForBox, WaitRunning, Record, Provision,
         AuthProbe, PATReset, KeepPAT, Install, EnvWrite, Kill, ScriptWrite,
         LaunchExec, VerifyLaunch, SetAutostop, Remote, Teardown, Shred, Delete,
         Pkill, Goes, Typed, TypeOK, Proc
<1> USE DEF Provisioning
<1>4. ASSUME ForeverExists', NoForeverOrphan', RunKnows(p)' PROVE Kept'
  BY <1>0, <1>2, <1>3, <1>4, MineKept
<1>5. CASE Begin(p)
  BY <1>0, <1>4, <1>5
  DEF Begin, Goes, RunKnows, ForeverExists, NoForeverOrphan, Live, Typed, TypeOK
<1>6. CASE Lookup(p)
  BY <1>0, <1>4, <1>6, DeployAssumption
  DEF Lookup, Goes, RunKnows, ForeverExists, NoForeverOrphan, Live, Typed, TypeOK
<1>7. CASE StatusOfMapped(p)
  BY <1>0, <1>4, <1>7
  DEF StatusOfMapped, Found, Goes, RunKnows, ForeverExists, NoForeverOrphan, Live,
      Typed, TypeOK
<1>8. CASE Match(p)
  BY <1>0, <1>4, <1>8
  DEF Match, Found, Goes, RunKnows, ForeverExists, NoForeverOrphan, Live, Typed,
      TypeOK
<1>9. CASE Create(p)
  BY <1>0, <1>4, <1>9
  DEF Create, Goes, RunKnows, ForeverExists, NoForeverOrphan, Live, Typed, TypeOK
<1>10. CASE StartReused(p)
  BY <1>0, <1>4, <1>10
  DEF StartReused, StartBox, Goes, RunKnows, ForeverExists, NoForeverOrphan, Live,
      Typed, TypeOK
<1>11. CASE WaitForBox(p)
  BY <1>0, <1>4, <1>11
  DEF WaitForBox, WaitRunning, IfFresh, Goes, RunKnows, ForeverExists,
      NoForeverOrphan, Live, Typed, TypeOK
<1>12. CASE Record(p)
  BY <1>0, <1>4, <1>12
  DEF Record, IfFresh, Goes, RunKnows, ForeverExists, NoForeverOrphan, Live, Typed,
      TypeOK
<1>13. CASE SetAutostop(p)
  BY <1>0, <1>4, <1>13
  DEF SetAutostop, Goes, RunKnows, ForeverExists, NoForeverOrphan, Live, Typed,
      TypeOK
<1>14. CASE Provision(p) /\ ~ SetAutostop(p)
  <2>1. UNCHANGED <<box, forever, mapping, sb>> /\ at[p] \in Provisioning
    BY <1>14 DEF Provision, AuthProbe, PATReset, KeepPAT, Install, EnvWrite, Kill,
         ScriptWrite, LaunchExec, VerifyLaunch, Remote
  <2>2. at'[p] \in Provisioning \cup {"shred", "deleteFresh", "failed"}
    BY <1>0, <1>14 DEF Provision, AuthProbe, PATReset, KeepPAT, Install, EnvWrite,
         Kill, ScriptWrite, LaunchExec, VerifyLaunch, Remote, Goes, IfFresh, Typed,
         TypeOK
  <2> QED BY <1>0, <1>4, <2>1, <2>2
      DEF RunKnows, ForeverExists, NoForeverOrphan, Live
<1>15. CASE Teardown(p)
  <2>1. UNCHANGED <<forever, mapping, sb>>
    BY <1>15 DEF Teardown, Shred, Delete, Pkill
  <2>2. at'[p] \in {"delete", "pkill", "failed"}
    BY <1>0, <1>15 DEF Teardown, Shred, Delete, Pkill, Goes, Typed, TypeOK
  <2>3. \A s \in Box : box'[s] = box[s] \/ box'[s] = "gone"
    BY <1>15 DEF Teardown, Shred, Delete, Pkill, Ssh, Gone, Swallow, Typed, TypeOK
  <2> QED BY <1>0, <1>4, <2>1, <2>2, <2>3
      DEF RunKnows, ForeverExists, NoForeverOrphan, Live
<1> QED BY <1>5, <1>6, <1>7, <1>8, <1>9, <1>10, <1>11, <1>12, <1>13, <1>14, <1>15
    DEF Deploy, Choose

LEMMA UndeployKept ==
  ASSUME Typed, Kept, ~ Overlap, NEW u \in Undo, Undeploy(u)
  PROVE  Kept'
<1>0. /\ u \in Proc /\ u \notin Run
      /\ \A s \in forever : s \in Box /\ box[s] # "none" /\ (Live(s) => mapping = s)
      /\ UndoKnows(u)
  BY DeployAssumption
  DEF Proc, Typed, TypeOK, Kept, ForeverExists, NoForeverOrphan
<1>1. Active(u) \/ UndeployBegins(u)
  BY DEF Undeploy, UndeployShreds, UndeployDeletes, ForgetReads, ForgetSaves,
         Active, Over
<1>2. \A q \in Run \cup Undo : q # u => ~ Active(q)
  BY <1>1 DEF UndeployBegins, MayBegin, Kept, OneAtATime
<1>3. \A q \in Run \cup Undo : q # u => at'[q] = at[q]
  BY <1>0 DEF Undeploy, UndeployBegins, Resolve, UndeployShreds, UndeployDeletes,
         ForgetReads, ForgetSaves, Goes, Typed, TypeOK, Proc
<1>4. ASSUME ForeverExists', NoForeverOrphan', UndoKnows(u)' PROVE Kept'
  BY <1>0, <1>2, <1>3, <1>4, MineKept
<1>5. CASE UndeployBegins(u) \/ UndeployShreds(u)
  BY <1>0, <1>4, <1>5
  DEF UndeployBegins, Resolve, UndeployShreds, Goes, UndoKnows, ForeverExists,
      NoForeverOrphan, Live, Typed, TypeOK
<1>6. CASE UndeployDeletes(u)
  <2>1. sb[u] \in Box
    BY <1>0, <1>6 DEF UndeployDeletes, Typed, TypeOK, Over, Choosing
  <2> QED BY <1>0, <1>4, <1>6, <2>1
      DEF UndeployDeletes, Gone, Goes, UndoKnows, ForeverExists, NoForeverOrphan,
          Live, Typed, TypeOK
<1>7. CASE ForgetReads(u)
  BY <1>0, <1>4, <1>7
  DEF ForgetReads, Goes, UndoKnows, ForeverExists, NoForeverOrphan, Live, Typed,
      TypeOK
<1>8. CASE ForgetSaves(u)
  BY <1>0, <1>4, <1>8
  DEF ForgetSaves, Goes, UndoKnows, ForeverExists, NoForeverOrphan, Live, Typed,
      TypeOK
<1> QED BY <1>5, <1>6, <1>7, <1>8 DEF Undeploy

LEMMA OthersKept ==
  ASSUME Typed, Kept,
         \/ \E o \in Again : Start(o)
         \/ \E s \in Box : \/ Stop(s) \/ IdlesOut(s) \/ Boots(s) \/ AgentExits(s)
                           \/ \E x \in {"ready", "denied"} : AgentSays(s, x)
         \/ UNCHANGED vars
  PROVE  Kept'
<1>1. CASE \E o \in Again : Start(o)
  <2>1. /\ \A p \in Run \cup Undo : at'[p] = at[p] /\ sb'[p] = sb[p]
        /\ UNCHANGED <<forever, mapping>>
    BY <1>1, DeployAssumption
    DEF Start, StartBegins, Resolve, StartStatus, StartStarts, StartBox, StartWaits,
        WaitRunning, Relaunch, Remote, StartVerifies, Goes, Typed, TypeOK, Proc
  <2>2. \A s \in Box : /\ box'[s] = "none" => box[s] = "none"
                       /\ Live(s)' => Live(s)
    BY <1>1
    DEF Start, StartBegins, Resolve, StartStatus, StartStarts, StartBox, StartWaits,
        WaitRunning, Relaunch, Remote, StartVerifies, Live, Typed, TypeOK
  <2> QED BY <2>1, <2>2, QuietKept
<1>2. CASE \E s \in Box : \/ Stop(s) \/ IdlesOut(s) \/ Boots(s) \/ AgentExits(s)
                         \/ \E x \in {"ready", "denied"} : AgentSays(s, x)
  <2>1. UNCHANGED <<at, sb, forever, mapping>>
    BY <1>2 DEF Stop, IdlesOut, Stopped, Boots, AgentExits, AgentSays
  <2>2. \A s \in Box : /\ box'[s] = "none" => box[s] = "none"
                       /\ Live(s)' => Live(s)
    BY <1>2 DEF Stop, IdlesOut, Stopped, Boots, AgentExits, AgentSays, Live, Typed,
                TypeOK
  <2> QED BY <2>1, <2>2, QuietKept
<1>3. CASE UNCHANGED vars
  <2>1. UNCHANGED <<box, at, sb, forever, mapping>>
    BY <1>3 DEF vars
  <2>2. \A s \in Box : Live(s)' => Live(s)
    BY <2>1 DEF Live
  <2> QED BY <2>1, <2>2, QuietKept
<1> QED BY <1>1, <1>2, <1>3

LEMMA CrashKept ==
  ASSUME Typed, Kept, NEW p \in Proc, Crash(p)
  PROVE  Kept'
<1>1. /\ UNCHANGED <<box, forever, mapping, sb>>
      /\ at'[p] = "crashed" /\ \A q \in Proc : q # p => at'[q] = at[q]
  BY DEF Crash, Typed, TypeOK
<1>2. OneAtATime'
  BY <1>1 DEF Kept, OneAtATime, Active, Over, Proc
<1>3. ForeverExists' /\ NoForeverOrphan'
  BY <1>1 DEF Kept, ForeverExists, NoForeverOrphan, Live
<1>4. ASSUME NEW q \in Run PROVE RunKnows(q)'
  <2>1. RunKnows(q) /\ q \in Proc
    BY DEF Kept, Proc
  <2> QED BY <1>1, <2>1 DEF RunKnows, Live, Provisioning
<1>5. ASSUME NEW u \in Undo PROVE UndoKnows(u)'
  <2>1. UndoKnows(u) /\ u \in Proc
    BY DEF Kept, Proc
  <2> QED BY <1>1, <2>1 DEF UndoKnows, Live
<1> QED BY <1>2, <1>3, <1>4, <1>5 DEF Kept

LEMMA InitKept == Init => Kept
BY DEF Init, Kept, OneAtATime, Active, Over, ForeverExists, NoForeverOrphan,
       RunKnows, UndoKnows, Provisioning, Proc

\* While one deploy or undeploy runs at a time and the status of a sandbox that
\* exists arrives, every sandbox that never idles out is the one in the state
\* file, wherever an invocation fails or dies.  The run DeployStatusLost shows
\* what becomes of it without the second assumption.
THEOREM NoneOrphaned ==
  ASSUME ~ Overlap, ~ StatusFails
  PROVE  Spec => []NoForeverOrphan
<1>1. Typed /\ Kept /\ [Next]_vars => Kept'
  <2> SUFFICES ASSUME Typed, Kept, [Next]_vars PROVE Kept'
    OBVIOUS
  <2>1. ASSUME NEW p \in Run, Deploy(p) PROVE Kept'
    BY <2>1, DeployKept
  <2>2. ASSUME NEW u \in Undo, Undeploy(u) PROVE Kept'
    BY <2>2, UndeployKept
  <2>3. ASSUME NEW p \in Proc, Crash(p) PROVE Kept'
    BY <2>3, CrashKept
  <2> QED BY <2>1, <2>2, <2>3, OthersKept DEF Next
<1>2. Kept => NoForeverOrphan
  BY DEF Kept
<1> QED BY <1>1, <1>2, InitKept, TypedAlways, PTL DEF Spec

-----------------------------------------------------------------------------
(* The baked PAT: whatever a step leaves in a sandbox, an agent launched   *)
(* in env mode is covered by the stub.                                     *)

Covered(c) == c.agent # None /\ Mode[c.agent.by] = "env" => c.stub

LEMMA LaunchedCovered ==
  ASSUME NEW c \in Content, Covered(c)
  PROVE  Covered(Launched(c))
<1>1. CASE c.script = None
  BY <1>1 DEF Launched
<1>2. CASE c.script # None
  <2> DEFINE b == c.stub \/ Stubs(c.script)
             d == [c EXCEPT !.stub = b]
             a == [by |-> c.script, env |-> c.env, term |-> FALSE]
             l == [c.log EXCEPT ![c.script] = {"stamp"}]
  <2>1. d.log = c.log /\ d.agent = c.agent /\ d.stub = b
    BY DEF Content
  <2>2. CASE c.env = None \/ c.agent # None
    <3>1. Launched(c) = d
      BY <1>2, <2>2 DEF Launched
    <3>2. c.stub => b
      OBVIOUS
    <3> HIDE DEF b, d
    <3> QED BY <2>1, <3>1, <3>2 DEF Covered
  <2>3. CASE ~ (c.env = None \/ c.agent # None)
    <3>1. Launched(c) = [d EXCEPT !.agent = a, !.log = l]
      BY <1>2, <2>1, <2>3 DEF Launched, Content
    <3>2. Mode[c.script] = "env" => b
      BY DEF Stubs
    <3>3. a.by = c.script
      OBVIOUS
    <3> HIDE DEF b, a, l
    <3>4. Launched(c).stub = b /\ Launched(c).agent = a
      BY <3>1 DEF Content
    <3> QED BY <3>2, <3>3, <3>4 DEF Covered
  <2> QED BY <2>2, <2>3
<1> QED BY <1>1, <1>2

\* What can become of the agent and the stub in a step.
Becomes(c, d) ==
  \/ d = c \/ d.agent = None \/ d = Launched(c)
  \/ c.agent # None /\ d.agent # None /\ d.agent.by = c.agent.by /\ (c.stub => d.stub)

LEMMA ContentBecomes ==
  ASSUME NEW c \in Content, NEW p
  PROVE  /\ Becomes(c, [c EXCEPT !.stub = TRUE])
         /\ Becomes(c, [c EXCEPT !.verify = p])
         /\ Becomes(c, [c EXCEPT !.env = p])
         /\ Becomes(c, [c EXCEPT !.script = p])
         /\ Becomes(c, [c EXCEPT !.agent = None])
         /\ Becomes(c, [c EXCEPT !.log = p])
         /\ Becomes(c, Shredded(c)) /\ Becomes(c, Terminated(c))
         /\ Becomes(c, Empty)
<1>1. \A d : d.agent = c.agent /\ (c.stub => d.stub) => Becomes(c, d)
  BY DEF Becomes
<1>2. /\ Becomes(c, [c EXCEPT !.verify = p]) /\ Becomes(c, [c EXCEPT !.env = p])
      /\ Becomes(c, [c EXCEPT !.script = p]) /\ Becomes(c, [c EXCEPT !.log = p])
  BY <1>1 DEF Content
<1>3. Becomes(c, [c EXCEPT !.stub = TRUE])
  BY <1>1 DEF Content
<1>4. Becomes(c, [c EXCEPT !.agent = None])
  BY DEF Becomes, Content
<1>5. Becomes(c, Shredded(c))
  <2>1. Shredded(c).agent = c.agent /\ Shredded(c).stub = c.stub
    BY DEF Shredded, Content
  <2> QED BY <2>1, <1>1
<1>6. Becomes(c, Terminated(c))
  BY DEF Becomes, Terminated, Content, Agent
<1>7. Becomes(c, Empty)
  BY DEF Becomes, Empty
<1> QED BY <1>2, <1>3, <1>4, <1>5, <1>6, <1>7

LEMMA NextBecomes ==
  ASSUME Typed, Next, NEW s \in Box
  PROVE  Becomes(inside[s], inside'[s])
<1>1. CASE inside'[s] = inside[s]
  BY <1>1 DEF Becomes
<1>2. /\ inside \in [Box -> Content]
      /\ \A p \in Proc : sb[p] = s => Inside(p) = inside[s]
  BY DEF Typed, TypeOK, Inside
<1>3. ASSUME NEW p \in Proc, NEW c, Ssh(p, c), Becomes(Inside(p), c)
      PROVE  Becomes(inside[s], inside'[s])
  BY <1>1, <1>2, <1>3 DEF Ssh
<1>4. ASSUME NEW p \in Proc, NEW from, NEW to, NEW bad, NEW c,
             Remote(p, from, to, bad, c), sb[p] = s => Becomes(Inside(p), c)
      PROVE  Becomes(inside[s], inside'[s])
  BY <1>1, <1>2, <1>4 DEF Remote, Ssh
<1>5. ASSUME NEW p \in Run, Choose(p) PROVE inside'[s] = inside[s]
  BY <1>5 DEF Choose, Begin, Lookup, StatusOfMapped, Match, Create, StartReused,
         StartBox, WaitForBox, WaitRunning, Record
<1>6. ASSUME NEW p \in Run, Provision(p) PROVE Becomes(inside[s], inside'[s])
  <2>1. p \in Proc
    BY DEF Proc
  <2>2. CASE AuthProbe(p) \/ KeepPAT(p) \/ VerifyLaunch(p) \/ SetAutostop(p)
    BY <1>1, <2>2 DEF AuthProbe, KeepPAT, VerifyLaunch, SetAutostop
  <2>3. CASE PATReset(p) \/ Install(p)
    BY <1>2, <1>4, <2>1, <2>3, ContentBecomes DEF PATReset, Install
  <2>4. CASE EnvWrite(p) \/ Kill(p) \/ ScriptWrite(p)
    BY <1>2, <1>4, <2>1, <2>4, ContentBecomes DEF EnvWrite, Kill, ScriptWrite
  <2>5. CASE LaunchExec(p)
    BY <1>2, <1>4, <2>1, <2>5 DEF LaunchExec, Becomes
  <2> QED BY <1>6, <2>2, <2>3, <2>4, <2>5 DEF Provision
<1>6a. inside'[s] \in {Shredded(inside[s]), Terminated(inside[s]), Empty}
         => Becomes(inside[s], inside'[s])
  BY <1>2, ContentBecomes
<1>7. ASSUME NEW p \in Run, Teardown(p) PROVE Becomes(inside[s], inside'[s])
  <2>1. inside'[s] \in {inside[s], Shredded(inside[s]), Terminated(inside[s]), Empty}
    BY <1>2, <1>7 DEF Teardown, Shred, Delete, Pkill, Ssh, Gone, Swallow, Inside, Proc
  <2> QED BY <2>1, <1>1, <1>6a
<1>8. ASSUME NEW u \in Undo, Undeploy(u) PROVE Becomes(inside[s], inside'[s])
  <2>1. inside'[s] \in {inside[s], Shredded(inside[s]), Empty}
    BY <1>2, <1>8 DEF Undeploy, UndeployBegins, Resolve, UndeployShreds,
       UndeployDeletes, ForgetReads, ForgetSaves, Ssh, Gone, Inside, Proc
  <2> QED BY <2>1, <1>1, <1>6a
<1>9. ASSUME NEW o \in Again, Start(o) PROVE Becomes(inside[s], inside'[s])
  <2>1. CASE Relaunch(o)
    BY <1>2, <1>4, <2>1 DEF Relaunch, Becomes, Proc
  <2>2. CASE ~ Relaunch(o)
    BY <1>1, <1>9, <2>2 DEF Start, StartBegins, Resolve, StartStatus, StartStarts,
        StartBox, StartWaits, WaitRunning, StartVerifies
  <2> QED BY <2>1, <2>2
<1>10. ASSUME NEW p \in Proc, Crash(p) PROVE inside'[s] = inside[s]
  BY <1>10 DEF Crash
<1>11. ASSUME NEW t \in Box, Stop(t) \/ IdlesOut(t) \/ AgentExits(t)
       PROVE  Becomes(inside[s], inside'[s])
  BY <1>1, <1>2, <1>11, ContentBecomes DEF Stop, IdlesOut, Stopped, AgentExits
<1>12. ASSUME NEW t \in Box, Boots(t) PROVE Becomes(inside[s], inside'[s])
  <2>1. inside[t].agent = None
    BY <1>12 DEF Boots, Typed, TypeOK
  <2>2. [inside[t] EXCEPT !.stub = FALSE].agent = None
    BY <1>2, <2>1 DEF Content
  <2> QED BY <1>1, <1>2, <1>12, <2>2 DEF Boots, Becomes
<1>13. ASSUME NEW t \in Box, \E x \in {"ready", "denied"} : AgentSays(t, x)
       PROVE  Becomes(inside[s], inside'[s])
  <2>1. PICK x \in {"ready", "denied"} : AgentSays(t, x)
    BY <1>13
  <2> DEFINE l == [r \in Run |-> IF inside[t].log[r] = {} THEN {}
                                 ELSE inside[t].log[r] \cup {x}]
  <2>2. inside' = [inside EXCEPT ![t].log = l]
    BY <2>1 DEF AgentSays
  <2> HIDE DEF l
  <2>3. inside[s] \in Content /\ inside'[s] \in {inside[s], [inside[s] EXCEPT !.log = l]}
    BY <1>2, <2>2
  <2>4. inside'[s].agent = inside[s].agent /\ inside'[s].stub = inside[s].stub
    BY <2>3 DEF Content
  <2> QED BY <2>4 DEF Becomes
<1> QED BY <1>1, <1>5, <1>6, <1>7, <1>8, <1>9, <1>10, <1>11, <1>12, <1>13
    DEF Next, Deploy

\* An agent launched in env mode never has the baked PAT within its reach,
\* whichever invocation launched it and however often its sandbox restarts.
THEOREM PATStaysOutOfReach == Spec => []PATOutOfReach
<1> DEFINE Inv == \A s \in Box : Covered(inside[s])
<1>1. Init => Inv
  BY DEF Init, Empty, Covered
<1>2. Typed /\ Inv /\ [Next]_vars => Inv'
  <2> SUFFICES ASSUME Typed, Inv, [Next]_vars, NEW s \in Box
               PROVE  Covered(inside'[s])
    BY DEF Covered
  <2>1. CASE UNCHANGED vars
    BY <2>1 DEF vars
  <2>2. CASE Next
    <3>1. inside[s] \in Content /\ Covered(inside[s])
      BY DEF Typed, TypeOK
    <3>2. Covered(Launched(inside[s]))
      BY <3>1, LaunchedCovered
    <3>3. Becomes(inside[s], inside'[s])
      BY <2>2, NextBecomes
    <3> QED BY <3>1, <3>2, <3>3 DEF Becomes, Covered
  <2> QED BY <2>1, <2>2
<1>3. Inv => PATOutOfReach
  BY DEF Covered, PATOutOfReach
<1> QED BY <1>1, <1>2, <1>3, TypedAlways, PTL DEF Spec

-----------------------------------------------------------------------------
(* Single: what one deploy at a time finds and creates.                    *)

\* A deploy that takes a step while deploys and undeploys exclude each other is
\* the only one at work.
LEMMA Alone ==
  ASSUME Typed, OneAtATime, ~ Overlap, NEW p \in Run, Deploy(p)
  PROVE  \A q \in Run \cup Undo :
           q # p => ~ Active(q) /\ at'[q] = at[q] /\ sb'[q] = sb[q]
<1>1. Active(p) \/ Begin(p)
  BY DEF Deploy, Choose, Lookup, StatusOfMapped, Match, Create, StartReused,
         StartBox, WaitForBox, WaitRunning, Record, Provision, AuthProbe, PATReset,
         KeepPAT, Install, EnvWrite, Kill, ScriptWrite, LaunchExec, VerifyLaunch,
         SetAutostop, Remote, Teardown, Shred, Delete, Pkill, Active, Over
<1>2. \A q \in Run \cup Undo : q # p => ~ Active(q)
  BY <1>1 DEF Begin, MayBegin, OneAtATime
<1>3. \A q \in Run \cup Undo : q # p => at'[q] = at[q] /\ sb'[q] = sb[q]
  BY DEF Deploy, Choose, Begin, Lookup, StatusOfMapped, Match, Create,
         StartReused, StartBox, WaitForBox, WaitRunning, Record, Provision,
         AuthProbe, PATReset, KeepPAT, Install, EnvWrite, Kill, ScriptWrite,
         LaunchExec, VerifyLaunch, SetAutostop, Remote, Teardown, Shred, Delete,
         Pkill, Goes, Typed, TypeOK, Proc
<1> QED BY <1>2, <1>3

LEMMA AloneUndeploy ==
  ASSUME Typed, OneAtATime, ~ Overlap, NEW u \in Undo, Undeploy(u)
  PROVE  \A q \in Run \cup Undo :
           q # u => ~ Active(q) /\ at'[q] = at[q] /\ sb'[q] = sb[q]
<1>1. Active(u) \/ UndeployBegins(u)
  BY DEF Undeploy, UndeployShreds, UndeployDeletes, ForgetReads, ForgetSaves,
         Active, Over
<1>2. \A q \in Run \cup Undo : q # u => ~ Active(q)
  BY <1>1 DEF UndeployBegins, MayBegin, OneAtATime
<1>3. \A q \in Run \cup Undo : q # u => at'[q] = at[q] /\ sb'[q] = sb[q]
  BY DEF Undeploy, UndeployBegins, Resolve, UndeployShreds, UndeployDeletes,
         ForgetReads, ForgetSaves, Goes, Typed, TypeOK, Proc
<1> QED BY <1>2, <1>3

\* A start, and what the sandboxes do by themselves, move no deploy or undeploy.
LEMMA OthersStand ==
  ASSUME Typed,
         \/ \E o \in Again : Start(o)
         \/ \E s \in Box : \/ Stop(s) \/ IdlesOut(s) \/ Boots(s) \/ AgentExits(s)
                           \/ \E x \in {"ready", "denied"} : AgentSays(s, x)
         \/ UNCHANGED vars
  PROVE  \A p \in Run \cup Undo : at'[p] = at[p] /\ sb'[p] = sb[p]
<1>1. CASE \E o \in Again : Start(o)
  BY <1>1, DeployAssumption
  DEF Start, StartBegins, Resolve, StartStatus, StartStarts, StartBox, StartWaits,
      WaitRunning, Relaunch, Remote, StartVerifies, Goes, Typed, TypeOK, Proc
<1>2. CASE \E s \in Box : \/ Stop(s) \/ IdlesOut(s) \/ Boots(s) \/ AgentExits(s)
                         \/ \E x \in {"ready", "denied"} : AgentSays(s, x)
  BY <1>2 DEF Stop, IdlesOut, Stopped, Boots, AgentExits, AgentSays
<1>3. CASE UNCHANGED vars
  BY <1>3 DEF vars
<1> QED BY <1>1, <1>2, <1>3

LEMMA OneAtATimeNext ==
  ASSUME Typed, OneAtATime, ~ Overlap, [Next]_vars
  PROVE  OneAtATime'
<1>1. ASSUME NEW p \in Run, Deploy(p) PROVE OneAtATime'
  BY <1>1, Alone DEF OneAtATime, Active
<1>2. ASSUME NEW u \in Undo, Undeploy(u) PROVE OneAtATime'
  BY <1>2, AloneUndeploy DEF OneAtATime, Active
<1>3. ASSUME NEW p \in Proc, Crash(p) PROVE OneAtATime'
  BY <1>3 DEF Crash, OneAtATime, Active, Over, Typed, TypeOK, Proc
<1>4. ASSUME \A p \in Run \cup Undo : at'[p] = at[p] PROVE OneAtATime'
  BY <1>4 DEF OneAtATime, Active
<1> QED BY <1>1, <1>2, <1>3, <1>4, OthersStand DEF Next

\* Only SandboxCreate brings a sandbox to life.
LEMMA OnlyCreated ==
  ASSUME Typed, [Next]_vars, \A p \in Run : ~ Create(p), NEW s \in Box, Live(s)'
  PROVE  Live(s)
<1> USE DEF Live
<1>1. ASSUME NEW p \in Run, Choose(p) PROVE Live(s)
  BY <1>1 DEF Choose, Begin, Lookup, StatusOfMapped, Match, StartReused,
         StartBox, WaitForBox, WaitRunning, Record, Typed, TypeOK
<1>2. ASSUME NEW p \in Run, Provision(p) PROVE Live(s)
  BY <1>2 DEF Provision, AuthProbe, PATReset, KeepPAT, Install, EnvWrite, Kill,
         ScriptWrite, LaunchExec, VerifyLaunch, SetAutostop, Remote
<1>3. ASSUME NEW p \in Run, Teardown(p) PROVE Live(s)
  BY <1>3 DEF Teardown, Shred, Delete, Pkill, Gone, Swallow, Typed, TypeOK
<1>4. ASSUME NEW u \in Undo, Undeploy(u) PROVE Live(s)
  BY <1>4 DEF Undeploy, UndeployBegins, Resolve, UndeployShreds, UndeployDeletes,
         ForgetReads, ForgetSaves, Gone, Typed, TypeOK
<1>5. ASSUME NEW o \in Again, Start(o) PROVE Live(s)
  BY <1>5 DEF Start, StartBegins, Resolve, StartStatus, StartStarts, StartBox,
      StartWaits, WaitRunning, Relaunch, Remote, StartVerifies, Typed, TypeOK
<1>6. ASSUME NEW p \in Proc, Crash(p) PROVE Live(s)
  BY <1>6 DEF Crash
<1>7. ASSUME NEW t \in Box, \/ Stop(t) \/ IdlesOut(t) \/ Boots(t) \/ AgentExits(t)
                            \/ \E x \in {"ready", "denied"} : AgentSays(t, x)
      PROVE  Live(s)
  BY <1>7 DEF Stop, IdlesOut, Stopped, Boots, AgentExits, AgentSays, Typed, TypeOK
<1>8. CASE UNCHANGED vars
  BY <1>8 DEF vars
<1> QED BY <1>1, <1>2, <1>3, <1>4, <1>5, <1>6, <1>7, <1>8 DEF Next, Deploy

\* A deploy comes to create a sandbox only from a list without a match.
LEMMA MatchFirst ==
  ASSUME Typed, [Next]_vars, NEW p \in Run, at'[p] = "create", at[p] # "create"
  PROVE  Match(p) /\ Named = {}
<1>1. ASSUME NEW q \in Run, Deploy(q) PROVE q = p /\ Match(p)
  BY <1>1 DEF Deploy, Choose, Begin, Lookup, StatusOfMapped, Match, Create,
         StartReused, StartBox, WaitForBox, WaitRunning, Record, Found, IfFresh,
         Provision, AuthProbe, PATReset, KeepPAT, Install, EnvWrite, Kill,
         ScriptWrite, LaunchExec, VerifyLaunch, SetAutostop, Remote, Teardown,
         Shred, Delete, Pkill, Goes, Typed, TypeOK, Proc
<1>2. ASSUME NEW u \in Undo, Undeploy(u) PROVE FALSE
  BY <1>2, DeployAssumption
  DEF Undeploy, UndeployBegins, Resolve, UndeployShreds, UndeployDeletes,
      ForgetReads, ForgetSaves, Goes, Typed, TypeOK, Proc
<1>3. ASSUME NEW q \in Proc, Crash(q) PROVE FALSE
  BY <1>3 DEF Crash, Typed, TypeOK, Proc
<1>4. Match(p)
  BY <1>1, <1>2, <1>3, OthersStand DEF Next
<1>5. Named = {}
  BY <1>4 DEF Match, Found, Goes, Typed, TypeOK, Proc
<1> QED BY <1>4, <1>5

LEMMA SingleNext ==
  ASSUME NamesKept, ~ Overlap, Typed, Single, [Next]_vars
  PROVE  Single'
<1>1. OneAtATime'
  BY OneAtATimeNext DEF Single
<1>2. CASE \E p \in Run : Create(p)
  <2>1. PICK p \in Run : Create(p)
    BY <1>2
  <2>2. at[p] = "create" /\ at'[p] # "create" /\ \A s \in Box : ~ Live(s)
    BY <2>1 DEF Create, Goes, Single, Typed, TypeOK, Proc
  <2>3. OneSandbox'
    BY <2>1, <2>2 DEF Create, OneSandbox, Live, Typed, TypeOK
  <2>4. \A q \in Run : q # p => at'[q] # "create"
    BY <2>1, Alone DEF Deploy, Choose, Single, Active, Over
  <2> QED BY <1>1, <2>2, <2>3, <2>4 DEF Single
<1>3. CASE \A p \in Run : ~ Create(p)
  <2>1. \A s \in Box : Live(s)' => Live(s)
    BY <1>3, OnlyCreated
  <2>2. OneSandbox'
    BY <2>1 DEF Single, OneSandbox
  <2>3. \A p \in Run : at'[p] = "create" => \A s \in Box : ~ Live(s)
    BY MatchFirst DEF Single, Named
  <2> QED BY <1>1, <2>1, <2>2, <2>3 DEF Single
<1> QED BY <1>2, <1>3

\* Where the service keeps the names it is given and deploys and undeploys take
\* turns, there is never a second sandbox, whichever of them fail or die after
\* the create and whether or not the status of a sandbox arrives.
THEOREM NeverASecondSandbox ==
  ASSUME NamesKept, ~ Overlap
  PROVE  Spec => []OneSandbox
<1>1. Init => Single
  BY DEF Init, Single, OneAtATime, OneSandbox, Active, Over, Live, Proc
<1>2. Typed /\ Single /\ [Next]_vars => Single'
  BY SingleNext
<1>3. Single => OneSandbox
  BY DEF Single
<1> QED BY <1>1, <1>2, <1>3, TypedAlways, PTL DEF Spec

-----------------------------------------------------------------------------
(* Survives: the baked PAT from the probe of a zero-token deploy to its end. *)

\* The launch of a script of zero-token mode leaves the stub as it is.
LEMMA LaunchedStub ==
  ASSUME NEW c \in Content, c.script # None, ~ Stubs(c.script)
  PROVE  Launched(c).stub = c.stub
<1> DEFINE b == c.stub \/ Stubs(c.script)
           d == [c EXCEPT !.stub = b]
           a == [by |-> c.script, env |-> c.env, term |-> FALSE]
           l == [c.log EXCEPT ![c.script] = {"stamp"}]
<1>1. b = c.stub
  BY DEF Content
<1>2. d.log = c.log /\ d.stub = b
  BY DEF Content
<1>3. CASE c.env = None \/ c.agent # None
  <2>1. Launched(c) = d
    BY <1>3 DEF Launched
  <2> QED BY <2>1, <1>1, <1>2
<1>4. CASE ~ (c.env = None \/ c.agent # None)
  <2>1. Launched(c) = [d EXCEPT !.agent = a, !.log = l]
    BY <1>2, <1>4 DEF Launched, Content
  <2> HIDE DEF b, a, l
  <2>2. Launched(c).stub = b
    BY <2>1 DEF Content
  <2> QED BY <2>2, <1>1
<1> QED BY <1>3, <1>4

\* What Survives says of one deploy.
Spared(p) ==
  /\ Mode[p] = "sandbox" /\ at[p] \in Provisioning \ {"auth"} =>
       ~ inside[sb[p]].stub
  /\ at[p] = "launch" => inside[sb[p]].script = p

LEMMA ProvisionSpared ==
  ASSUME Typed, NEW p \in Run, Spared(p), Provision(p)
  PROVE  Spared(p)'
<1> DEFINE s == sb[p]
           c == inside[s]
<1>1. /\ p \in Proc /\ s \in Box /\ c \in Content
      /\ sb' = sb /\ Inside(p) = c
      /\ at[p] \in Provisioning
  <2>1. p \in Proc /\ at[p] \in Provisioning /\ sb' = sb
    BY DEF Provision, AuthProbe, PATReset, KeepPAT, Install, EnvWrite, Kill,
           ScriptWrite, LaunchExec, VerifyLaunch, SetAutostop, Remote, Proc,
           Provisioning
  <2> QED BY <2>1, DeployAssumption
      DEF Typed, TypeOK, Inside, Provisioning, Over, Choosing
<1> USE DEF Provisioning
<1>2. ASSUME NEW from, NEW to, NEW bad, NEW d, Remote(p, from, to, bad, d)
      PROVE  /\ at[p] = from
             /\ \/ at'[p] \in {to, bad} /\ inside'[s] = d
                \/ at'[p] = bad /\ inside'[s] = c
  BY <1>1, <1>2 DEF Remote, Ssh, Goes, Typed, TypeOK
<1>3. ASSUME inside'[s].stub = c.stub, at'[p] # "launch",
             at[p] # "auth" \/ at'[p] \notin Provisioning
      PROVE  Spared(p)'
  BY <1>1, <1>3 DEF Spared
<1>4. CASE AuthProbe(p) \/ KeepPAT(p)
  BY <1>1, <1>4 DEF AuthProbe, KeepPAT, Goes, IfFresh, Spared, Typed, TypeOK
<1>5. CASE VerifyLaunch(p) \/ SetAutostop(p)
  BY <1>1, <1>3, <1>5 DEF VerifyLaunch, SetAutostop, Goes, Typed, TypeOK
<1>6. CASE PATReset(p)
  BY <1>1, <1>2, <1>6 DEF PATReset, Spared
<1>7. CASE Install(p)
  <2> DEFINE d == [c EXCEPT !.verify = None]
             e == [c EXCEPT !.verify = p]
  <2>1. d.stub = c.stub /\ e.stub = c.stub
    BY <1>1 DEF Content
  <2>2. \/ Remote(p, "install", "env", "shred", d)
        \/ Remote(p, "install", "shred", "shred", e)
    BY <1>1, <1>7 DEF Install
  <2> HIDE DEF d, e
  <2> QED BY <1>2, <1>3, <2>1, <2>2
<1>8. CASE EnvWrite(p)
  <2> DEFINE d == [c EXCEPT !.env = p]
  <2>1. d.stub = c.stub
    BY <1>1 DEF Content
  <2>2. Remote(p, "env", "kill", "shred", d)
    BY <1>1, <1>8 DEF EnvWrite
  <2> HIDE DEF d
  <2> QED BY <1>2, <1>3, <2>1, <2>2
<1>9. CASE Kill(p)
  <2> DEFINE d == [c EXCEPT !.agent = None]
             e == Terminated(c)
  <2>1. d.stub = c.stub /\ e.stub = c.stub
    BY <1>1 DEF Content, Terminated
  <2>2. \/ Remote(p, "kill", "script", "shred", d)
        \/ Remote(p, "kill", "shred", "shred", e)
    BY <1>1, <1>9 DEF Kill
  <2> HIDE DEF d, e
  <2> QED BY <1>2, <1>3, <2>1, <2>2
<1>10. CASE ScriptWrite(p)
  <2> DEFINE d == [c EXCEPT !.script = p]
  <2>1. d.stub = c.stub /\ d.script = p
    BY <1>1 DEF Content
  <2>2. Remote(p, "script", "launch", "shred", d)
    BY <1>1, <1>10 DEF ScriptWrite
  <2> HIDE DEF d
  <2>3. /\ at[p] = "script"
        /\ \/ at'[p] \in {"launch", "shred"} /\ inside'[s] = d
           \/ at'[p] = "shred" /\ inside'[s] = c
    BY <1>2, <2>2
  <2> HIDE DEF c
  <2> QED BY <1>1, <2>1, <2>3 DEF Spared, c
<1>11. CASE LaunchExec(p)
  <2>1. Mode[p] = "sandbox" /\ at[p] = "launch" => Launched(c).stub = c.stub
    BY <1>1, LaunchedStub, DeployAssumption DEF Spared, Stubs
  <2> DEFINE d == Launched(c)
  <2> HIDE DEF d
  <2>2. /\ at[p] = "launch" /\ at'[p] \in {"verify", "shred"}
        /\ inside'[s] \in {d, c}
    BY <1>1, <1>2, <1>11 DEF LaunchExec, d
  <2> QED BY <1>1, <2>1, <2>2 DEF Spared, d
<1> QED BY <1>4, <1>5, <1>6, <1>7, <1>8, <1>9, <1>10, <1>11 DEF Provision

LEMMA DeploySpared ==
  ASSUME Typed, NEW p \in Run, Spared(p), Deploy(p)
  PROVE  Spared(p)'
<1>1. CASE Choose(p)
  <2>1. at'[p] \notin Provisioning \ {"auth"}
    BY <1>1 DEF Choose, Begin, Lookup, StatusOfMapped, Match, Create, StartReused,
         StartBox, WaitForBox, WaitRunning, Record, Found, IfFresh, Goes, Typed,
         TypeOK, Proc, Provisioning
  <2> QED BY <2>1 DEF Spared, Provisioning
<1>2. CASE Teardown(p)
  <2>1. at'[p] \notin Provisioning
    BY <1>2 DEF Teardown, Shred, Delete, Pkill, Goes, Typed, TypeOK, Proc,
         Provisioning
  <2> QED BY <2>1 DEF Spared, Provisioning
<1> QED BY <1>1, <1>2, ProvisionSpared DEF Deploy

\* No sandbox regains its stub by itself, nor another script.
LEMMA SurroundingsSpare ==
  ASSUME Typed, NEW p \in Run, Spared(p),
         \/ \E s \in Box : \/ Stop(s) \/ IdlesOut(s) \/ Boots(s) \/ AgentExits(s)
                           \/ \E x \in {"ready", "denied"} : AgentSays(s, x)
         \/ UNCHANGED vars
  PROVE  Spared(p)'
<1>1. at' = at /\ sb' = sb
  BY DEF Stop, IdlesOut, Stopped, Boots, AgentExits, AgentSays, vars
<1>2. ASSUME NEW t \in Box
      PROVE  /\ inside'[t].stub => inside[t].stub
             /\ inside'[t].script = inside[t].script
  <2>1. inside[t] \in Content
    BY DEF Typed, TypeOK
  <2>2. ASSUME NEW s \in Box, Stop(s) \/ IdlesOut(s) \/ AgentExits(s)
        PROVE  inside'[t] \in {inside[t], [inside[t] EXCEPT !.agent = None]}
    BY <2>2 DEF Stop, IdlesOut, Stopped, AgentExits, Typed, TypeOK
  <2>3. ASSUME NEW s \in Box, Boots(s)
        PROVE  inside'[t] \in {inside[t], [inside[t] EXCEPT !.stub = FALSE]}
    BY <2>3 DEF Boots, Typed, TypeOK
  <2>4. ASSUME NEW s \in Box, \E x \in {"ready", "denied"} : AgentSays(s, x)
        PROVE  \E l : inside'[t] \in {inside[t], [inside[t] EXCEPT !.log = l]}
    <3>1. PICK x \in {"ready", "denied"} : AgentSays(s, x)
      BY <2>4
    <3> DEFINE l == [r \in Run |-> IF inside[s].log[r] = {} THEN {}
                                   ELSE inside[s].log[r] \cup {x}]
    <3>2. inside' = [inside EXCEPT ![s].log = l]
      BY <3>1 DEF AgentSays
    <3> HIDE DEF l
    <3>3. inside'[t] \in {inside[t], [inside[t] EXCEPT !.log = l]}
      BY <3>2 DEF Typed, TypeOK
    <3> QED BY <3>3
  <2>5. /\ [inside[t] EXCEPT !.agent = None].stub = inside[t].stub
        /\ [inside[t] EXCEPT !.agent = None].script = inside[t].script
        /\ [inside[t] EXCEPT !.stub = FALSE].stub = FALSE
        /\ [inside[t] EXCEPT !.stub = FALSE].script = inside[t].script
    BY <2>1 DEF Content
  <2>6. ASSUME NEW l
        PROVE  /\ [inside[t] EXCEPT !.log = l].stub = inside[t].stub
               /\ [inside[t] EXCEPT !.log = l].script = inside[t].script
    BY <2>1 DEF Content
  <2>7. CASE UNCHANGED vars
    BY <2>7 DEF vars
  <2>8. CASE \E s \in Box : \E x \in {"ready", "denied"} : AgentSays(s, x)
    BY <2>4, <2>6, <2>8
  <2>9. CASE \E s \in Box : \/ Stop(s) \/ IdlesOut(s) \/ Boots(s) \/ AgentExits(s)
    <3>1. inside'[t] \in {inside[t], [inside[t] EXCEPT !.agent = None],
                          [inside[t] EXCEPT !.stub = FALSE]}
      BY <2>2, <2>3, <2>9
    <3> QED BY <3>1, <2>5
  <2> QED BY <2>7, <2>8, <2>9
<1>3. at[p] \in Provisioning => sb[p] \in Box
  BY DEF Typed, TypeOK, Proc, Provisioning, Over, Choosing
<1> QED BY <1>1, <1>2, <1>3 DEF Spared, Provisioning

LEMMA SurvivesNext ==
  ASSUME ~ Overlap, Again = {}, Typed, Survives, [Next]_vars
  PROVE  Survives'
<1> SUFFICES ASSUME NEW p \in Run PROVE Spared(p)'
  BY OneAtATimeNext DEF Survives, Spared, PATSurvives
<1>1. Spared(p) /\ p \in Proc /\ p \notin Undo
  BY DeployAssumption DEF Survives, Spared, PATSurvives, Proc
<1>2. ASSUME ~ Active(p), at'[p] = at[p] PROVE Spared(p)'
  BY <1>2 DEF Spared, Active, Over, Provisioning
<1>3. ASSUME NEW q \in Run, Deploy(q) PROVE Spared(p)'
  BY <1>1, <1>2, <1>3, Alone, DeploySpared DEF Survives
<1>4. ASSUME NEW u \in Undo, Undeploy(u) PROVE Spared(p)'
  BY <1>1, <1>2, <1>4, AloneUndeploy DEF Survives
<1>5. ASSUME NEW q \in Proc, Crash(q) PROVE Spared(p)'
  BY <1>1, <1>5 DEF Crash, Spared, Typed, TypeOK, Provisioning
<1> QED BY <1>1, <1>3, <1>4, <1>5, SurroundingsSpare DEF Next

\* While deploys and undeploys take turns and no start is run, the baked PAT that
\* a zero-token deploy has probed stays there until that deploy ends, although
\* earlier deploys may have left a script, an agent or a stub of env mode.  A
\* start beside the deploy may run a script of env mode, which writes the stub.
THEOREM ProbedPATSurvives ==
  ASSUME ~ Overlap, Again = {}
  PROVE  Spec => []PATSurvives
<1>1. Init => Survives
  BY DEF Init, Survives, PATSurvives, OneAtATime, Active, Over, Provisioning, Proc
<1>2. Typed /\ Survives /\ [Next]_vars => Survives'
  BY SurvivesNext
<1>3. Survives => PATSurvives
  BY DEF Survives
<1> QED BY <1>1, <1>2, <1>3, TypedAlways, PTL DEF Spec
=============================================================================
