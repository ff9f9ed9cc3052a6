------------------------------- MODULE Deploy -------------------------------
(***************************************************************************)
(* Deploying one agent identity (internal/deployflow, with the state file  *)
(* of internal/state and the sandboxes behind internal/lakebox): deploy,   *)
(* start, stop and undeploy, each an invocation of the provider that may   *)
(* die at any step, against sandboxes that boot, idle out and go away.     *)
(*                                                                         *)
(* A step is one call of the databricks command, one command sent over its *)
(* ssh, or one access to the state file.  A call that reports failure may  *)
(* still have had its effect: the reply can be lost, or the deadline pass. *)
(***************************************************************************)
EXTENDS Integers, FiniteSets

CONSTANTS
  Box,          \* the sandboxes there can be
  Run,          \* invocations of deploy
  Undo,         \* invocations of undeploy
  Again,        \* invocations of start
  None,         \* no sandbox, no run, no agent
  Mode,         \* inference_auth and keep_workspace_pat of a deploy
  NamesKept,    \* the service stores the names it is given
  StatusFails,  \* the status of a sandbox that exists may fail to arrive
  Overlap       \* deploys and undeploys may run at the same time

ASSUME DeployAssumption ==
  /\ None \notin Box /\ None \notin Run
  /\ Run \cap Undo = {} /\ Run \cap Again = {} /\ Undo \cap Again = {}
  /\ Mode \in [Run -> {"env", "keep", "sandbox"}]
  /\ {NamesKept, StatusFails, Overlap} \subseteq BOOLEAN

VARIABLES
  box,       \* what the service knows of each sandbox
  forever,   \* sandboxes with --no-autostop
  inside,    \* a sandbox's $HOME and processes
  mapping,   \* the identity's entry in agents.json
  at,        \* where each invocation is
  sb,        \* its sandboxID
  fresh,     \* deploys whose freshlyCreated is set
  swallowed  \* deploys one of whose cleanup calls failed

vars == <<box, forever, inside, mapping, at, sb, fresh, swallowed>>

-----------------------------------------------------------------------------
(* The data. *)

Proc == Run \cup Undo \cup Again

Agent == [by : Run, env : Run, term : BOOLEAN]

\* The files a deploy leaves, named by the deploy that wrote them; buzz-acp,
\* with the launch and the environment it was started from; the baked PAT; and
\* what acp.log says after a launch's stamp.
Content ==
  [env : Run \cup {None}, verify : Run \cup {None}, script : Run \cup {None},
   agent : Agent \cup {None}, stub : BOOLEAN,
   log : [Run -> SUBSET {"stamp", "ready", "denied"}]]

Empty ==
  [env |-> None, verify |-> None, script |-> None, agent |-> None,
   stub |-> FALSE, log |-> [r \in Run |-> {}]]

Live(s) == box[s] \in {"stopped", "starting", "running"}
Over == {"idle", "ok", "post", "failed", "crashed"}
Active(p) == at[p] \notin Over

\* Mutant: the launch script of zero-token mode writes the PAT stub.
StubsUnlessKept(r) == Mode[r] # "keep"

\* RenderLaunchScript's and provision's condition for the PAT stub.
Stubs(r) == Mode[r] = "env"

\* launch.sh is there, and the environment that it sources.
Runs(c) == c.script # None /\ c.env # None

\* Mutant: the launch script leaves the PAT stub to the deploy.
LaunchedUnstubbed(c) ==
  IF ~ Runs(c) \/ c.agent # None THEN c
  ELSE [c EXCEPT !.agent = [by |-> c.script, env |-> c.env, term |-> FALSE],
                 !.log[c.script] = {"stamp"}]

\* launch.sh: the stub, the environment, the guard, the stamp, the agent.
Launched(c) ==
  LET stubbed == [c EXCEPT !.stub = c.stub \/ Stubs(c.script)] IN
    IF c.script = None THEN c
    ELSE IF c.env = None \/ c.agent # None THEN stubbed
    ELSE [stubbed EXCEPT
            !.agent = [by |-> c.script, env |-> c.env, term |-> FALSE],
            !.log[c.script] = {"stamp"}]

\* secretShredCommand.
Shredded(c) == [c EXCEPT !.env = None, !.verify = None]

\* pkill -f '[b]uzz-acp': SIGTERM, and the agent drains.
Terminated(c) ==
  IF c.agent = None THEN c ELSE [c EXCEPT !.agent.term = TRUE]

\* verifyLaunch without a launch id.
ReadyAnywhere(c, r) ==
  c.agent # None /\ \E q \in Run : "ready" \in c.log[q]

\* verifyLaunch with a launch id.
Ready(c, r) ==
  c.agent # None /\ "ready" \in c.log[r] /\ "denied" \notin c.log[r]

Init ==
  /\ box = [s \in Box |-> "none"]
  /\ forever = {}
  /\ inside = [s \in Box |-> Empty]
  /\ mapping = None
  /\ at = [p \in Proc |-> "idle"]
  /\ sb = [p \in Proc |-> None]
  /\ fresh = {}
  /\ swallowed = {}

-----------------------------------------------------------------------------
(* What every step is made of. *)

Goes(p, to) == at' = [at EXCEPT ![p] = to]

\* A command over ssh to p's sandbox, which must run; c is what it leaves.
Ssh(p, c) ==
  /\ box[sb[p]] = "running"
  /\ inside' = [inside EXCEPT ![sb[p]] = c]

\* A step of deploy or start over ssh: it works, or its reply is lost, or it
\* fails with nothing done.
Remote(p, from, to, bad, c) ==
  /\ at[p] = from
  /\ \/ Ssh(p, c) /\ (Goes(p, to) \/ Goes(p, bad))
     \/ Goes(p, bad) /\ UNCHANGED inside
  /\ UNCHANGED <<box, forever, mapping, sb, fresh, swallowed>>

\* Mutant: the poll loop has no deadline.
WaitForEver(p, from, to, bad) ==
  /\ at[p] = from
  /\ box[sb[p]] \in {"running", "gone"}
  /\ Goes(p, IF box[sb[p]] = "running" THEN to ELSE bad)
  /\ UNCHANGED <<box, forever, inside, mapping, sb, fresh, swallowed>>

\* SandboxStart: a sandbox that is up or booting stays so.
StartBox(p, from, to, bad) ==
  /\ at[p] = from
  /\ \/ /\ Live(sb[p])
        /\ box' = [box EXCEPT ![sb[p]] = IF @ = "stopped" THEN "starting" ELSE @]
        /\ Goes(p, to) \/ Goes(p, bad)
     \/ Goes(p, bad) /\ UNCHANGED box
  /\ UNCHANGED <<forever, inside, mapping, sb, fresh, swallowed>>

\* WaitRunning: it polls until the sandbox runs, a poll fails or time is up.
WaitRunning(p, from, to, bad) ==
  /\ at[p] = from
  /\ \/ box[sb[p]] = "running" /\ Goes(p, to)
     \/ Goes(p, bad)
  /\ UNCHANGED <<box, forever, inside, mapping, sb, fresh, swallowed>>

\* SandboxDelete, best effort or not.
Gone(s) ==
  /\ box' = [box EXCEPT ![s] = "gone"]
  /\ inside' = [inside EXCEPT ![s] = Empty]

-----------------------------------------------------------------------------
(* deploy: which sandbox. *)

MayBegin == Overlap \/ \A p \in Run \cup Undo : ~ Active(p)

\* Validation and preflight change nothing, whether they pass or fail.
Begin(p) ==
  /\ at[p] = "idle"
  /\ MayBegin
  /\ Goes(p, "lookup") \/ Goes(p, "failed")
  /\ UNCHANGED <<box, forever, inside, mapping, sb, fresh, swallowed>>

\* State.Lookup.
Lookup(p) ==
  /\ at[p] = "lookup"
  /\ \/ mapping = None /\ Goes(p, "match") /\ UNCHANGED sb
     \/ mapping # None /\ Goes(p, "status")
          /\ sb' = [sb EXCEPT ![p] = mapping]
     \/ Goes(p, "failed") /\ UNCHANGED sb
  /\ UNCHANGED <<box, forever, inside, mapping, fresh, swallowed>>

\* Where a sandbox that was found goes next.
Found(s) == IF box[s] = "running" THEN "record" ELSE "start"

\* SandboxStatus of the recorded sandbox: any error falls through to the match.
\* When the deadline has passed, that fails in its turn.
StatusOfMapped(p) ==
  /\ at[p] = "status"
  /\ \/ Live(sb[p]) /\ Goes(p, Found(sb[p])) /\ UNCHANGED sb
     \/ /\ ~ Live(sb[p]) \/ StatusFails
        /\ Goes(p, "match")
        /\ sb' = [sb EXCEPT ![p] = None]
     \/ Goes(p, "failed") /\ sb' = [sb EXCEPT ![p] = None]
  /\ UNCHANGED <<box, forever, inside, mapping, fresh, swallowed>>

\* Mutant: only sandboxes that run are matched.
NamedRunning == IF NamesKept THEN {s \in Box : box[s] = "running"} ELSE {}

Named == IF NamesKept THEN {s \in Box : Live(s)} ELSE {}

\* matchOrCreate: list and match the name prefix.  Two matches are ambiguous.
Match(p) ==
  /\ at[p] = "match"
  /\ \/ Named = {} /\ Goes(p, "create") /\ UNCHANGED sb
     \/ \E s \in Named :
          /\ Named = {s}
          /\ Goes(p, Found(s))
          /\ sb' = [sb EXCEPT ![p] = s]
     \/ Goes(p, "failed") /\ UNCHANGED sb
  /\ UNCHANGED <<box, forever, inside, mapping, fresh, swallowed>>

\* Mutant: freshlyCreated is set before the outcome is known.
CreateMarksFirst(p) ==
  /\ at[p] = "create"
  /\ fresh' = fresh \cup {p}
  /\ \/ \E s \in Box :
          /\ box[s] = "none"
          /\ box' = [box EXCEPT ![s] = "starting"]
          /\ Goes(p, "wait") /\ sb' = [sb EXCEPT ![p] = s]
     \/ Goes(p, "failed") /\ UNCHANGED <<box, sb>>
  /\ UNCHANGED <<forever, inside, mapping, swallowed>>

\* SandboxCreate.  If the reply is lost, nobody knows the new sandbox's id.
Create(p) ==
  /\ at[p] = "create"
  /\ \/ \E s \in Box, new \in {"starting", "running"} :
          /\ box[s] = "none"
          /\ box' = [box EXCEPT ![s] = new]
          /\ \/ /\ Goes(p, IF new = "running" THEN "record" ELSE "wait")
                /\ sb' = [sb EXCEPT ![p] = s]
                /\ fresh' = fresh \cup {p}
             \/ Goes(p, "failed") /\ UNCHANGED <<sb, fresh>>
     \/ Goes(p, "failed") /\ UNCHANGED <<box, sb, fresh>>
  /\ UNCHANGED <<forever, inside, mapping, swallowed>>

\* A failure that is torn down only if the sandbox is new.
IfFresh(p, step) == IF p \in fresh THEN step ELSE "failed"

StartReused(p) == StartBox(p, "start", "wait", "failed")
WaitForBox(p) == WaitRunning(p, "wait", "record", IfFresh(p, "shred"))

\* State.Record: the rename is the step; an error is always before it.
Record(p) ==
  /\ at[p] = "record"
  /\ \/ Goes(p, "auth") /\ mapping' = sb[p]
     \/ Goes(p, IfFresh(p, "shred")) /\ UNCHANGED mapping
  /\ UNCHANGED <<box, forever, inside, sb, fresh, swallowed>>

-----------------------------------------------------------------------------
(* deploy: provision. *)

Inside(p) == inside[sb[p]]

\* Step 4.  The probe only reads; if it fails, nothing is torn down but a new
\* sandbox.  Otherwise the baked PAT is overwritten, unless it is to be kept.
AuthProbe(p) ==
  /\ at[p] = "auth"
  /\ Mode[p] = "sandbox"
  /\ \/ /\ box[sb[p]] = "running" /\ ~ Inside(p).stub
        /\ Goes(p, "install")
     \/ Goes(p, IfFresh(p, "deleteFresh"))
  /\ UNCHANGED <<box, forever, inside, mapping, sb, fresh, swallowed>>

PATReset(p) ==
  /\ Mode[p] = "env"
  /\ Remote(p, "auth", "install", "shred", [Inside(p) EXCEPT !.stub = TRUE])

KeepPAT(p) ==
  /\ at[p] = "auth"
  /\ Mode[p] = "keep"
  /\ Goes(p, "install")
  /\ UNCHANGED <<box, forever, inside, mapping, sb, fresh, swallowed>>

\* Step 5: the installers and the handshake, whose environment file is removed
\* unless the connection drops.
Install(p) ==
  \/ Remote(p, "install", "env", "shred", [Inside(p) EXCEPT !.verify = None])
  \/ Remote(p, "install", "shred", "shred", [Inside(p) EXCEPT !.verify = p])

\* Step 7.
EnvWrite(p) ==
  Remote(p, "env", "kill", "shred", [Inside(p) EXCEPT !.env = p])

\* Step 8: SIGTERM, wait, SIGKILL; an agent that outlives that is an error.
Kill(p) ==
  \/ Remote(p, "kill", "script", "shred", [Inside(p) EXCEPT !.agent = None])
  \/ Remote(p, "kill", "shred", "shred", Terminated(Inside(p)))

\* Step 9.
ScriptWrite(p) ==
  Remote(p, "script", "launch", "shred", [Inside(p) EXCEPT !.script = p])

LaunchExec(p) ==
  LET to == IF Runs(Inside(p)) THEN "verify" ELSE "shred"
  IN  Remote(p, "launch", to, "shred", Launched(Inside(p)))

\* Step 10.
VerifyLaunch(p) ==
  /\ at[p] = "verify"
  /\ \/ /\ box[sb[p]] = "running" /\ Ready(Inside(p), p)
        /\ Goes(p, "autostop")
     \/ Goes(p, "shred")
  /\ UNCHANGED <<box, forever, inside, mapping, sb, fresh, swallowed>>

\* Step 11: --no-autostop, or the idle timeout that the deploy asks for.  A
\* failure after the verification tears nothing down.
SetAutostop(p) ==
  /\ at[p] = "autostop"
  /\ \/ /\ Live(sb[p])
        /\ forever' \in {forever \cup {sb[p]}, forever \ {sb[p]}}
        /\ Goes(p, "ok") \/ Goes(p, "post")
     \/ Goes(p, "post") /\ UNCHANGED forever
  /\ UNCHANGED <<box, inside, mapping, sb, fresh, swallowed>>

Provision(p) ==
  \/ AuthProbe(p) \/ PATReset(p) \/ KeepPAT(p) \/ Install(p) \/ EnvWrite(p)
  \/ Kill(p) \/ ScriptWrite(p) \/ LaunchExec(p) \/ VerifyLaunch(p)
  \/ SetAutostop(p)

-----------------------------------------------------------------------------
(* deploy: teardown, best effort, with a deadline of its own. *)

Swallow(p) == swallowed' = swallowed \cup {p} /\ UNCHANGED <<box, inside>>

\* Mutant: the shred is left out for a sandbox that was there before.
ShredFresh(p) ==
  /\ at[p] = "shred"
  /\ Goes(p, IF p \in fresh THEN "delete" ELSE "pkill")
  /\ \/ Ssh(p, IF p \in fresh THEN Shredded(Inside(p)) ELSE Inside(p))
        /\ UNCHANGED <<box, swallowed>>
     \/ Swallow(p)
  /\ UNCHANGED <<forever, mapping, sb, fresh>>

Shred(p) ==
  /\ at[p] = "shred"
  /\ Goes(p, IF p \in fresh THEN "delete" ELSE "pkill")
  /\ \/ Ssh(p, Shredded(Inside(p))) /\ UNCHANGED <<box, swallowed>>
     \/ Swallow(p)
  /\ UNCHANGED <<forever, mapping, sb, fresh>>

\* The end of a teardown, and all of deleteFreshSandbox.
Delete(p) ==
  /\ at[p] \in {"delete", "deleteFresh"}
  /\ Goes(p, "failed")
  /\ \/ Gone(sb[p]) /\ UNCHANGED swallowed
     \/ Swallow(p)
  /\ UNCHANGED <<forever, mapping, sb, fresh>>

Pkill(p) ==
  /\ at[p] = "pkill"
  /\ Goes(p, "failed")
  /\ \/ Ssh(p, Terminated(Inside(p))) /\ UNCHANGED <<box, swallowed>>
     \/ Swallow(p)
  /\ UNCHANGED <<forever, mapping, sb, fresh>>

Teardown(p) == Shred(p) \/ Delete(p) \/ Pkill(p)

Choose(p) ==
  \/ Begin(p) \/ Lookup(p) \/ StatusOfMapped(p) \/ Match(p) \/ Create(p)
  \/ StartReused(p) \/ WaitForBox(p) \/ Record(p)

Deploy(p) == Choose(p) \/ Provision(p) \/ Teardown(p)

-----------------------------------------------------------------------------
(* The operator's commands. *)

\* resolveSandboxID: by argument, or the only one there is.
Resolve(p, to) ==
  /\ at[p] = "idle"
  /\ Goes(p, to)
  /\ \E s \in Box : Live(s) /\ sb' = [sb EXCEPT ![p] = s]
  /\ UNCHANGED <<box, forever, inside, mapping, fresh, swallowed>>

\* Undeploy: shred if the sandbox can be reached, delete, then forget.
UndeployBegins(u) == MayBegin /\ Resolve(u, "undeployShred")

\* Mutant: the mapping goes before the sandbox.
ForgetFirst(u) ==
  /\ at[u] = "undeployShred"
  /\ Goes(u, "undeployDelete")
  /\ mapping' = IF mapping = sb[u] THEN None ELSE mapping
  /\ UNCHANGED <<box, forever, inside, sb, fresh, swallowed>>

UndeployShreds(u) ==
  /\ at[u] = "undeployShred"
  /\ Goes(u, "undeployDelete")
  /\ Ssh(u, Shredded(Inside(u))) \/ UNCHANGED inside
  /\ UNCHANGED <<box, forever, mapping, sb, fresh, swallowed>>

UndeployDeletes(u) ==
  /\ at[u] = "undeployDelete"
  /\ \/ /\ Live(sb[u]) /\ Gone(sb[u])
        /\ Goes(u, "forget") \/ Goes(u, "failed")
     \/ Goes(u, "failed") /\ UNCHANGED <<box, inside>>
  /\ UNCHANGED <<forever, mapping, sb, fresh, swallowed>>

\* ForgetSandbox reads the file; if it has the entry, it then writes the file
\* without it.  An error is residue, and not a failure.
ForgetReads(u) ==
  /\ at[u] = "forget"
  /\ \/ mapping = sb[u] /\ Goes(u, "save")
     \/ Goes(u, "ok")
  /\ UNCHANGED <<box, forever, inside, mapping, sb, fresh, swallowed>>

ForgetSaves(u) ==
  /\ at[u] = "save"
  /\ Goes(u, "ok")
  /\ mapping' = None \/ UNCHANGED mapping
  /\ UNCHANGED <<box, forever, inside, sb, fresh, swallowed>>

Undeploy(u) ==
  \/ UndeployBegins(u) \/ UndeployShreds(u) \/ UndeployDeletes(u)
  \/ ForgetReads(u) \/ ForgetSaves(u)

\* Start: status, start and wait if need be, then the launch script that is
\* there, and a look at the agent.
StartBegins(o) == Resolve(o, "again")

StartStatus(o) ==
  /\ at[o] = "again"
  /\ \/ /\ Live(sb[o])
        /\ Goes(o, IF box[sb[o]] = "running" THEN "relaunch" ELSE "restart")
     \/ Goes(o, "failed")
  /\ UNCHANGED <<box, forever, inside, mapping, sb, fresh, swallowed>>

StartStarts(o) == StartBox(o, "restart", "rewait", "failed")
StartWaits(o) == WaitRunning(o, "rewait", "relaunch", "failed")

Relaunch(o) ==
  LET to == IF Runs(Inside(o)) THEN "look" ELSE "failed"
  IN  Remote(o, "relaunch", to, "failed", Launched(Inside(o)))

\* verifyLaunch without a launch id: the end of the log, whoever wrote it.
StartVerifies(o) ==
  /\ at[o] = "look"
  /\ \/ /\ box[sb[o]] = "running" /\ ReadyAnywhere(Inside(o), None)
        /\ Goes(o, "ok")
     \/ Goes(o, "failed")
  /\ UNCHANGED <<box, forever, inside, mapping, sb, fresh, swallowed>>

Start(o) ==
  \/ StartBegins(o) \/ StartStatus(o) \/ StartStarts(o) \/ StartWaits(o)
  \/ Relaunch(o) \/ StartVerifies(o)

\* Stop, and the service's idle timeout, which --no-autostop rules out.
Stopped(s) ==
  /\ box' = [box EXCEPT ![s] = "stopped"]
  /\ inside' = [inside EXCEPT ![s].agent = None]
  /\ UNCHANGED <<forever, mapping, at, sb, fresh, swallowed>>

Stop(s) == box[s] \in {"starting", "running"} /\ Stopped(s)

-----------------------------------------------------------------------------
(* What happens by itself. *)

IdlesOut(s) == box[s] = "running" /\ s \notin forever /\ Stopped(s)

\* ~/.databrickscfg is made anew, with the baked PAT, whenever a sandbox starts.
Boots(s) ==
  /\ box[s] = "starting"
  /\ box' = [box EXCEPT ![s] = "running"]
  /\ inside' = [inside EXCEPT ![s].stub = FALSE]
  /\ UNCHANGED <<forever, mapping, at, sb, fresh, swallowed>>

\* A line of buzz-acp in acp.log comes after every stamp that is there.
AgentSays(s, x) ==
  LET c == inside[s] IN
    /\ c.agent # None
    /\ inside' = [inside EXCEPT ![s].log = [r \in Run |->
         IF c.log[r] = {} THEN {} ELSE c.log[r] \cup {x}]]
    /\ UNCHANGED <<box, forever, mapping, at, sb, fresh, swallowed>>

\* buzz-acp crashes, or has drained.
AgentExits(s) ==
  /\ inside[s].agent # None
  /\ inside' = [inside EXCEPT ![s].agent = None]
  /\ UNCHANGED <<box, forever, mapping, at, sb, fresh, swallowed>>

\* The provider is killed.
Crash(p) ==
  /\ Active(p)
  /\ at' = [at EXCEPT ![p] = "crashed"]
  /\ UNCHANGED <<box, forever, inside, mapping, sb, fresh, swallowed>>

Next ==
  \/ \E p \in Run : Deploy(p)
  \/ \E u \in Undo : Undeploy(u)
  \/ \E o \in Again : Start(o)
  \/ \E p \in Proc : Crash(p)
  \/ \E s \in Box : Stop(s) \/ IdlesOut(s) \/ Boots(s) \/ AgentExits(s)
  \/ \E s \in Box, x \in {"ready", "denied"} : AgentSays(s, x)

Spec == Init /\ [][Next]_vars

\* The provider's process runs on, and each of its calls has a deadline.
Fairness ==
  /\ \A p \in Run : WF_vars(at[p] # "idle" /\ Deploy(p))
  /\ \A u \in Undo : WF_vars(at[u] # "idle" /\ Undeploy(u))
  /\ \A o \in Again : WF_vars(at[o] # "idle" /\ Start(o))

FairSpec == Spec /\ Fairness

-----------------------------------------------------------------------------
(* What must hold. *)

Choosing == {"lookup", "match", "create"}
Provisioning ==
  {"auth", "install", "env", "kill", "script", "launch", "verify", "autostop"}
Tearing == {"shred", "delete", "deleteFresh", "pkill"}
Operating ==
  {"undeployShred", "undeployDelete", "forget", "save",
   "again", "restart", "rewait", "relaunch", "look"}

\* Every variable has its type; an invocation that acts on a sandbox has one, a
\* new sandbox is known to the deploy that created it, and only a sandbox that
\* runs has an agent.
TypeOK ==
  /\ box \in [Box -> {"none", "stopped", "starting", "running", "gone"}]
  /\ forever \subseteq Box
  /\ inside \in [Box -> Content]
  /\ mapping \in Box \cup {None}
  /\ at \in [Proc -> Over \cup Choosing \cup Provisioning \cup Tearing
                       \cup Operating \cup {"status", "start", "wait", "record"}]
  /\ sb \in [Proc -> Box \cup {None}]
  /\ fresh \subseteq Run /\ swallowed \subseteq Run
  /\ \A p \in Proc : sb[p] = None => at[p] \in Over \cup Choosing
  /\ \A p \in fresh : sb[p] # None
  /\ \A s \in Box : inside[s].agent # None => box[s] = "running"

\* No sandbox that never idles out is out of reach of the next deploy: whatever
\* fails, loses its reply or dies on the way, the sandbox with --no-autostop is
\* the one in the state file (PLAN.md:140).
NoForeverOrphan ==
  \A s \in forever : Live(s) => mapping = s

\* A deploy that failed, and whose cleanup calls worked, has left no environment
\* file, no verification file, no sandbox of its own and no agent that runs on
\* with its environment, even beside other invocations (PLAN.md 4.3).
FailedRunLeavesNothing ==
  \A p \in Run \ swallowed : at[p] = "failed" /\ sb[p] # None =>
    /\ inside[sb[p]].env # p /\ inside[sb[p]].verify # p
    /\ LET a == inside[sb[p]].agent IN a # None /\ a.env = p => a.term
    /\ p \in fresh => ~ Live(sb[p])

\* An agent launched in env mode cannot reach the baked PAT, though every start
\* of its sandbox brings the PAT back (PLAN.md:288).
PATOutOfReach ==
  \A s \in Box :
    inside[s].agent # None /\ Mode[inside[s].agent.by] = "env" => inside[s].stub

\* In zero-token mode the baked PAT is there from the probe to the end, so that
\* the environment the agent derives at its launch is the one that was probed
\* (deployflow.go:472-475).
PATSurvives ==
  \A p \in Run :
    Mode[p] = "sandbox" /\ at[p] \in Provisioning \ {"auth"} =>
      ~ inside[sb[p]].stub

\* Where names are kept there is never a second sandbox, because one that a dead
\* or failed deploy left is found by its name.
OneSandbox ==
  \A s, t \in Box : Live(s) /\ Live(t) => s = t

\* Every invocation ends, though a sandbox may never boot.
InvocationEnds ==
  \A p \in Proc : Active(p) ~> ~ Active(p)
=============================================================================
