# Formal models of buzz-backend-databricks-lakebox

TLA+ modules, TLC model checks and TLAPS proofs about the Go program in `src/`:
a *provider* that deploys Buzz agents into Databricks sandboxes, and two helper
programs, `bzmux` and `bzhttpmcp`, that it installs next to them.

## 1. The system

| component | state it keeps | operations | hard behaviour | what makes it correct |
|---|---|---|---|---|
| **bzmux**, live phase (`cmd/bzmux/proxy.go`, `child.go`, `jsonrpc.go`) | the in-flight table (`inflightByID`, `inflightByKey`, `nextID`), `deadCh` per child | agent requests, hook fan-out, child responses, upstream requests, cancels both ways, drain of a dead child | a goroutine per request and per fan-out leg, one read loop per child and one run loop share the table; children die, stall and answer late | answers go to the request they are for, the two maps agree, no call is forgotten, nothing leaks, every request is answered |
| **bzmux**, start and checks (`initChildren`, `catalog.go`, `selftest.go`, `verify.go`) | the handshakes' slots, the tools of each child, the latch `catalogReady` | spawn, `initialize`, `tools/list`, collect, merge, kill | a handshake races its timeout and the child's death; results arrive in any order | the catalog has every tool once, in the configured order; no slot and no child is left; a decision is always made |
| **bzhttpmcp** (`internal/httpmcp`) | session id, first error, the context | stdio line → HTTP exchange → stdio lines | exchanges run concurrently; the first error cancels the others; the session is deleted at the end | the session is carried by every request and deleted after the last |
| **MCP probe session** (`internal/mcpprobe`, `mcpops`) | `pending`, `readErr`, `done` | call, read loop, fail, close | an answer races its deadline, the end of the stream and `Close` | every call returns; the read loop never blocks; success means two answers |
| **deploy flow** (`internal/deployflow`) | none of its own: the sandbox, the state file | deploy, start, stop, status, undeploy | each remote step may fail or lose its reply; the provider may die; two invocations may overlap | no sandbox is billed that nobody can find, no secret stays behind, a credential that was probed is the one the agent gets |
| **environment and files of the agent** (`internal/nest`, `internal/deployflow`) | `env`, `launch.sh`, `~/.databrickscfg`, codex's `config.toml`, `mcp-mux.json` | render, source, probe, launch | files outlive the deploy that wrote them; a crash leaves one deploy's file beside another's; a restart brings the PAT back | the workspace's token goes to the workspace or nowhere |
| **launch script** (`internal/nest`) | lock file, append-only log | launch, liveness check, prelaunch kill, verification | two launchers on one sandbox; an old agent still draining; zombies | one agent per sandbox; "ready" belongs to this launch |
| **provider protocol and state store** (`internal/provider`, `internal/state`, the command) | `agents.json` | info, deploy, the operator's deploy and undeploy, profile discovery, record, forget | several processes; a crash during a save; discovery that finds other profiles the next time | the default that is shown is the one that is used; an update touches its own entries |
| **payload and configuration documents** (`internal/payload`, `mcpconfig`, `skillconfig`) | none | parse, project the launch block, validate | dozens of rules that later steps rely on | what is admitted can be deployed, and cannot bring its own code beside the owner's token |
| **sandbox client** (`internal/lakebox`, `sshx`) | none | wraps the `databricks` command | polling with a deadline | — |
| **managed MCP discovery, installers, identity, redaction, profile auth, doctor, acceptance, helpers** | none | render, list, check once | none across steps | unit-tested functions |

How they interact: the desktop runs the provider with one JSON request on
stdin; the provider's deploy flow calls the `databricks` command for the sandbox
and sends shell commands over its SSH, records the sandbox in the state file, and
leaves `launch.sh`, an environment file, `bzmux` and `bzhttpmcp` behind. In the
sandbox `launch.sh` starts `buzz-acp`, whose agent starts `bzmux`, which starts
the children, `bzhttpmcp` among them, and routes JSON-RPC between them. `mcp
probe` runs the bridge inside the provider's own process.

## 2. Modules

| module | models | uses |
|---|---|---|
| `GoMap` | a Go map: make, assignment, overlay, delete | — |
| `Mux` | the live phase of bzmux: one action per critical section, channel operation or pipe write | `GoMap` |
| `MuxInvariant` | the inductive invariants that the proofs use: of the table, of a cancel, of the ids | `Mux` |
| `MuxProofs`, `MuxTableProofs` | type correctness; the inductive invariants, eight properties and the count of ids | `MuxInvariant` |
| `Handshake` | the four users of bzmux's handshake: the live start, `--selftest`, `--verify-mcp` and its `--command` form | `GoMap` |
| `HandshakeProofs` | type correctness and the four safety properties of `Handshake`; induction over sequences | `Handshake` |
| `Bridge` | `bzhttpmcp`'s loop and exchanges | — |
| `Probe` | one server of `mcp probe`: the session and its read loop, composed with the bridge in the same process | `Bridge`, `Calls` |
| `Calls` | abstract: what a JSON-RPC relay promises of each call | — |
| `ProbeProofs` | type correctness, four safety properties, and that `Probe` implements `Calls` | `Probe` |
| `Deploy` | the deploy flow and the operator's commands for one identity: sandboxes, the state file, provisioning, teardown, crashes, overlapping invocations | — |
| `DeployInvariant` | the four inductive invariants that the proofs use, `Left`, `Kept`, `Single` and `Survives` | `Deploy` |
| `DeployProofs` | type correctness; five safety properties | `DeployInvariant` |
| `Launch` | `launch.sh` step by step inside one sandbox, the kill before it and the verification after it | — |
| `LaunchProofs` | type correctness and the two properties of `Launch` | `Launch` |
| `Payload` | what a request may ask for: parsing, the projection of the launch block, validation | — |
| `AgentEnv` | what `RenderEnv` writes and what a shell gets that sources it | `Payload` |
| `Inference` | deploys one after the other on one sandbox with the content of every file they leave | `AgentEnv` |
| `InferenceInvariant` | the inductive invariant that the proofs use | `Inference` |
| `InferenceProofs` | that invariant and the five properties of `Inference` | `InferenceInvariant` |
| `Provider` | several provider processes: requests, profiles, `agents.json` | — |
| `ProviderProofs` | the two properties of `Provider` | `Provider` |
| `MCMux`, `MCHandshake`, `MCProbe`, `MCDeploy`, `MCLaunch`, `MCInference`, `MCProvider` | small instances for TLC | the module of that name |

The deploy is modelled at three scales. `Deploy` has all sandboxes, lost replies and
overlapping invocations, and of a file only who wrote it. `Launch` opens the one step
of `Deploy` that several processes can be inside of. `Inference` has one sandbox and
one deploy at a time, and what each file says. `Provider` has several identities and
workspaces, and of a deploy only that it succeeds or fails.

### 2.1 Mux and the code

| model | code |
|---|---|
| `byID`, `byKey`, `nextID` | `proxy.inflightByID`, `inflightByKey`, `nextID`; a key `"a:<id>"` is the request, `"c:<owner>:<id>"` the upstream request |
| `Entry.kind` | which of `replyCh`, `dst`, `toChild` an `inflightEntry` has: a call (`dst` is the agent), a leg of a hook (`replyCh`), an upstream request (`dst` is a child) |
| `pc[r]`, `muxID[r]` | the goroutine of `handleAgentRequest` for `r` and its local variable |
| `leg[r][c]`, `box[r][c]`, `live[r]` | the goroutine of `fanOut` for child `c`, its `replyCh` of capacity one, and the children it began with |
| `child[c]` | its read loop: reading; `dead` (`deadCh` closed); `drained` |
| `running`, `stalled` | children whose process has not exited; children that no longer read a full stdin pipe. A write to a child in both blocks, and fails only when the process is gone |
| `run` | where the run loop is: reading, or between the two critical sections of a cancel, or before a write to a child |
| `work[c]`, `agentHas` | what a child, or the agent, has read and not answered |
| `replies`, `results`, `removed`, `delivered`, … | what the agent and the children have seen; the properties speak of these |

A step is what the code does without letting another goroutine in: one critical
section of `inflightMu`, one channel operation, one write. `handleToolsCall` is
therefore five steps (`CheckAlive` or `RefuseDead`, `RegisterCall`, `SendCall`, which
looks at `deadCh`, `WriteCall`, `FailCall`), and a child may die, a drain may run and a cancel may arrive between
any two of them. A write and its receipt are one step: a message that waits in a
pipe is a message whose reader is slow. A timeout (`ctx2`) may fire whenever its
goroutine waits: the budget is real time, which the model does not have, so every
order of timeout, answer and death is explored.

`ReadFails` is the read loop ending while the process lives (an oversized frame, a
stdout that was closed): `markDead` and the drain run, and `Wait` blocks until the
child exits. A write that was blocked then stays blocked until the process is gone.

A child's answer is a result with a `content` array, a result of another shape (`bare`)
or an error. `aggregateContents` counts a `bare` leg as a success and shows nothing of
it (`Shown`).

### 2.2 Deploy and the code

| model | code |
|---|---|
| `Run`, `Undo`, `Again` | one process each: an invocation of `deploy`, `undeploy`, `start` for the same identity and profile |
| `at[p]`, `sb[p]` | where invocation `p` is, and its local `sandboxID` |
| `fresh`, `swallowed` | deploys with `freshlyCreated`; deploys one of whose cleanup calls returned an error that `teardown` or `deleteFreshSandbox` drops |
| `mapping` | the identity's entry in `agents.json` |
| `box[s]`, `forever` | the service's view of a sandbox: not made yet, stopped, starting, running, gone; and whether it has `--no-autostop` |
| `inside[s].env`, `.verify`, `.script` | `$HOME/.buzz-backend/env`, `.env.verify` (with `.env.verify.out`) and `launch.sh`, each by the deploy that wrote it |
| `inside[s].agent` | `buzz-acp`: whose launch script started it, with whose environment, and whether it has had its SIGTERM |
| `inside[s].stub` | whether `~/.databrickscfg` is the stub instead of the baked PAT |
| `inside[s].log[r]` | what `acp.log` holds from the stamp of deploy `r`'s launch on |
| `Mode[r]` | `"env"`: the PAT is reset; `"keep"`: `keep_workspace_pat`; `"sandbox"`: `inference_auth: "sandbox"` |

A step is one call of the `databricks` command, one command over its ssh or one
access to the state file; in between, anything else may happen. Every call has
the outcomes that Go code can tell apart and those it cannot: it worked; it
failed and did nothing; it worked and reports a failure, because the reply was
lost or the deadline of 550 s passed (`Remote`, `Create`, `StartBox`,
`SetAutostop`). The three classes of failure are the targets of the steps: a
failure before `provision` ends the deploy, or tears down a new sandbox
(`IfFresh`); the failed probe of zero-token mode deletes a new sandbox and leaves
any other alone (`preMutationFailure`); a failed autostop call tears nothing down
(`postVerifyFailure`); every other failure tears down. `Crash` ends an invocation
at any step, teardown included: the caller kills the provider after 600 s.

The installers and the two handshakes are one step, `Install`: they change
nothing that the properties speak of but the verification file, which stays
behind if the connection drops. `Inference` has the parts of that step and what
the files say. A launch is one step, `Launched`; `Launch` has its parts. Stops, the idle timeout, boots, log lines
and the end of `buzz-acp` happen at any time. A boot brings `~/.databrickscfg`
back (PLAN.md:154).

### 2.3 Handshake and the code

| model | code |
|---|---|
| `mode` | who handshakes: `initChildren`, `runCatalogCheck` of `--selftest` or of `--verify-mcp`, `verifyDirectChild` |
| `go[s]` | the goroutine of server `s`: spawn, then register, send and wait for each of two calls, with the notification between |
| `child`, `reader`, `dead` | the process; its read loop; `deadCh` closed |
| `late` | servers whose context is done: one each in the live proxy, one for all in a check |
| `table`, `box` | `inflightByID`, with one mux id per server and call; `replyCh` |
| `tools`, `arrived` | `c.tools`; what the collector has received, in that order |
| `verdict`, `catalog`, `routes` | `catalogReady` or the check's result; what `mergeCatalogs` made |
| `killed`, `exited` | children sent a kill; the one-shot process is gone |

`Decide` is the end of `initChildren` or of `runCatalogCheck`: sort, merge, accept or
kill. `Exit` has the deferred kills, which an `os.Exit` skips. `Known` are the tools that
`knownServerTools` expects of a server; `verifyMux` compares their union with the union of
all tools. `Mux` begins where
this module ends; its `InitCalls` are the mux ids used up here.

### 2.4 Bridge, Probe, Calls and the code

| model | code |
|---|---|
| `loop`, `result` | `Run`: scanning, waiting for its goroutines, returning; what it returned |
| `ex[l]`, `header[l]` | the exchange of line `l`; the `Mcp-Session-Id` it carried |
| `sessionID`, `cancelled`, `errs`, `deleted` | the bridge's session, its context, the channel `errs` of capacity one, the sessions deleted |
| `at`, `outcome`, `verdict` | the caller in `mcpops.Probe` and `session.call`; the end of each call; the probe's |
| `pending`, `box`, `readErr` | `session.pending`, each call's channel of capacity one, `readErr` with `done` |
| `reader` | `readLoop`, between any two of its lookups and sends |
| `stdin`, `stdout`, `late` | the two `io.Pipe`s (a write is also the read of it), the probe's deadline |

`initialize` is exchanged by the loop, which reads no other line meanwhile; every
other line has a goroutine of its own. The server may answer anything, at any time,
twice, in part or never. `Probe` maps each call to the state it has in `Calls`; a
caller's withdrawal, which `Calls` allows, is what a cancel is to a relay and has
no step in `Probe`. `Close` ends the bridge's stdin before it may kill the bridge, and an
`io.Pipe` keeps the first error, so after a kill, too, the loop drains its exchanges, and it
sends the DELETE if they all worked. A scan error (a line beyond 32 MiB) has no step: the
probe writes no such line.

### 2.5 Launch and the code

| model | code |
|---|---|
| `at[p]` | an invocation of deploy or start: kill, wait, write of `launch.sh`, run, verification, teardown |
| `sh[p]` | the shell that runs `launch.sh` for it, with the launch id it read there |
| `kid[p]` | what that shell spawned: forked (its argv is the shell's, it holds descriptor 9), closed (`9>&-`), up, serving, draining, zombie |
| `script`, `log` | `launch.sh`, by the deploy that wrote it, empty while it is written; `acp.log` |
| `missed` | someone looked for `buzz-acp` between a fork and its exec |
| `LaunchId[d]` | what `newLaunchID` gave deploy `d`: a random id of its own, or the sentinel `"unseeded"` that several may share |

A connection that breaks ends the invocation and not the shell.

### 2.6 Payload, AgentEnv, Inference and the code

`Payload` and `AgentEnv` are operators. A name of the environment that the code
has a rule for is itself; a prefix or a pattern is one name of its class. A value is
a word for where it comes from, such as `"legacy"`, `"own"`, `"pat"`; an address
is `"home"` (the workspace), `"public"`, `"elsewhere"` or `"theirs"`. Some words stand
for what a requester does not have, so that no request brings them: `OwnWords` (the PAT,
the public API, the provider's own `CODEX_HOME` and command) and, in a launch block,
`Legacy`, the value of a legacy field. `InferenceAssumption` and `LaunchAssumption` say
so: the properties are about where a value comes from, not about its text.

| model | code |
|---|---|
| `Parses`, `Parsed`, `Validates`, `Admitted` | `ParseDeployRequest`, its result, `Validate`, both |
| `RenderEnv`, `Sourced` | the env file; the shell environment after `SandboxAuthSnippet`, `ClaudeEnvSnippet`, `CodexEnvSnippet` |
| `Probed`, `Inference` | where the inference probe, and then the agent, sends which token |
| `run` | the deploy in progress and what its probes asked |
| `cfg`, `file`, `env`, `script`, `mux` | `~/.databrickscfg`, codex's `config.toml`, the env file, `launch.sh`, `mcp-mux.json` |
| `agent` | the running agent with the environment it was started with |
| `Asks` | where the agent sends which token now: codex by the `config.toml` that lies in its `CODEX_HOME` at this moment |

Each step of `provision` that sources the environment may meet a disk that
cannot remove a file, or cannot write one and leaves it empty (a file cut anywhere in the
middle has no complete provider section and counts as empty). `OwnFiles` are the
`config.toml`s that the agent's own environment can leave; `Rewritten` says that a later
deploy has sourced its environment beside the running agent. Between deploys the sandbox may restart,
which may bring the baked `~/.databrickscfg` back, whole or with a token and no host.

### 2.7 Provider and the code

| model | code |
|---|---|
| `at[p]`, `req[p]` | an invocation of the provider and its request |
| `view`, `aim` | the profiles its discovery found; the profile it works with or, for `info`, advertises |
| `id`, `fresh`, `box` | its sandbox; deploys that created theirs; the sandboxes of each workspace (ids are unique in a workspace only) |
| `file`, `loaded`, `temp` | `agents.json`; what an invocation read; its temporary file |

That a sandbox can be found again by its name is `Deploy`'s matter (`NamesKept`). The
operator's deploy does not project a launch block: a bare agent object is not passed
through `ApplyLaunch`.

## 3. What TLC checks

| run | question | result |
|---|---|---|
| `MuxCalls` | a call and a hook of one child that may die, stop reading or close its stdout; cancels anywhere | `MapsAgree`, `ResultsMatch`, `NoneForgotten`, `ResultIsFinal`, `NoLeak`, `FoundCancelIsExact`, `DeadChildAnswered`, `HookAnswered` hold |
| `MuxHook` | a hook of two children, one of which may stop reading, beside a request of one of them to the agent | `HookIsUnanimous`, `UpstreamRouting` hold |
| `Handshake` | two servers in each of four modes; children that answer, refuse, repeat a tool, exit or say nothing; timers at any moment | `CatalogSound`, `VerifiedIsServable`, `NoSlotLeft`, `NoneLeftBehind`, `Decided` hold |
| `Probe` | one probe over the bridge; a server that fails, repeats itself or never answers; every timer at any moment | `NoBlockedReader`, `NothingAfterDelete`, `SuccessIsWhole`, `SessionCarried`, `ProbeEnds` hold, and the refinement `ProbeKeepsPromise` |
| `DeploySeq` | two deploys, the second in zero-token mode, and an undeploy, one at a time, each failing, losing replies or dying anywhere, and an operator's start that may run between any two of their steps | `TypeOK`, `NoForeverOrphan`, `PATOutOfReach` hold |
| `DeployOverlap` | two deploys at the same time and a start | `FailedRunLeavesNothing` holds |
| `DeployEnds` | the deploys and the undeploy without the start, if the service keeps names and status calls may fail: is there ever a second sandbox, is the probed credential still there at the launch, does every invocation end? | `OneSandbox`, `PATSurvives`, `InvocationEnds` hold |
| `DeployStatusLost` | is a sandbox without autostop ever forgotten, if a status call fails? | violated |
| `Launch` | two deploys and a start in one sandbox at once; broken connections, crashes, slow drains, zombies, restarts | `OneAgent`, `ReadinessIsFresh` hold |
| `Inference` | two deploys on one sandbox of any runtime, credential mode and environment; crashes at any step, restarts, starts, disks that fail | `CredentialSound`, `ProvidedCode`, `ConfigIsMine`, `ProbedIsLaunched`, `AdmissionSound` hold |
| `CodexRewritten` | a codex agent with the workspace's token, then a deploy with the owner's: does the agent ever run beside a `config.toml` that its launch did not write? | violated |
| `Provider` | two processes of any request over workspaces that give out the same ids; any listing of profiles; crashes and failed writes | `AdvertisedIsUsed`, `OwnEntriesOnly` hold |

**Bounds.** *bzmux*: in `MuxCalls` a call and a hook at one child are two slots of one table, of
both kinds, which is what it takes for an answer, a cancel or a drain to meet the slot
of another request; the three liveness and action properties need every step of this
instance, with stalls, closed pipes and deaths. `MuxHook` has two children, which is what
it takes for an answer to go to the wrong one, and for one leg to fail while another
succeeds. Several calls, or calls to several children, are the theorems' matter (section 4.1),
as is the child's half of `FoundCancelIsExact`: `MuxCalls` has no upstream request.
Each request is sent and cancelled at most once and each upstream request made
once, which bounds `nextID`. *Handshake*: two servers and five lists of tools (none, one of either
name, the same name twice, an illegal name), with a tool expected of the second server, make every kind of collision, and orders of
arrival that differ from the configured one. *Probe*: both calls and the notification
of a probe, and a server that may give out two sessions. *Deploy*: two deploys are what
it takes to have one that meets what another left behind, in the state file, in the
sandbox or beside it, and two sandboxes are what it takes to lose one; each
invocation runs once, so a retry by the caller is the second deploy.
`Overlap = FALSE` keeps deploys apart, though a start may still run beside one;
`NamesKept = FALSE` is the service as it is (names that a caller sets are not kept,
deployflow.go:215), and `DeployEnds` has the other case, which the code keeps for it.
*Launch*: two deploys and a start; `TailLines = 2`, so that a line can leave the part
of the log that a verification sees; each deploy has an id of its own there, and shared
ones are in the theorem only. *Inference*: two deploys; the first is one of
the kinds that leave different files behind, the second one of every kind of
environment, launch block and configuration document in `MCInference`. *Provider*: two
processes, three profiles, two agents, two ids and six listings (empty, with and
without the baked profile, an account console, a conflict, a bad entry). Where
elements are alike and the run has no liveness property, TLC uses the symmetry.

**Deadlock** is checked in `Inference`, where a deploy that cannot go on must be able
to fail. The other systems may stop: when all requests are answered and all children
are gone, when every invocation is over.

**Fairness.** The Go scheduler runs every goroutine that can run, timers fire, and an
invocation that has begun goes on, because every call of it has a context with a
deadline. Per module: in `Mux` each request's goroutine, each leg, each read loop's
end and the run loop are weakly fair, and a leg's timeout is one of its steps; in
`Handshake` each goroutine, each timer and the collector; in `Probe` the caller, the
read loop, the bridge's loop, the sending and the breaking of each exchange (the HTTP
client has a timeout), the probe's deadline and the kill of `Close`; in `Deploy` each
invocation. Nothing is asked of the agent, of a child's answers or its exit, of a
server, of the service, or of a sandbox's boot. `Launch`, `Inference` and `Provider`
state safety only: what would end there depends on the sandbox's processes and the
operator.

### 3.1 Where the code and its documentation differ

Two are runs of their own:

* **A sandbox that runs for ever and is forgotten** (`DeployStatusLost`). `deploy`
  takes any error of `SandboxStatus` for "the sandbox is gone" (deployflow.go:227),
  creates another and overwrites the mapping, though the first one runs with
  `--no-autostop`; PLAN.md:140 rules that out.
  Two deploys at once come to the same end, since nothing excludes another process
  between `Lookup` and `Record` (set `Overlap = TRUE` and `StatusFails = FALSE` in
  this configuration); `NoneOrphaned` (section 4.2) assumes that
  neither happens.
* **A running codex agent gets another deploy's `config.toml`** (`CodexRewritten`).
  codex.go:78: "The invariant is: THE AGENT NEVER RUNS AGAINST A config.toml THIS LAUNCH
  DID NOT WRITE"; PLAN.md:184 builds the egress defence on it. There is one `config.toml`, and
  every shell that sources an env file removes it and writes its own: those of a
  redeploy's server verification, verification and inference probe do so before
  `prelaunchKillScript` stops the agent of the deploy before. If that agent has the
  workspace's token (`inference_auth: "sandbox"`) and the redeploy is in env mode with a
  `DATABRICKS_HOST` of its own, `Asks` is the workspace's token at the new host. The state
  ends with the kill, but lasts if the provider dies before it. The other direction, an
  agent on an older deploy's file, does not occur: `ConfigIsMine`. `CredentialSound`
  and `ProbedIsLaunched` except exactly `Rewritten`.

The others are in the models, and the properties that hold are stated around them:

* **Two error frames for one call** (proxy.go:304, main.go:42). A child dies after a
  call's slot is registered and before the write: the drain answers the call, the
  failed `send` answers it again, because the error path of `handleToolsCall` does not
  look whether the slot is still there. `ResultIsFinal` shows that the second
  frame never contradicts a result.
* **A cancel that hits another request** (proxy.go:640). `remapCancelledID` leaves the
  id alone when it is not in the table ("already completed, forward as-is"), and
  `forwardCancelledToChild` then reads it as a mux id, though its comment
  (proxy.go:651-656) speaks of a remapped one; a child's late cancel goes to the agent in
  the same way. JSON-RPC peers count from 0 or 1, as `nextID` does, so a cancel that comes
  after its answer, or before its goroutine has registered the request, can take
  another call's slot: that call is never answered. `CancelHitsOwnRequest` in
  `Mux` says that this does not happen, is false, and is checked by no run;
  `FoundCancelIsExact` is what remains true for every choice of ids.
* **A hook that succeeds without a child's part** (proxy.go:399-415). main.go:25 says that
  the N responses are aggregated into one; a result that does not unmarshal as
  `{content: [...]}` is dropped and the hook succeeds. `HookIsUnanimous`
  counts results, shown or not.
* **An empty catalog passes the multiplexer's verification** (verify.go:118-156).
  verify.go:13-17 and :42-45 say that a non-empty catalog is asserted always; only
  `verifyDirectChild` does. `verifyMux` also lets one server's tool stand in for another's,
  which its own comment says (verify.go:143). `VerifiedIsServable` asks each form for
  what it checks.
* **A stalled child holds a hook** (proxy.go:352, main.go:26). `send` comes before the
  select on the 30 s context, so a leg can stay in a write to a full pipe;
  `HookAnswered` excepts exactly that.
* **A failed selftest leaves its children** (selftest.go:43-48). Its deferred kill is
  skipped by `os.Exit(1)`, though the comment says that all spawned children are
  killed on exit. `NoneLeftBehind` speaks of the other modes.
* **A failed redeploy shreds its predecessor's environment** (deployflow.go:1406).
  `teardown` shreds whatever step failed; its comment (deployflow.go:1380) speaks of
  the files that this invocation wrote. The running agent is killed, too, and cannot be
  started again without another deploy. `FailedRunLeavesNothing` asks for no less.
* **The probed credential is overwritten before it is used** (deployflow.go:479 and
  :473). When an identity goes from env mode to zero-token mode on a sandbox that has
  been restarted, a `start` between the probe and the new `launch.sh` runs the old
  one, which writes the stub. `PATSurvives` is checked and proved without
  the start.
* **codex's own settings redirect it past the probe.** In env mode
  `DEFAULT_AUTH_REQUEST`, `CODEX_CONFIG` and `MODEL_PROVIDER` are the request's to
  set, and they outrank the `config.toml` that the probe reads; codex.go:21 says that
  the probe and the agent cannot disagree. `ProbedIsLaunched` excepts them.
* **Two extra binaries of one name** are admitted by the payload and refused by
  `BuildExtraBinariesInstallScript` when the sandbox exists.

What else the models show, and no document denies: a crash
between the env file and `launch.sh` leaves one deploy's environment beside another's
script (`ProvidedCode` is about an agent launched as one deploy wrote it). After the
first failed exchange the bridge keeps reading its stdin with a cancelled context, and
later lines fail without an answer. An empty profile may select another workspace when
discovery finds other profiles, and with it another sandbox. Two processes that load
and save `agents.json` at once lose an update (`OwnEntriesOnly` is conditional on
`loaded = file`).

## 4. What is proved

TLAPS checks all of this for every value of the constants that the modules' `ASSUME`s
allow, so for any number of children, requests, servers, lines, sandboxes, deploys,
processes and profiles, and for any requests. The assumptions on the constants are
those that the code or JSON-RPC gives: names are apart, functions have their domains, a
server's list of tools is a sequence, a request has the shape that its decoder gives
it. Every safety property that a passing run checks is the statement of a theorem.
Where a theorem has hypotheses of its own, they are in its line below: each describes a
way to use the program, and section 3.1 says what happens without it.

### 4.1 bzmux

| theorem | says |
|---|---|
| `TypeCorrect` | `Spec => []TypeOK` |
| `InductiveHolds` | `Spec => []Inductive` |
| `MapsStayInverse` | `Spec => []MapsAgree` |
| `ResultsGoHome` | `Spec => []ResultsMatch` |
| `AnswersGoHome` | `Spec => []UpstreamRouting` |
| `DrainIsThorough` | `Spec => []NoLeak` |
| `HooksAreUnanimous` | `Spec => []HookIsUnanimous` |
| `ResultsAreFinal` | `Spec => []ResultIsFinal` |
| `NothingForgotten` | `Spec => []NoneForgotten` |
| `CancelsAreExact` | `Spec => FoundCancelIsExact` |
| `IdsCounted` | `Spec => []Allocated`, for finitely many requests |

None of the properties is inductive. That an
answer goes to the right request depends on what is in the table, what is in the
table on which goroutine put it there, and what a child may answer on which
goroutine sent it. `Inductive` says all that: a goroutine's `muxID` is its own
slot or a freed one (`IdsKnown`); a slot belongs to a request that is under way,
and a call slot to one without an answer (`CallSlots`, `LegSlots`, `UpSlots`);
a leg's channel has only its child's answer (`Legs`); a goroutine runs the code for
its kind of request (`Goroutines`); what a child or the agent holds, it holds
under the id of that request (`Work`, `Upstream`); an unanswered, uncancelled
call has its slot (`Covered`); and a result is the last frame (`Results`). The key
is that `nextID` never reuses an id, so an id in a child's hands is that
request's or nobody's. The proof has one lemma for each operation on the table
and one step for each action.

A cancel looks its id up in one critical section and frees the slot in another
(proxy.go:636 and proxy.go:673). `FoundKnown` is what survives in between: the id
found names a slot of the request that was cancelled, or no slot at all, because ids
are not reused; a child's cancel is remapped to an id that the agent has for that very
request. This needs nothing of the ids that the agent and the children use.
`IdsCounted` is a matter of counting: `nextID` is the number of ids that
`initChildren`, each call, each leg and each upstream request took, one each
(`Counted`), so that it is bounded.

### 4.2 The deploy flow

| theorem | says |
|---|---|
| `DeployTypes` | `Spec => []TypeOK` |
| `FailedRunsLeaveNothing` | `Spec => []FailedRunLeavesNothing`, overlapping or not |
| `NoneOrphaned` | `~ Overlap /\ ~ StatusFails` implies `Spec => []NoForeverOrphan` |
| `PATStaysOutOfReach` | `Spec => []PATOutOfReach` |
| `NeverASecondSandbox` | `NamesKept /\ ~ Overlap` implies `Spec => []OneSandbox` |
| `ProbedPATSurvives` | `~ Overlap` and `Again = {}` imply `Spec => []PATSurvives` |

`DeployTypes` is inductive together with `FreshPhase`: a deploy with a new sandbox
never goes back to choosing one. `FailedRunLeavesNothing` follows from `Left`:
every secret in a sandbox belongs to a deploy *on that sandbox* that has written it
and has not yet shredded it (or could not), and every agent that has not been told
to stop has the environment of such a deploy or of one that is about to stop it.
The point of the induction is that only the owner of a secret leaves those phases, and
only by shredding or by a cleanup call that failed; the others can only make
secrets and agents fewer, or launch an agent from the environment that is there.
`NoForeverOrphan` follows from `Kept`: while a deploy looks for its sandbox,
no other live sandbox has `--no-autostop`; once it is recorded the mapping is its
sandbox; and an undeploy forgets only what is gone. `PATOutOfReach` follows from
what a step can do to one sandbox (`NextBecomes`): nothing, end its agent, keep the
agent and the stub, or run the launch script, which writes the stub first.
`OneSandbox` follows from `Single`: a deploy comes to its create only if it found no
sandbox, and no other invocation makes one before it does; whether the status of a
sandbox arrives does not matter, since the search by name finds it again. `PATSurvives`
follows from `Survives`: a deploy runs the launch script it wrote itself, and nobody
else runs the one of env mode that it found, which would write the stub.

### 4.3 The handshakes

| theorem | says |
|---|---|
| `HandshakeTypes` | `Spec => []TypeOK` |
| `SlotsAreFreed` | `Spec => []NoSlotLeft` |
| `NoChildSurvives` | `Spec => []NoneLeftBehind` |
| `ServedCatalogs` | `Spec => []CatalogSound` |
| `VerifiedServers` | `Spec => []VerifiedIsServable` |

A slot is in the table only while its goroutine is in the call it is for (`Slots`),
and a reply is in the box only if its slot has been taken (`Boxes`), so a goroutine that
gets a reply has no slot left. A decision is made only when as many results have
arrived as there are servers; that those are one of each (`Counted`: the length of
`arrived` is the number of goroutines that are over) is what makes "all that were
started" final at the decision, and the kill that follows complete (`Settled`).

The catalog is made in one step, by two loops and a sort, so its proof is an induction
over data and not over steps. `Induct` states induction for a *set* of numbers, and
follows from the library's theorem that every set of naturals has a minimal element;
with it the recursive functions of the definitions are shown to exist (`PartsExist`,
`LoopExists`) and then described: a flattening is made of its parts and nothing else
(`PartsHave`), it commutes with taking the names (`FlattenNames`), after n tools the
loop of `mergeCatalogs` has n names without a repetition and a route for each, or has
given up (`LoopSound`), and what `sort.Slice` by `configOrder` makes of a permutation
of the servers is `Order` (`SortedIsOrder`: at the first place where the two differ,
a server would be out of place). The steps then contribute that everything has arrived
when the collector decides, each server once (`Listed`), and that nothing changes a list
of tools afterwards.

### 4.4 The probe

| theorem | says |
|---|---|
| `ProbeTypes` | `Spec => []TypeOK` |
| `NeverBlocked` | `Spec => []NoBlockedReader` |
| `DeleteIsLast` | `Spec => []NothingAfterDelete` |
| `SuccessHasAnswers` | `Spec => []SuccessIsWhole` |
| `SessionIsCarried` | `Spec => SessionCarried` |
| `ProbeImplementsCalls` | `Spec => ProbeKeepsPromise`: the detailed session implements `Calls` |

The invariant: a channel is empty while its call is pending or among those that the
read loop is about to send to (`Channels`); the caller is past what it has an outcome
for (`Order`, `Answers`); the loop ends after its goroutines and an exchange follows the
order of the lines (`Exchanges`, `Handshaken`); and what a verdict says has
happened (`Verdicts`). For the refinement, each step of the caller ends or asks at most
the one call it is in, and no other thread touches an outcome.

### 4.5 Launch

| theorem | says |
|---|---|
| `LaunchTypeCorrect` | `Spec => []TypeOK` |
| `OnlyOneAgent` | `Spec => []OneAgent` |
| `FreshReadiness` | `Spec => ReadinessIsFresh` |

`OneAgent` is inductive with: at most one process holds the lock, and while a shell is
between its check and its fork no agent runs (`Single`), as long as nobody
missed a child that was about to be executed. `ReadinessIsFresh` needs that the part of
the log a deploy looks at is a part of what follows its last stamp (`LastOf`,
`LastPlace`), for a log of any length and any launch ids: a shared one makes another's
stamp pass for the deploy's, and the property says no more than that.

### 4.6 The provider

| theorem | says |
|---|---|
| `AdvertisedDefault` | `Spec => []AdvertisedIsUsed` |
| `EntriesAreOwn` | `Spec => OwnEntriesOnly` |

The two rules for profiles are related by a lemma of their own (`RulesAgree`); the
invariant says which rule made each answer (`Aimed`), what an invocation has by the time
it saves (`Phase`), and that an entry is filed under the profile it names, which is
what makes forgetting by sandbox id safe where workspaces give out the same ids.

### 4.7 Deploys on a used sandbox

| theorem | says |
|---|---|
| `InvariantHolds` | `Spec => []IInv` |
| `AdmissionAlwaysSound` | `Spec => []AdmissionSound` |
| `ConfigAlwaysMine` | `Spec => []ConfigIsMine` |
| `CodeAlwaysProvided` | `Spec => []ProvidedCode` |
| `CredentialAlwaysSound` | `Spec => []CredentialSound` |
| `ProbedAlwaysLaunched` | `Spec => []ProbedIsLaunched` |

These hold for any number of deploys and any sets of requests of the right shape, not
only the documents of `MCInference`. The first lemmas are about the operators: what
parsing, projecting and validating leave of a request (`AdmissionIs`), what an env file
then exports, and what a shell derives from it. `IInv` says of each file that outlives
a deploy from which admitted request it is, and orders the deploys: the agent's is not
after the env file's (`AgentSound`), and `mcp-mux.json` is not older than an env file
that uses it (`MuxSound`), which is what `ConfigIsMine` needs after a crash between the
two writes. `launch.sh` that does not write the stub lies beside an env file that it may
be run with, if both are of one deploy (`ScriptSound`); a script and an env file of two
deploys are the case that `ProvidedCode` leaves out. What the agent asks is read off the
`config.toml` of the moment, so `CredentialSound` and `ConfigIsMine` need to know of every
writer of that file (`FileMovesBy`): a deploy in progress is later than the agent until it has
launched its own, and whoever sources the env file of the agent's own deploy leaves the
agent's own endpoint or none (`SourceSound`, `AskSound`). For `ProbedIsLaunched`, three
sourcings of the environment have to agree: those of the credential check, of the
inference probe and of the launch, with the stub written in between. `ProbeSound`
carries what was probed from one to the next as `Expected`, what an agent asks of this
content and this `~/.databrickscfg` when no disk fails; a disk that fails can only leave
codex without an address.

### 4.8 Only model-checked

The liveness properties (`HookAnswered`, `DeadChildAnswered`, `InvocationEnds`,
`Decided`, `ProbeEnds`), which are outside TLAPS's reach, and
`NoForeverOrphan` without the hypotheses of `NoneOrphaned` and `LaunchWroteConfig`, which
are false. TLC checks
the rest as well, on the instances of section 3; the hypotheses of a theorem are
settings of its run (`DeploySeq` and `DeployEnds` have `Overlap = FALSE`).

## 5. What is not modelled

* bzmux: the broadcast of notifications other than `notifications/cancelled`, which
  keeps no state; a second `initialize`, which panics (proxy.go:134).
* deploy flow: how an error message is classified and worded; the `status` and `logs`
  commands, which change nothing.
* sandbox client: argument lists, the parsing of the command's JSON, process I/O.
* installers: the shell scripts they generate. Which of them run, with what, and
  that each may fail is in `Inference`.
* the command line of `bzhttpmcp` and the URL of a resource: one pure function.
* the operator's configuration file: flags, read once.
* managed MCP discovery: sequential paging without state, whose result nothing uses.
* identity, redaction, profile authentication, doctor, acceptance: bech32, text filters
  and one-shot diagnostics.
* embedded helpers: built binaries.
* Throughout: JSON syntax, texts, logging, and real time. A timeout may fire whenever
  its goroutine waits.

Six hazards in `PROJECT.json` have no property. Two are the divergences of section 3.1 for
which a property would be false: a cancel that overtakes its request (proxy.go:640), and one
server's tool that stands in for another's (verify.go:143). Of the other four the source
promises nothing: upstream slots of a dead child stay until the agent answers
(proxy.go:577), the second `initialize`, the order of broadcast notifications
(proxy.go:436), and a start that is verified by an earlier agent's readiness line
(lifecycle.go:111-117, where a comment accepts it).

## 6. Plan

The modules that were planned are written: `Mux`, `Deploy`, `Launch`, the state
store (in `Provider`), the probe session and the bridge (`Probe`), the start of bzmux
(`Handshake`), the abstract promise of a call (`Calls`), and the documents and the
environment (`Payload`, `AgentEnv`, `Inference`). What would add most next:

1. The same promise for `Mux`: a call that is cancelled is withdrawn, and a second
   error frame is the one step that `Calls` does not have.
2. `Handshake` composed with `Mux`, so that a child may die between the decision and
   the first call.
3. `Launch` as the refinement of the atomic launch of `Deploy`.
