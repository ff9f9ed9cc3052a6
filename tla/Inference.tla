----------------------------- MODULE Inference -----------------------------
(***************************************************************************)
(* Deploys, one after the other, on one sandbox that is used again: what   *)
(* each request is admitted for, what the steps of provision               *)
(* (internal/deployflow) leave in the sandbox's $HOME, and the environment *)
(* and configuration the agent then runs with.  Between deploys the        *)
(* sandbox may restart and the operator may start the agent; during one    *)
(* the provider may die.                                                   *)
(***************************************************************************)
EXTENDS AgentEnv

CONSTANT Request  \* Request[n]: what the nth deploy may be asked for

\* The words that stand for a value only the provider, the service or Claude
\* Code itself has, and the one for the value of a legacy field.
OwnWords == {"pat", "public", "ours", "bzmux-launch"}
Legacy == "legacy"

\* A value of a request is a word for one that the requester has.
Brings(e, own) == \A k \in DOMAIN e : e[k] \notin own

ASSUME InferenceAssumption ==
  /\ None \notin [n : Nat, names : Seq(STRING)]
  /\ Len(Request) \in Nat /\ DOMAIN Request = 1..Len(Request)
  /\ \A n \in DOMAIN Request :
       /\ Request[n] # {}
       /\ \A r \in Request[n] :
            /\ IsRequest(r)
            /\ Brings(r.agent.env, OwnWords)
            /\ Brings(r.config.servers, OwnWords \cup {Legacy})

\* A launch block has nothing of the legacy fields in it.
ASSUME LaunchAssumption ==
  \A n \in DOMAIN Request : \A r \in Request[n] :
    LET launch == r.agent.launch
    IN launch # None =>
         /\ Brings(launch.env, OwnWords \cup {Legacy})
         /\ Brings(launch.policy, OwnWords \cup {Legacy})
         /\ Legacy \notin {launch.args, launch.owner, r.agent.nsec}

Deploys == Len(Request)

VARIABLES
  run,     \* the deploy in progress, or the last: [n, at, r, probed]
  cfg,     \* ~/.databrickscfg
  file,    \* config.toml in the provider's CODEX_HOME
  env,     \* the env file: [n, rt, derive, exports]
  script,  \* launch.sh: [n, stubs]
  mux,     \* mcp-mux.json: [n, names]
  agent    \* the running agent: [n, script, rt, env, pat, probed]

home == <<cfg, file, env, script, mux>>
vars == <<run, home, agent>>

-----------------------------------------------------------------------------
(* Helpers. *)

Disks == {"fine", "stuck", "full"}

Config == run.r.config

\* The environment content of the deploy in progress.
Content == RenderEnv(run.r)

\* The shell of a step sources it.
Sources(disk) == Sourced(Content, cfg, file, run.n, disk)

Goes(at) == run' = [run EXCEPT !.at = at]

\* The invocation is over: with it goes what it knew.
Ends(at) == run' = [n |-> run.n, at |-> at, r |-> None, probed |-> None]

\* Mutant: launch.sh leaves only the PAT that is kept.
StubsUnlessKept(c) == ~ c.keep

\* RenderLaunchScript's and provision's condition for the PAT stub.
Stubs(c) == ~ c.keep /\ ~ SandboxInferenceAuth(c)

\* ToMuxConfig and installMux: a server's name, and whether its command is one.
MuxNames(c) ==
  IF HasManagedMCP(c)
  THEN [i \in DOMAIN c.mcp.servers |-> c.mcp.servers[i].name]
  ELSE c.servers

\* loadConfig.
Loads(names) ==
  names # <<>> /\ (\A i \in DOMAIN names : names[i] # "") /\ IsInjective(names)

-----------------------------------------------------------------------------
(* The steps of a deploy. *)

\* A request that is not admitted changes nothing.
Begin ==
  /\ run.at \in {"idle", "crashed"} /\ run.n < Deploys
  /\ \E r \in Request[run.n + 1] :
       /\ Admitted(r)
       /\ run' = [n |-> run.n + 1, at |-> "auth", r |-> Parsed(r),
                  probed |-> None]
  /\ UNCHANGED <<home, agent>>

\* A preMutationFailure: nothing is torn down.
AuthFails ==
  /\ run.at = "auth" /\ SandboxInferenceAuth(Config)
  /\ Ends("idle")
  /\ UNCHANGED <<home, agent>>

\* authProbe: the snippet, sourced with nothing else, yields a pair the
\* workspace accepts.
AuthProbe ==
  LET e == Derived(<<>>, cfg) IN
    /\ run.at = "auth" /\ SandboxInferenceAuth(Config)
    /\ cfg # "stub" /\ Has(e, "DATABRICKS_HOST") /\ Has(e, "DATABRICKS_TOKEN")
    /\ run' = [run EXCEPT !.at = "install",
                          !.probed = [url |-> e["DATABRICKS_HOST"],
                                      token |-> e["DATABRICKS_TOKEN"]]]
    /\ UNCHANGED <<home, agent>>

PATReset ==
  /\ run.at = "auth" /\ ~ SandboxInferenceAuth(Config)
  /\ Goes("install")
  /\ cfg' = IF Config.keep THEN cfg ELSE "stub"
  /\ UNCHANGED <<file, env, script, mux, agent>>

\* installAndVerify up to the multiplexer: two extra binaries of one name are
\* first refused here.
Install ==
  /\ run.at = "install"
  /\ IsInjective([i \in DOMAIN Config.bins |-> Config.bins[i].bin])
  /\ mux' = IF McpMode(Config) = "mux"
            THEN [n |-> run.n, names |-> MuxNames(Config)] ELSE mux
  /\ Goes(IF McpMode(Config) = "none" THEN "verify" ELSE "mcp")
  /\ UNCHANGED <<cfg, file, env, script, agent>>

\* mcpVerify: bzmux --verify-mcp, or the one command, under the environment.
McpVerify ==
  /\ run.at = "mcp"
  /\ McpMode(Config) = "mux" => Loads(mux.names)
  /\ \E disk \in Disks : file' = Sources(disk).file
  /\ Goes("verify")
  /\ UNCHANGED <<cfg, env, script, mux, agent>>

\* verify-exec: the handshake, under the environment.
Verify ==
  /\ run.at = "verify"
  /\ \E disk \in Disks : file' = Sources(disk).file
  /\ Goes(IF Content.rt = "buzz-agent" THEN "env" ELSE "probe")
  /\ UNCHANGED <<cfg, env, script, mux, agent>>

\* claudeInferenceProbe, codexInferenceProbe.
Probe ==
  /\ run.at = "probe"
  /\ \E disk \in Disks :
       LET s == Sources(disk)
           p == Probed(Content.rt, s.env, s.file)
       IN /\ p.url # "" /\ p.token # ""
          /\ file' = s.file
          /\ run' = [run EXCEPT !.at = "env", !.probed = p]
  /\ UNCHANGED <<cfg, env, script, mux, agent>>

EnvWrite ==
  /\ run.at = "env"
  /\ env' = [n |-> run.n, rt |-> Content.rt, derive |-> Content.derive,
             exports |-> Content.exports]
  /\ Goes("kill")
  /\ UNCHANGED <<cfg, file, script, mux, agent>>

PrelaunchKill ==
  /\ run.at = "kill"
  /\ agent' = None
  /\ Goes("launch-write")
  /\ UNCHANGED home

LaunchWrite ==
  /\ run.at = "launch-write"
  /\ script' = [n |-> run.n, stubs |-> Stubs(Config)]
  /\ Goes("launch")
  /\ UNCHANGED <<cfg, file, env, mux, agent>>

\* launch.sh: the stub, the environment, the agent unless there is one.
LaunchScript ==
  /\ script # None
  /\ cfg' = IF script.stubs THEN "stub" ELSE cfg
  /\ IF env = None THEN UNCHANGED <<file, agent>>
     ELSE \E disk \in Disks :
            LET s == Sourced(env, cfg', file, env.n, disk) IN
              /\ file' = s.file
              /\ agent' =
                   IF agent # None THEN agent
                   ELSE [n |-> env.n, script |-> script.n, rt |-> env.rt,
                         env |-> s.env, pat |-> CfgToken(cfg') # "",
                         probed |-> None]
  /\ UNCHANGED <<env, script, mux>>

LaunchExec ==
  /\ run.at = "launch"
  /\ LaunchScript
  /\ Goes("check")

\* verifyLaunch; the agent remembers what this deploy's probes asked.
Check ==
  /\ run.at = "check" /\ agent # None
  /\ agent' = [agent EXCEPT !.probed = run.probed]
  /\ Ends("idle")
  /\ UNCHANGED home

\* Any step after the auth probe may fail: teardown shreds the env file and
\* kills the agent of the sandbox it keeps.
StepFails ==
  /\ run.at \notin {"idle", "crashed", "auth"}
  /\ Ends("idle")
  /\ env' = None
  /\ agent' = None
  /\ UNCHANGED <<cfg, file, script, mux>>

-----------------------------------------------------------------------------
(* What else happens. *)

Crash ==
  /\ run.at \notin {"idle", "crashed"}
  /\ Ends("crashed")
  /\ UNCHANGED <<home, agent>>

\* The sandbox stops and starts: its processes are gone, and ~/.databrickscfg
\* may be there again as the service bakes it.
Restart ==
  /\ run.at \in {"idle", "crashed"}
  /\ agent' = None
  /\ cfg' \in {cfg, "baked", "half"}
  /\ UNCHANGED <<run, file, env, script, mux>>

\* The operator's start.
Start ==
  /\ run.at \in {"idle", "crashed"}
  /\ LaunchScript
  /\ UNCHANGED run

\* The agent starts its MCP command: the multiplexer's launcher sources the
\* env file again.
SpawnMCP ==
  /\ agent # None /\ env # None
  /\ ValueOf(agent.env, "BUZZ_ACP_MCP_COMMAND") = "bzmux-launch"
  /\ \E disk \in Disks : file' = Sourced(env, cfg, file, env.n, disk).file
  /\ UNCHANGED <<run, cfg, env, script, mux, agent>>

Init ==
  /\ run = [n |-> 0, at |-> "idle", r |-> None, probed |-> None]
  /\ cfg \in {"baked", "half"}
  /\ file = None
  /\ env = None /\ script = None /\ mux = None
  /\ agent = None

Next ==
  \/ Begin \/ AuthFails \/ AuthProbe \/ PATReset
  \/ Install \/ McpVerify \/ Verify \/ Probe
  \/ EnvWrite \/ PrelaunchKill \/ LaunchWrite \/ LaunchExec \/ Check
  \/ StepFails
  \/ Crash \/ Restart \/ Start \/ SpawnMCP

Spec == Init /\ [][Next]_vars

-----------------------------------------------------------------------------
(* Properties. *)

\* What the agent asks: codex reads config.toml as it is now, whoever wrote it.
Asks == Inference(agent.rt, agent.env, file)

\* The config.toml that a shell with the agent's own environment leaves.
OwnFiles ==
  {None} \cup {[url |-> url, by |-> agent.n] :
                 url \in {"", ValueOf(agent.env, "DATABRICKS_HOST")}}

\* A later deploy has sourced its environment beside the running agent.
Rewritten ==
  /\ ValueOf(agent.env, "CODEX_HOME") = "ours"
  /\ file # None /\ file.by > agent.n

\* The agent never sends any token to the public API Claude Code falls back to,
\* and codex never falls back to the image's config.toml; the workspace's own
\* token goes nowhere else, whatever was deployed before, restored by a restart
\* or lost to the disk, unless a later deploy has rewritten the config.toml of a
\* codex agent that still runs.
CredentialSound ==
  agent # None =>
    /\ Asks.token = "pat" /\ ~ Rewritten => Asks.url = "home"
    /\ Asks.token # "" => Asks.url # "public"
    /\ agent.rt = "codex" => Has(agent.env, "CODEX_HOME")

\* An agent beside a reachable workspace token, launched as one deploy wrote
\* it, runs what the provider chose: the runtime's command, no loader, no MCP
\* command of the request's.
ProvidedCode ==
  agent # None /\ agent.pat /\ agent.n = agent.script =>
    /\ agent.env["BUZZ_ACP_AGENT_COMMAND"] = SpawnCommand[agent.rt]
    /\ DOMAIN agent.env \cap LoaderClass = {}
    /\ ValueOf(agent.env, "BUZZ_ACP_MCP_COMMAND") \in {"", "buzz-dev-mcp"}

\* The configuration files that survive in $HOME are never those of a deploy
\* before the agent's own: codex's config.toml is what the agent's own environment
\* makes of it, whatever started or sourced it since, or a later deploy's;
\* mcp-mux.json, too, may be a later one's.
ConfigIsMine ==
  agent # None =>
    /\ ValueOf(agent.env, "CODEX_HOME") = "ours" => file \in OwnFiles \/ Rewritten
    /\ ValueOf(agent.env, "BUZZ_ACP_MCP_COMMAND") = "bzmux-launch"
         => mux # None /\ mux.n >= agent.n /\ Loads(mux.names)

\* codex.go, of CodexEnvSnippet: "THE AGENT NEVER RUNS AGAINST A config.toml THIS
\* LAUNCH DID NOT WRITE".  A redeploy's verification writes one under the agent
\* that is not yet killed.
LaunchWroteConfig ==
  agent # None /\ ValueOf(agent.env, "CODEX_HOME") = "ours" /\ file # None
    => file.by = agent.n

\* A deploy that succeeds leaves an agent that asks the very endpoint its
\* probe asked, with that token, until a later deploy rewrites config.toml; only
\* a disk that fails leaves codex without one.  Codex's own settings, which are
\* the request's to make where the token is, are not seen by the probe.
ProbedIsLaunched ==
  agent # None /\ agent.probed # None /\ DOMAIN agent.env \cap Redirects = {} =>
    \/ Asks = agent.probed
    \/ agent.rt = "codex" /\ (Asks.url = "" \/ Rewritten)

\* An admitted request is one the rest can work with: a launch block leaves
\* nothing of the legacy fields, and bzmux loads the servers.
AdmissionSound ==
  run.r # None =>
    /\ run.r.agent.launch # None
         => \A k \in DOMAIN Content.exports : Content.exports[k] # Legacy
    /\ McpMode(Config) = "mux" => Loads(MuxNames(Config))

=============================================================================
