------------------------- MODULE InferenceInvariant -------------------------
(***************************************************************************)
(* The invariant behind the properties of Inference: from which request    *)
(* each file that survives in $HOME comes, how old it may be beside the    *)
(* deploy in progress and beside the agent, and what the probes foretell.  *)
(***************************************************************************)
EXTENDS Inference

Between == {"idle", "crashed"}
Steps ==
  {"auth", "install", "mcp", "verify", "probe", "env",
   "kill", "launch-write", "launch", "check"}

\* The steps that an earlier one has already prepared.
Authenticated == Steps \ {"auth"}
Installed == Authenticated \ {"install"}
Unforeseen == {"install", "mcp", "verify", "probe"}
Foreseen == {"env", "kill", "launch-write", "launch"}
Rendered == {"kill", "launch-write", "launch", "check"}
Vacant == {"launch-write", "launch"}
Scripted == {"launch", "check"}

\* The requests that may be admitted, as they are parsed.
Fit ==
  {Parsed(q) : q \in {q \in UNION {Request[n] : n \in DOMAIN Request} : Admitted(q)}}

RunSound ==
  /\ run = [n |-> run.n, at |-> run.at, r |-> run.r, probed |-> run.probed]
  /\ run.n \in 0..Deploys /\ run.at \in Between \cup Steps
  /\ run.at \in Between => run.r = None /\ run.probed = None
  /\ run.at \in Steps => run.n > 0 /\ run.r \in Fit
  /\ cfg \in {"baked", "half", "stub"}

\* An env file, as by deploy n for request r.
EnvOf(n, r) ==
  [n |-> n, rt |-> RenderEnv(r).rt, derive |-> RenderEnv(r).derive,
   exports |-> RenderEnv(r).exports]

EnvSound ==
  /\ env # None =>
       /\ env.n \in 1..run.n
       /\ \E r \in Fit : env = EnvOf(env.n, r)
  /\ run.at \in Steps \ Rendered /\ env # None => env.n < run.n
  /\ run.at \in Rendered => env = EnvOf(run.n, run.r)

\* The command that ConfigIsMine is about.
Muxed(e) == ValueOf(e, "BUZZ_ACP_MCP_COMMAND") = "bzmux-launch"

MuxFrom(n) == mux # None /\ mux.n >= n /\ Loads(mux.names)

MuxSound ==
  /\ mux # None => mux.n \in 1..run.n
  /\ run.at \in Installed /\ McpMode(Config) = "mux"
       => mux = [n |-> run.n, names |-> MuxNames(Config)]
  /\ env # None /\ Muxed(env.exports) => MuxFrom(env.n)

AgentSound ==
  /\ agent # None =>
       /\ agent = [n |-> agent.n, script |-> agent.script, rt |-> agent.rt,
                   env |-> agent.env, pat |-> agent.pat,
                   probed |-> agent.probed]
       /\ agent.n \in 1..run.n
       /\ env # None => agent.n <= env.n
       /\ run.at \in Steps \ {"check"} => agent.n < run.n
  /\ run.at \in Vacant => agent = None
  /\ file # None => file.by \in 1..run.n /\ file.url # "public"

\* What ProvidedCode asks of an environment.
Provided(rt, e) ==
  /\ ValueOf(e, "BUZZ_ACP_AGENT_COMMAND") = SpawnCommand[rt]
  /\ DOMAIN e \cap LoaderClass = {}
  /\ ValueOf(e, "BUZZ_ACP_MCP_COMMAND") \in {"", "buzz-dev-mcp"}

ScriptSound ==
  /\ script # None =>
       /\ script.n \in 1..run.n
       /\ script.stubs \in BOOLEAN
       /\ env # None /\ env.n = script.n /\ ~ script.stubs
            => Provided(env.rt, env.exports)
  /\ run.at \in Steps \ Scripted /\ script # None => script.n < run.n
  /\ run.at \in Scripted => script = [n |-> run.n, stubs |-> Stubs(Config)]

\* The pair of a content, before the runtime's own snippet.
Paired(content, c) ==
  IF content.derive THEN Derived(content.exports, c) ELSE content.exports

\* Whoever sources the agent's own env file beside it writes its endpoint.
SourceSound ==
  agent # None /\ env # None /\ env.n = agent.n
    /\ ValueOf(agent.env, "CODEX_HOME") = "ours" =>
    \A c \in {cfg, "stub"} :
      ValueOf(Paired(env, c), "DATABRICKS_HOST")
        \in {"", ValueOf(agent.env, "DATABRICKS_HOST")}

\* What CredentialSound asks.
AsksSoundly(rt, e, asks) ==
  /\ asks.token = "pat" => asks.url = "home"
  /\ asks.token # "" => asks.url # "public"
  /\ rt = "codex" => Has(e, "CODEX_HOME")

\* What ProbedIsLaunched asks.
AsksAsProbed(rt, e, asks, probed) ==
  probed # None /\ DOMAIN e \cap Redirects = {} =>
    asks = probed \/ (rt = "codex" /\ asks.url = "")

\* What the agent asks with any config.toml of its own.
AskSound ==
  agent # None =>
    \A f \in OwnFiles :
      LET asks == Inference(agent.rt, agent.env, f)
      IN /\ AsksSoundly(agent.rt, agent.env, asks)
         /\ AsksAsProbed(agent.rt, agent.env, asks, agent.probed)

\* What an agent with this content asks when no disk fails.
Expected(content, c) ==
  LET e == Paired(content, c)
  IN IF content.rt = "claude" THEN Probed("claude", ClaudeEnv(e), None)
     ELSE IF content.rt = "codex"
     THEN [url |-> IF Has(e, "CODEX_HOME") THEN ConfiguredUrl(e, None)
                   ELSE ValueOf(e, "DATABRICKS_HOST"),
           token |-> ValueOf(e, "DATABRICKS_TOKEN")]
     ELSE Inference("buzz-agent", e, None)

ProbeSound ==
  /\ run.at = "auth" => run.probed = None
  /\ run.at \in Unforeseen /\ run.probed # None
       => /\ SandboxInferenceAuth(Config) /\ cfg = "baked"
          /\ run.probed = [url |-> "home", token |-> "pat"]
  /\ run.at = "probe" => Content.rt # "buzz-agent"
  /\ run.at \in Foreseen /\ run.probed # None
       => run.probed = Expected(Content, cfg) /\ run.probed.url # ""
  /\ run.at \in Authenticated /\ Stubs(Config) => cfg = "stub"
  /\ run.at = "check" /\ agent # None
       => \A f \in OwnFiles :
            AsksAsProbed(agent.rt, agent.env,
                         Inference(agent.rt, agent.env, f), run.probed)

IInv ==
  /\ RunSound /\ EnvSound /\ MuxSound /\ AgentSound /\ ScriptSound /\ ProbeSound
  /\ SourceSound /\ AskSound
  /\ ConfigIsMine /\ ProvidedCode

=============================================================================
