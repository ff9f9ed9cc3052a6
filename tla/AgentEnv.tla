------------------------------ MODULE AgentEnv ------------------------------
(***************************************************************************)
(* The environment of an agent: what RenderEnv (internal/nest) writes, and *)
(* what a shell in the sandbox gets when it sources it, from the baked     *)
(* ~/.databrickscfg and into the generated config.toml of codex.           *)
(***************************************************************************)
EXTENDS Payload

-----------------------------------------------------------------------------
(* ~/.databrickscfg: as baked, with a token and no host, the PAT stub.     *)

CfgHost(cfg) == IF cfg = "baked" THEN "home" ELSE ""
CfgToken(cfg) == IF cfg \in {"baked", "half"} THEN "pat" ELSE ""

-----------------------------------------------------------------------------
(* RenderEnv. *)

\* An export the code leaves out for this request or runtime.
NotEmitted == "not emitted"

Emitted(exports) ==
  Restrict(exports, {k \in DOMAIN exports : exports[k] # NotEmitted})

When(condition, value) == IF condition THEN value ELSE NotEmitted

\* What the provider decides, before env_vars.
Decided(a, rt, mcp) ==
  [BUZZ_PRIVATE_KEY |-> a.nsec, NOSTR_PRIVATE_KEY |-> a.nsec,
   BUZZ_AUTH_TAG |-> "tag", BUZZ_RELAY_URL |-> a.relay,
   BUZZ_ACP_AGENT_COMMAND |-> SpawnCommand[rt],
   BUZZ_ACP_AGENT_ARGS |-> a.typed.args,
   BUZZ_ACP_AGENTS |-> a.typed.agents,
   BUZZ_ACP_SYSTEM_PROMPT |-> a.typed.prompt,
   BUZZ_ACP_AGENT_OWNER |-> When(a.typed.owner # "", a.typed.owner),
   BUZZ_ACP_MODEL |-> When(rt \in BuzzAgentInference, a.typed.model),
   BUZZ_ACP_RESPOND_TO |-> a.typed.respond,
   BUZZ_ACP_RESPOND_TO_ALLOWLIST |-> When(a.typed.allow # "", a.typed.allow),
   BUZZ_ACP_IDLE_TIMEOUT |-> When(a.typed.idle # "0", a.typed.idle),
   BUZZ_ACP_MAX_TURN_DURATION |-> When(a.typed.turn # "0", a.typed.turn),
   BUZZ_ACP_MCP_COMMAND |->
     IF mcp # "" THEN mcp ELSE When(rt \in StdioMCPCommand, "buzz-dev-mcp"),
   MCP_HOOK_SERVERS |-> When(rt \in MCPHookServers, "*"),
   BUZZ_ACP_RELAY_OBSERVER |-> "true",
   BUZZ_ACP_DEDUP |-> "queue", BUZZ_ACP_MULTIPLE_EVENT_HANDLING |-> "steer",
   BUZZ_AGENT_PROVIDER |->
     When(rt \in BuzzAgentInference,
          IF a.typed.provider = "" THEN "databricks_v2" ELSE a.typed.provider),
   DATABRICKS_MODEL |-> When(rt \in BuzzAgentInference, a.typed.model),
   BUZZ_ACP_PERMISSION_MODE |->
     When(rt \in PinACPPermissionMode \ BuzzAgentInference,
          "bypass-permissions")]

Fixed(a, rt, mcp) == Emitted(Decided(a, rt, mcp))

\* resolveMcpCommand.
McpCommand(c) ==
  CASE McpMode(c) = "none" -> ""
    [] McpMode(c) = "direct" -> c.servers[1]
    [] McpMode(c) = "mux" -> "bzmux-launch"

\* The content of the env file: the exports, env_vars last, and the snippets
\* that follow them.
RenderEnv(r) ==
  LET rt == RuntimeFor(r.agent.command)
  IN [rt |-> rt, derive |-> SandboxInferenceAuth(r.config),
      exports |-> Overlaid(Fixed(r.agent, rt, McpCommand(r.config)),
                           r.agent.env)]

-----------------------------------------------------------------------------
(* The snippets. *)

\* Mutant: the token alone decides whether the pair is derived.
DerivedByHalf(e, cfg) ==
  IF Has(e, "DATABRICKS_TOKEN") \/ CfgToken(cfg) = "" THEN e
  ELSE Put(IF Has(e, "DATABRICKS_HOST") THEN e
           ELSE Put(e, "DATABRICKS_HOST", CfgHost(cfg)),
           "DATABRICKS_TOKEN", CfgToken(cfg))

\* SandboxAuthSnippet: both or neither.
Derived(e, cfg) ==
  IF \/ Has(e, "DATABRICKS_TOKEN") \/ Has(e, "DATABRICKS_HOST")
     \/ CfgHost(cfg) = "" \/ CfgToken(cfg) = ""
  THEN e
  ELSE Put(Put(e, "DATABRICKS_TOKEN", CfgToken(cfg)),
           "DATABRICKS_HOST", CfgHost(cfg))

\* ClaudeEnvSnippet: the workspace's token only for the endpoint it derived.
ClaudeEnv(e) ==
  IF Has(e, "ANTHROPIC_BASE_URL") \/ ~ Has(e, "DATABRICKS_HOST") THEN e
  ELSE LET based == Put(e, "ANTHROPIC_BASE_URL", e["DATABRICKS_HOST"])
       IN IF Has(e, "ANTHROPIC_AUTH_TOKEN") \/ ~ Has(e, "DATABRICKS_TOKEN")
          THEN based
          ELSE Put(based, "ANTHROPIC_AUTH_TOKEN", e["DATABRICKS_TOKEN"])

\* CodexEnvSnippet exports its own CODEX_HOME or, when config.toml cannot be
\* removed, that of an empty directory; the owner's stays.
CodexEnv(e, stuck) ==
  IF Has(e, "CODEX_HOME") THEN e
  ELSE Put(e, "CODEX_HOME", IF stuck THEN "empty" ELSE "ours")

\* Mutant: an old config.toml is written over, never removed.
CodexFileKept(e, file, by, disk) ==
  IF \/ Has(e, "CODEX_HOME") \/ disk # "fine"
     \/ ValueOf(e, "DATABRICKS_HOST") \in {"", "odd"}
  THEN file
  ELSE [url |-> e["DATABRICKS_HOST"], by |-> by]

\* What the snippet leaves as config.toml in the provider's CODEX_HOME, for an
\* environment that by rendered, with disk: the removal of an old file
\* fails ("stuck"), or the write of the new one, which is then empty ("full").
CodexFile(e, file, by, disk) ==
  IF Has(e, "CODEX_HOME") \/ (disk = "stuck" /\ file # None) THEN file
  ELSE IF ValueOf(e, "DATABRICKS_HOST") \in {"", "odd"} THEN None
       ELSE [url |-> IF disk = "full" THEN "" ELSE e["DATABRICKS_HOST"], by |-> by]

\* The environment a shell has from a content, and the config.toml then.
Sourced(content, cfg, file, by, disk) ==
  LET e == IF content.derive THEN Derived(content.exports, cfg)
           ELSE content.exports
      stuck == disk = "stuck" /\ file # None
  IN CASE content.rt = "claude" -> [env |-> ClaudeEnv(e), file |-> file]
       [] content.rt = "codex" -> [env |-> CodexEnv(e, stuck),
                                   file |-> CodexFile(e, file, by, disk)]
       [] content.rt = "buzz-agent" -> [env |-> e, file |-> file]

-----------------------------------------------------------------------------
(* Where the agent sends its requests and with which token. *)

\* Of the codex runtime's own settings, those that move its endpoint.
Redirects == {"DEFAULT_AUTH_REQUEST", "CODEX_CONFIG", "MODEL_PROVIDER"}

\* The endpoint that config.toml in CODEX_HOME has; the owner's, in "own".
ConfiguredUrl(e, file) ==
  CASE ValueOf(e, "CODEX_HOME") = "ours" -> IF file = None THEN "" ELSE file.url
    [] ValueOf(e, "CODEX_HOME") = "own" -> "elsewhere"
    [] ValueOf(e, "CODEX_HOME") = "empty" -> ""
    [] OTHER -> "home"

\* What the inference probe of a runtime asks, and with what.
Probed(rt, e, file) ==
  IF rt = "claude"
  THEN [url |-> ValueOf(e, "ANTHROPIC_BASE_URL"),
        token |-> ValueOf(e, "ANTHROPIC_AUTH_TOKEN")]
  ELSE [url |-> ConfiguredUrl(e, file), token |-> ValueOf(e, "DATABRICKS_TOKEN")]

\* What the agent does: without a base URL Claude Code asks the public API; a
\* setting of codex's own outranks config.toml, which is what names the token.
Inference(rt, e, file) ==
  CASE rt = "claude" ->
         [url |-> IF Has(e, "ANTHROPIC_BASE_URL") THEN e["ANTHROPIC_BASE_URL"]
                  ELSE "public",
          token |-> ValueOf(e, "ANTHROPIC_AUTH_TOKEN")]
    [] rt = "codex" ->
         LET url == IF DOMAIN e \cap Redirects # {} THEN "elsewhere"
                    ELSE ConfiguredUrl(e, file)
         IN [url |-> url,
             token |-> IF url = "" THEN "" ELSE ValueOf(e, "DATABRICKS_TOKEN")]
    [] rt = "buzz-agent" ->
         [url |-> ValueOf(e, "DATABRICKS_HOST"),
          token |-> ValueOf(e, "DATABRICKS_TOKEN")]

=============================================================================
