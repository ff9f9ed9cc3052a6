------------------------------ MODULE Payload ------------------------------
(***************************************************************************)
(* What a deploy request asks for and whether it is admitted               *)
(* (internal/payload, with internal/mcpconfig and internal/skillconfig):   *)
(* ParseDeployRequest, which projects a launch block on the legacy fields, *)
(* and DeployRequest.Validate.                                             *)
(*                                                                         *)
(* A name of the environment is itself or, where the code tests a prefix   *)
(* or a pattern, one name of the class.  A value is "" or a word for where *)
(* it comes from.                                                          *)
(***************************************************************************)
EXTENDS Integers, Sequences, FiniteSets, TLC, Functions, GoMap

CONSTANT None  \* no launch block, no mcp_config, no skills_config, no file

-----------------------------------------------------------------------------
(* The runtimes. *)

ClaudeCommands ==
  {"claude-agent-acp", "claude-code-acp", "claude-code", "claudecode"}
CodexCommands == {"codex", "codex-acp"}

supportedAgentCommands ==
  [c \in ClaudeCommands \cup CodexCommands \cup {"buzz-agent"} |->
     IF c \in ClaudeCommands THEN "claude"
     ELSE IF c \in CodexCommands THEN "codex" ELSE "buzz-agent"]

RuntimeFor(command) == supportedAgentCommands[command]

SpawnCommand ==
  [rt \in {"claude", "codex", "buzz-agent"} |->
     IF rt = "claude" THEN "claude-agent-acp"
     ELSE IF rt = "codex" THEN "codex-acp" ELSE "buzz-agent"]

\* EnvShape: what the environment of a runtime has.
BuzzAgentInference == {"buzz-agent"}
StdioMCPCommand == {"buzz-agent", "codex"}
MCPHookServers == {"buzz-agent"}
PinACPPermissionMode == {"claude", "codex"}

-----------------------------------------------------------------------------
(* The names of the environment that the code has a rule for. *)

\* providerOwnedEnvKey, of the upper-cased name: two other spellings stand for
\* all, one of a scratch name and one that is no scratch name.
ProviderOwned ==
  {"buzz_relay_url", "Mcp_Hook_Servers",
   "BUZZ_RELAY_URL", "BUZZ_PRIVATE_KEY", "NOSTR_PRIVATE_KEY",
   "BUZZ_AUTH_TAG", "BUZZ_ACP_AGENT_OWNER", "BUZZ_ACP_AGENT_COMMAND",
   "BUZZ_ACP_AGENT_ARGS", "BUZZ_ACP_RESPOND_TO",
   "BUZZ_ACP_RESPOND_TO_ALLOWLIST", "BUZZ_ACP_MCP_COMMAND",
   "BUZZ_ACP_RELAY_OBSERVER", "MCP_HOOK_SERVERS"}

\* reservedScratchEnvKey: buzz_*, BUZZ_PROBE_*, ENVF, OUTF.
ReservedScratch ==
  {"buzz_codex_url", "buzz_relay_url", "BUZZ_PROBE_HDR", "ENVF", "OUTF"}

\* Not a name, by envVarKeyPattern.
Malformed == {"BAD-NAME"}

credentialPairEnvKeys ==
  {"DATABRICKS_HOST", "DATABRICKS_TOKEN", "DATABRICKS_CONFIG_FILE",
   "DATABRICKS_CLIENT_ID", "DATABRICKS_CLIENT_SECRET", "ANTHROPIC_BASE_URL",
   "ANTHROPIC_AUTH_TOKEN"}

\* ownerPATForbiddenEnvPrefixes: one name for each.
LoaderClass ==
  {"LD_PRELOAD", "DYLD_LIBRARY_PATH", "NODE_OPTIONS", "npm_config_registry",
   "PYTHONPATH", "GIT_SSH_COMMAND"}

ownerPATForbiddenEnvKeys ==
  {"BUZZ_ACP_AGENT_COMMAND", "BUZZ_ACP_AGENT_ARGS", "BUZZ_ACP_MCP_COMMAND",
   "HTTP_PROXY", "HTTPS_PROXY", "ALL_PROXY", "NO_PROXY", "http_proxy",
   "https_proxy", "all_proxy", "no_proxy", "SSL_CERT_FILE", "SSL_CERT_DIR",
   "REQUESTS_CA_BUNDLE", "CURL_CA_BUNDLE", "NODE_EXTRA_CA_CERTS", "PATH",
   "SHELL", "BUZZ_SHELL", "BASH_ENV", "ENV", "IFS", "HOME",
   "BUZZ_ACP_BASE_PROMPT_FILE", "BUZZ_ACP_SYSTEM_PROMPT_FILE",
   "BUZZ_ACP_HEARTBEAT_PROMPT_FILE", "BUZZ_ACP_RELAY_OBSERVER"}

codexAdapterEnvVars ==
  {"DEFAULT_AUTH_REQUEST", "CODEX_HOME", "CODEX_CONFIG", "MODEL_PROVIDER",
   "CODEX_PATH", "INITIAL_AGENT_MODE", "CODEX_API_KEY", "OPENAI_API_KEY",
   "APP_SERVER_LOGS"}

\* Go's env[key] and the shell's ${key:-}: a missing name is "".
ValueOf(env, key) == IF key \in DOMAIN env THEN env[key] ELSE ""

Has(env, key) == ValueOf(env, key) # ""

\* The value that env has for key, else the default.
Given(env, key, default) == IF key \in DOMAIN env THEN env[key] ELSE default

-----------------------------------------------------------------------------
(* A request: agent [nsec, relay, command, typed, env, launch] and config  *)
(* [auth, keep, bins, servers, mcp, doc, skills], where typed has the       *)
(* agent's other fields.                                                    *)

Server ==
  [name : STRING, kind : STRING, command : STRING, args : Seq(STRING),
   resource : Seq(STRING), auth : STRING, inherit : Seq(STRING)]

ProviderConfig ==
  [auth : STRING, keep : BOOLEAN,
   bins : Seq([url : STRING, sha : STRING, bin : STRING]),
   servers : Seq(STRING),
   mcp : [schema : STRING, version : Int, servers : Seq(Server)],
   doc : {None} \cup [strict : BOOLEAN, schema : STRING, version : Int,
                      servers : Seq(Server)],
   skills : {None} \cup [strict : BOOLEAN, schema : STRING, version : Int,
                         aitools : BOOLEAN, names : Seq(STRING), collision : STRING]]

\* What the decoder of the JSON makes of any text it accepts.
IsRequest(r) ==
  /\ r = [agent |-> r.agent, config |-> r.config]
  /\ r.agent = [nsec |-> r.agent.nsec, relay |-> r.agent.relay,
                command |-> r.agent.command, typed |-> r.agent.typed,
                env |-> r.agent.env, launch |-> r.agent.launch]
  /\ r.config \in ProviderConfig

SandboxInferenceAuth(c) == c.auth = "sandbox"

\* Mutant: the owner's credential counts only where it is derived.
InSandboxIfDerived(c) == SandboxInferenceAuth(c)

OwnerPATInSandbox(c) == SandboxInferenceAuth(c) \/ c.keep

HasManagedMCP(c) == c.mcp.servers # <<>>

McpMode(c) ==
  IF HasManagedMCP(c) \/ Len(c.servers) >= 2 THEN "mux"
  ELSE IF Len(c.servers) = 1 THEN "direct" ELSE "none"

-----------------------------------------------------------------------------
(* ApplyLaunch. *)

\* Mutant: the launch block is merged over the legacy environment.
MergedEnv(legacy, launch) ==
  LET over == Overlaid(legacy, Overlaid(launch.policy, launch.env))
  IN [k \in DOMAIN over \ ProviderOwned |-> over[k]]

\* Tier 2 over tier 1, without what the provider decides.
LaunchEnv(legacy, launch) ==
  LET over == Overlaid(launch.policy, launch.env)
  IN [k \in DOMAIN over \ ProviderOwned |-> over[k]]

Counts(env, key, least) == key \in DOMAIN env => env[key] \in least

\* strconv.Atoi of the three counts: "0" and "4" are integers.
CountsParse(env) ==
  /\ Counts(env, "BUZZ_ACP_AGENTS", {"4"})
  /\ Counts(env, "BUZZ_ACP_IDLE_TIMEOUT", {"0", "4"})
  /\ Counts(env, "BUZZ_ACP_MAX_TURN_DURATION", {"0", "4"})

\* Every typed field the launch block decides; what it leaves out is the
\* default, never the legacy value.
FromLaunch(launch, env) ==
  LET asked == Overlaid(launch.policy, launch.env)
      respond == IF Has(asked, "BUZZ_ACP_RESPOND_TO")
                 THEN asked["BUZZ_ACP_RESPOND_TO"] ELSE "owner-only"
  IN [args |-> launch.args, owner |-> launch.owner, respond |-> respond,
      allow |-> IF respond = "allowlist"
                THEN ValueOf(asked, "BUZZ_ACP_RESPOND_TO_ALLOWLIST") ELSE "",
      prompt |-> ValueOf(env, "BUZZ_ACP_SYSTEM_PROMPT"),
      model |-> Given(env, "BUZZ_ACP_MODEL",
                     Given(env, "ANTHROPIC_MODEL", "")),
      provider |-> Given(env, "BUZZ_AGENT_PROVIDER",
                        Given(env, "GOOSE_PROVIDER", "")),
      agents |-> Given(env, "BUZZ_ACP_AGENTS", "1"),
      idle |-> Given(env, "BUZZ_ACP_IDLE_TIMEOUT", "0"),
      turn |-> Given(env, "BUZZ_ACP_MAX_TURN_DURATION", "0")]

\* The pair the desktop resolved for its own use is not forwarded.
Dropped(c) ==
  IF SandboxInferenceAuth(c) THEN {"DATABRICKS_HOST", "DATABRICKS_TOKEN"}
  ELSE {}

ApplyLaunch(r) ==
  IF r.agent.launch = None THEN r
  ELSE LET env == LaunchEnv(r.agent.env, r.agent.launch)
       IN [r EXCEPT !.agent.command = r.agent.launch.command,
                    !.agent.typed = FromLaunch(r.agent.launch, env),
                    !.agent.env = Restrict(env, DOMAIN env \ Dropped(r.config))]

LaunchParses(r) ==
  r.agent.launch # None =>
    /\ r.agent.launch.command # ""
    /\ CountsParse(LaunchEnv(r.agent.env, r.agent.launch))

-----------------------------------------------------------------------------
(* The managed MCP document: [schema, version, servers], a server          *)
(* [name, kind, command, args, resource, auth, inherit].                    *)

MaxServers == 16

\* strings.ToLower, on the names a server may have.
Folded(name) ==
  LET lower == [SQL |-> "sql", Bzmux |-> "bzmux"] @@ ("Buzz-CLI" :> "buzz-cli")
  IN IF name \in DOMAIN lower THEN lower[name] ELSE name

\* serverNameRE and commandRE refuse these, "" included.
UnsafeNames == {"", ".", "..", "-x", "a/b"}

SafeServerName(name) ==
  name \notin UnsafeNames \cup {"a__b"} /\ Folded(name) # "bzmux"

RemoteKinds ==
  {"sql", "genie", "ai-search", "vector-search", "functions", "mcp-service",
   "skills"}

\* How many components the resource of a remote kind may have.
HasArity(kind, n) ==
  CASE kind = "sql" -> n = 0
    [] kind = "genie" -> n = 1
    [] kind = "vector-search" -> n = 2
    [] kind = "functions" -> n \in {2, 3}
    [] kind \in {"ai-search", "mcp-service"} -> n = 3
    [] kind = "skills" -> n % 2 = 0

\* validateResource.
ResourceFits(s) ==
  /\ HasArity(s.kind, Len(s.resource))
  /\ \A i \in DOMAIN s.resource :
       s.resource[i] \notin UnsafeNames \cup {"_", "a__b"}

\* validateArg: an URL, an expansion or a literal secret is none.
ArgFits(arg) == arg \notin {"https://elsewhere", "${HOME}", "--token=x"}

\* validateServer.
ServerFits(s) ==
  /\ SafeServerName(s.name)
  /\ \/ /\ s.kind = "local"
        /\ s.command \notin UnsafeNames /\ Folded(s.command) # "bzmux"
        /\ s.resource = <<>> /\ s.auth = ""
     \/ /\ s.kind \in RemoteKinds
        /\ s.command = "" /\ s.args = <<>> /\ s.auth = "env"
        /\ ResourceFits(s)
  /\ \A i \in DOMAIN s.args : ArgFits(s.args[i])
  /\ IsInjective(s.inherit)
  /\ \A i \in DOMAIN s.inherit : s.inherit[i] \notin Malformed

DistinctNames(names) == IsInjective([i \in DOMAIN names |-> Folded(names[i])])

\* mcpconfig.Config.Validate.
DocumentFits(doc) ==
  /\ doc.schema = "buzz-managed-mcp" /\ doc.version = 1
  /\ Len(doc.servers) <= MaxServers
  /\ \A i \in DOMAIN doc.servers : ServerFits(doc.servers[i])
  /\ DistinctNames([i \in DOMAIN doc.servers |-> doc.servers[i].name])

\* parseMCPConfig: the document in mcp_config, strictly parsed, is the mcp.
MCPConfigParses(c) ==
  c.doc # None => ~ HasManagedMCP(c) /\ c.doc.strict /\ DocumentFits(c.doc)

WithMCPConfig(c) ==
  IF c.doc = None THEN c
  ELSE [c EXCEPT !.mcp = [schema |-> c.doc.schema, version |-> c.doc.version,
                          servers |-> c.doc.servers]]

-----------------------------------------------------------------------------
(* The skills document: [strict, schema, version, aitools, names,           *)
(* collision], where names and collision are those of aitools, if present.  *)

MaxSkills == 64

SkillsFit(doc) ==
  /\ doc.schema = "buzz-skills" /\ doc.version = 1
  /\ doc.aitools =>
       /\ Len(doc.names) <= MaxSkills
       /\ \A i \in DOMAIN doc.names :
            doc.names[i] \notin UnsafeNames /\ Folded(doc.names[i]) # "buzz-cli"
       /\ DistinctNames(doc.names)
       /\ doc.collision \in {"", "fail", "replace-managed"}

\* A document without aitools asks for no skills.
HasSkills(c) == c.skills # None /\ c.skills.aitools

-----------------------------------------------------------------------------
(* ParseDeployRequest. *)

Parses(r) ==
  /\ MCPConfigParses(r.config)
  /\ r.config.skills # None =>
       r.config.skills.strict /\ SkillsFit(r.config.skills)
  /\ LaunchParses(r)

Parsed(r) == ApplyLaunch([r EXCEPT !.config = WithMCPConfig(@)])

-----------------------------------------------------------------------------
(* DeployRequest.Validate, of a request that is parsed. *)

AgentFits(a) ==
  /\ a.nsec # ""
  /\ a.relay = "wss://relay"
  /\ a.command \in DOMAIN supportedAgentCommands
  /\ DOMAIN a.env \cap (ReservedScratch \cup Malformed) = {}

validInferenceAuthValues == {"", "env", "sandbox"}

\* What a request may not set beside a credential it never carried.
Forbidden(c) ==
  (IF SandboxInferenceAuth(c) THEN credentialPairEnvKeys ELSE {})
    \cup (IF OwnerPATInSandbox(c) THEN ownerPATForbiddenEnvKeys \cup LoaderClass
          ELSE {})

validateOwnerPATEnvVars(r) == DOMAIN r.agent.env \cap Forbidden(r.config) = {}

\* validateCapabilityKeysOwnerPAT.
NoCapability(c) == c.bins = <<>> /\ c.servers = <<>> /\ ~ HasManagedMCP(c)

\* What an extra binary would shadow: install.BinNames, the adapters'
\* commands, the image's codex, the multiplexer.
ReservedBins ==
  {"buzz", "buzz-acp", "buzz-agent", "buzz-dev-mcp", "git-credential-nostr",
   "claude-agent-acp", "codex-acp", "codex", "bzmux"}

\* validateExtraBinaries.
BinFits(b) ==
  /\ b.url = "https://host/path"
  /\ b.sha = "pinned"
  /\ b.bin \notin UnsafeNames \cup ReservedBins

\* validateMcpServers.
ServersFit(names) ==
  /\ Len(names) <= MaxServers
  /\ \A i \in DOMAIN names : names[i] \notin UnsafeNames \cup {"a__b", "bzmux"}
  /\ IsInjective(names)

\* validateClaudeInferenceSource: one coherent endpoint.
ClaudeSource(r) ==
  IF Has(r.agent.env, "ANTHROPIC_BASE_URL")
  THEN Has(r.agent.env, "ANTHROPIC_AUTH_TOKEN")
  ELSE SandboxInferenceAuth(r.config) \/ Has(r.agent.env, "DATABRICKS_HOST")

\* validateCodexInferenceSource.
CodexSource(r) ==
  OwnerPATInSandbox(r.config) =>
    DOMAIN r.agent.env \cap codexAdapterEnvVars = {}

Validates(r) ==
  /\ AgentFits(r.agent)
  /\ r.config.auth \in validInferenceAuthValues
  /\ validateOwnerPATEnvVars(r)
  /\ OwnerPATInSandbox(r.config) => NoCapability(r.config)
  /\ \A i \in DOMAIN r.config.bins : BinFits(r.config.bins[i])
  /\ ServersFit(r.config.servers)
  /\ HasManagedMCP(r.config) =>
       r.config.servers = <<>> /\ DocumentFits(r.config.mcp)
  /\ HasSkills(r.config) =>
       ~ OwnerPATInSandbox(r.config) /\ SkillsFit(r.config.skills)
  /\ RuntimeFor(r.agent.command) = "claude" => ClaudeSource(r)
  /\ RuntimeFor(r.agent.command) = "codex" => CodexSource(r)

Admitted(r) == Parses(r) /\ Validates(Parsed(r))

=============================================================================
