-------------------------- MODULE InferenceProofs --------------------------
(***************************************************************************)
(* What every admitted request, deployed on a sandbox that is used again,  *)
(* leaves there, for every set of requests, however many deploys, restarts *)
(* and crashes, and whatever the disk does.                                *)
(***************************************************************************)
EXTENDS InferenceInvariant, TLAPS

-----------------------------------------------------------------------------
(* The request that is parsed.                                             *)

LEMMA DocumentIsMCP ==
  ASSUME NEW c \in ProviderConfig
  PROVE  LET d == WithMCPConfig(c)
         IN /\ d.auth = c.auth /\ d.keep = c.keep /\ d.bins = c.bins
            /\ d.servers = c.servers /\ d.skills = c.skills
            /\ d.keep \in BOOLEAN /\ d.servers \in Seq(STRING)
            /\ d.mcp.servers \in Seq(Server)
<1> USE DEF ProviderConfig
<1>1. CASE c.doc = None
  BY <1>1 DEF WithMCPConfig
<1>2. CASE c.doc # None
  <2>1. c.doc.servers \in Seq(Server)
    BY <1>2
  <2> QED BY <1>2, <2>1 DEF WithMCPConfig
<1> QED BY <1>1, <1>2

LEMMA ParsedAgent ==
  ASSUME NEW q, IsRequest(q)
  PROVE  LET r == Parsed(q)
             from == LaunchEnv(q.agent.env, q.agent.launch)
         IN /\ r.config = WithMCPConfig(q.config)
            /\ r.agent.nsec = q.agent.nsec /\ r.agent.relay = q.agent.relay
            /\ r.agent.launch = q.agent.launch
            /\ q.agent.launch = None =>
                 r.agent.env = q.agent.env /\ r.agent.typed = q.agent.typed
            /\ q.agent.launch # None =>
                 /\ r.agent.typed = FromLaunch(q.agent.launch, from)
                 /\ r.agent.env =
                      Restrict(from, DOMAIN from \ Dropped(WithMCPConfig(q.config)))
<1> DEFINE p == [q EXCEPT !.config = WithMCPConfig(@)]
<1>1. p.agent = q.agent /\ p.config = WithMCPConfig(q.config)
      /\ p = [agent |-> p.agent, config |-> p.config]
  BY DEF IsRequest
<1>2. Parsed(q) = ApplyLaunch(p)
  BY DEF Parsed
<1> HIDE DEF p
<1>3. CASE q.agent.launch = None
  BY <1>1, <1>2, <1>3 DEF ApplyLaunch
<1>4. CASE q.agent.launch # None
  <2> DEFINE from == LaunchEnv(q.agent.env, q.agent.launch)
             launched == FromLaunch(q.agent.launch, from)
             left == Restrict(from, DOMAIN from \ Dropped(p.config))
  <2>1. Parsed(q) = [p EXCEPT !.agent.command = q.agent.launch.command,
                              !.agent.typed = launched,
                              !.agent.env = left]
    BY <1>1, <1>2, <1>4 DEF ApplyLaunch
  <2> DEFINE agentOf == [p.agent EXCEPT !.command = q.agent.launch.command,
                                        !.typed = launched, !.env = left]
  <2> HIDE DEF launched, left
  <2>2. /\ agentOf.nsec = q.agent.nsec /\ agentOf.relay = q.agent.relay
        /\ agentOf.launch = q.agent.launch /\ agentOf.typed = launched
        /\ agentOf.env = left
    <3>1. DOMAIN q.agent = {"nsec", "relay", "command", "typed", "env", "launch"}
      BY DEF IsRequest
    <3> QED BY <1>1, <3>1
  <2>2a. DOMAIN p = {"agent", "config"}
    BY <1>1
  <2>2b. Parsed(q).config = p.config /\ Parsed(q).agent = agentOf
    BY <2>1, <2>2a
  <2> HIDE DEF agentOf
  <2>3. /\ Parsed(q).config = p.config
        /\ Parsed(q).agent.nsec = p.agent.nsec
        /\ Parsed(q).agent.relay = p.agent.relay
        /\ Parsed(q).agent.launch = p.agent.launch
        /\ Parsed(q).agent.typed = launched
        /\ Parsed(q).agent.env = left
    BY <1>1, <2>2, <2>2b
  <2> QED BY <1>1, <1>4, <2>3 DEF launched, left
<1> QED BY <1>3, <1>4

\* What is known of a request that was admitted and parsed.
LaunchedClean(r) ==
  /\ Brings(r.agent.env, {Legacy}) /\ r.agent.nsec # Legacy
  /\ \A f \in {"args", "owner", "respond", "allow", "prompt", "model",
               "provider", "agents", "idle", "turn"} : r.agent.typed[f] # Legacy

LEMMA LaunchIsClean ==
  ASSUME NEW n \in DOMAIN Request, NEW q \in Request[n],
         q.agent.launch # None
  PROVE  LET from == LaunchEnv(q.agent.env, q.agent.launch)
             typed == FromLaunch(q.agent.launch, from)
         IN /\ Brings(from, OwnWords \cup {Legacy})
            /\ \A f \in {"args", "owner", "respond", "allow", "prompt", "model",
                         "provider", "agents", "idle", "turn"} : typed[f] # Legacy
<1> DEFINE launch == q.agent.launch
           asked == Overlaid(launch.policy, launch.env)
           from == LaunchEnv(q.agent.env, launch)
<1>1. /\ Brings(launch.env, OwnWords \cup {Legacy})
      /\ Brings(launch.policy, OwnWords \cup {Legacy})
      /\ Legacy \notin {launch.args, launch.owner}
  BY LaunchAssumption
<1>2. Brings(asked, OwnWords \cup {Legacy})
  BY <1>1 DEF Brings, Overlaid
<1>3. Brings(from, OwnWords \cup {Legacy})
  BY <1>2 DEF Brings, LaunchEnv
<1> HIDE DEF from, asked
<1>4. \A key : Has(asked, key) => asked[key] # Legacy
  BY <1>2 DEF Brings, Has, ValueOf
<1>5. \A key : ValueOf(asked, key) # Legacy /\ ValueOf(from, key) # Legacy
  BY <1>2, <1>3 DEF Brings, ValueOf, Legacy
<1>6. \A key, default : default # Legacy => Given(from, key, default) # Legacy
  BY <1>3 DEF Brings, Given
<1> DEFINE typed == FromLaunch(launch, from)
<1>7. /\ typed.args = launch.args /\ typed.owner = launch.owner
      /\ typed.respond = IF Has(asked, "BUZZ_ACP_RESPOND_TO")
                         THEN asked["BUZZ_ACP_RESPOND_TO"] ELSE "owner-only"
      /\ typed.allow \in {ValueOf(asked, "BUZZ_ACP_RESPOND_TO_ALLOWLIST"), ""}
      /\ typed.prompt = ValueOf(from, "BUZZ_ACP_SYSTEM_PROMPT")
      /\ typed.model = Given(from, "BUZZ_ACP_MODEL",
                             Given(from, "ANTHROPIC_MODEL", ""))
      /\ typed.provider = Given(from, "BUZZ_AGENT_PROVIDER",
                                Given(from, "GOOSE_PROVIDER", ""))
      /\ typed.agents = Given(from, "BUZZ_ACP_AGENTS", "1")
      /\ typed.idle = Given(from, "BUZZ_ACP_IDLE_TIMEOUT", "0")
      /\ typed.turn = Given(from, "BUZZ_ACP_MAX_TURN_DURATION", "0")
  BY DEF FromLaunch, asked
<1> HIDE DEF typed
<1>8. /\ typed.args # Legacy /\ typed.owner # Legacy /\ typed.respond # Legacy
      /\ typed.allow # Legacy /\ typed.prompt # Legacy
  BY <1>1, <1>4, <1>5, <1>7 DEF Legacy
<1>9. "" # Legacy /\ "1" # Legacy /\ "0" # Legacy
  BY DEF Legacy
<1>10. /\ typed.model # Legacy /\ typed.provider # Legacy
       /\ typed.agents # Legacy /\ typed.idle # Legacy /\ typed.turn # Legacy
  BY <1>6, <1>7, <1>9
<1> QED BY <1>3, <1>8, <1>10 DEF from, typed

LEMMA FitIs ==
  ASSUME NEW r \in Fit
  PROVE  /\ Validates(r)
         /\ r.config.keep \in BOOLEAN
         /\ r.config.servers \in Seq(STRING) /\ r.config.mcp.servers \in Seq(Server)
         /\ Brings(r.agent.env, OwnWords)
         /\ Brings(r.config.servers, OwnWords \cup {Legacy})
         /\ r.agent.launch # None => LaunchedClean(r)
<1>0. PICK n \in DOMAIN Request :
         \E q \in Request[n] : Admitted(q) /\ r = Parsed(q)
  BY DEF Fit
<1>1. PICK q \in Request[n] : Admitted(q) /\ r = Parsed(q)
  BY <1>0
<1>2. /\ IsRequest(q) /\ Brings(q.agent.env, OwnWords)
      /\ Brings(q.config.servers, OwnWords \cup {Legacy})
  BY InferenceAssumption
<1>3. Validates(r)
  BY <1>1 DEF Admitted
<1>4. q.config \in ProviderConfig
  BY <1>2 DEF IsRequest
<1> DEFINE d == WithMCPConfig(q.config)
           from == LaunchEnv(q.agent.env, q.agent.launch)
<1>5. /\ r.config = d /\ r.agent.nsec = q.agent.nsec
      /\ r.agent.launch = q.agent.launch
      /\ q.agent.launch = None =>
           r.agent.env = q.agent.env /\ r.agent.typed = q.agent.typed
      /\ q.agent.launch # None =>
           /\ r.agent.typed = FromLaunch(q.agent.launch, from)
           /\ r.agent.env = Restrict(from, DOMAIN from \ Dropped(d))
  BY <1>1, <1>2, ParsedAgent
<1>6. /\ d.keep \in BOOLEAN /\ d.servers \in Seq(STRING)
      /\ d.mcp.servers \in Seq(Server) /\ d.servers = q.config.servers
  BY <1>4, DocumentIsMCP
<1> HIDE DEF d
<1>7. CASE q.agent.launch = None
  BY <1>2, <1>3, <1>5, <1>6, <1>7
<1>8. CASE q.agent.launch # None
  <2>1. /\ Brings(from, OwnWords \cup {Legacy})
        /\ \A f \in {"args", "owner", "respond", "allow", "prompt", "model",
                     "provider", "agents", "idle", "turn"} :
             r.agent.typed[f] # Legacy
    BY <1>5, <1>8, LaunchIsClean
  <2> HIDE DEF from
  <2>2. Brings(r.agent.env, OwnWords) /\ Brings(r.agent.env, {Legacy})
    BY <1>5, <1>8, <2>1 DEF Brings, Restrict
  <2>3. r.agent.nsec # Legacy
    BY <1>5, <1>8, LaunchAssumption
  <2> QED BY <1>2, <1>3, <1>5, <1>6, <2>1, <2>2, <2>3 DEF LaunchedClean
<1> QED BY <1>7, <1>8

-----------------------------------------------------------------------------
(* What is rendered from it.                                               *)

Runtimes == {"claude", "codex", "buzz-agent"}
Endpoint ==
  {"DATABRICKS_HOST", "DATABRICKS_TOKEN", "ANTHROPIC_BASE_URL",
   "ANTHROPIC_AUTH_TOKEN", "CODEX_HOME"}
Unfixed == Endpoint \cup Redirects \cup LoaderClass

FixedKeys ==
  {"BUZZ_PRIVATE_KEY", "NOSTR_PRIVATE_KEY", "BUZZ_AUTH_TAG", "BUZZ_RELAY_URL",
   "BUZZ_ACP_AGENT_COMMAND", "BUZZ_ACP_AGENT_ARGS", "BUZZ_ACP_AGENTS",
   "BUZZ_ACP_SYSTEM_PROMPT", "BUZZ_ACP_AGENT_OWNER", "BUZZ_ACP_MODEL",
   "BUZZ_ACP_RESPOND_TO", "BUZZ_ACP_RESPOND_TO_ALLOWLIST",
   "BUZZ_ACP_IDLE_TIMEOUT", "BUZZ_ACP_MAX_TURN_DURATION",
   "BUZZ_ACP_MCP_COMMAND", "MCP_HOOK_SERVERS", "BUZZ_ACP_RELAY_OBSERVER",
   "BUZZ_ACP_DEDUP", "BUZZ_ACP_MULTIPLE_EVENT_HANDLING",
   "BUZZ_AGENT_PROVIDER", "DATABRICKS_MODEL", "BUZZ_ACP_PERMISSION_MODE"}

LEMMA FixedIs ==
  ASSUME NEW a, NEW rt \in Runtimes, NEW mcp
  PROVE  /\ DOMAIN Fixed(a, rt, mcp) \cap Unfixed = {}
         /\ "BUZZ_ACP_AGENT_COMMAND" \in DOMAIN Fixed(a, rt, mcp)
         /\ Fixed(a, rt, mcp)["BUZZ_ACP_AGENT_COMMAND"] = SpawnCommand[rt]
         /\ ValueOf(Fixed(a, rt, mcp), "BUZZ_ACP_MCP_COMMAND")
              \in {mcp, "buzz-dev-mcp", ""}
<1>1. SpawnCommand[rt] # NotEmitted
  BY DEF Runtimes, SpawnCommand, NotEmitted
<1>2. DOMAIN Fixed(a, rt, mcp) \cap Unfixed = {}
  <2>1. DOMAIN Fixed(a, rt, mcp) \subseteq FixedKeys
    BY DEF Fixed, Decided, Emitted, Restrict, FixedKeys
  <2>2. FixedKeys \cap Unfixed = {}
    BY DEF FixedKeys, Unfixed, Endpoint, Redirects, LoaderClass
  <2> QED BY <2>1, <2>2
<1>3. /\ "BUZZ_ACP_AGENT_COMMAND" \in DOMAIN Fixed(a, rt, mcp)
      /\ Fixed(a, rt, mcp)["BUZZ_ACP_AGENT_COMMAND"] = SpawnCommand[rt]
  BY <1>1 DEF Fixed, Decided, Emitted, Restrict
<1>4. ValueOf(Fixed(a, rt, mcp), "BUZZ_ACP_MCP_COMMAND")
        \in {mcp, "buzz-dev-mcp", ""}
  BY DEF Fixed, Decided, Emitted, Restrict, ValueOf, When
<1> QED BY <1>2, <1>3, <1>4

LEMMA FixedClean ==
  ASSUME NEW a, NEW rt \in Runtimes, NEW mcp,
         a.nsec # Legacy, a.relay # Legacy, mcp # Legacy,
         \A f \in {"args", "owner", "respond", "allow", "prompt", "model",
                  "provider", "agents", "idle", "turn"} : a.typed[f] # Legacy
  PROVE  Brings(Fixed(a, rt, mcp), {Legacy})
<1>1. SpawnCommand[rt] # Legacy
  BY DEF Runtimes, SpawnCommand, Legacy
<1>2. /\ a.typed.args # Legacy /\ a.typed.owner # Legacy
      /\ a.typed.respond # Legacy /\ a.typed.allow # Legacy
      /\ a.typed.prompt # Legacy /\ a.typed.model # Legacy
      /\ a.typed.provider # Legacy /\ a.typed.agents # Legacy
      /\ a.typed.idle # Legacy /\ a.typed.turn # Legacy
  OBVIOUS
<1> DEFINE d == Decided(a, rt, mcp)
<1>3. \A k \in DOMAIN d : d[k] # Legacy
  <2>1. DOMAIN d = FixedKeys
    BY DEF Decided, FixedKeys
  <2>2. /\ d["BUZZ_PRIVATE_KEY"] # Legacy /\ d["NOSTR_PRIVATE_KEY"] # Legacy
        /\ d["BUZZ_AUTH_TAG"] # Legacy /\ d["BUZZ_RELAY_URL"] # Legacy
        /\ d["BUZZ_ACP_AGENT_COMMAND"] # Legacy
        /\ d["BUZZ_ACP_AGENT_ARGS"] # Legacy /\ d["BUZZ_ACP_AGENTS"] # Legacy
        /\ d["BUZZ_ACP_SYSTEM_PROMPT"] # Legacy
    BY <1>1, <1>2 DEF Decided, Legacy
  <2>3. /\ d["BUZZ_ACP_AGENT_OWNER"] # Legacy /\ d["BUZZ_ACP_MODEL"] # Legacy
        /\ d["BUZZ_ACP_RESPOND_TO"] # Legacy
        /\ d["BUZZ_ACP_RESPOND_TO_ALLOWLIST"] # Legacy
        /\ d["BUZZ_ACP_IDLE_TIMEOUT"] # Legacy
        /\ d["BUZZ_ACP_MAX_TURN_DURATION"] # Legacy
        /\ d["BUZZ_ACP_MCP_COMMAND"] # Legacy
    BY <1>2 DEF Decided, When, NotEmitted, Legacy
  <2>4. /\ d["MCP_HOOK_SERVERS"] # Legacy
        /\ d["BUZZ_ACP_RELAY_OBSERVER"] # Legacy /\ d["BUZZ_ACP_DEDUP"] # Legacy
        /\ d["BUZZ_ACP_MULTIPLE_EVENT_HANDLING"] # Legacy
        /\ d["BUZZ_AGENT_PROVIDER"] # Legacy /\ d["DATABRICKS_MODEL"] # Legacy
        /\ d["BUZZ_ACP_PERMISSION_MODE"] # Legacy
    BY <1>2 DEF Decided, When, NotEmitted, Legacy
  <2> HIDE DEF d
  <2> QED BY <2>1, <2>2, <2>3, <2>4 DEF FixedKeys
<1> QED BY <1>3 DEF Fixed, Emitted, Restrict, Brings

\* bzmux loads the servers of every admitted request that needs it.
LEMMA ServersLoad ==
  ASSUME NEW r \in Fit, McpMode(r.config) = "mux"
  PROVE  Loads(MuxNames(r.config))
<1> DEFINE c == r.config
<1>1. /\ Validates(r) /\ c.servers \in Seq(STRING)
      /\ c.mcp.servers \in Seq(Server)
  BY FitIs
<1>2. CASE HasManagedMCP(c)
  <2> DEFINE names == [i \in DOMAIN c.mcp.servers |-> c.mcp.servers[i].name]
  <2>1. MuxNames(c) = names /\ c.mcp.servers # <<>>
    BY <1>2 DEF MuxNames, HasManagedMCP
  <2>2. DocumentFits(c.mcp)
    BY <1>1, <1>2 DEF Validates
  <2>3. /\ \A i \in DOMAIN c.mcp.servers : SafeServerName(c.mcp.servers[i].name)
        /\ DistinctNames(names)
    BY <2>2 DEF DocumentFits, ServerFits
  <2>4. \A i \in DOMAIN names : names[i] # ""
    BY <2>3 DEF SafeServerName, UnsafeNames
  <2>5. IsInjective(names)
    BY <2>3 DEF DistinctNames, IsInjective
  <2>6. 1 \in DOMAIN names
    BY <1>1, <2>1
  <2> HIDE DEF names
  <2>7. names # <<>>
    BY <2>6
  <2> QED BY <2>1, <2>4, <2>5, <2>7 DEF Loads
<1>3. CASE ~ HasManagedMCP(c)
  <2>1. MuxNames(c) = c.servers /\ Len(c.servers) >= 2
    BY <1>1, <1>3 DEF MuxNames, McpMode
  <2>2. ServersFit(c.servers)
    BY <1>1 DEF Validates
  <2>3. c.servers # <<>>
    BY <2>1
  <2> QED BY <2>1, <2>2, <2>3 DEF Loads, ServersFit, UnsafeNames
<1> QED BY <1>2, <1>3

LEMMA McpCommandIs ==
  ASSUME NEW r \in Fit
  PROVE  /\ McpCommand(r.config) = "bzmux-launch" => McpMode(r.config) = "mux"
         /\ McpCommand(r.config) # Legacy
         /\ NoCapability(r.config) => McpCommand(r.config) = ""
<1> DEFINE c == r.config
<1>1. c.servers \in Seq(STRING) /\ Brings(c.servers, OwnWords \cup {Legacy})
  BY FitIs
<1>2. CASE McpMode(c) = "none"
  BY <1>2 DEF McpCommand, Legacy
<1>3. CASE McpMode(c) = "direct"
  <2>0. Len(c.servers) = 1
    BY <1>1, <1>3 DEF McpMode
  <2>1. ~ NoCapability(c)
    BY <2>0 DEF NoCapability
  <2>2. 1 \in DOMAIN c.servers
    BY <1>1, <2>0
  <2>3. c.servers[1] \notin OwnWords \cup {Legacy}
    BY <1>1, <2>2 DEF Brings
  <2>4. McpCommand(c) = c.servers[1]
    BY <1>3 DEF McpCommand
  <2> QED BY <2>1, <2>3, <2>4 DEF OwnWords
<1>4. CASE McpMode(c) = "mux"
  <2>1. ~ NoCapability(c)
    BY <1>1, <1>4 DEF McpMode, NoCapability
  <2> QED BY <1>4, <2>1 DEF McpCommand, Legacy
<1>5. McpMode(c) \in {"none", "direct", "mux"}
  BY DEF McpMode
<1> QED BY <1>2, <1>3, <1>4, <1>5

LEMMA RenderedIs ==
  ASSUME NEW r \in Fit
  PROVE  LET c == RenderEnv(r)
         IN /\ c.rt = RuntimeFor(r.agent.command) /\ c.rt \in Runtimes
            /\ c.derive = SandboxInferenceAuth(r.config)
            /\ \A k \in Unfixed :
                 /\ k \in DOMAIN c.exports <=> k \in DOMAIN r.agent.env
                 /\ ValueOf(c.exports, k) = ValueOf(r.agent.env, k)
                 /\ ValueOf(c.exports, k) \notin OwnWords
            /\ Muxed(c.exports) => McpMode(r.config) = "mux"
            /\ OwnerPATInSandbox(r.config) => Provided(c.rt, c.exports)
<1> DEFINE c == RenderEnv(r)
           rt == RuntimeFor(r.agent.command)
           fixed == Fixed(r.agent, rt, McpCommand(r.config))
<1>1. /\ c.rt = rt /\ c.derive = SandboxInferenceAuth(r.config)
      /\ c.exports = Overlaid(fixed, r.agent.env)
  BY DEF RenderEnv
<1>2. Validates(r) /\ Brings(r.agent.env, OwnWords)
  BY FitIs
<1>3. rt \in Runtimes
  BY <1>2 DEF Validates, AgentFits, RuntimeFor, Runtimes, supportedAgentCommands
<1> HIDE DEF rt
<1>4. /\ DOMAIN fixed \cap Unfixed = {}
      /\ "BUZZ_ACP_AGENT_COMMAND" \in DOMAIN fixed
      /\ fixed["BUZZ_ACP_AGENT_COMMAND"] = SpawnCommand[rt]
      /\ ValueOf(fixed, "BUZZ_ACP_MCP_COMMAND")
           \in {McpCommand(r.config), "buzz-dev-mcp", ""}
  BY <1>3, FixedIs
<1> HIDE DEF fixed, c
<1>5. \A k : ValueOf(r.agent.env, k) \notin OwnWords
  BY <1>2 DEF Brings, ValueOf, OwnWords
<1>6. \A k \in Unfixed :
        /\ k \in DOMAIN c.exports <=> k \in DOMAIN r.agent.env
        /\ ValueOf(c.exports, k) = ValueOf(r.agent.env, k)
        /\ ValueOf(c.exports, k) \notin OwnWords
  BY <1>1, <1>4, <1>5 DEF Overlaid, ValueOf
<1> DEFINE mcp == "BUZZ_ACP_MCP_COMMAND"
<1>6a. ValueOf(c.exports, mcp) =
         IF mcp \in DOMAIN r.agent.env THEN ValueOf(r.agent.env, mcp)
         ELSE ValueOf(fixed, mcp)
  BY <1>1 DEF Overlaid, ValueOf
<1>7. ASSUME Muxed(c.exports)
      PROVE  McpMode(r.config) = "mux"
  <2>1. ValueOf(fixed, "BUZZ_ACP_MCP_COMMAND") = "bzmux-launch"
    BY <1>5, <1>6a, <1>7 DEF Muxed, OwnWords
  <2> QED BY <1>4, <2>1, McpCommandIs
<1>8. ASSUME OwnerPATInSandbox(r.config)
      PROVE  Provided(c.rt, c.exports)
  <2>1. /\ DOMAIN r.agent.env \cap (ownerPATForbiddenEnvKeys \cup LoaderClass) = {}
        /\ NoCapability(r.config)
    BY <1>2, <1>8 DEF Validates, validateOwnerPATEnvVars, Forbidden
  <2>2. /\ "BUZZ_ACP_AGENT_COMMAND" \notin DOMAIN r.agent.env
        /\ "BUZZ_ACP_MCP_COMMAND" \notin DOMAIN r.agent.env
    BY <2>1 DEF ownerPATForbiddenEnvKeys
  <2>3. ValueOf(c.exports, "BUZZ_ACP_AGENT_COMMAND") = SpawnCommand[rt]
    BY <1>1, <1>4, <2>2 DEF Overlaid, ValueOf
  <2>4. DOMAIN c.exports \cap LoaderClass = {}
    BY <1>6, <2>1 DEF Unfixed
  <2>5. ValueOf(c.exports, "BUZZ_ACP_MCP_COMMAND") \in {"", "buzz-dev-mcp"}
    BY <1>4, <1>6a, <2>1, <2>2, McpCommandIs
  <2> QED BY <1>1, <2>3, <2>4, <2>5 DEF Provided
<1> QED BY <1>1, <1>3, <1>6, <1>7, <1>8 DEF c, rt

-----------------------------------------------------------------------------
(* What a shell has from it.                                               *)

Cfgs == {"baked", "half", "stub"}
Home == "DATABRICKS_HOST"
Token == "DATABRICKS_TOKEN"
Base == "ANTHROPIC_BASE_URL"
Auth == "ANTHROPIC_AUTH_TOKEN"

\* Two environments that agree on a name.
Agree(e, f, k) == ValueOf(e, k) = ValueOf(f, k) /\ (k \in DOMAIN e <=> k \in DOMAIN f)

LEMMA DerivedIs ==
  ASSUME NEW e, NEW c \in Cfgs
  PROVE  LET d == Derived(e, c)
         IN /\ \A k : k \notin {Home, Token} => Agree(d, e, k)
            /\ \/ d = e /\ (Has(e, Token) \/ Has(e, Home) \/ c # "baked")
               \/ /\ c = "baked" /\ ~ Has(e, Token) /\ ~ Has(e, Home)
                  /\ ValueOf(d, Home) = "home" /\ ValueOf(d, Token) = "pat"
<1>1. CASE Has(e, Token) \/ Has(e, Home) \/ c # "baked"
  BY <1>1 DEF Derived, CfgHost, CfgToken, Cfgs, Home, Token, Agree
<1>2. CASE ~ (Has(e, Token) \/ Has(e, Home) \/ c # "baked")
  <2> DEFINE f == Put(e, Token, "pat")
             d == Put(f, Home, "home")
  <2>1. Derived(e, c) = d
    BY <1>2 DEF Derived, CfgHost, CfgToken, Home, Token
  <2>2. \A k : /\ ValueOf(d, k) = IF k = Home THEN "home"
                                   ELSE IF k = Token THEN "pat" ELSE ValueOf(e, k)
               /\ k \notin {Home, Token} => (k \in DOMAIN d <=> k \in DOMAIN e)
    BY DEF Put, ValueOf
  <2> HIDE DEF d
  <2>3. Home # Token
    BY DEF Home, Token
  <2> QED BY <1>2, <2>1, <2>2, <2>3 DEF Agree
<1> QED BY <1>1, <1>2

LEMMA ClaudeEnvIs ==
  ASSUME NEW e
  PROVE  LET f == ClaudeEnv(e)
         IN /\ \A k : k \notin {Base, Auth} => Agree(f, e, k)
            /\ ValueOf(f, Base) =
                 IF Has(e, Base) THEN ValueOf(e, Base) ELSE ValueOf(e, Home)
            /\ ValueOf(f, Auth) =
                 IF Has(e, Base) \/ ~ Has(e, Home) \/ Has(e, Auth)
                 THEN ValueOf(e, Auth) ELSE ValueOf(e, Token)
<1>1. CASE Has(e, Base) \/ ~ Has(e, Home)
  BY <1>1 DEF ClaudeEnv, Home, Base, Auth, Has, Agree
<1>2. CASE ~ Has(e, Base) /\ Has(e, Home)
  <2> DEFINE based == Put(e, Base, ValueOf(e, Home))
  <2>1. \A k : /\ ValueOf(based, k) = IF k = Base THEN ValueOf(e, Home) ELSE ValueOf(e, k)
               /\ k # Base => (k \in DOMAIN based <=> k \in DOMAIN e)
    BY DEF Put, ValueOf
  <2>2. e["DATABRICKS_HOST"] = ValueOf(e, Home)
    BY <1>2 DEF Has, ValueOf, Home
  <2>3. Base # Auth
    BY DEF Base, Auth
  <2>4. CASE Has(e, Auth) \/ ~ Has(e, Token)
    <3>1. ClaudeEnv(e) = based
      BY <1>2, <2>2, <2>4 DEF ClaudeEnv, Home, Base, Auth, Token
    <3> HIDE DEF based
    <3> QED BY <1>2, <2>1, <2>3, <2>4, <3>1 DEF Agree, Has
  <2>5. CASE ~ (Has(e, Auth) \/ ~ Has(e, Token))
    <3>1. e["DATABRICKS_TOKEN"] = ValueOf(e, Token)
      BY <2>5 DEF Has, ValueOf, Token
    <3> DEFINE full == Put(based, Auth, ValueOf(e, Token))
    <3>2. ClaudeEnv(e) = full
      BY <1>2, <2>2, <2>5, <3>1 DEF ClaudeEnv, Home, Base, Auth, Token
    <3> HIDE DEF based
    <3>3. \A k : /\ ValueOf(full, k) =
                      IF k = Auth THEN ValueOf(e, Token) ELSE ValueOf(based, k)
                 /\ k # Auth => (k \in DOMAIN full <=> k \in DOMAIN based)
      BY DEF Put, ValueOf
    <3> HIDE DEF full
    <3> QED BY <1>2, <2>1, <2>3, <2>5, <3>2, <3>3 DEF Agree
  <2> QED BY <2>4, <2>5
<1> QED BY <1>1, <1>2

LEMMA CodexEnvIs ==
  ASSUME NEW e, NEW stuck \in BOOLEAN
  PROVE  LET f == CodexEnv(e, stuck)
         IN /\ \A k : k # "CODEX_HOME" => Agree(f, e, k)
            /\ ValueOf(f, "CODEX_HOME") =
                 IF Has(e, "CODEX_HOME") THEN ValueOf(e, "CODEX_HOME")
                 ELSE IF stuck THEN "empty" ELSE "ours"
BY DEF CodexEnv, Put, ValueOf, Agree

LEMMA SourcedIs ==
  ASSUME NEW content, content.rt \in Runtimes,
         NEW c, NEW old, NEW by, NEW disk
  PROVE  LET s == Sourced(content, c, old, by, disk)
             d == Paired(content, c)
         IN /\ content.rt = "claude" => s.env = ClaudeEnv(d) /\ s.file = old
            /\ content.rt = "codex" =>
                 /\ s.env = CodexEnv(d, disk = "stuck" /\ old # None)
                 /\ s.file = CodexFile(d, old, by, disk)
            /\ content.rt = "buzz-agent" => s.env = d /\ s.file = old
BY DEF Sourced, Paired, Runtimes

LEMMA PairedIs ==
  ASSUME NEW content, content.derive \in BOOLEAN, NEW c \in Cfgs
  PROVE  LET e == content.exports
             d == Paired(content, c)
         IN /\ \A k : k \notin {Home, Token} => Agree(d, e, k)
            /\ \/ d = e /\ (~ content.derive \/ Has(e, Token) \/ Has(e, Home) \/ c # "baked")
               \/ /\ content.derive /\ c = "baked"
                  /\ ~ Has(e, Token) /\ ~ Has(e, Home)
                  /\ ValueOf(d, Home) = "home" /\ ValueOf(d, Token) = "pat"
<1>1. CASE content.derive
  <2>1. Paired(content, c) = Derived(content.exports, c)
    BY <1>1 DEF Paired
  <2> QED BY <1>1, <2>1, DerivedIs
<1>2. CASE ~ content.derive
  BY <1>2 DEF Paired, Agree
<1> QED BY <1>1, <1>2

LEMMA SourcedKeeps ==
  ASSUME NEW content, content.rt \in Runtimes, content.derive \in BOOLEAN,
         NEW c \in Cfgs, NEW old, NEW by, NEW disk
  PROVE  LET s == Sourced(content, c, old, by, disk)
         IN /\ \A k : k \notin Endpoint => Agree(s.env, content.exports, k)
            /\ content.rt # "codex" => Agree(s.env, content.exports, "CODEX_HOME")
<1> DEFINE d == Paired(content, c)
           s == Sourced(content, c, old, by, disk)
<1>1. \A k : k \notin {Home, Token} => Agree(d, content.exports, k)
  BY PairedIs
<1>2. /\ content.rt = "claude" => s.env = ClaudeEnv(d)
      /\ content.rt = "codex" => s.env = CodexEnv(d, disk = "stuck" /\ old # None)
      /\ content.rt = "buzz-agent" => s.env = d
  BY SourcedIs
<1> HIDE DEF d, s
<1>3. \A k : k \notin {Base, Auth} => Agree(ClaudeEnv(d), d, k)
  BY ClaudeEnvIs
<1>4. \A k : k # "CODEX_HOME" => Agree(CodexEnv(d, disk = "stuck" /\ old # None), d, k)
  <2> DEFINE stuck == disk = "stuck" /\ old # None
  <2>1. stuck \in BOOLEAN
    OBVIOUS
  <2> HIDE DEF stuck
  <2>2. \A k : k # "CODEX_HOME" => Agree(CodexEnv(d, stuck), d, k)
    BY <2>1, CodexEnvIs
  <2> QED BY <2>2 DEF stuck
<1>5. \A e, f, g, k : Agree(e, f, k) /\ Agree(f, g, k) => Agree(e, g, k)
  BY DEF Agree
<1>6. \A k : k \notin Endpoint =>
        k \notin {Home, Token} /\ k \notin {Base, Auth} /\ k # "CODEX_HOME"
  BY DEF Endpoint, Home, Token, Base, Auth
<1>7. "CODEX_HOME" \notin {Home, Token} /\ "CODEX_HOME" \notin {Base, Auth}
  BY DEF Home, Token, Base, Auth
<1>8. CASE content.rt = "claude"
  BY <1>1, <1>2, <1>3, <1>5, <1>6, <1>7, <1>8 DEF s
<1>9. CASE content.rt = "codex"
  BY <1>1, <1>2, <1>4, <1>5, <1>6, <1>9 DEF s
<1>10. CASE content.rt = "buzz-agent"
  BY <1>1, <1>2, <1>6, <1>7, <1>10 DEF s
<1> QED BY <1>8, <1>9, <1>10 DEF Runtimes

\* What sourcing an environment may leave as config.toml, for deploy n.
Written(e, n) ==
  {None} \cup {[url |-> u, by |-> n] : u \in {"", ValueOf(e, Home)}}

\* What sourcing does to config.toml, and where the provider's CODEX_HOME is
\* the agent's.
LEMMA FileIs ==
  ASSUME NEW content, content.rt \in Runtimes, content.derive \in BOOLEAN,
         ValueOf(content.exports, "CODEX_HOME") # "ours",
         NEW c \in Cfgs, NEW old, NEW by, NEW disk
  PROVE  LET s == Sourced(content, c, old, by, disk)
             written == Written(Paired(content, c), by)
         IN /\ s.file = old \/ s.file \in written
            /\ ValueOf(s.env, "CODEX_HOME") = "ours" => s.file \in written
<1> DEFINE d == Paired(content, c)
           s == Sourced(content, c, old, by, disk)
           stuck == disk = "stuck" /\ old # None
<1>1. CASE content.rt # "codex"
  <2>1. ValueOf(s.env, "CODEX_HOME") # "ours"
    BY <1>1, SourcedKeeps DEF Agree
  <2>2. s.file = old
    BY <1>1, SourcedIs DEF Runtimes
  <2> QED BY <2>1, <2>2
<1>2. CASE content.rt = "codex"
  <2>1. s.env = CodexEnv(d, stuck) /\ s.file = CodexFile(d, old, by, disk)
    BY <1>2, SourcedIs
  <2>2. ValueOf(d, "CODEX_HOME") # "ours"
    BY PairedIs DEF Agree, Home, Token
  <2>3. stuck \in BOOLEAN
    OBVIOUS
  <2> DEFINE url == IF disk = "full" THEN "" ELSE ValueOf(d, Home)
             new == [url |-> url, by |-> by]
  <2> HIDE DEF d, s
  <2>4. /\ s.file \in {old, None, new}
        /\ ~ Has(d, "CODEX_HOME") /\ ~ stuck => s.file \in {None, new}
    BY <2>1 DEF CodexFile, ValueOf, Home
  <2>5. None \in Written(d, by) /\ new \in Written(d, by)
    BY DEF Written
  <2> HIDE DEF stuck, new
  <2>6. ValueOf(s.env, "CODEX_HOME") = "ours" => ~ Has(d, "CODEX_HOME") /\ ~ stuck
    BY <2>1, <2>2, <2>3, CodexEnvIs
  <2>7. /\ s.file = old \/ s.file \in Written(d, by)
        /\ ValueOf(s.env, "CODEX_HOME") = "ours" => s.file \in Written(d, by)
    BY <2>4, <2>5, <2>6
  <2> QED BY <2>7 DEF d, s
<1> QED BY <1>1, <1>2

\* Sourcing leaves the endpoint's own name alone: only the agent of Claude Code
\* has it under another.
LEMMA SourcedHome ==
  ASSUME NEW content, content.rt \in Runtimes,
         NEW c, NEW old, NEW by, NEW disk, NEW n
  PROVE  LET e == Sourced(content, c, old, by, disk).env
         IN /\ ValueOf(e, Home) = ValueOf(Paired(content, c), Home)
            /\ Written(e, n) = Written(Paired(content, c), n)
<1> DEFINE d == Paired(content, c)
           e == Sourced(content, c, old, by, disk).env
           stuck == disk = "stuck" /\ old # None
<1>1. /\ content.rt = "claude" => e = ClaudeEnv(d)
      /\ content.rt = "codex" => e = CodexEnv(d, stuck)
      /\ content.rt = "buzz-agent" => e = d
  BY SourcedIs
<1>2. stuck \in BOOLEAN
  OBVIOUS
<1> HIDE DEF d, e, stuck
<1>3. Home \notin {Base, Auth} /\ Home # "CODEX_HOME"
  BY DEF Home, Base, Auth
<1>4. Agree(ClaudeEnv(d), d, Home) /\ Agree(CodexEnv(d, stuck), d, Home)
  BY <1>2, <1>3, ClaudeEnvIs, CodexEnvIs
<1>5. ValueOf(e, Home) = ValueOf(d, Home)
  BY <1>1, <1>4 DEF Agree, Runtimes
<1>6. Written(e, n) = Written(d, n)
  BY <1>5 DEF Written
<1> QED BY <1>5, <1>6 DEF d, e

\* Who wrote a config.toml, and the endpoint it has.
LEMMA WrittenIs ==
  ASSUME NEW e, NEW n, NEW g \in Written(e, n)
  PROVE  g = None \/ (g.by = n /\ g.url \in {"", ValueOf(e, Home)})
<1>1. CASE g = None
  BY <1>1
<1>2. ASSUME NEW u \in {"", ValueOf(e, Home)}, g = [url |-> u, by |-> n]
      PROVE  g.by = n /\ g.url \in {"", ValueOf(e, Home)}
  BY <1>2
<1> QED BY <1>1, <1>2 DEF Written

-----------------------------------------------------------------------------
(* Where an agent with it sends which token.                               *)

\* A content, as of the request r.
Renders(content, r) ==
  /\ content.rt = RenderEnv(r).rt /\ content.derive = RenderEnv(r).derive
  /\ content.exports = RenderEnv(r).exports

LEMMA ContentIs ==
  ASSUME NEW r \in Fit, NEW content, Renders(content, r)
  PROVE  LET e == content.exports
         IN /\ content.rt \in Runtimes /\ content.derive \in BOOLEAN
            /\ content.derive = SandboxInferenceAuth(r.config)
            /\ \A k \in Unfixed : ValueOf(e, k) \notin OwnWords
            /\ content.derive =>
                 /\ ~ Has(e, Home) /\ ~ Has(e, Token)
                 /\ ~ Has(e, Base) /\ ~ Has(e, Auth)
            /\ content.derive /\ content.rt = "codex" =>
                 ~ Has(e, "CODEX_HOME") /\ DOMAIN e \cap Redirects = {}
            /\ content.rt = "claude" =>
                 \/ Has(e, Base) /\ Has(e, Auth)
                 \/ ~ Has(e, Base) /\ (content.derive \/ Has(e, Home))
<1> DEFINE e == content.exports
           have == r.agent.env
<1>1. /\ content.rt = RuntimeFor(r.agent.command) /\ content.rt \in Runtimes
      /\ content.derive = SandboxInferenceAuth(r.config)
      /\ \A k \in Unfixed :
           /\ k \in DOMAIN e <=> k \in DOMAIN have
           /\ ValueOf(e, k) = ValueOf(have, k)
           /\ ValueOf(e, k) \notin OwnWords
  BY RenderedIs DEF Renders
<1>2. Validates(r)
  BY FitIs
<1>3. {Home, Token, Base, Auth, "CODEX_HOME"} \subseteq Unfixed /\ Redirects \subseteq Unfixed
  BY DEF Unfixed, Endpoint, Home, Token, Base, Auth
<1>4. ASSUME content.derive
      PROVE  /\ ~ Has(e, Home) /\ ~ Has(e, Token)
             /\ ~ Has(e, Base) /\ ~ Has(e, Auth)
  <2>1. DOMAIN have \cap credentialPairEnvKeys = {}
    BY <1>1, <1>2, <1>4 DEF Validates, validateOwnerPATEnvVars, Forbidden
  <2>2. {Home, Token, Base, Auth} \subseteq credentialPairEnvKeys
    BY DEF credentialPairEnvKeys, Home, Token, Base, Auth
  <2> QED BY <1>1, <1>3, <2>1, <2>2 DEF Has, ValueOf
<1>5. ASSUME content.derive, content.rt = "codex"
      PROVE  ~ Has(e, "CODEX_HOME") /\ DOMAIN e \cap Redirects = {}
  <2>1. DOMAIN have \cap codexAdapterEnvVars = {}
    BY <1>1, <1>2, <1>5 DEF Validates, CodexSource, OwnerPATInSandbox
  <2>2. {"CODEX_HOME"} \cup Redirects \subseteq codexAdapterEnvVars
    BY DEF codexAdapterEnvVars, Redirects
  <2> QED BY <1>1, <1>3, <2>1, <2>2 DEF Has, ValueOf
<1>6. ASSUME content.rt = "claude"
      PROVE  \/ Has(e, Base) /\ Has(e, Auth)
             \/ ~ Has(e, Base) /\ (content.derive \/ Has(e, Home))
  <2>1. ClaudeSource(r)
    BY <1>1, <1>2, <1>6 DEF Validates
  <2>2. \A k \in {Home, Base, Auth} : Has(e, k) <=> Has(have, k)
    BY <1>1, <1>3 DEF Has
  <2> QED BY <1>1, <2>1, <2>2 DEF ClaudeSource, Home, Base, Auth
<1> QED BY <1>1, <1>4, <1>5, <1>6 DEF SandboxInferenceAuth

\* What an agent asks with a config.toml of its own is sound.
LEMMA AgentAsksSoundly ==
  ASSUME NEW r \in Fit, NEW content, Renders(content, r),
         NEW c \in Cfgs, NEW old, NEW by, NEW disk, NEW n
  PROVE  LET s == Sourced(content, c, old, by, disk)
         IN \A g \in Written(s.env, n) :
              AsksSoundly(content.rt, s.env, Inference(content.rt, s.env, g))
<1> DEFINE e == content.exports
           d == Paired(content, c)
           s == Sourced(content, c, old, by, disk)
<1> SUFFICES ASSUME NEW g \in Written(s.env, n)
             PROVE  AsksSoundly(content.rt, s.env, Inference(content.rt, s.env, g))
  OBVIOUS
<1> DEFINE asks == Inference(content.rt, s.env, g)
<1>1. /\ content.rt \in Runtimes /\ content.derive \in BOOLEAN
      /\ \A k \in {Home, Token, Base, Auth, "CODEX_HOME"} : ValueOf(e, k) \notin OwnWords
      /\ content.derive =>
           /\ ~ Has(e, Home) /\ ~ Has(e, Token)
           /\ ~ Has(e, Base) /\ ~ Has(e, Auth)
      /\ content.derive /\ content.rt = "codex" =>
           ~ Has(e, "CODEX_HOME") /\ DOMAIN e \cap Redirects = {}
      /\ content.rt = "claude" =>
           \/ Has(e, Base) /\ Has(e, Auth)
           \/ ~ Has(e, Base) /\ (content.derive \/ Has(e, Home))
  BY ContentIs DEF Unfixed, Endpoint, Home, Token, Base, Auth
<1>2. /\ \A k : k \notin {Home, Token} => Agree(d, e, k)
      /\ \/ d = e
         \/ /\ content.derive
            /\ ValueOf(d, Home) = "home" /\ ValueOf(d, Token) = "pat"
  BY <1>1, PairedIs
<1>3. Base \notin {Home, Token} /\ Auth \notin {Home, Token}
      /\ "CODEX_HOME" \notin {Home, Token}
      /\ "pat" \in OwnWords /\ "public" \in OwnWords /\ "ours" \in OwnWords
      /\ "home" # "" /\ "pat" # "" /\ "public" # "" /\ "home" # "public"
  BY DEF Home, Token, Base, Auth, OwnWords
<1>4. CASE content.rt = "claude"
  <2>1. s.env = ClaudeEnv(d)
    BY <1>1, <1>4, SourcedIs
  <2> DEFINE f == ClaudeEnv(d)
  <2>2. /\ ValueOf(f, Base) =
             IF Has(d, Base) THEN ValueOf(d, Base) ELSE ValueOf(d, Home)
        /\ ValueOf(f, Auth) =
             IF Has(d, Base) \/ ~ Has(d, Home) \/ Has(d, Auth)
             THEN ValueOf(d, Auth) ELSE ValueOf(d, Token)
    BY ClaudeEnvIs
  <2>3. /\ asks.url = IF Has(f, Base) THEN ValueOf(f, Base) ELSE "public"
        /\ asks.token = ValueOf(f, Auth)
    BY <1>4, <2>1 DEF Inference, Has, ValueOf, Base, Auth
  <2>4. \A k \in {Base, Auth} : ValueOf(d, k) = ValueOf(e, k)
    BY <1>2, <1>3 DEF Agree
  <2> HIDE DEF f, d, asks
  <2>5. ASSUME d = e
        PROVE  AsksSoundly(content.rt, s.env, asks)
    BY <1>1, <1>3, <1>4, <2>2, <2>3, <2>5 DEF AsksSoundly, Has
  <2>6. ASSUME content.derive,
               ValueOf(d, Home) = "home", ValueOf(d, Token) = "pat"
        PROVE  AsksSoundly(content.rt, s.env, asks)
    BY <1>1, <1>3, <1>4, <2>2, <2>3, <2>4, <2>6 DEF AsksSoundly, Has
  <2> QED BY <1>2, <2>5, <2>6 DEF asks, d
<1>5. CASE content.rt = "buzz-agent"
  <2>1. s.env = d
    BY <1>1, <1>5, SourcedIs
  <2>2. asks.url = ValueOf(d, Home) /\ asks.token = ValueOf(d, Token)
    BY <1>5, <2>1 DEF Inference, Home, Token
  <2> HIDE DEF d, asks
  <2>3. AsksSoundly(content.rt, s.env, asks)
    BY <1>1, <1>2, <1>3, <1>5, <2>2 DEF AsksSoundly
  <2> QED BY <2>3 DEF asks, d
<1>6. CASE content.rt = "codex"
  <2> DEFINE stuck == disk = "stuck" /\ old # None
             f == CodexEnv(d, stuck)
  <2>1. s.env = f
    BY <1>1, <1>6, SourcedIs
  <2>2. stuck \in BOOLEAN
    OBVIOUS
  <2> HIDE DEF stuck
  <2>3. /\ \A k : k # "CODEX_HOME" => Agree(f, d, k)
        /\ ValueOf(f, "CODEX_HOME") =
             IF Has(d, "CODEX_HOME") THEN ValueOf(d, "CODEX_HOME")
             ELSE IF stuck THEN "empty" ELSE "ours"
    BY <2>2, CodexEnvIs
  <2>4. ValueOf(e, "CODEX_HOME") # "ours"
    BY <1>1, <1>3
  <2>5. g = None \/ g.url \in {"", ValueOf(d, Home)}
    <3>1. g \in Written(d, n)
      BY <1>1, SourcedHome
    <3> QED BY <3>1, WrittenIs
  <2>6. ValueOf(f, Token) = ValueOf(d, Token) /\ ValueOf(d, "CODEX_HOME") = ValueOf(e, "CODEX_HOME")
    BY <1>2, <1>3, <2>3 DEF Agree, Token
  <2>7. ASSUME content.derive
        PROVE  DOMAIN f \cap Redirects = {}
    <3>1. \A k \in Redirects : k \notin {Home, Token} /\ k # "CODEX_HOME"
      BY DEF Redirects, Home, Token
    <3> QED BY <1>1, <1>2, <1>6, <2>3, <2>7, <3>1 DEF Agree
  <2> DEFINE url == ConfiguredUrl(f, g)
  <2>8. /\ asks.url = IF DOMAIN f \cap Redirects # {} THEN "elsewhere" ELSE url
        /\ asks.token \in {"", ValueOf(f, Token)}
        /\ asks.url = "" => asks.token = ""
    BY <1>6, <2>1 DEF Inference, Token
  <2> DEFINE at == ValueOf(f, "CODEX_HOME")
  <2>9. /\ at = "ours" => url \in {"", ValueOf(d, Home)}
        /\ at = "empty" => url = ""
        /\ url \in {"", "elsewhere", "home", ValueOf(d, Home)}
    <3>1. g = None \/ g.url \in {"", ValueOf(d, Home)}
      BY <2>5
    <3>2. url = CASE at = "ours" -> IF g = None THEN "" ELSE g.url
                  [] at = "own" -> "elsewhere"
                  [] at = "empty" -> ""
                  [] OTHER -> "home"
      BY DEF ConfiguredUrl
    <3> HIDE DEF at, url, d
    <3>3. at = "ours" => url \in {"", ValueOf(d, Home)}
      <4>1. at = "ours" => url = IF g = None THEN "" ELSE g.url
        BY <3>2
      <4> QED BY <3>1, <4>1
    <3>4. at = "empty" => url = ""
      BY <3>2
    <3>5. at # "ours" => url \in {"", "elsewhere", "home"}
      BY <3>2
    <3> QED BY <3>3, <3>4, <3>5
  <2>10. Has(f, "CODEX_HOME")
    BY <2>3 DEF Has
  <2> HIDE DEF f, d, asks, url, s
  <2>11. ASSUME d = e
         PROVE  AsksSoundly(content.rt, f, asks)
    <3>1. /\ ValueOf(d, Home) \notin OwnWords
          /\ ValueOf(f, Token) \notin OwnWords
      BY <1>1, <2>6, <2>11
    <3>2. asks.token # "pat"
      BY <1>3, <2>8, <3>1
    <3>3. asks.url # "public"
      BY <1>3, <2>8, <2>9, <3>1
    <3> QED BY <2>10, <3>2, <3>3 DEF AsksSoundly
  <2>12. ASSUME content.derive,
                ValueOf(d, Home) = "home", ValueOf(d, Token) = "pat"
         PROVE  AsksSoundly(content.rt, f, asks)
    <3>1. ValueOf(f, "CODEX_HOME") \in {"ours", "empty"}
      BY <1>1, <1>6, <2>3, <2>6, <2>12 DEF Has
    <3> QED BY <1>3, <1>6, <2>7, <2>8, <2>9, <2>10, <2>12, <3>1 DEF AsksSoundly
  <2>13. AsksSoundly(content.rt, f, asks)
    BY <1>2, <2>11, <2>12
  <2> QED BY <2>1, <2>13 DEF asks, s, f, d
<1> QED BY <1>1, <1>4, <1>5, <1>6 DEF Runtimes

-----------------------------------------------------------------------------
(* What the probe asks is what the agent asks.                             *)

\* CodexEnv and CodexFile together: the endpoint that codex finds.
LEMMA CodexUrl ==
  ASSUME NEW content, content.rt = "codex", content.derive \in BOOLEAN,
         ValueOf(content.exports, "CODEX_HOME") # "ours",
         NEW c \in Cfgs, NEW old, NEW by, NEW disk, NEW n, NEW g,
         ValueOf(Sourced(content, c, old, by, disk).env, "CODEX_HOME") = "ours"
           => g \in Written(Paired(content, c), n)
  PROVE  LET s == Sourced(content, c, old, by, disk)
             url == ConfiguredUrl(s.env, g)
         IN /\ url = "" \/ url = Expected(content, c).url
            /\ ValueOf(s.env, Token) = Expected(content, c).token
<1> DEFINE d == Paired(content, c)
           stuck == disk = "stuck" /\ old # None
           f == CodexEnv(d, stuck)
<1>0. content.rt \in Runtimes
  BY DEF Runtimes
<1>1. Sourced(content, c, old, by, disk).env = f
  BY <1>0, SourcedIs
<1>2. /\ Expected(content, c).url =
           IF Has(d, "CODEX_HOME") THEN ConfiguredUrl(d, None) ELSE ValueOf(d, Home)
      /\ Expected(content, c).token = ValueOf(d, Token)
  BY DEF Expected, Home, Token
<1>3. ValueOf(f, "CODEX_HOME") = "ours" =>
        g = None \/ g.url \in {"", ValueOf(d, Home)}
  BY <1>1, WrittenIs
<1>4. stuck \in BOOLEAN
  OBVIOUS
<1> HIDE DEF stuck
<1> DEFINE at == ValueOf(f, "CODEX_HOME")
           at0 == ValueOf(d, "CODEX_HOME")
           url == ConfiguredUrl(f, g)
           url0 == ConfiguredUrl(d, None)
<1>5. /\ at = IF Has(d, "CODEX_HOME") THEN at0
              ELSE IF stuck THEN "empty" ELSE "ours"
      /\ ValueOf(f, Token) = ValueOf(d, Token)
  BY <1>4, CodexEnvIs DEF Agree, Token
<1>6. Has(d, "CODEX_HOME") => at0 # "ours"
  BY PairedIs DEF Agree, Home, Token
<1>7. url = CASE at = "ours" -> IF g = None THEN "" ELSE g.url
              [] at = "own" -> "elsewhere"
              [] at = "empty" -> ""
              [] OTHER -> "home"
  BY DEF ConfiguredUrl
<1>8. url0 = CASE at0 = "ours" -> ""
               [] at0 = "own" -> "elsewhere"
               [] at0 = "empty" -> ""
               [] OTHER -> "home"
  BY DEF ConfiguredUrl
<1> HIDE DEF url, url0, at, at0, f, d
<1>10. url = "" \/ url = Expected(content, c).url
  <2>1. CASE Has(d, "CODEX_HOME")
    BY <1>2, <1>5, <1>6, <1>7, <1>8, <2>1 DEF url0
  <2>2. CASE ~ Has(d, "CODEX_HOME")
    <3>1. at = "empty" => url = ""
      BY <1>7
    <3>2. at = "ours" => url = IF g = None THEN "" ELSE g.url
      BY <1>7
    <3>3. at = "ours" => url \in {"", ValueOf(d, Home)}
      BY <1>3, <3>2 DEF at
    <3> QED BY <1>2, <1>5, <2>2, <3>1, <3>3
  <2> QED BY <2>1, <2>2
<1> QED BY <1>1, <1>2, <1>5, <1>10 DEF url

\* A probe that had an answer asked what is expected of the agent.
LEMMA ProbedIs ==
  ASSUME NEW content, content.rt \in Runtimes, content.rt # "buzz-agent",
         content.derive \in BOOLEAN, ValueOf(content.exports, "CODEX_HOME") # "ours",
         NEW c \in Cfgs, NEW old, NEW by, NEW disk
  PROVE  LET s == Sourced(content, c, old, by, disk)
             p == Probed(content.rt, s.env, s.file)
         IN p.url # "" => p = Expected(content, c)
<1> DEFINE s == Sourced(content, c, old, by, disk)
           p == Probed(content.rt, s.env, s.file)
           x == Expected(content, c)
<1>1. CASE content.rt = "claude"
  <2>1. s.env = ClaudeEnv(Paired(content, c))
    BY <1>1, SourcedIs
  <2>2. p = x
    BY <1>1, <2>1 DEF Probed, Expected
  <2> QED BY <2>2
<1>2. CASE content.rt = "codex"
  <2> DEFINE url == ConfiguredUrl(s.env, s.file)
             token == ValueOf(s.env, Token)
  <2>1. (url = "" \/ url = x.url) /\ token = x.token
    <3>1. ValueOf(s.env, "CODEX_HOME") = "ours" => s.file \in Written(Paired(content, c), by)
      BY FileIs
    <3> QED BY <1>2, <3>1, CodexUrl
  <2>2. p = [url |-> url, token |-> token]
    BY <1>2 DEF Probed, Token
  <2>3. x = [url |-> x.url, token |-> x.token]
    BY <1>2 DEF Expected
  <2> HIDE DEF p, url, token, x
  <2>4. p.url # "" => p = x
    BY <2>1, <2>2, <2>3
  <2> QED BY <2>4 DEF p, x
<1> QED BY <1>1, <1>2 DEF Runtimes

\* What an agent then asks.
LEMMA AsksExpected ==
  ASSUME NEW content, content.rt \in Runtimes, content.derive \in BOOLEAN,
         ValueOf(content.exports, "CODEX_HOME") # "ours",
         NEW c \in Cfgs, NEW old, NEW by, NEW disk, NEW n
  PROVE  LET s == Sourced(content, c, old, by, disk)
             x == Expected(content, c)
         IN x.url # "" =>
              \A g \in Written(s.env, n) :
                AsksAsProbed(content.rt, s.env, Inference(content.rt, s.env, g), x)
<1> DEFINE s == Sourced(content, c, old, by, disk)
           x == Expected(content, c)
<1>0. /\ content.rt = "claude" => s.env = ClaudeEnv(Paired(content, c))
      /\ content.rt = "buzz-agent" => s.env = Paired(content, c)
      /\ Written(s.env, n) = Written(Paired(content, c), n)
  BY SourcedIs, SourcedHome
<1> SUFFICES ASSUME x.url # "", NEW g \in Written(s.env, n),
                    DOMAIN s.env \cap Redirects = {}
             PROVE  \/ Inference(content.rt, s.env, g) = x
                    \/ content.rt = "codex" /\ Inference(content.rt, s.env, g).url = ""
  BY DEF AsksAsProbed
<1> DEFINE asks == Inference(content.rt, s.env, g)
<1>1. CASE content.rt = "claude"
  <2> DEFINE base == ValueOf(s.env, Base)
             auth == ValueOf(s.env, Auth)
  <2>1. s.env = ClaudeEnv(Paired(content, c))
    BY <1>0, <1>1
  <2>2. x = [url |-> base, token |-> auth]
    BY <1>1, <2>1 DEF Expected, Probed, Base, Auth
  <2>3. asks = [url |-> IF base # "" THEN base ELSE "public", token |-> auth]
    BY <1>1 DEF Inference, Has, ValueOf, Base, Auth
  <2> HIDE DEF asks, x, base, auth
  <2>4. x.url # "" => asks = x
    BY <2>2, <2>3
  <2> QED BY <2>4 DEF asks, x
<1>2. CASE content.rt = "codex"
  <2> DEFINE url == ConfiguredUrl(s.env, g)
             token == ValueOf(s.env, Token)
  <2>1. (url = "" \/ url = x.url) /\ token = x.token
    <3>1. g \in Written(Paired(content, c), n)
      BY <1>0
    <3> QED BY <1>2, <3>1, CodexUrl
  <2>2. x = [url |-> x.url, token |-> x.token]
    BY <1>2 DEF Expected
  <2>3. DOMAIN s.env \cap Redirects = {} =>
          asks = [url |-> url, token |-> IF url = "" THEN "" ELSE token]
    BY <1>2 DEF Inference, Token
  <2> HIDE DEF asks, x, url, token
  <2> DEFINE named == [url |-> url, token |-> IF url = "" THEN "" ELSE token]
  <2>4. named.url = "" \/ named = x
    BY <2>1, <2>2
  <2> HIDE DEF named
  <2>5. DOMAIN s.env \cap Redirects = {} => asks = named
    BY <2>3 DEF named
  <2> QED BY <1>2, <2>4, <2>5 DEF asks, x
<1>3. CASE content.rt = "buzz-agent"
  <2>1. s.env = Paired(content, c)
    BY <1>0, <1>3
  <2>2. asks = x
    BY <1>3, <2>1 DEF Expected, Inference
  <2> QED BY <2>2
<1> QED BY <1>1, <1>2, <1>3 DEF Runtimes

-----------------------------------------------------------------------------
(* How each variable moves.                                                *)

Order ==
  {<<"auth", "install">>, <<"install", "mcp">>, <<"install", "verify">>,
   <<"mcp", "verify">>, <<"verify", "probe">>, <<"verify", "env">>,
   <<"probe", "env">>, <<"env", "kill">>, <<"kill", "launch-write">>,
   <<"launch-write", "launch">>, <<"launch", "check">>}

RunMoves ==
  \/ run' = run
  \/ /\ run.at \in Between /\ run'.at = "auth" /\ run'.n = run.n + 1
     /\ run'.probed = None
  \/ run.at \in Steps /\ run'.at \in Between /\ run'.n = run.n
  \/ <<run.at, run'.at>> \in Order /\ run'.n = run.n /\ run'.r = run.r

\* Step x of the run is taken, to go on with y.
Takes(x, y) == run.at = x /\ run'.at = y /\ run'.n = run.n /\ run'.r = run.r

EnvMoves ==
  \/ env' = env /\ ~ (run.at = "env" /\ run'.at = "kill")
  \/ env' = None /\ run'.at \in Between
  \/ Takes("env", "kill") /\ env' = EnvOf(run.n, run.r)

MuxMoves ==
  \/ /\ mux' = mux
     /\ run.at = "install" /\ run'.at \in Steps =>
          run' = run \/ McpMode(Config) # "mux"
  \/ /\ Takes("install", "mcp") /\ McpMode(Config) = "mux"
     /\ mux' = [n |-> run.n, names |-> MuxNames(Config)]

ScriptMoves ==
  \/ script' = script /\ ~ (run.at = "launch-write" /\ run'.at = "launch")
  \/ /\ Takes("launch-write", "launch")
     /\ script' = [n |-> run.n, stubs |-> Stubs(Config)]

\* The agent that launch.sh starts.
Launches ==
  /\ env # None /\ script # None /\ agent = None
  /\ UNCHANGED <<env, script, mux>> /\ run'.n = run.n
  /\ cfg' = IF script.stubs THEN "stub" ELSE cfg
  /\ \E disk \in Disks :
       LET s == Sourced(env, cfg', file, env.n, disk)
       IN /\ file' = s.file
          /\ agent' = [n |-> env.n, script |-> script.n, rt |-> env.rt,
                       env |-> s.env, pat |-> CfgToken(cfg') # "",
                       probed |-> None]

AgentMoves ==
  \/ agent' = agent /\ ~ (run.at = "kill" /\ run'.at = "launch-write")
  \/ agent' = None
  \/ /\ run.at = "check" /\ run'.at = "idle" /\ run'.n = run.n /\ agent # None
     /\ agent' = [agent EXCEPT !.probed = run.probed]
     /\ UNCHANGED <<cfg, file, env, script, mux>>
  \/ Launches /\ run'.at \in Between \cup {"check"}

FileMoves ==
  \/ file' = file
  \/ /\ run.at \in Steps \ Rendered /\ run'.n = run.n
     /\ UNCHANGED <<env, agent>>
     /\ \E disk \in Disks : file' = Sourced(Content, cfg, file, run.n, disk).file
  \/ /\ env # None /\ run'.n = run.n /\ env' = env
     /\ agent' = agent \/ Launches
     /\ \E disk \in Disks, c \in {cfg, "stub"} :
          file' = Sourced(env, c, file, env.n, disk).file

\* Only a restart, which ends the agent, brings the token back.
CfgMoves == cfg' \in {cfg, "stub"} \/ agent' = None

LEMMA GoesOn ==
  ASSUME RunSound, NEW x, Goes(x)
  PROVE  /\ run' = [n |-> run.n, at |-> x, r |-> run.r, probed |-> run.probed]
         /\ run'.n = run.n /\ run'.at = x /\ run'.r = run.r
         /\ run'.probed = run.probed
<1>1. DOMAIN run = {"n", "at", "r", "probed"}
  BY DEF RunSound
<1> QED BY <1>1 DEF Goes, RunSound

LEMMA RunStep ==
  ASSUME RunSound, [Next]_vars
  PROVE  RunSound' /\ RunMoves
<1> USE DEF RunSound, RunMoves, Between, Steps
<1>1. CASE UNCHANGED <<run, cfg>>
  BY <1>1
<1>2. CASE Begin
  <2>1. PICK r \in Request[run.n + 1] :
          /\ Admitted(r)
          /\ run' = [n |-> run.n + 1, at |-> "auth", r |-> Parsed(r),
                     probed |-> None]
    BY <1>2 DEF Begin
  <2>2. run.n + 1 \in DOMAIN Request /\ run.n + 1 \in 0..Deploys
    BY <1>2, InferenceAssumption DEF Begin, Deploys
  <2>3. Parsed(r) \in Fit
    BY <2>1, <2>2 DEF Fit
  <2> QED BY <1>2, <2>1, <2>2, <2>3 DEF Begin, home
<1>3. CASE AuthFails \/ Crash \/ StepFails
  BY <1>3 DEF AuthFails, Crash, StepFails, Ends, home
<1>4. CASE AuthProbe
  BY <1>4 DEF AuthProbe, Order, home
<1>5. CASE PATReset
  BY <1>5, GoesOn DEF PATReset, Order
<1>6. CASE Install
  BY <1>6, GoesOn DEF Install, Order
<1>7. CASE McpVerify
  BY <1>7, GoesOn DEF McpVerify, Order
<1>8. CASE Verify
  BY <1>8, GoesOn DEF Verify, Order
<1>9. CASE Probe
  <2>1. PICK p : run' = [run EXCEPT !.at = "env", !.probed = p]
    BY <1>9 DEF Probe
  <2> QED BY <1>9, <2>1 DEF Probe, Order
<1>10. CASE EnvWrite
  BY <1>10, GoesOn DEF EnvWrite, Order
<1>11. CASE PrelaunchKill
  BY <1>11, GoesOn DEF PrelaunchKill, Order, home
<1>12. CASE LaunchWrite
  BY <1>12, GoesOn DEF LaunchWrite, Order
<1>13. CASE LaunchExec
  <2>1. cfg' \in {cfg, "stub"} /\ run.at = "launch" /\ Goes("check")
    BY <1>13 DEF LaunchExec, LaunchScript
  <2> QED BY <2>1, GoesOn DEF Order
<1>14. CASE Check
  BY <1>14 DEF Check, Ends, home
<1>15. CASE Restart \/ Start \/ SpawnMCP
  BY <1>15 DEF Restart, Start, SpawnMCP, LaunchScript
<1> QED
  BY <1>1, <1>2, <1>3, <1>4, <1>5, <1>6, <1>7, <1>8, <1>9, <1>10, <1>11,
     <1>12, <1>13, <1>14, <1>15 DEF Next, vars, home

LEMMA HomeStep ==
  ASSUME RunSound, [Next]_vars
  PROVE  EnvMoves /\ MuxMoves /\ ScriptMoves
<1> USE DEF EnvMoves, MuxMoves, ScriptMoves, Between, Steps
<1>1. CASE UNCHANGED <<run, env, mux, script>>
  BY <1>1
<1>2. CASE Begin
  BY <1>2 DEF Begin, home
<1>3. CASE AuthFails \/ Crash \/ StepFails
  BY <1>3 DEF AuthFails, Crash, StepFails, Ends, home
<1>4. CASE AuthProbe
  BY <1>4 DEF AuthProbe, home
<1>5. CASE PATReset
  BY <1>5, GoesOn DEF PATReset
<1>6. CASE Install
  <2>1. CASE McpMode(Config) = "mux"
    BY <1>6, <2>1, GoesOn DEF Install, Takes
  <2>2. CASE McpMode(Config) # "mux"
    BY <1>6, <2>2 DEF Install
  <2> QED BY <2>1, <2>2
<1>7. CASE McpVerify
  BY <1>7 DEF McpVerify
<1>8. CASE Verify
  BY <1>8 DEF Verify
<1>9. CASE Probe
  BY <1>9 DEF Probe
<1>10. CASE EnvWrite
  BY <1>10, GoesOn DEF EnvWrite, Takes, EnvOf, Content
<1>11. CASE PrelaunchKill
  BY <1>11 DEF PrelaunchKill, home
<1>12. CASE LaunchWrite
  BY <1>12, GoesOn DEF LaunchWrite, Takes
<1>13. CASE LaunchExec
  BY <1>13 DEF LaunchExec, LaunchScript
<1>14. CASE Check
  BY <1>14 DEF Check, home
<1>15. CASE Restart \/ Start \/ SpawnMCP
  BY <1>15 DEF Restart, Start, SpawnMCP, LaunchScript
<1> QED
  BY <1>1, <1>2, <1>3, <1>4, <1>5, <1>6, <1>7, <1>8, <1>9, <1>10, <1>11,
     <1>12, <1>13, <1>14, <1>15 DEF Next, vars, home

LEMMA LaunchIs ==
  ASSUME RunSound, LaunchScript, run'.n = run.n
  PROVE  /\ UNCHANGED <<env, script, mux>>
         /\ agent' = agent \/ Launches
         /\ \/ file' = file
            \/ /\ env # None
               /\ \E disk \in Disks, c \in {cfg, "stub"} :
                    file' = Sourced(env, c, file, env.n, disk).file
<1>1. /\ script # None /\ UNCHANGED <<env, script, mux>>
      /\ cfg' = IF script.stubs THEN "stub" ELSE cfg
  BY DEF LaunchScript
<1>2. cfg' \in {cfg, "stub"}
  BY <1>1
<1>3. CASE env = None
  BY <1>1, <1>3 DEF LaunchScript
<1>4. CASE env # None
  <2>1. PICK disk \in Disks :
          /\ file' = Sourced(env, cfg', file, env.n, disk).file
          /\ agent' =
               IF agent # None THEN agent
               ELSE [n |-> env.n, script |-> script.n, rt |-> env.rt,
                     env |-> Sourced(env, cfg', file, env.n, disk).env,
                     pat |-> CfgToken(cfg') # "", probed |-> None]
    BY <1>4 DEF LaunchScript
  <2>2. CASE agent # None
    BY <1>1, <1>2, <1>4, <2>1, <2>2
  <2>3. CASE agent = None
    <3>1. Launches
      BY <1>1, <1>4, <2>1, <2>3 DEF Launches
    <3> QED BY <1>1, <1>2, <1>4, <2>1, <3>1
  <2> QED BY <2>2, <2>3
<1> QED BY <1>3, <1>4

LEMMA AgentStep ==
  ASSUME RunSound, [Next]_vars
  PROVE  AgentMoves /\ FileMoves
<1> USE DEF AgentMoves, FileMoves, Between, Steps, Rendered
<1>1. CASE UNCHANGED <<run, file, agent>>
  BY <1>1
<1>2. CASE Begin
  BY <1>2 DEF Begin, home
<1>3. CASE AuthFails \/ Crash
  BY <1>3 DEF AuthFails, Crash, Ends, home
<1>3a. CASE StepFails
  BY <1>3a DEF StepFails
<1>4. CASE AuthProbe
  BY <1>4 DEF AuthProbe, home
<1>5. CASE PATReset
  BY <1>5 DEF PATReset
<1>6. CASE Install
  BY <1>6 DEF Install
<1>7. CASE McpVerify
  <2>1. run'.n = run.n
    BY <1>7, GoesOn DEF McpVerify
  <2> QED BY <1>7, <2>1 DEF McpVerify, Sources
<1>8. CASE Verify
  <2>1. run'.n = run.n
    BY <1>8, GoesOn DEF Verify
  <2> QED BY <1>8, <2>1 DEF Verify, Sources
<1>9. CASE Probe
  <2>1. PICK disk \in Disks :
          /\ file' = Sources(disk).file
          /\ run' = [run EXCEPT !.at = "env",
                      !.probed = Probed(Content.rt, Sources(disk).env, Sources(disk).file)]
    BY <1>9 DEF Probe
  <2>2. run'.n = run.n
    BY <2>1 DEF RunSound
  <2>3. run.at \in Steps \ Rendered /\ UNCHANGED <<env, agent>> /\ run.at # "kill"
    BY <1>9 DEF Probe
  <2> QED BY <2>1, <2>2, <2>3 DEF Sources
<1>10. CASE EnvWrite
  BY <1>10 DEF EnvWrite
<1>11. CASE PrelaunchKill
  BY <1>11 DEF PrelaunchKill, home
<1>12. CASE LaunchWrite
  BY <1>12 DEF LaunchWrite
<1>13. CASE LaunchExec
  <2>1. /\ run'.n = run.n /\ LaunchScript /\ run.at # "kill"
        /\ run'.at \in Between \cup {"check"}
    BY <1>13, GoesOn DEF LaunchExec
  <2> HIDE DEF Between, Steps, Rendered
  <2> QED BY <2>1, LaunchIs
<1>14. CASE Check
  <2>1. run'.n = run.n /\ run'.at = "idle"
    BY <1>14 DEF Check, Ends
  <2> QED BY <1>14, <2>1 DEF Check, home
<1>15. CASE Restart
  BY <1>15 DEF Restart
<1>16. CASE Start
  <2>1. /\ run'.n = run.n /\ LaunchScript /\ run.at # "kill"
        /\ run'.at \in Between \cup {"check"}
    BY <1>16 DEF Start
  <2> HIDE DEF Between, Steps, Rendered
  <2> QED BY <2>1, LaunchIs
<1>17. CASE SpawnMCP
  <2>1. /\ env # None /\ UNCHANGED <<run, env, agent>>
        /\ \E disk \in Disks : file' = Sourced(env, cfg, file, env.n, disk).file
    BY <1>17 DEF SpawnMCP
  <2> QED BY <2>1
<1> QED
  BY <1>1, <1>2, <1>3, <1>3a, <1>4, <1>5, <1>6, <1>7, <1>8, <1>9, <1>10, <1>11,
     <1>12, <1>13, <1>14, <1>15, <1>16, <1>17 DEF Next, vars, home

LEMMA CfgStep ==
  ASSUME [Next]_vars
  PROVE  CfgMoves
<1> USE DEF CfgMoves
<1>1. CASE cfg' = cfg
  BY <1>1
<1>2. CASE PATReset
  BY <1>2 DEF PATReset
<1>3. CASE LaunchExec \/ Start
  BY <1>3 DEF LaunchExec, Start, LaunchScript
<1>4. CASE Restart
  BY <1>4 DEF Restart
<1>5. ASSUME Begin \/ AuthFails \/ AuthProbe \/ Install \/ McpVerify \/ Verify
             \/ Probe \/ EnvWrite \/ PrelaunchKill \/ LaunchWrite \/ Check
             \/ StepFails \/ Crash \/ SpawnMCP
      PROVE  cfg' = cfg
  BY <1>5 DEF Begin, AuthFails, AuthProbe, Install, McpVerify, Verify, Probe,
     EnvWrite, PrelaunchKill, LaunchWrite, Check, StepFails, Crash, SpawnMCP, home
<1> QED BY <1>1, <1>2, <1>3, <1>4, <1>5 DEF Next, vars, home

-----------------------------------------------------------------------------
(* The files.                                                              *)

LEMMA EnvStep ==
  ASSUME RunSound, EnvSound, RunSound', RunMoves, EnvMoves
  PROVE  EnvSound'
<1>1. run.n \in Nat /\ run'.n \in Nat /\ run'.n >= run.n
  BY InferenceAssumption DEF RunSound, RunMoves, Deploys
<1>2. CASE env' = env /\ ~ (run.at = "env" /\ run'.at = "kill")
  <2>1. env' # None => env'.n \in 1..run'.n /\ \E r \in Fit : env' = EnvOf(env'.n, r)
    BY <1>1, <1>2 DEF EnvSound
  <2>2. run'.at \in Steps \ Rendered /\ env' # None => env'.n < run'.n
    BY <1>1, <1>2 DEF EnvSound, RunMoves, Order, Steps, Rendered, Between
  <2>3. run'.at \in Rendered => env' = EnvOf(run'.n, run'.r)
    BY <1>2 DEF EnvSound, RunMoves, Order, Steps, Rendered, Between
  <2> QED BY <2>1, <2>2, <2>3 DEF EnvSound
<1>3. CASE env' = None /\ run'.at \in Between
  BY <1>3 DEF EnvSound, Between, Steps, Rendered
<1>4. CASE Takes("env", "kill") /\ env' = EnvOf(run.n, run.r)
  <2>1. run.n \in 1..run.n /\ run.r \in Fit
    BY <1>1, <1>4 DEF RunSound, Takes, Steps
  <2>2. EnvOf(run.n, run.r).n = run.n
    BY DEF EnvOf
  <2> QED BY <1>4, <2>1, <2>2 DEF EnvSound, Takes, Rendered
<1> QED BY <1>2, <1>3, <1>4 DEF EnvMoves

\* An env file renders the request it is of.
LEMMA EnvRenders ==
  ASSUME EnvSound, env # None
  PROVE  \E r \in Fit : Renders(env, r) /\ env = EnvOf(env.n, r)
<1>1. PICK r \in Fit : env = EnvOf(env.n, r)
  BY DEF EnvSound
<1>2. /\ EnvOf(env.n, r).rt = RenderEnv(r).rt
      /\ EnvOf(env.n, r).derive = RenderEnv(r).derive
      /\ EnvOf(env.n, r).exports = RenderEnv(r).exports
  BY DEF EnvOf
<1> QED BY <1>1, <1>2 DEF Renders

LEMMA NamesAreStrings ==
  ASSUME NEW r \in Fit
  PROVE  MuxNames(r.config) \in Seq(STRING)
<1> DEFINE servers == r.config.mcp.servers
<1>1. r.config.servers \in Seq(STRING) /\ servers \in Seq(Server)
  BY FitIs
<1>1a. \A x \in Server : x.name \in STRING
  BY DEF Server
<1> HIDE DEF servers
<1>2. \A i \in DOMAIN servers : servers[i].name \in STRING
  BY <1>1, <1>1a
<1>3. [i \in DOMAIN servers |-> servers[i].name] \in Seq(STRING)
  BY <1>1, <1>2
<1> QED BY <1>1, <1>3 DEF MuxNames, servers

LEMMA MuxStep ==
  ASSUME RunSound, EnvSound, MuxSound, RunSound', RunMoves, EnvMoves, MuxMoves
  PROVE  MuxSound'
<1>1. run.n \in Nat /\ run'.n \in Nat /\ run'.n >= run.n
  BY InferenceAssumption DEF RunSound, RunMoves, Deploys
<1>2. env # None => env.n \in 1..run.n
  BY DEF EnvSound
<1> DEFINE fresh == [n |-> run.n, names |-> MuxNames(Config)]
<1>3. ASSUME run.at \in Steps, McpMode(Config) = "mux"
      PROVE  fresh # None /\ Loads(fresh.names) /\ fresh.n = run.n
  <2>1. run.r \in Fit
    BY <1>3 DEF RunSound
  <2>2. MuxNames(Config) \in Seq(STRING) /\ Loads(MuxNames(Config))
    BY <1>3, <2>1, NamesAreStrings, ServersLoad DEF Config
  <2> QED BY <1>1, <2>2, InferenceAssumption
<1>4. mux' # None => mux'.n \in 1..run'.n
  <2>1. CASE mux' = mux
    BY <1>1, <2>1 DEF MuxSound
  <2>2. CASE Takes("install", "mcp") /\ mux' = fresh
    <3>1. run.n \in 1..run.n
      BY <1>1, <2>2 DEF Takes, RunSound, Steps
    <3> QED BY <2>2, <3>1 DEF Takes
  <2> QED BY <2>1, <2>2 DEF MuxMoves
<1>5. run'.at \in Installed /\ McpMode(Config') = "mux"
        => mux' = [n |-> run'.n, names |-> MuxNames(Config')]
  <2> SUFFICES ASSUME run'.at \in Installed, McpMode(Config') = "mux"
               PROVE  mux' = [n |-> run'.n, names |-> MuxNames(Config')]
    OBVIOUS
  <2>1. \/ run' = run
        \/ /\ <<run.at, run'.at>> \in Order
           /\ run'.n = run.n /\ run'.r = run.r
    BY DEF RunMoves, Installed, Authenticated, Steps, Between
  <2>2. Config' = Config /\ run'.n = run.n
    BY <2>1 DEF Config
  <2>3. CASE mux' = mux /\ (run.at = "install" /\ run'.at \in Steps =>
                              run' = run \/ McpMode(Config) # "mux")
    <3>1. run.at \in Installed
      BY <2>1, <2>2, <2>3 DEF Order, Installed, Authenticated, Steps
    <3> QED BY <2>2, <2>3, <3>1 DEF MuxSound
  <2>4. CASE Takes("install", "mcp") /\ mux' = fresh
    BY <2>2, <2>4
  <2> QED BY <2>3, <2>4 DEF MuxMoves
<1>6. ASSUME env' # None, Muxed(env'.exports)
      PROVE  MuxFrom(env.n)' 
  <2>1. CASE env' = env /\ mux' = mux
    BY <1>6, <2>1 DEF MuxSound, MuxFrom
  <2>2. CASE env' = env /\ Takes("install", "mcp")
             /\ McpMode(Config) = "mux" /\ mux' = fresh
    BY <1>1, <1>2, <1>3, <1>6, <2>2 DEF MuxFrom, Takes, Steps
  <2>3. CASE Takes("env", "kill") /\ env' = EnvOf(run.n, run.r)
    <3>1. run.r \in Fit /\ run.at \in Installed /\ run.at \in Steps
      BY <2>3 DEF Takes, RunSound, Steps, Installed, Authenticated
    <3>2. env'.exports = RenderEnv(run.r).exports /\ env'.n = run.n
      BY <2>3 DEF EnvOf
    <3>3. McpMode(Config) = "mux"
      BY <1>6, <3>1, <3>2, RenderedIs DEF Config
    <3>4. mux' = mux /\ mux = fresh
      BY <2>3, <3>1, <3>3 DEF MuxSound, MuxMoves, Takes
    <3> QED BY <1>1, <1>3, <3>1, <3>2, <3>3, <3>4 DEF MuxFrom
  <2> QED BY <1>6, <2>1, <2>2, <2>3 DEF EnvMoves, MuxMoves
<1> QED BY <1>4, <1>5, <1>6 DEF MuxSound

-----------------------------------------------------------------------------
(* The agent beside the files.                                             *)

\* What sourcing does to config.toml, of an admitted request.
LEMMA FitFile ==
  ASSUME NEW r \in Fit, NEW content, Renders(content, r),
         NEW c \in Cfgs, NEW old, NEW by, NEW disk
  PROVE  LET s == Sourced(content, c, old, by, disk)
             written == Written(Paired(content, c), by)
         IN /\ s.file = old \/ s.file \in written
            /\ ValueOf(s.env, "CODEX_HOME") = "ours" => s.file \in written
            /\ ValueOf(Paired(content, c), Home) # "public"
            /\ Muxed(s.env) <=> Muxed(content.exports)
<1>1. /\ content.rt \in Runtimes /\ content.derive \in BOOLEAN
      /\ ValueOf(content.exports, "CODEX_HOME") # "ours"
      /\ ValueOf(content.exports, Home) # "public"
  BY ContentIs DEF Unfixed, Endpoint, OwnWords, Home
<1> DEFINE s == Sourced(content, c, old, by, disk)
           written == Written(Paired(content, c), by)
<1>2. /\ s.file = old \/ s.file \in written
      /\ ValueOf(s.env, "CODEX_HOME") = "ours" => s.file \in written
  BY <1>1, FileIs
<1>3. ValueOf(Paired(content, c), Home) # "public"
  BY <1>1, PairedIs
<1>4. Agree(s.env, content.exports, "BUZZ_ACP_MCP_COMMAND")
  BY <1>1, SourcedKeeps DEF Endpoint
<1> HIDE DEF s
<1>5. Muxed(s.env) <=> Muxed(content.exports)
  BY <1>4 DEF Muxed, Agree
<1> QED BY <1>2, <1>3, <1>5 DEF s

\* By which deploy config.toml is after a step, and for which endpoint.
LEMMA FileMovesBy ==
  ASSUME RunSound, EnvSound, FileMoves
  PROVE  \/ file' = file
         \/ file' = None
         \/ /\ run.at \in Steps \ Rendered /\ run'.n = run.n
            /\ UNCHANGED <<env, agent>>
            /\ file'.by = run.n /\ file'.url # "public"
         \/ /\ env # None /\ run'.n = run.n /\ env' = env
            /\ agent' = agent \/ Launches
            /\ file'.by = env.n /\ file'.url # "public"
            /\ \E c \in {cfg, "stub"} : file' \in Written(Paired(env, c), env.n)
<1>1. CASE /\ run.at \in Steps \ Rendered /\ run'.n = run.n
           /\ UNCHANGED <<env, agent>>
           /\ \E disk \in Disks : file' = Sourced(Content, cfg, file, run.n, disk).file
  <2> DEFINE url == ValueOf(Paired(Content, cfg), Home)
  <2>1. run.r \in Fit /\ Renders(Content, run.r) /\ cfg \in Cfgs
    BY <1>1 DEF RunSound, Renders, Content, Cfgs
  <2>2. PICK disk \in Disks : file' = Sourced(Content, cfg, file, run.n, disk).file
    BY <1>1
  <2>3. /\ file' = file \/ file' \in Written(Paired(Content, cfg), run.n)
        /\ url # "public"
    BY <2>1, <2>2, FitFile
  <2>4. file' = file \/ file' = None
          \/ (file'.by = run.n /\ file'.url \in {"", url})
    BY <2>3, WrittenIs
  <2> QED BY <1>1, <2>3, <2>4
<1>2. CASE /\ env # None /\ run'.n = run.n /\ env' = env
           /\ agent' = agent \/ Launches
           /\ \E disk \in Disks, c \in {cfg, "stub"} :
                file' = Sourced(env, c, file, env.n, disk).file
  <2>1. PICK r \in Fit : Renders(env, r)
    BY <1>2, EnvRenders
  <2>2. PICK disk \in Disks, c \in {cfg, "stub"} :
          file' = Sourced(env, c, file, env.n, disk).file
    BY <1>2
  <2> DEFINE url == ValueOf(Paired(env, c), Home)
  <2>3. c \in Cfgs
    BY DEF RunSound, Cfgs
  <2>4. /\ file' = file \/ file' \in Written(Paired(env, c), env.n)
        /\ url # "public"
    BY <2>1, <2>2, <2>3, FitFile
  <2>5. file' \in Written(Paired(env, c), env.n) =>
          file' = None \/ (file'.by = env.n /\ file'.url \in {"", url})
    BY WrittenIs
  <2> QED BY <1>2, <2>4, <2>5
<1> QED BY <1>1, <1>2 DEF FileMoves

\* What is known of an agent that was just started.
LEMMA Launched ==
  ASSUME RunSound, EnvSound, Launches
  PROVE  /\ agent' = [n |-> agent'.n, script |-> agent'.script, rt |-> agent'.rt,
                      env |-> agent'.env, pat |-> agent'.pat,
                      probed |-> agent'.probed]
         /\ agent'.n = env.n /\ agent'.script = script.n /\ agent'.rt = env.rt
         /\ agent'.probed = None /\ agent'.pat = (CfgToken(cfg') # "")
         /\ ValueOf(agent'.env, "CODEX_HOME") = "ours" => file' \in OwnFiles'
         /\ Muxed(agent'.env) <=> Muxed(env.exports)
         /\ \A g \in OwnFiles' :
              AsksSoundly(agent'.rt, agent'.env, Inference(agent'.rt, agent'.env, g))
         /\ ValueOf(agent'.env, Home) = ValueOf(Paired(env, cfg'), Home)
         /\ \A k : k \notin Endpoint => Agree(agent'.env, env.exports, k)
<1>1. PICK disk \in Disks :
        /\ file' = Sourced(env, cfg', file, env.n, disk).file
        /\ agent' = [n |-> env.n, script |-> script.n, rt |-> env.rt,
                     env |-> Sourced(env, cfg', file, env.n, disk).env,
                     pat |-> CfgToken(cfg') # "", probed |-> None]
  BY DEF Launches
<1>2. PICK r \in Fit : Renders(env, r)
  BY EnvRenders DEF Launches
<1>3. cfg' \in Cfgs
  BY DEF Launches, RunSound, Cfgs
<1> DEFINE s == Sourced(env, cfg', file, env.n, disk)
           pat == CfgToken(cfg') # ""
<1>4. /\ ValueOf(s.env, "CODEX_HOME") = "ours" => s.file \in Written(Paired(env, cfg'), env.n)
      /\ Muxed(s.env) <=> Muxed(env.exports)
  BY <1>2, <1>3, FitFile
<1>5. \A g \in Written(s.env, env.n) :
        AsksSoundly(env.rt, s.env, Inference(env.rt, s.env, g))
  BY <1>2, <1>3, AgentAsksSoundly
<1>6. /\ \A k : k \notin Endpoint => Agree(s.env, env.exports, k)
      /\ ValueOf(s.env, Home) = ValueOf(Paired(env, cfg'), Home)
      /\ Written(s.env, env.n) = Written(Paired(env, cfg'), env.n)
  <2>1. env.rt \in Runtimes /\ env.derive \in BOOLEAN
    BY <1>2, ContentIs
  <2> QED BY <1>3, <2>1, SourcedKeeps, SourcedHome
<1> HIDE DEF s, pat
<1>7. /\ file' = s.file
      /\ agent' = [n |-> env.n, script |-> script.n, rt |-> env.rt,
                   env |-> s.env, pat |-> pat, probed |-> None]
  BY <1>1 DEF s, pat
<1>8. /\ agent'.n = env.n /\ agent'.script = script.n /\ agent'.rt = env.rt
      /\ agent'.env = s.env /\ agent'.pat = pat
      /\ agent'.probed = None
  BY <1>7
<1>9. OwnFiles' = Written(s.env, env.n)
  BY <1>8 DEF OwnFiles, Written, Home
<1> QED BY <1>4, <1>5, <1>6, <1>7, <1>8, <1>9 DEF pat

\* verifyLaunch tells the agent what was probed, and nothing else.
LEMMA CheckedAgent ==
  ASSUME AgentSound, agent # None, agent' = [agent EXCEPT !.probed = run.probed]
  PROVE  /\ agent' = [n |-> agent'.n, script |-> agent'.script, rt |-> agent'.rt,
                      env |-> agent'.env, pat |-> agent'.pat,
                      probed |-> agent'.probed]
         /\ agent'.n = agent.n /\ agent'.script = agent.script
         /\ agent'.rt = agent.rt /\ agent'.env = agent.env
         /\ agent'.pat = agent.pat /\ agent'.probed = run.probed
         /\ OwnFiles' = OwnFiles
<1> DEFINE fields == {"n", "script", "rt", "env", "pat", "probed"}
<1>1. DOMAIN agent = fields
  BY DEF AgentSound
<1>2. DOMAIN agent' = fields /\ \A k \in fields : k # "probed" => agent'[k] = agent[k]
  BY <1>1
<1>3. agent'.probed = run.probed
  BY <1>1
<1>4. agent = [n |-> agent.n, script |-> agent.script, rt |-> agent.rt,
               env |-> agent.env, pat |-> agent.pat, probed |-> agent.probed]
  BY DEF AgentSound
<1>5. OwnFiles' = OwnFiles
  BY <1>2 DEF OwnFiles
<1> QED BY <1>2, <1>3, <1>4, <1>5

LEMMA AgentSoundStep ==
  ASSUME RunSound, EnvSound, AgentSound, RunSound', EnvSound',
         RunMoves, EnvMoves, AgentMoves, FileMoves
  PROVE  AgentSound'
<1>1. run.n \in Nat /\ run'.n \in Nat /\ run'.n >= run.n
  BY InferenceAssumption DEF RunSound, RunMoves, Deploys
<1>2. /\ env # None => env.n \in 1..run.n
      /\ env' # None => env'.n \in 1..run'.n
  BY DEF EnvSound
<1>3. env' = None \/ env' = env \/ (env'.n = run.n /\ run'.n = run.n)
  <2>1. EnvOf(run.n, run.r).n = run.n
    BY DEF EnvOf
  <2> QED BY <2>1 DEF EnvMoves, Takes
<1>4. ASSUME agent' # None
      PROVE  /\ agent' = [n |-> agent'.n, script |-> agent'.script, rt |-> agent'.rt,
                          env |-> agent'.env, pat |-> agent'.pat,
                          probed |-> agent'.probed]
             /\ agent'.n \in 1..run'.n
             /\ env' # None => agent'.n <= env'.n
             /\ run'.at \in Steps \ {"check"} => agent'.n < run'.n
  <2>1. CASE agent' = agent
    <3>1. run'.at \in Steps \ {"check"} => agent.n < run'.n
      <4>1. CASE run.at \in Between /\ run'.n = run.n + 1
        BY <1>1, <1>4, <2>1, <4>1 DEF AgentSound
      <4>2. CASE run'.at \in Steps \ {"check"} /\ ~ (run.at \in Between /\ run'.n = run.n + 1)
        <5>1. run.at \in Steps \ {"check"} /\ run'.n = run.n
          BY <4>2 DEF RunMoves, Order, Steps, Between
        <5> QED BY <1>1, <1>4, <2>1, <5>1 DEF AgentSound
      <4> QED BY <4>1, <4>2
    <3> QED BY <1>1, <1>2, <1>3, <1>4, <2>1, <3>1 DEF AgentSound
  <2>2. CASE /\ agent # None /\ run'.n = run.n /\ env' = env /\ run'.at = "idle"
             /\ agent' = [agent EXCEPT !.probed = run.probed]
    <3>0. run'.at \notin Steps
      BY <2>2 DEF Steps
    <3>1. agent'.n = agent.n
      BY <2>2, CheckedAgent
    <3> QED BY <1>1, <1>2, <2>2, <3>0, <3>1, CheckedAgent DEF AgentSound
  <2>3. CASE Launches /\ run'.at \in Between \cup {"check"}
    <3>1. agent'.n = env.n /\ env # None /\ env' = env /\ run'.n = run.n
      BY <2>3, Launched DEF Launches
    <3>2. agent'.n \in 1..run'.n /\ (env' # None => agent'.n <= env'.n)
      BY <1>2, <3>1
    <3>3. run'.at \notin Steps \ {"check"}
      BY <2>3 DEF Steps, Between
    <3> QED BY <2>3, <3>2, <3>3, Launched
  <2> QED BY <1>4, <2>1, <2>2, <2>3 DEF AgentMoves
<1>5. ASSUME run'.at \in Vacant
      PROVE  agent' = None
  <2>1. CASE agent' = agent /\ ~ (run.at = "kill" /\ run'.at = "launch-write")
    <3>1. run.at \in Vacant
      BY <1>5, <2>1 DEF RunMoves, Order, Vacant, Between
    <3> QED BY <2>1, <3>1 DEF AgentSound
  <2> QED BY <1>5, <2>1 DEF AgentMoves, Vacant, Between
<1>6. ASSUME file' # None
      PROVE  file'.by \in 1..run'.n /\ file'.url # "public"
  <2>1. CASE file' = file
    BY <1>1, <1>6, <2>1 DEF AgentSound
  <2>2. CASE /\ run.at \in Steps \ Rendered /\ run'.n = run.n
             /\ file'.by = run.n /\ file'.url # "public"
    BY <1>1, <2>2 DEF RunSound
  <2>3. CASE /\ env # None /\ run'.n = run.n
             /\ file'.by = env.n /\ file'.url # "public"
    BY <1>2, <2>3
  <2> QED BY <1>6, <2>1, <2>2, <2>3, FileMovesBy
<1> QED BY <1>4, <1>5, <1>6 DEF AgentSound

LEMMA ConfigStep ==
  ASSUME RunSound, EnvSound, AgentSound, SourceSound, MuxSound, ConfigIsMine,
         RunMoves, EnvMoves, MuxMoves, AgentMoves, FileMoves, MuxSound'
  PROVE  ConfigIsMine'
<1> DEFINE Mine == ValueOf(agent.env, "CODEX_HOME") = "ours"
                     => file \in OwnFiles \/ Rewritten
<1>1. run.n \in Nat
  BY InferenceAssumption DEF RunSound, Deploys
<1>2. /\ env # None => env.n \in 1..run.n
      /\ agent # None => agent.n \in 1..run.n /\ (env # None => agent.n <= env.n)
  BY DEF EnvSound, AgentSound
<1>3. agent # None => Mine /\ (Muxed(agent.env) => MuxFrom(agent.n))
  BY DEF ConfigIsMine, Muxed, MuxFrom
<1>4. ASSUME agent' # None
      PROVE  Mine' /\ (Muxed(agent'.env) => MuxFrom(agent.n)')
  <2>1. CASE agent' = agent
    <3>1. Mine'
      <4> SUFFICES ASSUME ValueOf(agent.env, "CODEX_HOME") = "ours", file' # None
                   PROVE  file' \in OwnFiles' \/ Rewritten'
        BY <1>4, <2>1 DEF OwnFiles
      <4>0. OwnFiles' = OwnFiles
        BY <2>1 DEF OwnFiles
      <4>1. CASE file' = file
        BY <1>3, <1>4, <2>1, <4>0, <4>1 DEF Rewritten
      <4>2. CASE run.at \in Steps \ Rendered /\ file'.by = run.n
        <5>1. agent.n < run.n
          BY <1>4, <2>1, <4>2 DEF AgentSound, Rendered
        <5> QED BY <1>1, <1>2, <1>4, <2>1, <4>2, <5>1 DEF Rewritten
      <4>3. CASE /\ env # None /\ file'.by = env.n
                 /\ \E c \in {cfg, "stub"} : file' \in Written(Paired(env, c), env.n)
        <5>1. CASE env.n = agent.n
          <6>1. PICK c \in {cfg, "stub"} : file' \in Written(Paired(env, c), env.n)
            BY <4>3
          <6>2. ValueOf(Paired(env, c), Home) \in {"", ValueOf(agent.env, Home)}
            BY <1>4, <2>1, <4>3, <5>1, <6>1 DEF SourceSound, Home
          <6>3. Written(Paired(env, c), env.n) \subseteq OwnFiles
            BY <5>1, <6>2 DEF Written, OwnFiles, Home
          <6> QED BY <4>0, <6>1, <6>3
        <5>2. CASE env.n # agent.n
          <6>1. env.n > agent.n
            BY <1>1, <1>2, <1>4, <2>1, <4>3, <5>2
          <6> QED BY <2>1, <4>3, <6>1 DEF Rewritten
        <5> QED BY <5>1, <5>2
      <4> QED BY <4>1, <4>2, <4>3, FileMovesBy
    <3>2. Muxed(agent'.env) => MuxFrom(agent.n)'
      <4>1. CASE mux' = mux
        BY <1>3, <1>4, <2>1, <4>1 DEF MuxFrom
      <4>2. CASE /\ Takes("install", "mcp") /\ McpMode(Config) = "mux"
                 /\ mux' = [n |-> run.n, names |-> MuxNames(Config)]
        <5>1. run.r \in Fit
          BY <4>2 DEF Takes, RunSound, Steps
        <5>2. /\ MuxNames(Config) \in Seq(STRING)
              /\ Loads(MuxNames(Config))
          BY <4>2, <5>1, NamesAreStrings, ServersLoad DEF Config
        <5>3. mux' # None /\ mux'.n = run.n /\ Loads(mux'.names)
          BY <1>1, <4>2, <5>2, InferenceAssumption
        <5> QED BY <1>1, <1>2, <1>4, <2>1, <5>3 DEF MuxFrom
      <4> QED BY <4>1, <4>2 DEF MuxMoves
    <3> QED BY <3>1, <3>2
  <2>2. CASE /\ agent # None /\ UNCHANGED <<file, mux>>
             /\ agent' = [agent EXCEPT !.probed = run.probed]
    <3>1. agent'.n = agent.n /\ agent'.env = agent.env /\ OwnFiles' = OwnFiles
      BY <2>2, CheckedAgent
    <3> QED BY <1>3, <2>2, <3>1 DEF MuxFrom, Rewritten
  <2>3. CASE Launches
    <3>1. /\ agent'.n = env.n /\ env # None /\ env' = env /\ mux' = mux
          /\ ValueOf(agent'.env, "CODEX_HOME") = "ours" => file' \in OwnFiles'
          /\ Muxed(agent'.env) <=> Muxed(env.exports)
      BY <2>3, Launched DEF Launches
    <3> QED BY <1>2, <3>1 DEF MuxSound, MuxFrom
  <2> QED BY <1>4, <2>1, <2>2, <2>3 DEF AgentMoves
<1> QED BY <1>4 DEF ConfigIsMine, Muxed, MuxFrom

\* The agent's own env file keeps its endpoint.
LEMMA SourceStep ==
  ASSUME RunSound, EnvSound, AgentSound, SourceSound,
         EnvMoves, CfgMoves, AgentMoves
  PROVE  SourceSound'
<1> SUFFICES ASSUME agent' # None, env' # None, env'.n = agent'.n,
                    ValueOf(agent'.env, "CODEX_HOME") = "ours",
                    NEW c \in {cfg', "stub"}
             PROVE  ValueOf(Paired(env', c), Home) \in {"", ValueOf(agent'.env, Home)}
  BY DEF SourceSound, Home
<1>1. CASE Launches
  <2>1. env' = env /\ env # None /\ cfg' \in Cfgs
    BY <1>1 DEF Launches, RunSound, Cfgs
  <2>2. ValueOf(agent'.env, Home) = ValueOf(Paired(env, cfg'), Home)
    BY <1>1, Launched
  <2>3. PICK r \in Fit : Renders(env, r)
    BY <2>1, EnvRenders
  <2>4. env.derive \in BOOLEAN /\ "stub" \in Cfgs /\ "stub" # "baked"
    BY <2>3, ContentIs DEF Cfgs
  <2>5. Paired(env, "stub") = env.exports
    BY <2>4, PairedIs
  <2>6. ValueOf(env.exports, Home) \in {"", ValueOf(Paired(env, cfg'), Home)}
    <3> DEFINE d == Paired(env, cfg')
               e == env.exports
    <3>1. d = e \/ (~ Has(e, Home) /\ ValueOf(d, Home) = "home")
      BY <2>1, <2>4, PairedIs
    <3> HIDE DEF d, e
    <3>2. ~ Has(e, Home) => ValueOf(e, Home) = ""
      BY DEF Has
    <3>3. ValueOf(e, Home) \in {"", ValueOf(d, Home)}
      BY <3>1, <3>2
    <3> QED BY <3>3 DEF d, e
  <2> QED BY <2>1, <2>2, <2>5, <2>6
<1>2. CASE /\ agent # None /\ agent'.n = agent.n /\ agent'.env = agent.env
  <2>1. cfg' \in {cfg, "stub"}
    BY DEF CfgMoves
  <2>2. CASE env' = env
    BY <1>2, <2>1, <2>2 DEF SourceSound, Home
  <2>3. CASE Takes("env", "kill") /\ env' = EnvOf(run.n, run.r)
    <3>1. env'.n = run.n
      BY <2>3 DEF EnvOf
    <3>2. agent.n < run.n /\ agent.n \in 1..run.n /\ run.n \in Nat
      BY <1>2, <2>3, InferenceAssumption DEF AgentSound, Takes, Steps, RunSound, Deploys
    <3>3. agent.n = run.n
      BY <1>2, <3>1
    <3>4. run.n < run.n
      BY <3>2, <3>3
    <3> DEFINE n == run.n
    <3>5. n \in Nat /\ n < n
      BY <3>2, <3>4
    <3> HIDE DEF n
    <3>6. FALSE
      BY <3>5
    <3> QED BY <3>6
  <2> QED BY <2>2, <2>3 DEF EnvMoves
<1> QED BY <1>1, <1>2, CheckedAgent DEF AgentMoves

-----------------------------------------------------------------------------
(* The code and the token of an agent.                                     *)

LEMMA ScriptStep ==
  ASSUME RunSound, EnvSound, ScriptSound, RunSound',
         RunMoves, EnvMoves, ScriptMoves
  PROVE  ScriptSound'
<1>1. run.n \in Nat /\ run'.n \in Nat /\ run'.n >= run.n
  BY InferenceAssumption DEF RunSound, RunMoves, Deploys
<1> DEFINE fresh == [n |-> run.n, stubs |-> Stubs(Config)]
<1>2. fresh.n = run.n /\ fresh.stubs = Stubs(Config)
  OBVIOUS
<1>3. CASE script' = script /\ ~ (run.at = "launch-write" /\ run'.at = "launch")
  <2>1. script' # None =>
          script'.n \in 1..run'.n /\ script'.stubs \in BOOLEAN
    BY <1>1, <1>3 DEF ScriptSound
  <2>2. ASSUME script' # None, env' # None, env'.n = script'.n, ~ script'.stubs
        PROVE  Provided(env'.rt, env'.exports)
    <3>1. CASE env' = env
      BY <1>3, <2>2, <3>1 DEF ScriptSound
    <3>2. CASE Takes("env", "kill") /\ env' = EnvOf(run.n, run.r)
      <4>1. EnvOf(run.n, run.r).n = run.n
        BY DEF EnvOf
      <4>2. script.n < run.n /\ script.n \in 1..run.n
        BY <1>3, <2>2, <3>2 DEF ScriptSound, Takes, Steps, Scripted
      <4> QED BY <1>1, <1>3, <2>2, <3>2, <4>1, <4>2
    <3> QED BY <2>2, <3>1, <3>2 DEF EnvMoves
  <2>3. run'.at \in Steps \ Scripted /\ script' # None => script'.n < run'.n
    BY <1>1, <1>3 DEF ScriptSound, RunMoves, Order, Steps, Scripted, Between
  <2>4. run'.at \in Scripted => script' = [n |-> run'.n, stubs |-> Stubs(Config')]
    BY <1>3 DEF ScriptSound, RunMoves, Order, Steps, Scripted, Between, Config
  <2> QED BY <2>1, <2>2, <2>3, <2>4 DEF ScriptSound
<1>4. CASE Takes("launch-write", "launch") /\ script' = fresh
  <2>1. run.r \in Fit /\ run.n \in 1..run.n
    BY <1>1, <1>4 DEF RunSound, Takes, Steps
  <2>2. Stubs(Config) \in BOOLEAN
    BY DEF Stubs
  <2>3. env' = env /\ env = EnvOf(run.n, run.r)
    BY <1>4 DEF EnvMoves, EnvSound, Takes, Between, Rendered
  <2>4. ASSUME ~ Stubs(Config)
        PROVE  Provided(env.rt, env.exports)
    <3>1. OwnerPATInSandbox(run.r.config)
      BY <2>4 DEF Stubs, OwnerPATInSandbox, Config
    <3>2. Provided(RenderEnv(run.r).rt, RenderEnv(run.r).exports)
      BY <2>1, <3>1, RenderedIs
    <3>3. env.rt = RenderEnv(run.r).rt /\ env.exports = RenderEnv(run.r).exports
      BY <2>3 DEF EnvOf
    <3> QED BY <3>2, <3>3
  <2>5. run'.n = run.n /\ Config' = Config /\ run'.at = "launch"
    BY <1>4 DEF Takes, Config
  <2> HIDE DEF fresh
  <2>6. script'.n \in 1..run'.n /\ script'.stubs = Stubs(Config)
    BY <1>2, <1>4, <2>1, <2>5
  <2> QED BY <1>4, <2>2, <2>3, <2>4, <2>5, <2>6 DEF ScriptSound, Scripted, Steps, fresh
<1> QED BY <1>3, <1>4 DEF ScriptMoves

LEMMA ProvidedStep ==
  ASSUME RunSound, EnvSound, AgentSound, ScriptSound, ProvidedCode, AgentMoves
  PROVE  ProvidedCode'
<1>1. CASE agent' = agent
  BY <1>1 DEF ProvidedCode
<1>2. CASE agent # None /\ agent' = [agent EXCEPT !.probed = run.probed]
  BY <1>2, CheckedAgent DEF ProvidedCode
<1>3. CASE Launches
  <2> SUFFICES ASSUME agent'.pat, agent'.n = agent'.script
               PROVE  /\ agent'.env["BUZZ_ACP_AGENT_COMMAND"] = SpawnCommand[agent'.rt]
                      /\ DOMAIN agent'.env \cap LoaderClass = {}
                      /\ ValueOf(agent'.env, "BUZZ_ACP_MCP_COMMAND")
                           \in {"", "buzz-dev-mcp"}
    BY DEF ProvidedCode
  <2>1. /\ agent'.n = env.n /\ agent'.script = script.n /\ agent'.rt = env.rt
        /\ CfgToken(cfg') # ""
        /\ \A k : k \notin Endpoint => Agree(agent'.env, env.exports, k)
    BY <1>3, Launched
  <2>2. /\ env # None /\ script # None
        /\ cfg' = IF script.stubs THEN "stub" ELSE cfg
    BY <1>3 DEF Launches
  <2>3. ~ script.stubs
    BY <2>1, <2>2 DEF CfgToken
  <2>4. Provided(env.rt, env.exports)
    BY <2>1, <2>2, <2>3 DEF ScriptSound
  <2>5. env.rt \in Runtimes
    <3>1. PICK r \in Fit : Renders(env, r)
      BY <2>2, EnvRenders
    <3> QED BY <3>1, ContentIs
  <2>6. SpawnCommand[env.rt] # ""
    BY <2>5 DEF SpawnCommand, Runtimes
  <2>7. /\ "BUZZ_ACP_AGENT_COMMAND" \notin Endpoint
        /\ "BUZZ_ACP_MCP_COMMAND" \notin Endpoint
        /\ LoaderClass \cap Endpoint = {}
    BY DEF Endpoint, LoaderClass
  <2>8. ValueOf(agent'.env, "BUZZ_ACP_AGENT_COMMAND") = SpawnCommand[env.rt]
    BY <2>1, <2>4, <2>7 DEF Provided, Agree
  <2>9. agent'.env["BUZZ_ACP_AGENT_COMMAND"] = SpawnCommand[agent'.rt]
    BY <2>1, <2>6, <2>8 DEF ValueOf
  <2>10. DOMAIN agent'.env \cap LoaderClass = {}
    BY <2>1, <2>4, <2>7 DEF Provided, Agree
  <2>11. ValueOf(agent'.env, "BUZZ_ACP_MCP_COMMAND") \in {"", "buzz-dev-mcp"}
    BY <2>1, <2>4, <2>7 DEF Provided, Agree
  <2> QED BY <2>9, <2>10, <2>11
<1> QED BY <1>1, <1>2, <1>3 DEF AgentMoves, ProvidedCode

\* What the agent asks with a config.toml of its own never changes, and is what the
\* deploy that started it has probed.
LEMMA AskStep ==
  ASSUME RunSound, EnvSound, AgentSound, ProbeSound, AskSound, AgentMoves
  PROVE  AskSound'
<1>1. CASE agent' = agent
  BY <1>1 DEF AskSound, OwnFiles
<1>2. CASE /\ run.at = "check" /\ agent # None
           /\ agent' = [agent EXCEPT !.probed = run.probed]
  BY <1>2, CheckedAgent DEF AskSound, ProbeSound
<1>3. CASE Launches
  <2>1. agent'.probed = None
    BY <1>3, Launched
  <2>2. \A g \in OwnFiles' :
          AsksSoundly(agent'.rt, agent'.env, Inference(agent'.rt, agent'.env, g))
    BY <1>3, Launched
  <2> QED BY <2>1, <2>2 DEF AskSound, AsksAsProbed
<1> QED BY <1>1, <1>2, <1>3 DEF AgentMoves, AskSound

\* Only with a rewritten config.toml does an agent ask what it does with none of
\* its own, and then it asks what that file has, or its own settings.
LEMMA AsksLikeOwn ==
  ASSUME AskSound, ConfigIsMine, agent # None
  PROVE  \/ \E g \in OwnFiles : Asks = Inference(agent.rt, agent.env, g)
         \/ Rewritten /\ agent.rt = "codex" /\ Asks.url \in {"elsewhere", file.url}
<1> DEFINE at == ValueOf(agent.env, "CODEX_HOME")
<1>1. None \in OwnFiles
  BY DEF OwnFiles
<1>2. CASE at # "ours"
  <2>1. ConfiguredUrl(agent.env, file) = ConfiguredUrl(agent.env, None)
    BY <1>2 DEF ConfiguredUrl
  <2>2. Asks = Inference(agent.rt, agent.env, None)
    BY <2>1 DEF Asks, Inference
  <2> QED BY <1>1, <2>2
<1>3. CASE at = "ours" /\ file \in OwnFiles
  BY <1>3 DEF Asks
<1>4. CASE at = "ours" /\ Rewritten /\ agent.rt # "codex"
  <2>1. Asks = Inference(agent.rt, agent.env, None)
    BY <1>4 DEF Asks, Inference
  <2> QED BY <1>1, <2>1
<1>5. CASE at = "ours" /\ Rewritten /\ agent.rt = "codex"
  <2>1. ConfiguredUrl(agent.env, file) = file.url
    BY <1>5 DEF ConfiguredUrl, Rewritten
  <2>2. Asks.url \in {"elsewhere", ConfiguredUrl(agent.env, file)}
    BY <1>5 DEF Asks, Inference
  <2> QED BY <1>5, <2>1, <2>2
<1> QED BY <1>2, <1>3, <1>4, <1>5 DEF ConfigIsMine

LEMMA CredentialIs ==
  ASSUME AgentSound, AskSound, ConfigIsMine
  PROVE  CredentialSound
<1> SUFFICES ASSUME agent # None
             PROVE  /\ Asks.token = "pat" /\ ~ Rewritten => Asks.url = "home"
                    /\ Asks.token # "" => Asks.url # "public"
                    /\ agent.rt = "codex" => Has(agent.env, "CODEX_HOME")
  BY DEF CredentialSound
<1>1. CASE \E g \in OwnFiles : Asks = Inference(agent.rt, agent.env, g)
  BY <1>1 DEF AskSound, AsksSoundly
<1>2. CASE Rewritten /\ agent.rt = "codex" /\ Asks.url \in {"elsewhere", file.url}
  <2>1. Asks.url # "public"
    BY <1>2 DEF Rewritten, AgentSound
  <2>2. Has(agent.env, "CODEX_HOME")
    BY <1>2 DEF Rewritten, Has
  <2> QED BY <1>2, <2>1, <2>2
<1> QED BY <1>1, <1>2, AsksLikeOwn

LEMMA ProbedIsAsked ==
  ASSUME AskSound, ConfigIsMine
  PROVE  ProbedIsLaunched
<1> SUFFICES ASSUME agent # None, agent.probed # None,
                    DOMAIN agent.env \cap Redirects = {}
             PROVE  \/ Asks = agent.probed
                    \/ agent.rt = "codex" /\ (Asks.url = "" \/ Rewritten)
  BY DEF ProbedIsLaunched
<1> QED BY AsksLikeOwn DEF AskSound, AsksAsProbed

-----------------------------------------------------------------------------
(* What is admitted.                                                       *)

LEMMA AdmissionIs ==
  ASSUME RunSound
  PROVE  AdmissionSound
<1> SUFFICES ASSUME run.r # None
             PROVE  /\ run.r.agent.launch # None
                         => \A k \in DOMAIN Content.exports :
                              Content.exports[k] # Legacy
                    /\ McpMode(Config) = "mux" => Loads(MuxNames(Config))
  BY DEF AdmissionSound
<1> DEFINE r == run.r
<1>1. r \in Fit
  BY DEF RunSound
<1>2. McpMode(Config) = "mux" => Loads(MuxNames(Config))
  BY <1>1, ServersLoad DEF Config
<1>3. ASSUME r.agent.launch # None
      PROVE  \A k \in DOMAIN Content.exports : Content.exports[k] # Legacy
  <2> DEFINE rt == RuntimeFor(r.agent.command)
             mcp == McpCommand(r.config)
             fixed == Fixed(r.agent, rt, mcp)
  <2>1. LaunchedClean(r) /\ Validates(r)
    BY <1>1, <1>3, FitIs
  <2>2. rt \in Runtimes
    BY <1>1, RenderedIs
  <2>3. mcp # Legacy
    BY <1>1, McpCommandIs
  <2>4. r.agent.relay # Legacy
    BY <2>1 DEF Validates, AgentFits, Legacy
  <2>5. /\ r.agent.nsec # Legacy
        /\ \A f \in {"args", "owner", "respond", "allow", "prompt", "model",
                     "provider", "agents", "idle", "turn"} :
             r.agent.typed[f] # Legacy
        /\ Brings(r.agent.env, {Legacy})
    BY <2>1 DEF LaunchedClean
  <2>6. Content.exports = Overlaid(fixed, r.agent.env)
    BY DEF Content, RenderEnv
  <2> HIDE DEF r, rt, mcp
  <2>7. Brings(fixed, {Legacy})
    BY <2>2, <2>3, <2>4, <2>5, FixedClean
  <2> HIDE DEF fixed
  <2> QED BY <2>5, <2>6, <2>7 DEF Overlaid, Brings
<1> QED BY <1>2, <1>3 DEF r

-----------------------------------------------------------------------------
(* The probes.                                                             *)

\* The parts of ProbeSound that a step between two steps of a deploy keeps.
LEMMA ProbeCarries ==
  ASSUME RunSound, ProbeSound, NEW x, Goes(x), cfg' = cfg,
         {x, run.at} \subseteq Unforeseen \/ {x, run.at} \subseteq Foreseen,
         x = "probe" => Content.rt # "buzz-agent"
  PROVE  ProbeSound'
<1>1. /\ run'.at = x /\ run'.r = run.r /\ run'.probed = run.probed
  BY GoesOn
<1>2. Config' = Config /\ Content' = Content
  BY <1>1 DEF Config, Content
<1>3. x # "auth" /\ x # "check" /\ run.at \in Authenticated
  BY DEF Unforeseen, Foreseen, Authenticated, Steps
<1>4. Unforeseen \cap Foreseen = {}
  BY DEF Unforeseen, Foreseen
<1> QED BY <1>1, <1>2, <1>3, <1>4 DEF ProbeSound

\* The auth probe has the owner's own pair, or none.
LEMMA AuthProbeStep ==
  ASSUME RunSound, AuthProbe
  PROVE  ProbeSound'
<1> DEFINE d == Derived(<<>>, cfg)
<1>1. \A k \in {Home, Token} : ~ Has(<<>>, k)
  BY DEF Has, ValueOf, Home, Token
<1>2. cfg \in Cfgs /\ DOMAIN run = {"n", "at", "r", "probed"}
  BY DEF RunSound, Cfgs
<1>3. Has(d, Home) /\ Has(d, Token)
  BY DEF AuthProbe, Home, Token
<1>4. cfg = "baked" /\ ValueOf(d, Home) = "home" /\ ValueOf(d, Token) = "pat"
  BY <1>1, <1>2, <1>3, DerivedIs
<1>5. d["DATABRICKS_HOST"] = "home" /\ d["DATABRICKS_TOKEN"] = "pat"
  BY <1>3, <1>4 DEF Has, ValueOf, Home, Token
<1> HIDE DEF d
<1>6. run' = [run EXCEPT !.at = "install",
                         !.probed = [url |-> "home", token |-> "pat"]]
  BY <1>5 DEF AuthProbe, d
<1>7. /\ run'.at = "install" /\ run'.r = run.r
      /\ run'.probed = [url |-> "home", token |-> "pat"]
  BY <1>2, <1>6
<1>8. cfg' = cfg /\ SandboxInferenceAuth(Config) /\ Config' = Config
  BY <1>7 DEF AuthProbe, home, Config
<1> QED BY <1>4, <1>7, <1>8 DEF ProbeSound, Unforeseen, Foreseen, Stubs

\* What the auth probe had is what buzz-agent will ask.
LEMMA VerifyStep ==
  ASSUME RunSound, ProbeSound, Verify
  PROVE  ProbeSound'
<1> DEFINE x == IF Content.rt = "buzz-agent" THEN "env" ELSE "probe"
<1>1. Goes(x) /\ cfg' = cfg /\ run.at = "verify"
  BY DEF Verify
<1>2. CASE Content.rt # "buzz-agent"
  <2>1. Goes("probe") /\ cfg' = cfg
    BY <1>1, <1>2
  <2>2. {"probe", run.at} \subseteq Unforeseen
    BY <1>1 DEF Unforeseen
  <2> QED BY <1>2, <2>1, <2>2, ProbeCarries
<1>3. CASE Content.rt = "buzz-agent"
  <2>1. /\ run'.at = "env" /\ run'.r = run.r /\ run'.probed = run.probed
    BY <1>1, <1>3, GoesOn
  <2>2. run.r \in Fit /\ Renders(Content, run.r) /\ cfg \in Cfgs
    BY <1>1 DEF RunSound, Steps, Renders, Content, Cfgs
  <2>3. Config' = Config /\ Content' = Content
    BY <2>1 DEF Config, Content
  <2>4. ASSUME run.probed # None
        PROVE  run.probed = Expected(Content, cfg) /\ run.probed.url # ""
    <3> DEFINE d == Paired(Content, cfg)
    <3>1. /\ cfg = "baked" /\ SandboxInferenceAuth(Config)
          /\ run.probed = [url |-> "home", token |-> "pat"]
      BY <1>1, <2>4 DEF ProbeSound, Unforeseen
    <3>2. /\ Content.derive /\ Content.derive \in BOOLEAN
          /\ ~ Has(Content.exports, Home) /\ ~ Has(Content.exports, Token)
      <4>1. /\ Content.derive \in BOOLEAN
            /\ Content.derive = SandboxInferenceAuth(run.r.config)
            /\ Content.derive =>
                 ~ Has(Content.exports, Home) /\ ~ Has(Content.exports, Token)
        BY <2>2, ContentIs
      <4> QED BY <3>1, <4>1 DEF Config
    <3>3. ValueOf(d, Home) = "home" /\ ValueOf(d, Token) = "pat"
      <4>1. d = Derived(Content.exports, cfg)
        BY <3>2 DEF Paired
      <4> QED BY <2>2, <3>1, <3>2, <4>1, DerivedIs
    <3>4. Expected(Content, cfg) = [url |-> ValueOf(d, Home), token |-> ValueOf(d, Token)]
      BY <1>3 DEF Expected, Inference, Home, Token
    <3> HIDE DEF d
    <3> QED BY <3>1, <3>3, <3>4
  <2>5. Stubs(Config) => cfg = "stub"
    BY <1>1 DEF ProbeSound, Authenticated, Steps
  <2> QED BY <1>1, <2>1, <2>3, <2>4, <2>5 DEF ProbeSound, Unforeseen, Foreseen
<1> QED BY <1>2, <1>3

\* What the inference probe of a runtime asked is what its agent will ask.
LEMMA InferenceProbeStep ==
  ASSUME RunSound, ProbeSound, Probe
  PROVE  ProbeSound'
<1>1. PICK disk \in Disks :
        LET s == Sources(disk)
            p == Probed(Content.rt, s.env, s.file)
        IN /\ p.url # "" /\ p.token # ""
           /\ file' = s.file
           /\ run' = [run EXCEPT !.at = "env", !.probed = p]
  BY DEF Probe
<1> DEFINE s == Sourced(Content, cfg, file, run.n, disk)
           p == Probed(Content.rt, s.env, s.file)
<1>2. p.url # "" /\ run' = [run EXCEPT !.at = "env", !.probed = p]
  BY <1>1 DEF Sources
<1>3. run.at = "probe" /\ cfg' = cfg /\ cfg \in Cfgs
      /\ DOMAIN run = {"n", "at", "r", "probed"}
  BY DEF Probe, RunSound, Cfgs
<1>4. run.r \in Fit /\ Renders(Content, run.r)
  BY <1>3 DEF RunSound, Steps, Renders, Content
<1>5. /\ Content.rt \in Runtimes /\ Content.rt # "buzz-agent"
      /\ Content.derive \in BOOLEAN
      /\ ValueOf(Content.exports, "CODEX_HOME") # "ours"
  <2>1. /\ Content.rt \in Runtimes /\ Content.derive \in BOOLEAN
        /\ \A k \in Unfixed : ValueOf(Content.exports, k) \notin OwnWords
    BY <1>4, ContentIs
  <2>2. "CODEX_HOME" \in Unfixed /\ "ours" \in OwnWords
    BY DEF Unfixed, Endpoint, OwnWords
  <2>3. Content.rt # "buzz-agent"
    BY <1>3 DEF ProbeSound
  <2> QED BY <2>1, <2>2, <2>3
<1>6. p = Expected(Content, cfg)
  BY <1>2, <1>3, <1>5, ProbedIs
<1> HIDE DEF p
<1>7. run'.at = "env" /\ run'.r = run.r /\ run'.probed = p
  BY <1>2, <1>3
<1>8. Config' = Config /\ Content' = Content
  BY <1>7 DEF Config, Content
<1>9. Stubs(Config) => cfg = "stub"
  BY <1>3 DEF ProbeSound, Authenticated, Steps
<1> QED BY <1>2, <1>3, <1>6, <1>7, <1>8, <1>9 DEF ProbeSound, Unforeseen, Foreseen

\* The agent that the deploy starts asks what was expected of it.
LEMMA LaunchExecStep ==
  ASSUME RunSound, EnvSound, AgentSound, ScriptSound, ProbeSound, LaunchExec,
         AgentMoves
  PROVE  ProbeSound'
<1>1. /\ run.at = "launch" /\ run'.at = "check"
      /\ run'.r = run.r /\ run'.probed = run.probed
  BY GoesOn DEF LaunchExec
<1>2. Config' = Config /\ run.r \in Fit
  BY <1>1 DEF Config, RunSound, Steps
<1>3. script.stubs = Stubs(Config)
  BY <1>1 DEF ScriptSound, Scripted
<1>4. cfg' = cfg
  <2>1. Stubs(Config) => cfg = "stub"
    BY <1>1 DEF ProbeSound, Authenticated, Steps
  <2> QED BY <1>3, <2>1 DEF LaunchExec, LaunchScript
<1>5. env = EnvOf(run.n, run.r)
  BY <1>1 DEF EnvSound, Rendered
<1>6. /\ env.rt = Content.rt /\ env.derive = Content.derive
      /\ env.exports = Content.exports
  BY <1>5 DEF EnvOf, Content
<1>7. Expected(env, cfg) = Expected(Content, cfg)
  BY <1>6 DEF Expected, Paired
<1>8. ASSUME agent' # None, NEW g \in OwnFiles'
      PROVE  AsksAsProbed(agent'.rt, agent'.env,
                          Inference(agent'.rt, agent'.env, g), run.probed)
  <2> SUFFICES ASSUME run.probed # None
               PROVE  AsksAsProbed(agent'.rt, agent'.env,
                                   Inference(agent'.rt, agent'.env, g), run.probed)
    BY DEF AsksAsProbed
  <2>1. Launches
    BY <1>1, <1>8 DEF AgentMoves, AgentSound, Vacant
  <2>2. PICK disk \in Disks :
          agent' = [n |-> env.n, script |-> script.n, rt |-> env.rt,
                    env |-> Sourced(env, cfg, file, env.n, disk).env,
                    pat |-> CfgToken(cfg) # "", probed |-> None]
    BY <1>4, <2>1 DEF Launches
  <2> DEFINE s == Sourced(env, cfg, file, env.n, disk)
  <2>3. /\ env.rt \in Runtimes /\ env.derive \in BOOLEAN
        /\ ValueOf(env.exports, "CODEX_HOME") # "ours"
    <3>1. Renders(env, run.r)
      BY <1>6 DEF Renders, Content
    <3> QED BY <1>2, <3>1, ContentIs DEF Unfixed, Endpoint, OwnWords
  <2>4. cfg \in Cfgs
    BY DEF RunSound, Cfgs
  <2>5. Expected(env, cfg).url # "" =>
          \A f \in Written(s.env, env.n) :
            AsksAsProbed(env.rt, s.env, Inference(env.rt, s.env, f), Expected(env, cfg))
    BY <2>3, <2>4, AsksExpected
  <2>6. run.probed = Expected(env, cfg) /\ run.probed.url # ""
    BY <1>1, <1>7 DEF ProbeSound, Foreseen
  <2> HIDE DEF s
  <2>7. agent'.env = s.env /\ agent'.n = env.n /\ agent'.rt = env.rt
    BY <2>2 DEF s
  <2>8. g \in Written(s.env, env.n)
    BY <2>7 DEF OwnFiles, Written, Home
  <2> QED BY <2>5, <2>6, <2>7, <2>8
<1>9. Stubs(Config) => cfg = "stub"
  BY <1>1 DEF ProbeSound, Authenticated, Steps
<1> QED BY <1>1, <1>2, <1>4, <1>8, <1>9 DEF ProbeSound, Unforeseen, Foreseen

LEMMA ProbeStep ==
  ASSUME RunSound, EnvSound, AgentSound, ScriptSound, ProbeSound, [Next]_vars,
         AgentMoves
  PROVE  ProbeSound'
<1>1. CASE UNCHANGED <<run, cfg, agent>>
  BY <1>1 DEF ProbeSound, Config, Content, OwnFiles
<1>2. CASE Begin
  <2>1. run'.at = "auth" /\ run'.probed = None
    BY <1>2 DEF Begin
  <2> QED BY <2>1 DEF ProbeSound, Authenticated, Unforeseen, Foreseen
<1>3. CASE AuthFails \/ Crash \/ StepFails \/ Check \/ Restart \/ Start
  <2>1. run'.at \in Between
    BY <1>3 DEF AuthFails, Crash, StepFails, Check, Restart, Start, Ends, Between
  <2> QED BY <2>1 DEF ProbeSound, Between, Authenticated, Steps, Unforeseen, Foreseen
<1>4. CASE AuthProbe
  BY <1>4, AuthProbeStep
<1>5. CASE PATReset
  <2>1. /\ run.at = "auth" /\ run'.at = "install" /\ run'.probed = run.probed
        /\ Config' = Config
    BY <1>5, GoesOn DEF PATReset, Config
  <2>2. run'.probed = None
    BY <2>1 DEF ProbeSound
  <2>3. Stubs(Config) => cfg' = "stub"
    BY <1>5 DEF PATReset, Stubs
  <2> QED BY <2>1, <2>2, <2>3 DEF ProbeSound, Foreseen
<1>6. CASE Install \/ McpVerify
  <2>1. PICK x \in {"mcp", "verify"} : Goes(x)
    BY <1>6 DEF Install, McpVerify
  <2>2. cfg' = cfg /\ {x, run.at} \subseteq Unforeseen /\ x # "probe"
    BY <1>6 DEF Install, McpVerify, Unforeseen
  <2> QED BY <2>1, <2>2, ProbeCarries
<1>7. CASE Verify
  BY <1>7, VerifyStep
<1>8. CASE Probe
  BY <1>8, InferenceProbeStep
<1>9. CASE EnvWrite \/ PrelaunchKill \/ LaunchWrite
  <2>1. PICK x \in Foreseen : Goes(x)
    BY <1>9 DEF EnvWrite, PrelaunchKill, LaunchWrite, Foreseen
  <2>2. cfg' = cfg /\ {x, run.at} \subseteq Foreseen /\ x # "probe"
    BY <1>9, <2>1 DEF EnvWrite, PrelaunchKill, LaunchWrite, Foreseen, home
  <2> QED BY <2>1, <2>2, ProbeCarries
<1>10. CASE LaunchExec
  BY <1>10, LaunchExecStep
<1>11. CASE SpawnMCP
  BY <1>1, <1>11 DEF SpawnMCP
<1> QED
  BY <1>1, <1>2, <1>3, <1>4, <1>5, <1>6, <1>7, <1>8, <1>9, <1>10, <1>11
  DEF Next, vars, home

-----------------------------------------------------------------------------
(* The theorems.                                                           *)

LEMMA InitSound ==
  ASSUME Init
  PROVE  IInv
<1>1. /\ run.n = 0 /\ run.at = "idle" /\ run.r = None /\ run.probed = None
  BY DEF Init
<1>2. RunSound
  BY <1>1, InferenceAssumption DEF Init, RunSound, Between, Steps, Deploys
<1>3. /\ EnvSound /\ MuxSound /\ AgentSound /\ ScriptSound /\ ProbeSound
      /\ SourceSound /\ AskSound
  BY <1>1 DEF Init, EnvSound, MuxSound, AgentSound, ScriptSound, ProbeSound,
     SourceSound, AskSound,
     Steps, Authenticated, Installed, Unforeseen, Foreseen, Rendered, Vacant, Scripted
<1>4. ConfigIsMine /\ ProvidedCode
  BY DEF Init, ConfigIsMine, ProvidedCode
<1> QED BY <1>2, <1>3, <1>4 DEF IInv

LEMMA StepSound ==
  ASSUME IInv, [Next]_vars
  PROVE  IInv'
<1> USE DEF IInv
<1>1. RunSound' /\ RunMoves
  BY RunStep
<1>2. EnvMoves /\ MuxMoves /\ ScriptMoves /\ AgentMoves /\ FileMoves /\ CfgMoves
  BY HomeStep, AgentStep, CfgStep
<1>3. EnvSound'
  BY <1>1, <1>2, EnvStep
<1>4. MuxSound'
  BY <1>1, <1>2, MuxStep
<1>5. AgentSound'
  BY <1>1, <1>2, <1>3, AgentSoundStep
<1>6. ScriptSound'
  BY <1>1, <1>2, ScriptStep
<1>7. ProbeSound' /\ AskSound' /\ SourceSound'
  BY <1>2, ProbeStep, AskStep, SourceStep
<1>8. ConfigIsMine' /\ ProvidedCode'
  BY <1>1, <1>2, <1>4, ConfigStep, ProvidedStep
<1> QED BY <1>1, <1>3, <1>4, <1>5, <1>6, <1>7, <1>8

\* The invariant of every sequence of deploys on a sandbox.
THEOREM InvariantHolds == Spec => []IInv
<1>1. Init => IInv
  BY InitSound
<1>2. IInv /\ [Next]_vars => IInv'
  BY StepSound
<1> QED BY <1>1, <1>2, PTL DEF Spec

\* ParseDeployRequest and Validate admit only what the later steps can work
\* with: a launch block leaves nothing of the legacy fields in what RenderEnv
\* writes, and bzmux loads whatever servers installMux gives it.
THEOREM AdmissionAlwaysSound == Spec => []AdmissionSound
<1>1. IInv => AdmissionSound
  BY AdmissionIs DEF IInv
<1> QED BY <1>1, InvariantHolds, PTL

\* The agent that launch.sh starts never reads a config.toml or an
\* mcp-mux.json of an earlier deploy, though all of them write the same two
\* files in $HOME and any step may fail or the provider die between them; what
\* codex reads is its own environment's or, rewritten, a later deploy's.
THEOREM ConfigAlwaysMine == Spec => []ConfigIsMine
<1>1. IInv => ConfigIsMine
  BY DEF IInv
<1> QED BY <1>1, InvariantHolds, PTL

\* Where the owner's token is left in ~/.databrickscfg, the agent runs the
\* runtime's own command, preloads nothing and has no MCP command of the
\* request's: what Validate forbids and what the launch stubs stay two sides
\* of one condition, though launch.sh and the env file outlive their deploy.
THEOREM CodeAlwaysProvided == Spec => []ProvidedCode
<1>1. IInv => ProvidedCode
  BY DEF IInv
<1> QED BY <1>1, InvariantHolds, PTL

\* The snippets that RenderEnv appends send the workspace's token to the
\* workspace only and no token to the public API, whichever deploy wrote the env
\* file, however ~/.databrickscfg came back, and whatever the disk kept of
\* config.toml, as long as no later deploy has rewritten that file beside the
\* agent: what codex asks is what the file says in the very state.
THEOREM CredentialAlwaysSound == Spec => []CredentialSound
<1>1. IInv => CredentialSound
  BY CredentialIs DEF IInv
<1> QED BY <1>1, InvariantHolds, PTL

\* What authProbe and the inference probes asked is what the agent of the
\* deploy that succeeds asks, though it is another shell that sources another
\* copy of the environment, after the stub and on a disk that may fail, until a
\* later deploy rewrites codex's config.toml.
THEOREM ProbedAlwaysLaunched == Spec => []ProbedIsLaunched
<1>1. IInv => ProbedIsLaunched
  BY ProbedIsAsked DEF IInv
<1> QED BY <1>1, InvariantHolds, PTL

=============================================================================
