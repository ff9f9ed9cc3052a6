---------------------------- MODULE MCInference ----------------------------
(* Requests for Inference: kinds of environment under every kind of         *)
(* inference auth, and kinds of capabilities.                               *)
EXTENDS Inference

Typed ==
  [f \in {"args", "owner", "respond", "allow", "prompt", "model", "provider",
          "agents", "idle", "turn"} |-> Legacy]

NoServers == [schema |-> "", version |-> 0, servers |-> <<>>]

Plain == [auth |-> "", keep |-> FALSE, bins |-> <<>>, servers |-> <<>>,
          mcp |-> NoServers, doc |-> None, skills |-> None]

AgentWith(command, e) ==
  [nsec |-> "nsec", relay |-> "wss://relay", command |-> command,
   typed |-> Typed, env |-> e, launch |-> None]

\* As a current desktop sends it: the launch block, beside legacy fields.
LaunchedAgent(command, policy, e) ==
  [AgentWith("buzz-agent", [k \in {"DATABRICKS_HOST", "EDITOR"} |-> Legacy])
     EXCEPT !.launch = [command |-> command, args |-> "", owner |-> "",
                        policy |-> policy, env |-> e]]

Nothing == [k \in {} |-> ""]
Their == ("DATABRICKS_HOST" :> "theirs")
Pair == Their @@ ("DATABRICKS_TOKEN" :> "own")

Auths == {[Plain EXCEPT !.auth = a, !.keep = k] :
            a \in {"", "sandbox"}, k \in BOOLEAN}

\* The ways to bring, or leave out, an endpoint and a token.
Endpoints ==
  {Nothing, Their, Pair, ("DATABRICKS_TOKEN" :> "own"),
   ("DATABRICKS_HOST" :> "odd") @@ Pair,
   ("ANTHROPIC_BASE_URL" :> "elsewhere"),
   ("ANTHROPIC_BASE_URL" :> "elsewhere") @@ ("ANTHROPIC_AUTH_TOKEN" :> "byo"),
   ("ANTHROPIC_AUTH_TOKEN" :> "byo") @@ Pair,
   ("CODEX_HOME" :> "own"), ("CODEX_HOME" :> "own") @@ Pair,
   ("CODEX_CONFIG" :> "own") @@ Pair}

\* What else an environment may set.
Settings ==
  {("BUZZ_ACP_AGENT_COMMAND" :> "sh"), ("LD_PRELOAD" :> "lib"),
   ("BUZZ_ACP_MCP_COMMAND" :> "tool"), ("buzz_codex_url" :> "x"),
   ("BAD-NAME" :> "x"), ("EDITOR" :> "vi")}

Commands == {"buzz-agent", "claude-code", "codex"}

Environments ==
  {[agent |-> AgentWith(c, e), config |-> a] :
     c \in Commands, e \in Endpoints, a \in Auths}
  \cup {[agent |-> AgentWith(c, s @@ Pair), config |-> a] :
          c \in Commands, s \in Settings, a \in Auths}
  \cup {[agent |-> AgentWith("codex", s), config |-> a] :
          s \in Settings, a \in Auths}
  \cup {[agent |-> AgentWith("claude", Pair), config |-> Plain],
        [agent |-> AgentWith("codex", Pair),
         config |-> [Plain EXCEPT !.auth = "SANDBOX"]]}

Policies ==
  {("buzz_relay_url" :> "x") @@ ("Mcp_Hook_Servers" :> "x"),
   ("BUZZ_ACP_AGENTS" :> "0"),
   ("BUZZ_ACP_AGENTS" :> "4") @@ ("BUZZ_ACP_IDLE_TIMEOUT" :> "0")
     @@ ("BUZZ_ACP_RESPOND_TO" :> "allowlist")
     @@ ("BUZZ_ACP_RESPOND_TO_ALLOWLIST" :> "them")}

Launches ==
  {[agent |-> LaunchedAgent(c, p, e), config |-> a] :
     c \in Commands \cup {""}, p \in Policies, e \in {Nothing, Pair}, a \in Auths}

\* Deploys whose credential is the owner's, which may bring their own code.
WithConfig(c) == [agent |-> AgentWith("buzz-agent", Pair), config |-> c]

Local(name, command) ==
  [name |-> name, kind |-> "local", command |-> command, args |-> <<>>,
   resource |-> <<>>, auth |-> "", inherit |-> <<>>]

Remote(kind, resource) ==
  [Local(kind, "") EXCEPT !.kind = kind, !.resource = resource, !.auth = "env"]

Document(servers) ==
  [schema |-> "buzz-managed-mcp", version |-> 1, servers |-> servers]

ManagedServers ==
  {<<Local("sql", "x")>>, <<Local("sql", "x"), Local("SQL", "y")>>,
   <<Local("bzmux", "x")>>, <<Local("Bzmux", "x")>>, <<Local("a", "bzmux")>>,
   <<Local("a__b", "x")>>, <<Remote("sql", <<>>), Local("files", "x")>>,
   <<Remote("genie", <<>>)>>, <<Remote("ai-search", <<"c", "s", "i">>)>>,
   <<Remote("functions", <<"c", "a__b">>)>>,
   <<[Remote("skills", <<"c", "s">>) EXCEPT !.auth = ""]>>,
   <<Remote("skills", <<"c", "s", "c", "t", "c", "u">>)>>,
   <<[Local("a", "x") EXCEPT !.args = <<"--token=x">>]>>,
   <<[Local("a", "x") EXCEPT !.inherit = <<"EDITOR", "EDITOR">>]>>}

DocumentText(doc, strict) ==
  [strict |-> strict, schema |-> doc.schema, version |-> doc.version,
   servers |-> doc.servers]

SkillsText(names) ==
  [strict |-> TRUE, schema |-> "buzz-skills", version |-> 1,
   aitools |-> names # <<>>, names |-> names, collision |-> "fail"]

Bin(name) == [url |-> "https://host/path", sha |-> "pinned", bin |-> name]

Capabilities ==
  {WithConfig([Plain EXCEPT !.mcp = Document(s)]) : s \in ManagedServers}
  \cup {WithConfig([Plain EXCEPT !.doc = DocumentText(Document(s), b)]) :
          s \in ManagedServers, b \in BOOLEAN}
  \cup {WithConfig([Plain EXCEPT !.servers = s, !.keep = k]) :
          k \in BOOLEAN,
          s \in {<<"tool">>, <<"tool", "buzz-dev-mcp">>, <<"tool", "tool">>,
                 <<"tool", "bzmux">>, <<"a__b">>, <<"", "tool">>}}
  \cup {WithConfig([Plain EXCEPT !.servers = <<"tool">>,
                                 !.mcp = Document(<<Local("a", "x")>>)])}
  \cup {WithConfig([Plain EXCEPT !.bins = b, !.auth = a]) :
          a \in {"env", "sandbox"},
          b \in {<<Bin("x")>>, <<Bin("x"), Bin("x")>>, <<Bin("codex")>>}}
  \cup {WithConfig([Plain EXCEPT !.skills = SkillsText(n), !.keep = k]) :
          k \in BOOLEAN,
          n \in {<<>>, <<"sql">>, <<"sql", "SQL">>, <<"Buzz-CLI">>}}

\* What the first deploy leaves behind matters, not how it was asked for.
First ==
  {[agent |-> AgentWith(c, e), config |-> a] :
     c \in Commands, e \in Endpoints, a \in Auths}
  \cup {WithConfig([Plain EXCEPT !.servers = <<"tool", "buzz-dev-mcp">>])}

\* A codex agent with the workspace's own token, then one with the owner's.
CodexTwice ==
  <<{[agent |-> AgentWith("codex", Nothing),
      config |-> [Plain EXCEPT !.auth = "sandbox"]]},
    {[agent |-> AgentWith("codex", Pair), config |-> Plain]}>>

Requests == <<First, Environments \cup Launches \cup Capabilities>>

=============================================================================
